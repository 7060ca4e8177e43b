------------------------------ MODULE ChessGame ------------------------------
(* One game driven the way backend/server/distribute.go and game/room.go drive
   chess.go: stones with a claimed move number and any coordinate byte, and a fresh
   start (take-backs are in GameRoom).  A win is announced when
   DidYouWin answers yes after a stone; play goes on after it, because nothing in
   the server stops a won game.                                                 *)
EXTENDS Chess

CONSTANTS
    Coors,      \* the coordinate bytes that are tried
    MaxMoves    \* bound: the longest record explored

ASSUME CoorsAssumption == Coors \subseteq Byte
ASSUME BoundAssumption == MaxMoves \in Nat

VARIABLES
    chess,   \* the game
    won      \* a win was announced since the last start

vars == <<chess, won>>

TypeOK == /\ chess \in ChessStates
          /\ won \in BOOLEAN

Init == /\ chess = ChessInit
        /\ won = FALSE

(* ReceivePlayerStone from the call of Stone on. *)
PlayStone ==
    \E move \in 0..MaxMoves - 1, coor \in Coors :
        /\ CanStone(chess, move, coor)
        /\ chess' = Stone(chess, coor)
        /\ won' = (won \/ DidYouWin(chess'))

Restart ==
    /\ chess # ChessInit
    /\ chess' = ChessInit
    /\ won' = FALSE

Next == PlayStone \/ Restart

Spec == Init /\ [][Next]_vars
-----------------------------------------------------------------------------
(* Safety *)

(* The rule of the game, stated without the last move: Row equal stones on a
   straight line of the board.                                                  *)
Lines == { {<<r + k * d[1], c + k * d[2]>> : k \in 0..Row-1} :
              r \in 0..Size-1, c \in 0..Size-1, d \in Directions }

RowOnBoard(board) ==
    \E line \in Lines : /\ line \subseteq Cells
                        /\ \E color \in Stones : \A cell \in line : board[cell] = color

(* The walk around the last stone (chess.go:52-82) announces a win exactly when
   the board holds one: no line is missed because it was closed in the middle or
   runs along an edge, and none is announced early.                *)
WinAnnounced == won <=> RowOnBoard(chess.board)
=============================================================================
