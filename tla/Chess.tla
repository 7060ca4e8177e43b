-------------------------------- MODULE Chess --------------------------------
(* The board and the move record of one game (backend/game/chess.go), as pure
   operators on a record

     [board |-> cell -> SPACE, BLACK or WHITE,  record |-> the coordinates played].

   The code keeps the coordinates in a fixed array with a cursor; nothing ever
   reads the array at or above the cursor, so here the cursor is Len(record).
   An operation that returns an error leaves the game as it is: its condition is
   a predicate (CanStone, CanRegret) and its effect an operator of its own.      *)
EXTENDS Integers, Sequences, FiniteSets

CONSTANTS
    Size,   \* rows and columns of the board: 15 in the code
    Row     \* stones in a row that win: 5 in the code

ASSUME SizeAssumption == Size \in 1..15
ASSUME RowAssumption  == Row \in Nat \ {0}

SPACE == 255
BLACK == 0
WHITE == 1

Stones == {BLACK, WHITE}
Colors == Stones \cup {SPACE}

Byte  == 0..255
Cells == (0..Size-1) \X (0..Size-1)

ChessStates == [board : [Cells -> Colors], record : Seq(Byte)]

ChessInit == [board |-> [cell \in Cells |-> SPACE], record |-> << >>]

(* Slip: the colours are counted from one. *)
WhoseTurn_FromOne(chess) == 1 + (Len(chess.record) % 2)

WhoseTurn(chess) == Len(chess.record) % 2

(* Low nibble the row, high nibble the column. *)
parseCoor(coor) == <<coor % 16, (coor \div 16) % 16>>

isVaildCoor(cell) == /\ 0 <= cell[1] /\ cell[1] < Size
                     /\ 0 <= cell[2] /\ cell[2] < Size

(* Slip: a stone may be put on another. *)
CanStone_Occupied(chess, move, coor) ==
    move = Len(chess.record) /\ isVaildCoor(parseCoor(coor))

(* Slip: the move number is not looked at. *)
CanStone_AnyMove(chess, move, coor) ==
    isVaildCoor(parseCoor(coor)) /\ chess.board[parseCoor(coor)] = SPACE

CanStone(chess, move, coor) ==
    /\ move = Len(chess.record)
    /\ isVaildCoor(parseCoor(coor))
    /\ chess.board[parseCoor(coor)] = SPACE

Stone(chess, coor) ==
    [board  |-> [chess.board EXCEPT ![parseCoor(coor)] = WhoseTurn(chess)],
     record |-> Append(chess.record, coor)]

-----------------------------------------------------------------------------
(* The winning test looks only at the last stone: in each of four directions it
   counts the matching neighbours up to Row-1 away, forwards and backwards.     *)

Directions == {<<0, 1>>, <<1, 1>>, <<1, 0>>, <<1, -1>>}

(* Slip: the walk ends one stone early. *)
Reach_Short(board, cell, d, sign) ==
    LET at(k) == <<cell[1] + sign * k * d[1], cell[2] + sign * k * d[2]>>
    IN  Cardinality({j \in 1..Row-2 :
            \A k \in 1..j : isVaildCoor(at(k)) /\ board[at(k)] = board[cell]})

(* Matching stones met when walking from cell in steps of d, sign forwards or
   backwards, until the first cell that is off the board or of another colour. *)
Reach(board, cell, d, sign) ==
    LET at(k) == <<cell[1] + sign * k * d[1], cell[2] + sign * k * d[2]>>
    IN  Cardinality({j \in 1..Row-1 :
            \A k \in 1..j : isVaildCoor(at(k)) /\ board[at(k)] = board[cell]})

DidYouWin(chess) ==
    /\ chess.record # << >>
    /\ LET last == parseCoor(chess.record[Len(chess.record)])
       IN  \E d \in Directions :
              1 + Reach(chess.board, last, d, 1) + Reach(chess.board, last, d, -1) >= Row

-----------------------------------------------------------------------------
(* Taking moves back: one move if it is the asker's turn, otherwise two.  Only
   the cursor moves; the stones taken back stay on the board.                   *)

Undone(chess, color) == IF color = WhoseTurn(chess) THEN 1 ELSE 2

CanRegret(chess, color) == Len(chess.record) - Undone(chess, color) >= 0

ChessRegret(chess, color) ==
    [chess EXCEPT !.record = SubSeq(@, 1, Len(@) - Undone(chess, color))]

-----------------------------------------------------------------------------
(* Every move that stands is on the board in the colour of its number, and no
   two of them share a cell.  Holds even when moves were taken back, although
   the board then also shows stones that are in no record.                      *)
LiveMoves(chess) ==
    \A i \in 1..Len(chess.record) :
        /\ parseCoor(chess.record[i]) \in Cells
        /\ chess.board[parseCoor(chess.record[i])] = (i - 1) % 2
        /\ \A j \in 1..Len(chess.record) :
              parseCoor(chess.record[i]) = parseCoor(chess.record[j]) => i = j

(* Nothing is on the board but the moves of the record. *)
NoStrayStone(chess) ==
    \A cell \in Cells : chess.board[cell] # SPACE =>
        \E i \in 1..Len(chess.record) : parseCoor(chess.record[i]) = cell
=============================================================================
