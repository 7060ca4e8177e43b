------------------------------- MODULE GameRoom -------------------------------
(* One room under every operation the backend has for it, those no endpoint is
   wired to yet included (ReplyRegret and Tie): users join, leave, get ready,
   place stones, ask for and grant take-backs in any order.                     *)
EXTENDS Room

CONSTANTS
    Users,      \* the user objects that authentication can make
    ConfigMax,  \* the configured size of the room
    Coors,      \* the coordinate bytes that are tried
    MaxMoves    \* bound: move numbers tried are 0..MaxMoves-1

ASSUME NoUserAssumption  == NoUser \notin Users
ASSUME CoorsAssumption   == Coors \subseteq Byte
ASSUME ConfigAssumption  == ConfigMax \in Int /\ MaxMoves \in Nat

VARIABLES
    room,   \* the room
    fresh   \* user objects not made yet: every join brings a new one

vars == <<room, fresh>>

TypeOK == /\ room \in RoomStates(Users)
          /\ fresh \in SUBSET Users

Init == /\ room = NewRoom
        /\ fresh = Users

JoinAsPlayer(u) ==
    /\ u \in fresh
    /\ CanSit(room)
    /\ room' = joinAsPlayer(room, u)
    /\ fresh' = fresh \ {u}

JoinAsOnlooker(u) ==
    /\ u \in fresh
    /\ CanWatch(room, ClampedMaxUsers(ConfigMax))
    /\ room' = joinAsOnlooker(room, u)
    /\ fresh' = fresh \ {u}

(* The operations below come from users who joined at some time; they may have
   left since.                                                                  *)
LeaveRoom(u) ==
    /\ u \notin fresh
    /\ room' = leave(room, u)
    /\ UNCHANGED fresh

GetReady(u) ==
    /\ u \notin fresh
    /\ IsPlayer(room, u)
    /\ room' = ReceiveReady(room, u)
    /\ UNCHANGED fresh

PlaceStone(u, move, coor) ==
    /\ u \notin fresh
    /\ CanPlayStone(room, u, move, coor)
    /\ room' = PlayStone(room, coor)
    /\ UNCHANGED fresh

AskRegret(u) ==
    /\ u \notin fresh
    /\ room' = Regret(room, u)
    /\ UNCHANGED fresh

GrantRegret(u) ==
    /\ u \notin fresh
    /\ CanReplyRegret(room, u)
    /\ room' = ReplyRegret(room, u)
    /\ UNCHANGED fresh

AskTie(u) ==
    /\ u \notin fresh
    /\ room' = Tie(room, u)
    /\ UNCHANGED fresh

Next ==
    \E u \in Users :
        \/ JoinAsPlayer(u)
        \/ JoinAsOnlooker(u)
        \/ LeaveRoom(u)
        \/ GetReady(u)
        \/ \E move \in 0..MaxMoves - 1, coor \in Coors : PlaceStone(u, move, coor)
        \/ AskRegret(u)
        \/ GrantRegret(u)
        \/ AskTie(u)

Spec == Init /\ [][Next]_vars
-----------------------------------------------------------------------------
(* Properties *)

(* Start dereferences both players without a test (room.go:41) and ReceiveReady
   the black one (distribute.go:82).  They are safe because a colour that is
   ready is a colour that is seated, whoever left or joined in between.         *)
RequestsSeated == FlagsSeated(room)

(* One user never gets both seats, and a seat is never held by somebody outside
   the member list, who would miss every broadcast.                             *)
SeatsConsistent == SeatsDistinct(room)

(* Every move the record still holds, which is what a joining client is sent, is on
   the board in the colour of its number, and no two of them share a cell: after
   stones, take-backs and restarts in any order.  The other way round it does not
   hold, and is not claimed: Regret moves the cursor only (chess.go:84-97), so the
   board that moves are checked against keeps stones that no record has.        *)
RecordOnBoard == LiveMoves(room.chess)

(* The record array has Size * Size entries, and Stone writes at the cursor
   without looking at the length (chess.go:45): the cells alone must keep the
   cursor from running past the array.                                          *)
RecordFits == Len(room.chess.record) <= Size * Size

(* A seat changes hands only by way of an empty one, and never while a game is
   on: the two players who got ready for a game are the two who play it.  Join
   looks for a nil seat and Leave stops the game (room.go:45-78).               *)
SeatsHandedOver ==
    [][/\ \A color \in Stones :
             room.seat[color] # NoUser => room'.seat[color] \in {room.seat[color], NoUser}
       /\ room.playing /\ room'.playing => room'.seat = room.seat]_vars
=============================================================================
