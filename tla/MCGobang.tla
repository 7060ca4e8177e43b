------------------------------- MODULE MCGobang -------------------------------
(* Instances of Gobang for TLC. *)
EXTENDS Gobang

TwoSeats == <<2>>         \* two players, no onlooker
OneRoom  == <<3>>         \* two players and an onlooker
MCCoors  == {0, 1, 17}    \* three cells of the 2x2 board
OwnNames == [c \in Conns |-> c]
MCSymmetry == Permutations(Conns)

-----------------------------------------------------------------------------
(* What makes behaviours of three clients too many: *)

Present   == {c \in Conns : phase[c] # "home"}
Asking    == {c \in Conns : c2s[c] # << >>}
Lagging   == {c \in Conns : Len(SelectSeq(s2c[c], LAMBDA m : m.type # "over")) > 1}
Restarted == {id \in RoomIds : games[id] > 1}
Won       == {id \in RoomIds : DidYouWin(rooms[id].chess)}

Left(c) == roomOf[c] # NoRoom /\ userOf[c] \notin rooms[roomOf[c]].users

GaveUpSeat(c) == role[c] # SPACE /\ PlayerColor(rooms[roomOf[c]], userOf[c]) = SPACE

Dropouts == {c \in Conns : \/ link[c] \in {"gone", "closed"}
                           \/ pipe[c] \in {"leaving", "done"}
                           \/ Left(c)
                           \/ GaveUpSeat(c)}

(* Any two of the three cells touch, so the order they are taken in is all the same. *)
InOrderOfCells == \A id \in RoomIds : IsPrefix(rooms[id].chess.record, <<0, 1, 17>>)

(* Bound: a client dropped out, a game started anew, a client with two messages to
   read: there is one of these at a time.  When all three clients are there nobody
   drops out, nobody wins and one request is under way.                         *)
OneThingAtATime ==
    /\ InOrderOfCells
    /\ Cardinality(Dropouts) + Cardinality(Restarted) + Cardinality(Lagging) <= 1
    /\ Won # {} => Restarted \cup Lagging = {}
    /\ Present = Conns => Cardinality(Asking) <= 1 /\ Dropouts \cup Won = {}
=============================================================================
