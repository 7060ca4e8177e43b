--------------------------- MODULE GameRoomProofs ---------------------------
(* The safety properties of GameRoom for every set of users, every room and board
   size and every bound.                                                        *)
EXTENDS GameRoom, RoomProofs

(* Inductive: the consistency of the room, of its game, and that a user object
   that was not made yet is no member, so that whoever joins is new.            *)
GameRoomInv ==
    /\ TypeOK
    /\ RequestsSeated
    /\ SeatsConsistent
    /\ RecordOnBoard
    /\ room.users \cap fresh = {}

(* A new room satisfies the invariant. *)
LEMMA GameRoomInit == Init => GameRoomInv
<1>1. NewRoom.chess = ChessInit /\ NewRoom.users = {}
  BY DEF NewRoom
<1>2. NewRoom \in RoomStates(Users) /\ FlagsSeated(NewRoom) /\ SeatsDistinct(NewRoom)
  BY NewRoomGood DEF RoomGood
<1>3. QED BY <1>1, <1>2, ChessInitGood
          DEF Init, GameRoomInv, TypeOK, RequestsSeated, SeatsConsistent, RecordOnBoard

(* Every operation keeps the invariant. *)
LEMMA GameRoomNext == GameRoomInv /\ [Next]_vars => GameRoomInv'
<1> SUFFICES ASSUME GameRoomInv, [Next]_vars PROVE GameRoomInv'
  OBVIOUS
<1>1. /\ room \in RoomStates(Users) /\ fresh \in SUBSET Users
      /\ RoomGood(room) /\ LiveMoves(room.chess)
      /\ room.users \cap fresh = {} /\ NoUser \notin Users
  BY NoUserAssumption DEF GameRoomInv, TypeOK, RequestsSeated, SeatsConsistent, RecordOnBoard, RoomGood
<1>2. SUFFICES /\ room' \in RoomStates(Users) /\ fresh' \in SUBSET Users
               /\ RoomGood(room') /\ LiveMoves(room'.chess)
               /\ room'.users \cap fresh' = {}
  BY DEF GameRoomInv, TypeOK, RequestsSeated, SeatsConsistent, RecordOnBoard, RoomGood
<1>3. ASSUME NEW u \in Users, JoinAsPlayer(u)
      PROVE  /\ room' \in RoomStates(Users) /\ fresh' \in SUBSET Users
             /\ RoomGood(room') /\ LiveMoves(room'.chess)
             /\ room'.users \cap fresh' = {}
  <2>1. u \notin room.users /\ CanSit(room) /\ room' = joinAsPlayer(room, u) /\ fresh' = fresh \ {u}
    BY <1>1, <1>3 DEF JoinAsPlayer
  <2>2. room' \in RoomStates(Users) /\ RoomGood(room')
    BY <1>1, <2>1, SitGood
  <2>3. room'.chess = room.chess /\ room'.users = room.users \cup {u}
    BY <1>1, <2>1 DEF joinAsPlayer, RoomStates
  <2>4. QED BY <1>1, <2>1, <2>2, <2>3
<1>4. ASSUME NEW u \in Users, JoinAsOnlooker(u)
      PROVE  /\ room' \in RoomStates(Users) /\ fresh' \in SUBSET Users
             /\ RoomGood(room') /\ LiveMoves(room'.chess)
             /\ room'.users \cap fresh' = {}
  <2>1. room' = joinAsOnlooker(room, u) /\ fresh' = fresh \ {u}
    BY <1>4 DEF JoinAsOnlooker
  <2>2. room' \in RoomStates(Users) /\ RoomGood(room')
    BY <1>1, <2>1, WatchGood
  <2>3. room'.chess = room.chess /\ room'.users = room.users \cup {u}
    BY <1>1, <2>1 DEF joinAsOnlooker, RoomStates
  <2>4. QED BY <1>1, <2>1, <2>2, <2>3
<1>5. ASSUME NEW u \in Users, LeaveRoom(u)
      PROVE  /\ room' \in RoomStates(Users) /\ fresh' \in SUBSET Users
             /\ RoomGood(room') /\ LiveMoves(room'.chess)
             /\ room'.users \cap fresh' = {}
  BY <1>1, <1>5, LeaveGood DEF LeaveRoom
<1>6. ASSUME NEW u \in Users, GetReady(u)
      PROVE  /\ room' \in RoomStates(Users) /\ fresh' \in SUBSET Users
             /\ RoomGood(room') /\ LiveMoves(room'.chess)
             /\ room'.users \cap fresh' = {}
  BY <1>1, <1>6, ReadyGood, ChessInitGood DEF GetReady
<1>7. ASSUME NEW u \in Users, NEW move \in 0..MaxMoves-1, NEW coor \in Coors,
             PlaceStone(u, move, coor)
      PROVE  /\ room' \in RoomStates(Users) /\ fresh' \in SUBSET Users
             /\ RoomGood(room') /\ LiveMoves(room'.chess)
             /\ room'.users \cap fresh' = {}
  <2>1. CanPlayStone(room, u, move, coor) /\ room' = PlayStone(room, coor) /\ fresh' = fresh
    BY <1>7 DEF PlaceStone
  <2>2. coor \in Byte
    BY CoorsAssumption
  <2>3. /\ room' \in RoomStates(Users) /\ RoomGood(room')
        /\ room'.chess = Stone(room.chess, coor) /\ room'.users = room.users
    BY <1>1, <2>1, <2>2, PlayGood
  <2>4. room.chess \in ChessStates /\ CanStone(room.chess, move, coor)
    BY <1>1, <2>1 DEF RoomStates, CanPlayStone
  <2>5. LiveMoves(room'.chess)
    BY <1>1, <2>2, <2>3, <2>4, StoneLive
  <2>6. QED BY <1>1, <2>1, <2>3, <2>5
<1>8. ASSUME NEW u \in Users, AskRegret(u)
      PROVE  /\ room' \in RoomStates(Users) /\ fresh' \in SUBSET Users
             /\ RoomGood(room') /\ LiveMoves(room'.chess)
             /\ room'.users \cap fresh' = {}
  BY <1>1, <1>8, AskRegretGood DEF AskRegret
<1>9. ASSUME NEW u \in Users, GrantRegret(u)
      PROVE  /\ room' \in RoomStates(Users) /\ fresh' \in SUBSET Users
             /\ RoomGood(room') /\ LiveMoves(room'.chess)
             /\ room'.users \cap fresh' = {}
  BY <1>1, <1>9, ReplyRegretGood DEF GrantRegret
<1>10. ASSUME NEW u \in Users, AskTie(u)
      PROVE  /\ room' \in RoomStates(Users) /\ fresh' \in SUBSET Users
             /\ RoomGood(room') /\ LiveMoves(room'.chess)
             /\ room'.users \cap fresh' = {}
  BY <1>1, <1>10, AskTieGood DEF AskTie
<1>11. CASE UNCHANGED vars
  BY <1>1, <1>11 DEF vars
<1>12. QED BY <1>3, <1>4, <1>5, <1>6, <1>7, <1>8, <1>9, <1>10, <1>11 DEF Next

(* The invariant holds always. *)
LEMMA GameRoomAlways == Spec => []GameRoomInv
<1>1. QED BY GameRoomInit, GameRoomNext, PTL DEF Spec

(* Types. *)
THEOREM TypeCorrect == Spec => []TypeOK
<1>1. GameRoomInv => TypeOK
  BY DEF GameRoomInv
<1>2. QED BY <1>1, GameRoomAlways, PTL

(* Whatever order users join, leave, get ready and ask in, a colour with a request
   outstanding is taken and a game is on only between two players: Start never
   meets a nil player (game/room.go:37-43).                                     *)
THEOREM RequestsAlwaysSeated == Spec => []RequestsSeated
<1>1. GameRoomInv => RequestsSeated
  BY DEF GameRoomInv
<1>2. QED BY <1>1, GameRoomAlways, PTL

(* Nobody holds both seats, and the players are members (mdwroom/room.go:47-54). *)
THEOREM SeatsAlwaysConsistent == Spec => []SeatsConsistent
<1>1. GameRoomInv => SeatsConsistent
  BY DEF GameRoomInv
<1>2. QED BY <1>1, GameRoomAlways, PTL

(* Every move the record holds is on the board in the colour of its number, and no two of
   them share a cell, on a board of any size and after any number of stones, take-backs and
   restarts (chess.go:31-97).  It says nothing of the stones that were taken back: they
   stay on the board.                                                           *)
THEOREM RecordAlwaysOnBoard == Spec => []RecordOnBoard
<1>1. GameRoomInv => RecordOnBoard
  BY DEF GameRoomInv
<1>2. QED BY <1>1, GameRoomAlways, PTL

(* The array that keeps the moves never runs over: it has a place for each cell, and
   no two moves of the record are on one (chess.go:8-15,41-47).                 *)
THEOREM RecordAlwaysFits == Spec => []RecordFits
<1>1. ASSUME GameRoomInv PROVE RecordFits
  <2>1. room.chess \in ChessStates /\ LiveMoves(room.chess)
    BY <1>1 DEF GameRoomInv, TypeOK, RoomStates, RecordOnBoard
  <2>2. QED BY <2>1, RecordBounded DEF RecordFits
<1>2. QED BY <1>1, GameRoomAlways, PTL

(* Seats are handed over only when empty, and never during a game
   (game/room.go:45-78).                                                        *)
THEOREM SeatsAlwaysHandedOver == Spec => SeatsHandedOver
<1> DEFINE Handover ==
        /\ \A color \in Stones :
              room.seat[color] # NoUser => room'.seat[color] \in {room.seat[color], NoUser}
        /\ room.playing /\ room'.playing => room'.seat = room.seat
<1>1. ASSUME GameRoomInv, [Next]_vars PROVE [Handover]_vars
  <2>1. /\ room \in RoomStates(Users) /\ RoomGood(room) /\ NoUser \notin Users
        /\ room.seat \in [Stones -> Users \cup {NoUser}]
    BY <1>1, NoUserAssumption
    DEF GameRoomInv, TypeOK, RequestsSeated, SeatsConsistent, RoomGood, RoomStates
  <2>2. ASSUME room'.seat = room.seat PROVE Handover
    BY <2>2
  <2>3. ASSUME NEW u \in Users, JoinAsPlayer(u) PROVE Handover
    <3>1. FreeSeat(room) \in Stones /\ room.seat[FreeSeat(room)] = NoUser
      BY <2>3 DEF JoinAsPlayer, CanSit, FreeSeat, Stones, BLACK, WHITE
    <3>2. room'.seat = [room.seat EXCEPT ![FreeSeat(room)] = u]
      BY <2>1, <2>3 DEF JoinAsPlayer, joinAsPlayer, RoomStates
    <3>3. ~ room.playing
      BY <2>1, <3>1 DEF RoomGood, FlagsSeated
    <3>4. QED BY <2>1, <3>1, <3>2, <3>3
  <2>4. ASSUME NEW u \in Users, LeaveRoom(u) PROVE Handover
    <3>1. CASE IsPlayer(room, u)
      <4>1. /\ room'.seat = [room.seat EXCEPT ![PlayerColor(room, u)] = NoUser]
            /\ room'.playing = FALSE
        BY <2>1, <2>4, <3>1, PlayerHoldsSeat DEF LeaveRoom, leave, Leave, RoomStates
      <4>2. QED BY <2>1, <4>1
    <3>2. CASE ~ IsPlayer(room, u)
      BY <2>1, <2>2, <2>4, <3>2 DEF LeaveRoom, leave, RoomStates
    <3>3. QED BY <3>1, <3>2
  <2>5. ASSUME NEW u \in Users, JoinAsOnlooker(u) PROVE room'.seat = room.seat
    BY <2>1, <2>5 DEF JoinAsOnlooker, joinAsOnlooker, RoomStates
  <2>6. ASSUME NEW u \in Users, GetReady(u) PROVE room'.seat = room.seat
    BY <2>1, <2>6, ReadyGood DEF GetReady
  <2>7. ASSUME NEW u \in Users, NEW move \in 0..MaxMoves-1, NEW coor \in Coors,
               PlaceStone(u, move, coor)
        PROVE  room'.seat = room.seat
    BY <2>1, <2>7, PlayGood, CoorsAssumption DEF PlaceStone
  <2>8. ASSUME NEW u \in Users, AskRegret(u) PROVE room'.seat = room.seat
    BY <2>1, <2>8, AskRegretGood DEF AskRegret
  <2>9. ASSUME NEW u \in Users, GrantRegret(u) PROVE room'.seat = room.seat
    BY <2>1, <2>9, ReplyRegretGood DEF GrantRegret
  <2>10. ASSUME NEW u \in Users, AskTie(u) PROVE room'.seat = room.seat
    BY <2>1, <2>10, AskTieGood DEF AskTie
  <2> HIDE DEF Handover
  <2>11. QED BY <1>1, <2>2, <2>3, <2>4, <2>5, <2>6, <2>7, <2>8, <2>9, <2>10 DEF Next
<1>2. SeatsHandedOver <=> [][Handover]_vars
  BY DEF SeatsHandedOver
<1> HIDE DEF Handover
<1>3. QED BY <1>1, <1>2, GameRoomAlways, PTL DEF Spec
=============================================================================
