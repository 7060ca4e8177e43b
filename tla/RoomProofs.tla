----------------------------- MODULE RoomProofs -----------------------------
(* Lemmas about the operators of Chess and Room: what each keeps of the types and
   of the consistency of a game and of a room.  GameRoomProofs and GobangProofs
   cite them.                                                                   *)
EXTENDS Room, SequenceTheorems, FiniteSetTheorems, TLAPS

(* Induction over a set of numbers: a set with zero and every successor is all of Nat.
   (Had it a gap, one of the intervals from zero to a gap would be smallest.)   *)
LEMMA SetInduction ==
    ASSUME NEW T \in SUBSET Nat, 0 \in T, \A n \in T : n + 1 \in T
    PROVE  \A n \in Nat : n \in T
<1> DEFINE B == {n \in Nat : n \notin T}
           I == {0..n : n \in B}
<1>1. SUFFICES ASSUME NEW b \in Nat, b \notin T PROVE FALSE
  OBVIOUS
<1>2. \A n \in Nat : IsFiniteSet(0..n)
  BY FS_Interval
<1>3. I \subseteq FiniteSubsetsOf(Nat)
  BY <1>2 DEF FiniteSubsetsOf
<1>4. 0..b \in I
  BY <1>1
<1>5. PICK X \in I : \A Y \in I : ~ (<<Y, X>> \in StrictSubsetOrdering(Nat))
  <2> HIDE DEF I
  <2>1. I # {}
    BY <1>4
  <2>2. IsWellFoundedOn(StrictSubsetOrdering(Nat), FiniteSubsetsOf(Nat))
    BY FS_StrictSubsetOrderingWellFounded
  <2>3. QED BY <1>3, <2>1, <2>2, WFMin
<1>6. PICK n \in B : X = 0..n
  BY <1>5
<1>7. n \in Nat /\ n \notin T /\ n # 0 /\ n - 1 \in Nat /\ (n - 1) + 1 = n
  BY <1>6
<1>8. n - 1 \notin T
  BY <1>7
<1>9. 0..(n-1) \in I
  BY <1>7, <1>8
<1>10. 0..(n-1) \subseteq 0..n /\ n \in 0..n /\ n \notin 0..(n-1)
  BY <1>7
<1>11. 0..(n-1) \in SUBSET Nat /\ 0..n \in SUBSET Nat
  BY <1>7
<1>12. <<0..(n-1), 0..n>> \in StrictSubsetOrdering(Nat)
  BY <1>10, <1>11 DEF StrictSubsetOrdering
<1>13. QED BY <1>5, <1>6, <1>9, <1>12

-----------------------------------------------------------------------------
(* The game *)

(* A valid coordinate byte names a cell of the board. *)
LEMMA ValidCell ==
    ASSUME NEW coor \in Byte, isVaildCoor(parseCoor(coor))
    PROVE  parseCoor(coor) \in Cells
<1>1. /\ coor % 16 \in Int
      /\ (coor \div 16) % 16 \in Int
  BY DEF Byte
<1>2. Size \in Int
  BY SizeAssumption
<1>3. QED BY <1>1, <1>2 DEF isVaildCoor, parseCoor, Cells

(* The turn is a colour of a stone. *)
LEMMA TurnIsStone ==
    ASSUME NEW chess \in ChessStates
    PROVE  WhoseTurn(chess) \in Stones
<1>1. Len(chess.record) \in Nat
  BY DEF ChessStates
<1>2. \A k \in Nat : k % 2 = 0 \/ k % 2 = 1
  OBVIOUS
<1>3. Len(chess.record) % 2 = 0 \/ Len(chess.record) % 2 = 1
  BY <1>1, <1>2
<1>4. QED BY <1>3 DEF WhoseTurn, Stones, BLACK, WHITE

(* A fresh game is consistent (chess.go:17-24). *)
LEMMA ChessInitGood ==
    /\ ChessInit \in ChessStates
    /\ LiveMoves(ChessInit)
    /\ NoStrayStone(ChessInit)
<1>1. /\ ChessInit.board = [cell \in Cells |-> SPACE]
      /\ ChessInit.record = << >>
  BY DEF ChessInit
<1>2. ChessInit \in ChessStates
  BY DEF ChessInit, ChessStates, Colors
<1>3. Len(ChessInit.record) = 0
  BY <1>1
<1>4. QED BY <1>1, <1>2, <1>3 DEF LiveMoves, NoStrayStone

(* A record never outgrows the board: no two of its moves are on one cell
   (chess.go:8-15, where the array has one place for each).                     *)
LEMMA RecordBounded ==
    ASSUME NEW chess \in ChessStates, LiveMoves(chess)
    PROVE  Len(chess.record) <= Size * Size
<1> DEFINE n     == Len(chess.record)
           where == [i \in 1..n |-> parseCoor(chess.record[i])]
<1>1. n \in Nat /\ Size \in Nat
  BY SizeAssumption DEF ChessStates
<1>2. where \in Injection(1..n, Cells)
  <2>1. \A i \in 1..n : parseCoor(chess.record[i]) \in Cells
    BY DEF LiveMoves
  <2>2. \A i, j \in 1..n : where[i] = where[j] => i = j
    BY DEF LiveMoves
  <2>3. QED BY <2>1, <2>2 DEF Injection, IsInjective
<1> HIDE DEF where
<1>3. IsFiniteSet(0..Size-1) /\ Cardinality(0..Size-1) = Size
  BY <1>1, SizeAssumption, FS_Interval
<1>4. IsFiniteSet(Cells) /\ Cardinality(Cells) = Size * Size
  BY <1>3, FS_Product DEF Cells
<1>5. Cardinality(1..n) <= Cardinality(Cells)
  BY <1>2, <1>4, FS_Injection
<1>6. Cardinality(1..n) = n
  <2> HIDE DEF n
  <2>1. QED BY <1>1, FS_Interval
<1>7. QED BY <1>4, <1>5, <1>6

(* A stone that Stone accepts keeps the game well formed (chess.go:31-50). *)
LEMMA StoneType ==
    ASSUME NEW chess \in ChessStates, NEW coor \in Byte, NEW move,
           CanStone(chess, move, coor)
    PROVE  /\ Stone(chess, coor) \in ChessStates
           /\ Len(Stone(chess, coor).record) = Len(chess.record) + 1
<1>1. WhoseTurn(chess) \in Colors
  BY TurnIsStone DEF Colors
<1>2. chess.board \in [Cells -> Colors] /\ chess.record \in Seq(Byte)
  BY DEF ChessStates
<1>3. [chess.board EXCEPT ![parseCoor(coor)] = WhoseTurn(chess)] \in [Cells -> Colors]
  BY <1>1, <1>2
<1>4. /\ Append(chess.record, coor) \in Seq(Byte)
      /\ Len(Append(chess.record, coor)) = Len(chess.record) + 1
  BY <1>2
<1>5. QED BY <1>3, <1>4 DEF Stone, ChessStates

(* A stone that Stone accepts keeps the record and the board in step: it lands on
   a free cell, and every earlier move keeps its own (chess.go:41-47).          *)
LEMMA StoneLive ==
    ASSUME NEW chess \in ChessStates, NEW coor \in Byte, NEW move,
           CanStone(chess, move, coor), LiveMoves(chess)
    PROVE  LiveMoves(Stone(chess, coor))
<1> DEFINE n   == Len(chess.record)
           rec == Append(chess.record, coor)
           brd == [chess.board EXCEPT ![parseCoor(coor)] = WhoseTurn(chess)]
<1>1. n \in Nat /\ chess.board \in [Cells -> Colors] /\ chess.record \in Seq(Byte)
  BY DEF ChessStates
<1>2. Stone(chess, coor).board = brd /\ Stone(chess, coor).record = rec
  BY DEF Stone
<1>3. /\ Len(rec) = n + 1
      /\ rec[n + 1] = coor
      /\ \A i \in 1..n : rec[i] = chess.record[i]
  BY <1>1
<1>4. parseCoor(coor) \in Cells /\ chess.board[parseCoor(coor)] = SPACE
  BY ValidCell DEF CanStone
<1>5. brd[parseCoor(coor)] = n % 2
  BY <1>1, <1>4 DEF WhoseTurn
<1>6. \A i \in 1..n : /\ parseCoor(chess.record[i]) \in Cells
                      /\ chess.board[parseCoor(chess.record[i])] = (i - 1) % 2
                      /\ \A j \in 1..n :
                            parseCoor(chess.record[i]) = parseCoor(chess.record[j]) => i = j
  BY DEF LiveMoves
<1>7. \A i \in 1..n : parseCoor(chess.record[i]) # parseCoor(coor)
  BY <1>1, <1>4, <1>6 DEF SPACE
<1>8. \A i \in 1..n : brd[parseCoor(chess.record[i])] = (i - 1) % 2
  BY <1>1, <1>6, <1>7
<1> HIDE DEF n, rec, brd
<1>9. SUFFICES ASSUME NEW i \in 1..n+1
               PROVE  /\ parseCoor(rec[i]) \in Cells
                      /\ brd[parseCoor(rec[i])] = (i - 1) % 2
                      /\ \A j \in 1..n+1 : parseCoor(rec[i]) = parseCoor(rec[j]) => i = j
  BY <1>2, <1>3 DEF LiveMoves
<1>10. CASE i = n + 1
  <2>1. rec[i] = coor /\ i - 1 = n
    BY <1>1, <1>3, <1>10
  <2>2. ASSUME NEW j \in 1..n+1, parseCoor(rec[i]) = parseCoor(rec[j]) PROVE i = j
    BY <1>1, <1>3, <1>7, <1>10, <2>1, <2>2
  <2>3. QED BY <1>4, <1>5, <2>1, <2>2
<1>11. CASE i # n + 1
  <2>1. i \in 1..n /\ rec[i] = chess.record[i]
    BY <1>1, <1>3, <1>11
  <2>2. ASSUME NEW j \in 1..n+1, parseCoor(rec[i]) = parseCoor(rec[j]) PROVE i = j
    <3>1. CASE j = n + 1
      BY <1>3, <1>7, <2>1, <2>2, <3>1
    <3>2. CASE j # n + 1
      <4>1. j \in 1..n /\ rec[j] = chess.record[j]
        BY <1>1, <1>3, <3>2
      <4>2. QED BY <1>6, <2>1, <2>2, <4>1
    <3>3. QED BY <3>1, <3>2
  <2>3. QED BY <1>6, <1>8, <2>1, <2>2
<1>12. QED BY <1>10, <1>11

(* ... and puts nothing on the board that the record does not show. *)
LEMMA StoneNoStray ==
    ASSUME NEW chess \in ChessStates, NEW coor \in Byte, NEW move,
           CanStone(chess, move, coor), NoStrayStone(chess)
    PROVE  NoStrayStone(Stone(chess, coor))
<1> DEFINE n   == Len(chess.record)
           rec == Append(chess.record, coor)
           brd == [chess.board EXCEPT ![parseCoor(coor)] = WhoseTurn(chess)]
<1>1. n \in Nat /\ chess.board \in [Cells -> Colors] /\ chess.record \in Seq(Byte)
  BY DEF ChessStates
<1>2. Stone(chess, coor).board = brd /\ Stone(chess, coor).record = rec
  BY DEF Stone
<1>3. /\ Len(rec) = n + 1
      /\ rec[n + 1] = coor
      /\ \A i \in 1..n : rec[i] = chess.record[i]
  BY <1>1
<1>4. \A cell \in Cells : cell # parseCoor(coor) => brd[cell] = chess.board[cell]
  BY <1>1
<1>5. \A cell \in Cells : chess.board[cell] # SPACE =>
          \E i \in 1..n : parseCoor(chess.record[i]) = cell
  BY DEF NoStrayStone
<1> HIDE DEF n, rec, brd
<1>6. SUFFICES ASSUME NEW cell \in Cells, brd[cell] # SPACE
               PROVE  \E i \in 1..n+1 : parseCoor(rec[i]) = cell
  BY <1>2, <1>3 DEF NoStrayStone
<1>7. CASE cell = parseCoor(coor)
  BY <1>1, <1>3, <1>7
<1>8. CASE cell # parseCoor(coor)
  <2>1. PICK i \in 1..n : parseCoor(chess.record[i]) = cell
    BY <1>4, <1>5, <1>6, <1>8
  <2>2. i \in 1..n+1 /\ parseCoor(rec[i]) = cell
    BY <1>1, <1>3, <2>1
  <2>3. QED BY <2>2
<1>9. QED BY <1>7, <1>8

(* Taking moves back keeps the game well formed, and what is left of the record
   in step with the board (chess.go:84-97).                                     *)
LEMMA RegretGood ==
    ASSUME NEW chess \in ChessStates, NEW color \in Stones, CanRegret(chess, color)
    PROVE  /\ ChessRegret(chess, color) \in ChessStates
           /\ LiveMoves(chess) => LiveMoves(ChessRegret(chess, color))
<1> DEFINE n   == Len(chess.record)
           m   == n - Undone(chess, color)
           rec == SubSeq(chess.record, 1, m)
<1>1. n \in Nat /\ chess.board \in [Cells -> Colors] /\ chess.record \in Seq(Byte)
  BY DEF ChessStates
<1>2. m \in Nat /\ m <= n
  <2>1. Undone(chess, color) \in 1..2
    BY DEF Undone
  <2>2. n - Undone(chess, color) >= 0
    BY DEF CanRegret
  <2> HIDE DEF n
  <2>3. QED BY <1>1, <2>1, <2>2
<1>3. /\ rec \in Seq(Byte)
      /\ Len(rec) = m
      /\ \A i \in 1..m : rec[i] = chess.record[i]
  <2> HIDE DEF m
  <2>1. QED BY <1>1, <1>2
<1>4. ChessRegret(chess, color) = [chess EXCEPT !.record = rec]
  BY DEF ChessRegret
<1> HIDE DEF n, m, rec
<1>5. /\ ChessRegret(chess, color) \in ChessStates
      /\ ChessRegret(chess, color).board = chess.board
      /\ ChessRegret(chess, color).record = rec
  BY <1>1, <1>3, <1>4 DEF ChessStates
<1>6. ASSUME LiveMoves(chess) PROVE LiveMoves(ChessRegret(chess, color))
  <2>1. \A i \in 1..n : /\ parseCoor(chess.record[i]) \in Cells
                        /\ chess.board[parseCoor(chess.record[i])] = (i - 1) % 2
                        /\ \A j \in 1..n :
                              parseCoor(chess.record[i]) = parseCoor(chess.record[j]) => i = j
    BY <1>6 DEF LiveMoves, n
  <2>2. \A i \in 1..m : i \in 1..n
    BY <1>1, <1>2
  <2>3. QED BY <1>3, <1>5, <2>1, <2>2 DEF LiveMoves
<1>7. QED BY <1>5, <1>6
-----------------------------------------------------------------------------
(* The room *)

(* What every operation keeps of a room, whatever its game looks like. *)
RoomGood(room) == FlagsSeated(room) /\ SeatsDistinct(room)

(* A new room is well formed and consistent. *)
LEMMA NewRoomGood ==
    ASSUME NEW Users
    PROVE  NewRoom \in RoomStates(Users) /\ RoomGood(NewRoom)
<1>1. NewRoom \in RoomStates(Users)
  BY ChessInitGood DEF NewRoom, RoomStates, Colors
<1>2. FlagsSeated(NewRoom) /\ SeatsDistinct(NewRoom)
  BY DEF NewRoom, FlagsSeated, SeatsDistinct, Stones, BLACK, WHITE, SPACE
<1>3. QED BY <1>1, <1>2 DEF RoomGood

(* A member's colour is that of a seat the member holds. *)
LEMMA PlayerHoldsSeat ==
    ASSUME NEW room, NEW user, IsPlayer(room, user)
    PROVE  /\ PlayerColor(room, user) \in Stones
           /\ room.seat[PlayerColor(room, user)] = user
BY DEF IsPlayer, PlayerColor, Stones, BLACK, WHITE, SPACE

(* A newcomer takes an empty seat and becomes a member (room.go:45-54). *)
LEMMA SitGood ==
    ASSUME NEW Users, NoUser \notin Users, NEW room \in RoomStates(Users),
           NEW user \in Users, user \notin room.users, CanSit(room), RoomGood(room)
    PROVE  /\ joinAsPlayer(room, user) \in RoomStates(Users)
           /\ RoomGood(joinAsPlayer(room, user))
<1> DEFINE new == joinAsPlayer(room, user)
<1>1. FreeSeat(room) \in Stones /\ room.seat[FreeSeat(room)] = NoUser
  BY DEF CanSit, FreeSeat, Stones, BLACK, WHITE
<1>2. /\ new \in RoomStates(Users)
      /\ new.seat = [room.seat EXCEPT ![FreeSeat(room)] = user]
      /\ new.users = room.users \cup {user}
      /\ new.ready = room.ready /\ new.regret = room.regret /\ new.tie = room.tie
      /\ new.playing = room.playing
  BY <1>1 DEF joinAsPlayer, RoomStates
<1>3. room.seat \in [Stones -> Users \cup {NoUser}]
  BY DEF RoomStates
<1>4. \A color \in Stones : /\ room.seat[color] # NoUser => new.seat[color] = room.seat[color]
                            /\ new.seat[color] \in {room.seat[color], user}
  BY <1>1, <1>2, <1>3
<1>5. FlagsSeated(new)
  BY <1>2, <1>4 DEF RoomGood, FlagsSeated
<1>6. \A color \in Stones : new.seat[color] # NoUser => new.seat[color] \in new.users
  BY <1>2, <1>4 DEF RoomGood, SeatsDistinct
<1>7. \A color \in Stones : color # FreeSeat(room) => new.seat[color] # user
  BY <1>2, <1>3 DEF RoomGood, SeatsDistinct
<1>8. new.seat[BLACK] = new.seat[WHITE] => new.seat[BLACK] = NoUser
  <2>1. BLACK \in Stones /\ WHITE \in Stones /\ BLACK # WHITE
    BY DEF Stones, BLACK, WHITE
  <2>2. FreeSeat(room) = BLACK \/ FreeSeat(room) = WHITE
    BY DEF FreeSeat
  <2>3. new.seat[FreeSeat(room)] = user
    BY <1>1, <1>2, <1>3
  <2> HIDE DEF new
  <2>4. QED BY <1>7, <2>1, <2>2, <2>3
<1>9. QED BY <1>2, <1>5, <1>6, <1>8 DEF RoomGood, SeatsDistinct

(* A newcomer who looks on changes nothing but the member list. *)
LEMMA WatchGood ==
    ASSUME NEW Users, NEW room \in RoomStates(Users), NEW user \in Users, RoomGood(room)
    PROVE  /\ joinAsOnlooker(room, user) \in RoomStates(Users)
           /\ RoomGood(joinAsOnlooker(room, user))
<1> DEFINE new == joinAsOnlooker(room, user)
<1>1. /\ new \in RoomStates(Users)
      /\ new.seat = room.seat
      /\ new.users = room.users \cup {user}
      /\ new.ready = room.ready /\ new.regret = room.regret /\ new.tie = room.tie
      /\ new.playing = room.playing
  BY DEF joinAsOnlooker, RoomStates
<1>2. QED BY <1>1 DEF RoomGood, FlagsSeated, SeatsDistinct

(* A player who leaves takes along the requests of the colour and the game; an
   onlooker only the membership (game/room.go:56-78, mdwroom/room.go:64-80).    *)
LEMMA LeaveGood ==
    ASSUME NEW Users, NoUser \notin Users, NEW room \in RoomStates(Users),
           NEW user \in Users, RoomGood(room)
    PROVE  /\ leave(room, user) \in RoomStates(Users)
           /\ RoomGood(leave(room, user))
           /\ leave(room, user).chess = room.chess
           /\ leave(room, user).users \subseteq room.users
           /\ ~ IsPlayer(leave(room, user), user)
<1>1. CASE IsPlayer(room, user)
  <2> DEFINE color == PlayerColor(room, user)
             new   == Leave(room, user)
  <2>1. leave(room, user) = new
    BY <1>1 DEF leave
  <2>2. color \in Stones /\ room.seat[color] = user
    BY <1>1, PlayerHoldsSeat
  <2>3. /\ new \in RoomStates(Users)
        /\ new.seat = [room.seat EXCEPT ![color] = NoUser]
        /\ new.ready = Cleared(room.ready, color)
        /\ new.regret = Cleared(room.regret, color)
        /\ new.tie = Cleared(room.tie, color)
        /\ new.playing = FALSE
        /\ new.chess = room.chess
        /\ new.users = room.users
    BY <2>2 DEF Leave, RoomStates, Cleared, Colors
  <2>4. room.seat \in [Stones -> Users \cup {NoUser}]
    BY DEF RoomStates
  <2>5. \A flag : Cleared(flag, color) \in Stones => Cleared(flag, color) = flag /\ flag # color
    BY DEF Cleared, Stones, SPACE, BLACK, WHITE
  <2> HIDE DEF color, new
  <2>6. FlagsSeated(new)
    <3>1. ASSUME NEW k \in Stones, k \in {new.ready, new.regret, new.tie}
          PROVE  new.seat[k] # NoUser
      <4>1. k # color /\ k \in {room.ready, room.regret, room.tie}
        BY <2>3, <2>5, <3>1
      <4>2. QED BY <2>3, <2>4, <4>1 DEF RoomGood, FlagsSeated
    <3>2. QED BY <2>3, <3>1 DEF FlagsSeated
  <2>7. SeatsDistinct(new)
    BY <2>2, <2>3, <2>4 DEF RoomGood, SeatsDistinct, Stones
  <2>8. \A k \in Stones : new.seat[k] # user
    <3>1. \A k \in Stones : k # color => room.seat[k] # user
      BY <2>2 DEF RoomGood, SeatsDistinct, Stones
    <3>2. QED BY <2>3, <2>4, <3>1
  <2>9. ~ IsPlayer(new, user)
    BY <2>8 DEF IsPlayer, PlayerColor, Stones
  <2>10. QED BY <2>1, <2>3, <2>6, <2>7, <2>9 DEF RoomGood
<1>2. CASE ~ IsPlayer(room, user)
  <2> DEFINE new == [room EXCEPT !.users = @ \ {user}]
  <2>1. leave(room, user) = new
    BY <1>2 DEF leave
  <2>2. /\ new \in RoomStates(Users)
        /\ new.seat = room.seat
        /\ new.users = room.users \ {user}
        /\ new.ready = room.ready /\ new.regret = room.regret /\ new.tie = room.tie
        /\ new.playing = room.playing
        /\ new.chess = room.chess
    BY DEF RoomStates
  <2>3. \A k \in Stones : room.seat[k] # user
    BY <1>2 DEF IsPlayer, PlayerColor, Stones, BLACK, WHITE, SPACE
  <2> HIDE DEF new
  <2>4. RoomGood(new)
    BY <2>2, <2>3 DEF RoomGood, FlagsSeated, SeatsDistinct
  <2>5. ~ IsPlayer(new, user)
    BY <1>2, <2>2 DEF IsPlayer, PlayerColor
  <2>6. QED BY <2>1, <2>2, <2>4, <2>5
<1>3. QED BY <1>1, <1>2

(* The second ready request starts a game between two players who are there; the
   first only marks its colour (room.go:80-98, distribute.go:73-94).            *)
LEMMA ReadyGood ==
    ASSUME NEW Users, NEW room \in RoomStates(Users), NEW user \in Users,
           NoUser \notin Users, IsPlayer(room, user), RoomGood(room)
    PROVE  /\ ReceiveReady(room, user) \in RoomStates(Users)
           /\ RoomGood(ReceiveReady(room, user))
           /\ ReceiveReady(room, user).chess \in {room.chess, ChessInit}
           /\ ReceiveReady(room, user).users = room.users
           /\ ReceiveReady(room, user).seat = room.seat
<1> DEFINE color == PlayerColor(room, user)
           new   == ReceiveReady(room, user)
<1>1. color \in Stones /\ room.seat[color] = user
  BY PlayerHoldsSeat
<1>2. CASE BothReady(room, color)
  <2>1. new = Start(Ready(room, color))
    BY <1>2 DEF ReceiveReady
  <2>2. /\ new \in RoomStates(Users)
        /\ new.seat = room.seat
        /\ new.users = room.users
        /\ new.ready = SPACE /\ new.regret = room.regret /\ new.tie = room.tie
        /\ new.playing = TRUE
        /\ new.chess = ChessInit
    BY <1>2, <2>1, ChessInitGood DEF Start, Ready, RoomStates, Colors
  <2>3. \A k \in Stones : room.seat[k] # NoUser
    BY <1>1, <1>2 DEF BothReady, Opponent, RoomGood, FlagsSeated, Stones, BLACK, WHITE
  <2>4. RoomGood(new)
    BY <2>2, <2>3 DEF RoomGood, FlagsSeated, SeatsDistinct
  <2>5. QED BY <2>2, <2>4
<1>3. CASE ~ BothReady(room, color)
  <2>1. new = Ready(room, color)
    BY <1>3 DEF ReceiveReady
  <2>2. /\ new \in RoomStates(Users)
        /\ new.seat = room.seat
        /\ new.users = room.users
        /\ new.ready = color /\ new.regret = room.regret /\ new.tie = room.tie
        /\ new.playing = room.playing
        /\ new.chess = room.chess
    BY <1>1, <1>3, <2>1 DEF Ready, RoomStates, Colors
  <2>3. RoomGood(new)
    BY <1>1, <2>2 DEF RoomGood, FlagsSeated, SeatsDistinct
  <2>4. QED BY <2>2, <2>3
<1>4. QED BY <1>2, <1>3

(* A stone touches nothing but the game. *)
LEMMA PlayGood ==
    ASSUME NEW Users, NEW room \in RoomStates(Users), NEW user, NEW move,
           NEW coor \in Byte, CanPlayStone(room, user, move, coor), RoomGood(room)
    PROVE  /\ PlayStone(room, coor) \in RoomStates(Users)
           /\ RoomGood(PlayStone(room, coor))
           /\ PlayStone(room, coor).chess = Stone(room.chess, coor)
           /\ PlayStone(room, coor).users = room.users
           /\ PlayStone(room, coor).seat = room.seat
<1> DEFINE new == PlayStone(room, coor)
<1>1. room.chess \in ChessStates /\ CanStone(room.chess, move, coor)
  BY DEF RoomStates, CanPlayStone
<1>2. Stone(room.chess, coor) \in ChessStates
  BY <1>1, StoneType
<1>3. /\ new \in RoomStates(Users)
      /\ new.seat = room.seat
      /\ new.users = room.users
      /\ new.ready = room.ready /\ new.regret = room.regret /\ new.tie = room.tie
      /\ new.playing = room.playing
      /\ new.chess = Stone(room.chess, coor)
  BY <1>2 DEF PlayStone, RoomStates
<1>4. QED BY <1>3 DEF RoomGood, FlagsSeated, SeatsDistinct

(* A request to take a move back is kept only for a player (room.go:100-108). *)
LEMMA AskRegretGood ==
    ASSUME NEW Users, NoUser \notin Users, NEW room \in RoomStates(Users),
           NEW user \in Users, RoomGood(room)
    PROVE  /\ Regret(room, user) \in RoomStates(Users)
           /\ RoomGood(Regret(room, user))
           /\ Regret(room, user).chess = room.chess
           /\ Regret(room, user).users = room.users
           /\ Regret(room, user).seat = room.seat
           /\ Regret(room, user).playing = room.playing
<1> DEFINE new == [room EXCEPT !.regret = PlayerColor(room, user)]
<1>1. CASE room.regret # SPACE
  BY <1>1 DEF Regret
<1>2. CASE room.regret = SPACE
  <2>1. Regret(room, user) = new
    BY <1>2 DEF Regret
  <2>2. PlayerColor(room, user) \in Colors
    BY DEF PlayerColor, Colors, Stones
  <2>3. /\ new \in RoomStates(Users)
        /\ new.seat = room.seat
        /\ new.users = room.users
        /\ new.ready = room.ready /\ new.tie = room.tie
        /\ new.regret = PlayerColor(room, user)
        /\ new.playing = room.playing
        /\ new.chess = room.chess
    BY <2>2 DEF RoomStates
  <2>4. PlayerColor(room, user) \in Stones => room.seat[PlayerColor(room, user)] # NoUser
    BY DEF PlayerColor, Stones, SPACE, BLACK, WHITE
  <2> HIDE DEF new
  <2>5. RoomGood(new)
    BY <2>3, <2>4 DEF RoomGood, FlagsSeated, SeatsDistinct
  <2>6. QED BY <2>1, <2>3, <2>5
<1>3. QED BY <1>1, <1>2

(* The same of an offered tie (room.go:122-130). *)
LEMMA AskTieGood ==
    ASSUME NEW Users, NoUser \notin Users, NEW room \in RoomStates(Users),
           NEW user \in Users, RoomGood(room)
    PROVE  /\ Tie(room, user) \in RoomStates(Users)
           /\ RoomGood(Tie(room, user))
           /\ Tie(room, user).chess = room.chess
           /\ Tie(room, user).users = room.users
           /\ Tie(room, user).seat = room.seat
<1> DEFINE new == [room EXCEPT !.tie = PlayerColor(room, user)]
<1>1. CASE room.tie # SPACE
  BY <1>1 DEF Tie
<1>2. CASE room.tie = SPACE
  <2>1. Tie(room, user) = new
    BY <1>2 DEF Tie
  <2>2. PlayerColor(room, user) \in Colors
    BY DEF PlayerColor, Colors, Stones
  <2>3. /\ new \in RoomStates(Users)
        /\ new.seat = room.seat
        /\ new.users = room.users
        /\ new.ready = room.ready /\ new.regret = room.regret
        /\ new.tie = PlayerColor(room, user)
        /\ new.playing = room.playing
        /\ new.chess = room.chess
    BY <2>2 DEF RoomStates
  <2>4. PlayerColor(room, user) \in Stones => room.seat[PlayerColor(room, user)] # NoUser
    BY DEF PlayerColor, Stones, SPACE, BLACK, WHITE
  <2> HIDE DEF new
  <2>5. RoomGood(new)
    BY <2>3, <2>4 DEF RoomGood, FlagsSeated, SeatsDistinct
  <2>6. QED BY <2>1, <2>3, <2>5
<1>3. QED BY <1>1, <1>2

(* An answered request is gone, and at most the game was rewound (room.go:110-120). *)
LEMMA ReplyRegretGood ==
    ASSUME NEW Users, NEW room \in RoomStates(Users), NEW user,
           CanReplyRegret(room, user), RoomGood(room)
    PROVE  /\ ReplyRegret(room, user) \in RoomStates(Users)
           /\ RoomGood(ReplyRegret(room, user))
           /\ LiveMoves(room.chess) => LiveMoves(ReplyRegret(room, user).chess)
           /\ ReplyRegret(room, user).users = room.users
           /\ ReplyRegret(room, user).seat = room.seat
<1> DEFINE asker == Opponent(PlayerColor(room, user))
           game  == IF CanRegret(room.chess, asker) THEN ChessRegret(room.chess, asker)
                                                    ELSE room.chess
           new   == [room EXCEPT !.regret = SPACE, !.chess = game]
<1>1. asker \in Stones
  BY PlayerHoldsSeat DEF CanReplyRegret, Opponent, Stones, BLACK, WHITE
<1>2. room.chess \in ChessStates
  BY DEF RoomStates
<1>3. game \in ChessStates /\ (LiveMoves(room.chess) => LiveMoves(game))
  BY <1>1, <1>2, RegretGood
<1>4. ReplyRegret(room, user) = new
  BY DEF ReplyRegret
<1> HIDE DEF game, asker
<1>5. /\ new \in RoomStates(Users)
      /\ new.seat = room.seat
      /\ new.users = room.users
      /\ new.ready = room.ready /\ new.regret = SPACE /\ new.tie = room.tie
      /\ new.playing = room.playing
      /\ new.chess = game
  BY <1>3 DEF RoomStates, Colors
<1> HIDE DEF new
<1>6. RoomGood(new)
  BY <1>5 DEF RoomGood, FlagsSeated, SeatsDistinct, Stones, SPACE, BLACK, WHITE
<1>7. QED BY <1>3, <1>4, <1>5, <1>6
-----------------------------------------------------------------------------
(* Which seats an operation touches *)

(* Joining fills one empty seat with the newcomer. *)
LEMMA SitSeats ==
    ASSUME NEW Users, NEW room \in RoomStates(Users), NEW user \in Users, CanSit(room)
    PROVE  /\ \A color \in Stones :
                 joinAsPlayer(room, user).seat[color] # room.seat[color] =>
                     /\ room.seat[color] = NoUser
                     /\ joinAsPlayer(room, user).seat[color] = user
           /\ joinAsPlayer(room, user).users = room.users \cup {user}
           /\ joinAsPlayer(room, user).chess = room.chess
           /\ joinAsPlayer(room, user).playing = room.playing
<1> DEFINE new == joinAsPlayer(room, user)
<1>1. FreeSeat(room) \in Stones /\ room.seat[FreeSeat(room)] = NoUser
  BY DEF CanSit, FreeSeat, Stones, BLACK, WHITE
<1>2. /\ new.seat = [room.seat EXCEPT ![FreeSeat(room)] = user]
      /\ new.users = room.users \cup {user}
      /\ new.chess = room.chess
      /\ new.playing = room.playing
  BY DEF joinAsPlayer, RoomStates
<1>3. room.seat \in [Stones -> Users \cup {NoUser}]
  BY DEF RoomStates
<1> HIDE DEF new
<1>4. \A color \in Stones : new.seat[color] # room.seat[color] =>
          room.seat[color] = NoUser /\ new.seat[color] = user
  BY <1>1, <1>2, <1>3
<1>5. QED BY <1>2, <1>4 DEF new

(* Looking on touches neither the seats nor the game. *)
LEMMA WatchSeats ==
    ASSUME NEW Users, NEW room \in RoomStates(Users), NEW user \in Users
    PROVE  /\ joinAsOnlooker(room, user).seat = room.seat
           /\ joinAsOnlooker(room, user).users = room.users \cup {user}
           /\ joinAsOnlooker(room, user).chess = room.chess
           /\ joinAsOnlooker(room, user).playing = room.playing
BY DEF joinAsOnlooker, RoomStates

(* Leaving empties only seats of the leaver, and only a player stops the game. *)
LEMMA LeaveSeats ==
    ASSUME NEW Users, NEW room \in RoomStates(Users), NEW user \in Users
    PROVE  /\ \A color \in Stones :
                 leave(room, user).seat[color] # room.seat[color] =>
                     /\ room.seat[color] = user
                     /\ leave(room, user).seat[color] = NoUser
           /\ leave(room, user).playing # room.playing => IsPlayer(room, user)
<1>1. CASE IsPlayer(room, user)
  <2>1. PlayerColor(room, user) \in Stones /\ room.seat[PlayerColor(room, user)] = user
    BY <1>1, PlayerHoldsSeat
  <2>2. leave(room, user).seat = [room.seat EXCEPT ![PlayerColor(room, user)] = NoUser]
    BY <1>1 DEF leave, Leave, RoomStates
  <2>3. room.seat \in [Stones -> Users \cup {NoUser}]
    BY DEF RoomStates
  <2>4. QED BY <1>1, <2>1, <2>2, <2>3
<1>2. CASE ~ IsPlayer(room, user)
  BY <1>2 DEF leave, RoomStates
<1>3. QED BY <1>1, <1>2
=============================================================================
