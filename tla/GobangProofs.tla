----------------------------- MODULE GobangProofs -----------------------------
(* The server, and the server with its clients, for every number of connections,
   rooms, joins and games and every board size: the safety properties of Server, that
   it implements tables, that clients and server together implement the server's
   specification, and what the clients show and send: the colour their windows
   offer, the record they show, and the stones they place.                      *)
EXTENDS Gobang, RoomProofs

-----------------------------------------------------------------------------
(* The server *)

(* The rooms: each is consistent, none shares a member with another, and every
   member is a user object that was made.  The last part is what the properties
   lack to be inductive: the next object made is in no room yet.                *)
RoomsInv ==
    /\ rooms \in [RoomIds -> RoomStates(Users)]
    /\ \A id \in RoomIds : /\ RoomGood(rooms[id])
                           /\ LiveMoves(rooms[id].chess)
                           /\ NoStrayStone(rooms[id].chess)
                           /\ \A u \in rooms[id].users : u.seq <= joins[u.conn]
    /\ \A id, other \in RoomIds :
          id # other => rooms[id].users \cap rooms[other].users = {}

(* The connections: a user is made for its own connection, and not before the
   connection was accepted.                                                     *)
ConnsInv ==
    /\ link   \in [Conns -> LinkStates]
    /\ pipe   \in [Conns -> PipeStates]
    /\ userOf \in [Conns -> Users \cup {NoUser}]
    /\ roomOf \in [Conns -> RoomIds \cup {NoRoom}]
    /\ joins  \in [Conns -> 0..MaxJoins]
    /\ \A c \in Conns : userOf[c] # NoUser => userOf[c].conn = c /\ pipe[c] # "idle"
    /\ RoomKnown

ServerInv == RoomsInv /\ ConnsInv /\ SeatReleased

-----------------------------------------------------------------------------
(* The initial state satisfies the invariant. *)
LEMMA ServerInit == Init => ServerInv
<1> SUFFICES ASSUME Init PROVE ServerInv
  OBVIOUS
<1>1. NewRoom.chess = ChessInit /\ NewRoom.users = {}
  BY DEF NewRoom
<1>2. NewRoom \in RoomStates(Users) /\ RoomGood(NewRoom)
  BY NewRoomGood
<1>3. \A id \in RoomIds : rooms[id] = NewRoom
  BY DEF Init
<1>4. RoomsInv
  BY <1>1, <1>2, <1>3, ChessInitGood DEF RoomsInv, Init
<1>5. ConnsInv
  BY ServerAssumption DEF ConnsInv, Init, LinkStates, PipeStates, RoomKnown
<1>6. SeatReleased
  BY DEF SeatReleased, Init
<1>7. QED BY <1>4, <1>5, <1>6 DEF ServerInv

-----------------------------------------------------------------------------
(* The connections *)

(* A request that is authenticated makes the next user object, which is in no
   room (mdwuser/database.go:130-161 builds a new one every time).              *)
LEMMA FreshUser ==
    ASSUME ServerInv, NEW c \in Conns, Authenticated(c)
    PROVE  /\ userOf'[c] \in Users
           /\ userOf'[c].conn = c
           /\ userOf'[c].seq = joins'[c]
           /\ userOf' = [userOf EXCEPT ![c] = userOf'[c]]
           /\ joins' = [joins EXCEPT ![c] = joins[c] + 1]
           /\ joins' \in [Conns -> 0..MaxJoins]
           /\ \A id \in RoomIds : userOf'[c] \notin rooms[id].users
<1>1. joins \in [Conns -> 0..MaxJoins] /\ userOf \in [Conns -> Users \cup {NoUser}]
      /\ MaxJoins \in Nat
  BY ServerAssumption DEF ServerInv, ConnsInv
<1>2. joins[c] < MaxJoins /\ joins' = [joins EXCEPT ![c] = joins[c] + 1]
  BY DEF Authenticated
<1>3. joins' \in [Conns -> 0..MaxJoins] /\ joins'[c] = joins[c] + 1 /\ joins'[c] \in 1..MaxJoins
  BY <1>1, <1>2
<1>4. userOf' = [userOf EXCEPT ![c] = [conn |-> c, seq |-> joins'[c]]]
  BY DEF Authenticated
<1>5. userOf'[c] = [conn |-> c, seq |-> joins'[c]]
  BY <1>1, <1>4
<1>6. userOf'[c] \in Users /\ userOf'[c].conn = c /\ userOf'[c].seq = joins'[c]
  BY <1>3, <1>5 DEF Users
<1>7. ASSUME NEW id \in RoomIds, userOf'[c] \in rooms[id].users PROVE FALSE
  <2>1. userOf'[c].seq <= joins[c]
    BY <1>6, <1>7 DEF ServerInv, RoomsInv
  <2>2. QED BY <1>1, <1>3, <1>6, <2>1
<1>8. QED BY <1>2, <1>3, <1>4, <1>5, <1>6, <1>7

(* Every step keeps what is known of the connections, and touches the payloads of
   the connection it serves only.                                               *)
LEMMA ConnsStep ==
    ASSUME ServerInv, NEW c \in Conns, Step(c)
    PROVE  /\ ConnsInv'
           /\ \A d \in Conns : d # c => /\ pipe'[d] = pipe[d]
                                        /\ userOf'[d] = userOf[d]
                                        /\ roomOf'[d] = roomOf[d]
                                        /\ joins'[d] = joins[d]
<1> DEFINE Others == \A d \in Conns : d # c => /\ pipe'[d] = pipe[d]
                                               /\ userOf'[d] = userOf[d]
                                               /\ roomOf'[d] = roomOf[d]
                                               /\ joins'[d] = joins[d]
<1>1. ConnsInv /\ NoUser \notin Users /\ NoRoom \notin RoomIds
  BY ServerAssumption DEF ServerInv
<1> USE <1>1
<1>2. CASE Accept(c)
  BY <1>2 DEF Accept, ConnsInv, RoomKnown, LinkStates, PipeStates
<1>3. CASE PeerCloses(c)
  BY <1>3 DEF PeerCloses, ConnsInv, RoomKnown, LinkStates
<1>4. CASE Read(c)
  BY <1>4 DEF Read, ConnsInv, RoomKnown, PipeStates
<1>5. CASE ReadFails(c)
  BY <1>5 DEF ReadFails, ConnsInv, RoomKnown, PipeStates
<1>6. CASE Disconnect(c)
  BY <1>6 DEF Disconnect, ConnsInv, RoomKnown, LinkStates, PipeStates
<1>7. CASE RejectAnonymous(c)
  BY <1>7 DEF RejectAnonymous, Stop, ConnsInv, RoomKnown, LinkStates, PipeStates
<1>8. CASE JoinDenied(c)
  BY <1>8 DEF JoinDenied, Stop, ConnsInv, RoomKnown, PipeStates
<1>9. CASE JoinRefused(c)
  <2>1. Authenticated(c) /\ pipe' = [pipe EXCEPT ![c] = "leaving"]
        /\ link' = link /\ roomOf' = roomOf
    BY <1>9 DEF JoinRefused, Stop
  <2>2. QED BY <2>1, FreshUser DEF ConnsInv, RoomKnown, PipeStates
<1>10. ASSUME NEW q \in JoinRequests, JoinAccepted(c, q) PROVE ConnsInv' /\ Others
  <2>1. /\ Authenticated(c) /\ pipe' = [pipe EXCEPT ![c] = "reading"]
        /\ link' = link /\ roomOf' = [roomOf EXCEPT ![c] = q.room] /\ q.room \in RoomIds
    BY <1>10 DEF JoinAccepted, Continue, Admitted
  <2>2. QED BY <2>1, FreshUser DEF ConnsInv, RoomKnown, PipeStates
<1>11. ASSUME NEW q \in JoinRequests, JoinReplyFails(c, q) PROVE ConnsInv' /\ Others
  <2>1. /\ Authenticated(c) /\ pipe' = [pipe EXCEPT ![c] = "leaving"]
        /\ link' = link /\ roomOf' = roomOf
    BY <1>11 DEF JoinReplyFails, Stop
  <2>2. QED BY <2>1, FreshUser DEF ConnsInv, RoomKnown, PipeStates
<1>12. CASE ReceiveFatalError(c)
  BY <1>12 DEF ReceiveFatalError, Serving, Continue, ConnsInv, RoomKnown, LinkStates, PipeStates
<1>13. CASE ReceiveLeaveRoom(c)
  BY <1>13 DEF ReceiveLeaveRoom, Serving, Continue, ConnsInv, RoomKnown, LinkStates, PipeStates
<1>14. CASE PlayerReady(c)
  BY <1>14 DEF PlayerReady, Broadcast, Serving, Continue, ConnsInv, RoomKnown, LinkStates, PipeStates
<1>15. ASSUME NEW move \in 0..MaxMoves-1, NEW coor \in Coors, ReceivePlayerStone(c, move, coor)
       PROVE  ConnsInv' /\ Others
  BY <1>15 DEF ReceivePlayerStone, Serving, Continue, ConnsInv, RoomKnown, PipeStates
<1>16. CASE ReceivePlayerRegret(c)
  BY <1>16 DEF ReceivePlayerRegret, Serving, Continue, ConnsInv, RoomKnown, PipeStates
<1>17. CASE NothingToDo(c)
  BY <1>17 DEF NothingToDo, Serving, Continue, ConnsInv, RoomKnown, PipeStates
<1>18. QED
  BY <1>2, <1>3, <1>4, <1>5, <1>6, <1>7, <1>8, <1>9, <1>10, <1>11, <1>12, <1>13, <1>14,
     <1>15, <1>16, <1>17
  DEF Step, Handle
-----------------------------------------------------------------------------
(* The rooms *)

(* Replacing one room by a consistent one keeps the invariant of all rooms, if
   its new members, if any, were made by now and are in no other room.          *)
LEMMA RoomUpdate ==
    ASSUME ServerInv, NEW id \in RoomIds, NEW new \in RoomStates(Users),
           rooms' = [rooms EXCEPT ![id] = new],
           RoomGood(new), LiveMoves(new.chess), NoStrayStone(new.chess),
           joins' \in [Conns -> 0..MaxJoins],
           \A c \in Conns : joins[c] <= joins'[c],
           \A u \in new.users : \/ u \in rooms[id].users
                               \/ /\ u.seq <= joins'[u.conn]
                                  /\ \A other \in RoomIds : u \notin rooms[other].users
    PROVE  RoomsInv'
<1>1. rooms \in [RoomIds -> RoomStates(Users)] /\ joins \in [Conns -> 0..MaxJoins]
  BY DEF ServerInv, RoomsInv, ConnsInv
<1>2. rooms' \in [RoomIds -> RoomStates(Users)]
  BY <1>1
<1>3. rooms'[id] = new /\ \A k \in RoomIds : k # id => rooms'[k] = rooms[k]
  BY <1>1
<1>4. \A k \in RoomIds : rooms'[k].users \subseteq Users
  BY <1>2 DEF RoomStates
<1>5. ASSUME NEW k \in RoomIds, NEW u \in rooms[k].users PROVE u.seq <= joins'[u.conn]
  <2>1. u \in Users /\ u.seq <= joins[u.conn]
    BY <1>1, <1>5 DEF ServerInv, RoomsInv, RoomStates
  <2>2. u.seq \in Int /\ u.conn \in Conns
    BY <2>1, ServerAssumption DEF Users
  <2>3. joins[u.conn] \in Int /\ joins'[u.conn] \in Int /\ joins[u.conn] <= joins'[u.conn]
    BY <1>1, <2>2
  <2>4. QED BY <2>1, <2>2, <2>3
<1>6. ASSUME NEW k \in RoomIds, NEW u \in rooms'[k].users PROVE u.seq <= joins'[u.conn]
  BY <1>3, <1>5, <1>6
<1>7. ASSUME NEW k \in RoomIds
      PROVE  RoomGood(rooms'[k]) /\ LiveMoves(rooms'[k].chess) /\ NoStrayStone(rooms'[k].chess)
  BY <1>3 DEF ServerInv, RoomsInv
<1>8. ASSUME NEW k \in RoomIds, NEW other \in RoomIds, k # other
      PROVE  rooms'[k].users \cap rooms'[other].users = {}
  BY <1>3, <1>8 DEF ServerInv, RoomsInv
<1>9. QED BY <1>2, <1>6, <1>7, <1>8 DEF RoomsInv

(* An admitted join puts the new user object into the room asked for, reply or
   no reply (mdwroom/view.go:31-37).                                            *)
LEMMA JoinGood ==
    ASSUME ServerInv, NEW c \in Conns, NEW q \in JoinRequests, Authenticated(c), Admitted(q),
           rooms' = [rooms EXCEPT ![q.room] = Place(q, userOf'[c])]
    PROVE  /\ RoomsInv'
           /\ \A id \in RoomIds, color \in Stones :
                 rooms'[id].seat[color] # rooms[id].seat[color] =>
                     rooms[id].seat[color] = NoUser /\ rooms'[id].seat[color] = userOf'[c]
           /\ \A id \in RoomIds : /\ rooms'[id].chess = rooms[id].chess
                                  /\ rooms'[id].playing = rooms[id].playing
<1> DEFINE user == userOf'[c]
           old  == rooms[q.room]
           new  == Place(q, user)
<1>1. /\ user \in Users /\ user.conn = c /\ user.seq = joins'[c]
      /\ joins' = [joins EXCEPT ![c] = joins[c] + 1]
      /\ joins' \in [Conns -> 0..MaxJoins]
      /\ \A id \in RoomIds : user \notin rooms[id].users
  BY FreshUser
<1>2. /\ q.room \in RoomIds /\ old \in RoomStates(Users) /\ NoUser \notin Users
      /\ RoomGood(old) /\ LiveMoves(old.chess) /\ NoStrayStone(old.chess)
      /\ user \notin old.users
      /\ rooms \in [RoomIds -> RoomStates(Users)] /\ joins \in [Conns -> 0..MaxJoins]
  BY <1>1, ServerAssumption DEF Admitted, ServerInv, RoomsInv, ConnsInv
<1>3. /\ new \in RoomStates(Users) /\ RoomGood(new) /\ new.chess = old.chess
      /\ new.users = old.users \cup {user} /\ new.playing = old.playing
      /\ \A color \in Stones : new.seat[color] # old.seat[color] =>
             old.seat[color] = NoUser /\ new.seat[color] = user
  <2> HIDE DEF user, old
  <2>1. CASE q.role = "P"
    <3>1. new = joinAsPlayer(old, user) /\ CanSit(old)
      BY <2>1 DEF Place, Admitted, old
    <3>2. QED BY <1>1, <1>2, <3>1, SitGood, SitSeats
  <2>2. CASE q.role # "P"
    <3>1. new = joinAsOnlooker(old, user)
      BY <2>2 DEF Place, old
    <3>2. QED BY <1>1, <1>2, <3>1, WatchGood, WatchSeats
  <2>3. QED BY <2>1, <2>2
<1> HIDE DEF user, old, new
<1>4. \A d \in Conns : joins[d] <= joins'[d]
  BY <1>1, <1>2
<1>5. \A u \in new.users : \/ u \in old.users
                           \/ /\ u.seq <= joins'[u.conn]
                              /\ \A other \in RoomIds : u \notin rooms[other].users
  <2>1. user.seq <= joins'[user.conn]
    BY <1>1
  <2>2. QED BY <1>1, <1>3, <2>1
<1>6. RoomsInv'
  BY <1>1, <1>2, <1>3, <1>4, <1>5, RoomUpdate DEF old, new, user
<1>7. rooms'[q.room] = new /\ \A id \in RoomIds : id # q.room => rooms'[id] = rooms[id]
  BY <1>2 DEF new, user
<1>8. QED BY <1>3, <1>6, <1>7 DEF old, user

(* processUserLeave keeps the rooms consistent, empties only the seats of the user
   of its own connection, and stops only that user's game (mdwroom/view.go:117-140). *)
LEMMA LeavesGood ==
    ASSUME ServerInv, NEW c \in Conns, UserLeaves(c), joins' = joins
    PROVE  /\ RoomsInv'
           /\ \A id \in RoomIds, color \in Stones :
                 rooms'[id].seat[color] # rooms[id].seat[color] =>
                     rooms'[id].seat[color] = NoUser /\ rooms[id].seat[color] = userOf[c]
           /\ \A id \in RoomIds : /\ rooms'[id].chess = rooms[id].chess
                                  /\ rooms'[id].playing # rooms[id].playing =>
                                        roomOf[c] = id /\ IsPlayer(rooms[id], userOf[c])
           /\ roomOf[c] # NoRoom /\ userOf[c] # NoUser => ~ IsPlayer(rooms'[roomOf[c]], userOf[c])
<1>1. CASE roomOf[c] # NoRoom /\ userOf[c] # NoUser
  <2> DEFINE id   == roomOf[c]
             user == userOf[c]
             old  == rooms[id]
             new  == leave(old, user)
  <2>1. /\ id \in RoomIds /\ user \in Users /\ old \in RoomStates(Users) /\ NoUser \notin Users
        /\ RoomGood(old) /\ LiveMoves(old.chess) /\ NoStrayStone(old.chess)
        /\ rooms \in [RoomIds -> RoomStates(Users)] /\ joins \in [Conns -> 0..MaxJoins]
    BY <1>1, ServerAssumption DEF ServerInv, RoomsInv, ConnsInv
  <2>2. rooms' = [rooms EXCEPT ![id] = new]
    BY <1>1 DEF UserLeaves
  <2> HIDE DEF id, user, old
  <2>3. /\ new \in RoomStates(Users) /\ RoomGood(new) /\ new.chess = old.chess
        /\ new.users \subseteq old.users /\ ~ IsPlayer(new, user)
    BY <2>1, LeaveGood
  <2>4. /\ \A color \in Stones : new.seat[color] # old.seat[color] =>
               old.seat[color] = user /\ new.seat[color] = NoUser
        /\ new.playing # old.playing => IsPlayer(old, user)
    BY <2>1, LeaveSeats
  <2> HIDE DEF new
  <2>5. \A d \in Conns : joins[d] <= joins'[d]
    BY <2>1
  <2>6. RoomsInv'
    BY <2>1, <2>2, <2>3, <2>5, RoomUpdate DEF old
  <2>7. rooms'[id] = new /\ \A k \in RoomIds : k # id => rooms'[k] = rooms[k]
    BY <2>1, <2>2
  <2>8. QED BY <2>3, <2>4, <2>6, <2>7 DEF old, id, user
<1>2. CASE ~ (roomOf[c] # NoRoom /\ userOf[c] # NoUser)
  <2>1. rooms' = rooms
    BY <1>2 DEF UserLeaves
  <2>2. QED BY <1>2, <2>1 DEF ServerInv, RoomsInv
<1>3. QED BY <1>1, <1>2

(* A request that rewrites the room of its connection: Ready, PlayerStone and
   PlayerRegret leave seats and members alone.                                  *)
LEMMA RoomRequestGood ==
    ASSUME ServerInv, NEW c \in Conns, Serving(c), joins' = joins,
           NEW new \in RoomStates(Users), rooms' = [rooms EXCEPT ![roomOf[c]] = new],
           RoomGood(new), LiveMoves(new.chess), NoStrayStone(new.chess),
           new.seat = rooms[roomOf[c]].seat, new.users = rooms[roomOf[c]].users
    PROVE  /\ RoomsInv'
           /\ \A id \in RoomIds : rooms'[id].seat = rooms[id].seat
           /\ \A id \in RoomIds : id # roomOf[c] => rooms'[id] = rooms[id]
           /\ rooms'[roomOf[c]] = new
<1>1. /\ roomOf[c] \in RoomIds /\ rooms \in [RoomIds -> RoomStates(Users)]
      /\ joins \in [Conns -> 0..MaxJoins]
  BY DEF Serving, ServerInv, RoomsInv, ConnsInv
<1>2. \A d \in Conns : joins[d] <= joins'[d]
  BY <1>1
<1>3. RoomsInv'
  BY <1>1, <1>2, RoomUpdate
<1>4. QED BY <1>1, <1>3

(* What is known of the room a request is served in. *)
LEMMA ServedRoom ==
    ASSUME ServerInv, NEW c \in Conns, Serving(c)
    PROVE  /\ userOf[c] \in Users /\ NoUser \notin Users
           /\ rooms[roomOf[c]] \in RoomStates(Users)
           /\ rooms[roomOf[c]].chess \in ChessStates
           /\ RoomGood(rooms[roomOf[c]])
           /\ LiveMoves(rooms[roomOf[c]].chess)
           /\ NoStrayStone(rooms[roomOf[c]].chess)
<1>1. roomOf[c] \in RoomIds /\ userOf[c] \in Users /\ NoUser \notin Users
  BY ServerAssumption DEF Serving, ServerInv, ConnsInv
<1>2. rooms[roomOf[c]] \in RoomStates(Users)
  BY <1>1 DEF ServerInv, RoomsInv
<1>3. QED BY <1>1, <1>2 DEF ServerInv, RoomsInv, RoomStates

-----------------------------------------------------------------------------
(* One step *)

(* How the seats and the running games of all rooms may change in a step of the
   connection c.                                                                *)
SeatsChange(c) ==
    \A id \in RoomIds, color \in Stones :
        rooms'[id].seat[color] # rooms[id].seat[color] =>
            /\ pipe'[c] # pipe[c]
            /\ \/ /\ rooms[id].seat[color] = NoUser
                  /\ rooms'[id].seat[color] = userOf'[c] /\ userOf'[c] \in Users
               \/ /\ rooms'[id].seat[color] = NoUser
                  /\ rooms[id].seat[color] = userOf[c] /\ userOf[c] \in Users

GamesChange(c) ==
    \A id \in RoomIds :
        /\ rooms[id].playing
        /\ rooms'[id].chess # rooms[id].chess \/ ~ rooms'[id].playing
        => roomOf[c] = id /\ IsPlayer(rooms[id], userOf[c])

(* Every step keeps the rooms consistent, moves only seats of its own user and
   disturbs only its own player's game.                                         *)
LEMMA RoomsStep ==
    ASSUME ServerInv, NEW c \in Conns, Step(c)
    PROVE  RoomsInv' /\ SeatsChange(c) /\ GamesChange(c)
<1> DEFINE Goal == RoomsInv' /\ SeatsChange(c) /\ GamesChange(c)
<1>1. /\ pipe \in [Conns -> PipeStates] /\ userOf \in [Conns -> Users \cup {NoUser}]
      /\ NoUser \notin Users
      /\ rooms \in [RoomIds -> RoomStates(Users)]
  BY ServerAssumption DEF ServerInv, ConnsInv, RoomsInv
<1>2. ASSUME rooms' = rooms, joins' = joins PROVE Goal
  BY <1>2 DEF ServerInv, RoomsInv, SeatsChange, GamesChange
<1>3. \A id \in RoomIds, color \in Stones : rooms[id].seat[color] \in Users \cup {NoUser}
  BY <1>1 DEF RoomStates
<1>4. CASE Disconnect(c)
  <2>1. UserLeaves(c) /\ joins' = joins /\ pipe'[c] # pipe[c]
    BY <1>1, <1>4 DEF Disconnect
  <2>2. QED BY <1>3, <2>1, LeavesGood DEF SeatsChange, GamesChange
<1>5. CASE ReceiveLeaveRoom(c)
  <2>1. UserLeaves(c) /\ joins' = joins /\ pipe'[c] # pipe[c]
    BY <1>1, <1>5 DEF ReceiveLeaveRoom, Serving, Continue
  <2>2. QED BY <1>3, <2>1, LeavesGood DEF SeatsChange, GamesChange
<1>6. CASE JoinRefused(c)
  <2>1. Authenticated(c) /\ rooms' = rooms
    BY <1>6 DEF JoinRefused
  <2>2. joins \in [Conns -> 0..MaxJoins] /\ joins' \in [Conns -> 0..MaxJoins]
        /\ \A d \in Conns : joins[d] <= joins'[d]
    BY <2>1, FreshUser DEF ServerInv, ConnsInv
  <2>3. ASSUME NEW id \in RoomIds, NEW u \in rooms[id].users PROVE u.seq <= joins'[u.conn]
    <3>1. u \in Users /\ u.seq <= joins[u.conn]
      BY <1>1 DEF ServerInv, RoomsInv, RoomStates
    <3>2. u.seq \in Int /\ u.conn \in Conns
      BY <3>1, ServerAssumption DEF Users
    <3>3. QED BY <2>2, <3>1, <3>2
  <2>4. RoomsInv'
    BY <2>1, <2>3 DEF ServerInv, RoomsInv
  <2>5. QED BY <2>1, <2>4 DEF SeatsChange, GamesChange
<1>7. ASSUME NEW q \in JoinRequests, Authenticated(c), Admitted(q), pipe'[c] # pipe[c],
             rooms' = [rooms EXCEPT ![q.room] = Place(q, userOf'[c])]
      PROVE  Goal
  <2>1. userOf'[c] \in Users
    BY <1>7, FreshUser
  <2>2. QED BY <1>7, <2>1, JoinGood DEF SeatsChange, GamesChange
<1>8. ASSUME NEW q \in JoinRequests, JoinAccepted(c, q) PROVE Goal
  <2>1. pipe'[c] # pipe[c]
    BY <1>1, <1>8 DEF JoinAccepted, Authenticated, Continue
  <2> HIDE DEF Goal
  <2>2. QED BY <1>7, <1>8, <2>1 DEF JoinAccepted
<1>9. ASSUME NEW q \in JoinRequests, JoinReplyFails(c, q) PROVE Goal
  <2>1. pipe'[c] # pipe[c]
    BY <1>1, <1>9 DEF JoinReplyFails, Authenticated, Stop
  <2> HIDE DEF Goal
  <2>2. QED BY <1>7, <1>9, <2>1 DEF JoinReplyFails
<1>10. CASE PlayerReady(c)
  <2> DEFINE new == ReceiveReady(rooms[roomOf[c]], userOf[c])
  <2>1. /\ Serving(c) /\ IsPlayer(rooms[roomOf[c]], userOf[c]) /\ joins' = joins
        /\ rooms' = [rooms EXCEPT ![roomOf[c]] = new]
    BY <1>10 DEF PlayerReady
  <2>2. /\ new \in RoomStates(Users) /\ RoomGood(new)
        /\ LiveMoves(new.chess) /\ NoStrayStone(new.chess)
        /\ new.seat = rooms[roomOf[c]].seat /\ new.users = rooms[roomOf[c]].users
    BY <2>1, ServedRoom, ReadyGood, ChessInitGood
  <2> HIDE DEF new
  <2>3. QED BY <2>1, <2>2, RoomRequestGood DEF SeatsChange, GamesChange
<1>11. ASSUME NEW move \in 0..MaxMoves-1, NEW coor \in Coors, ReceivePlayerStone(c, move, coor)
       PROVE  Goal
  <2> DEFINE old == rooms[roomOf[c]]
             new == PlayStone(old, coor)
  <2>1. /\ Serving(c) /\ CanPlayStone(old, userOf[c], move, coor) /\ joins' = joins
        /\ rooms' = [rooms EXCEPT ![roomOf[c]] = new]
        /\ coor \in Byte
    BY <1>11, ServerAssumption DEF ReceivePlayerStone
  <2>2. /\ old \in RoomStates(Users) /\ RoomGood(old) /\ old.chess \in ChessStates
        /\ LiveMoves(old.chess) /\ NoStrayStone(old.chess)
        /\ CanStone(old.chess, move, coor) /\ IsPlayer(old, userOf[c])
    BY <2>1, ServedRoom DEF CanPlayStone
  <2>3. /\ new \in RoomStates(Users) /\ RoomGood(new) /\ new.chess = Stone(old.chess, coor)
        /\ new.seat = old.seat /\ new.users = old.users
    <3> HIDE DEF old
    <3>1. QED BY <2>1, <2>2, PlayGood
  <2>4. LiveMoves(new.chess) /\ NoStrayStone(new.chess)
    <3> HIDE DEF old, new
    <3>1. QED BY <2>1, <2>2, <2>3, StoneLive, StoneNoStray
  <2> HIDE DEF new
  <2>5. QED BY <2>1, <2>2, <2>3, <2>4, RoomRequestGood DEF SeatsChange, GamesChange
<1>12. CASE ReceivePlayerRegret(c)
  <2> DEFINE old == rooms[roomOf[c]]
             new == Regret(old, userOf[c])
  <2>1. Serving(c) /\ joins' = joins /\ rooms' = [rooms EXCEPT ![roomOf[c]] = new]
    BY <1>12 DEF ReceivePlayerRegret
  <2>2. /\ new \in RoomStates(Users) /\ RoomGood(new) /\ new.chess = old.chess
        /\ new.seat = old.seat /\ new.users = old.users /\ new.playing = old.playing
        /\ LiveMoves(new.chess) /\ NoStrayStone(new.chess)
    BY <2>1, ServedRoom, AskRegretGood
  <2> HIDE DEF new
  <2>3. /\ RoomsInv' /\ \A id \in RoomIds : rooms'[id].seat = rooms[id].seat
        /\ \A id \in RoomIds : id # roomOf[c] => rooms'[id] = rooms[id]
        /\ rooms'[roomOf[c]] = new
    BY <2>1, <2>2, RoomRequestGood
  <2>4. \A id \in RoomIds : rooms'[id].chess = rooms[id].chess /\ rooms'[id].playing = rooms[id].playing
    BY <2>2, <2>3, Zenon
  <2>5. QED BY <2>3, <2>4, Zenon DEF SeatsChange, GamesChange
<1>13. CASE \/ Accept(c) \/ PeerCloses(c) \/ Read(c) \/ ReadFails(c) \/ RejectAnonymous(c)
            \/ JoinDenied(c) \/ ReceiveFatalError(c) \/ NothingToDo(c)
  <2>1. rooms' = rooms /\ joins' = joins
    BY <1>13 DEF Accept, PeerCloses, Read, ReadFails, RejectAnonymous, JoinDenied,
                 ReceiveFatalError, NothingToDo
  <2>2. QED BY <1>2, <2>1
<1> HIDE DEF Goal
<1>14. Goal
  BY <1>4, <1>5, <1>6, <1>8, <1>9, <1>10, <1>11, <1>12, <1>13 DEF Step, Handle, Goal
<1>15. QED BY <1>14 DEF Goal

(* When a goroutine ends it has given up the seat of its user, and nobody else can
   take a seat in that user's name.                                             *)
LEMMA ReleasedStep ==
    ASSUME ServerInv, NEW c \in Conns, Step(c)
    PROVE  SeatReleased'
<1>1. /\ ConnsInv' /\ ConnsInv
      /\ \A d \in Conns : d # c => /\ pipe'[d] = pipe[d] /\ userOf'[d] = userOf[d]
                                   /\ roomOf'[d] = roomOf[d]
  BY ConnsStep DEF ServerInv
<1>2. SeatsChange(c)
  BY RoomsStep
<1>3. SUFFICES ASSUME NEW d \in Conns, pipe'[d] = "done", userOf'[d] # NoUser, roomOf'[d] # NoRoom
               PROVE  ~ IsPlayer(rooms'[roomOf'[d]], userOf'[d])
  BY DEF SeatReleased
<1>4. CASE pipe[d] = "done" /\ userOf'[d] = userOf[d] /\ roomOf'[d] = roomOf[d]
  <2> DEFINE id == roomOf[d]
             user == userOf[d]
  <2>1. id \in RoomIds /\ user \in Users /\ user.conn = d /\ ~ IsPlayer(rooms[id], user)
    BY <1>1, <1>3, <1>4 DEF ConnsInv, ServerInv, SeatReleased
  <2>2. user # NoUser
    BY <1>3, <1>4
  <2>3. \A color \in Stones : rooms[id].seat[color] # user
    BY <2>1 DEF IsPlayer, PlayerColor, Stones, BLACK, WHITE, SPACE
  <2>4. ASSUME NEW color \in Stones, rooms'[id].seat[color] = user PROVE FALSE
    <3>1. pipe'[c] # pipe[c] /\ userOf'[c] = user
      BY <1>2, <2>1, <2>2, <2>3, <2>4 DEF SeatsChange
    <3>2. c = d
      BY <1>1, <2>1, <2>2, <3>1 DEF ConnsInv
    <3>3. QED BY <1>3, <1>4, <3>1, <3>2
  <2>5. ~ IsPlayer(rooms'[id], user)
    BY <2>4 DEF IsPlayer, PlayerColor, Stones
  <2>6. QED BY <1>4, <2>5
<1>5. CASE ~ (pipe[d] = "done" /\ userOf'[d] = userOf[d] /\ roomOf'[d] = roomOf[d])
  <2>1. d = c
    BY <1>1, <1>3, <1>5
  <2>2. CASE Disconnect(c)
    <3>1. UserLeaves(c) /\ joins' = joins /\ userOf' = userOf /\ roomOf' = roomOf
      BY <2>2 DEF Disconnect
    <3>2. QED BY <1>3, <2>1, <3>1, LeavesGood
  <2>3. CASE PeerCloses(c)
    BY <1>3, <1>5, <2>1, <2>3 DEF PeerCloses
  <2>4. CASE Accept(c) \/ Read(c) \/ ReadFails(c) \/ Handle(c)
    <3>1. pipe'[c] \in {"reading", "waiting", "leaving"}
      BY <1>1, <2>4 DEF ConnsInv, Accept, Read, ReadFails, Handle, RejectAnonymous, JoinDenied,
           JoinRefused, JoinAccepted, JoinReplyFails, ReceiveFatalError, ReceiveLeaveRoom,
           PlayerReady, ReceivePlayerStone, ReceivePlayerRegret, NothingToDo, Stop, Continue
    <3>2. QED BY <1>3, <2>1, <3>1
  <2>5. QED BY <2>2, <2>3, <2>4 DEF Step
<1>6. QED BY <1>4, <1>5

(* The invariant is inductive. *)
LEMMA ServerNext == ServerInv /\ [Next]_vars => ServerInv'
<1> SUFFICES ASSUME ServerInv, [Next]_vars PROVE ServerInv'
  OBVIOUS
<1>1. ASSUME NEW c \in Conns, Step(c) PROVE ServerInv'
  BY <1>1, ConnsStep, RoomsStep, ReleasedStep DEF ServerInv
<1>2. CASE UNCHANGED vars
  BY <1>2 DEF vars, ServerInv, RoomsInv, ConnsInv, SeatReleased, RoomKnown
<1>3. QED BY <1>1, <1>2 DEF Next

(* The invariant holds always. *)
LEMMA ServerAlways == Spec => []ServerInv
<1>1. QED BY ServerInit, ServerNext, PTL DEF Spec

-----------------------------------------------------------------------------
(* Types. *)
THEOREM ServerTypes == Spec => []TypeOK
<1>1. ServerInv => TypeOK
  BY DEF ServerInv, RoomsInv, ConnsInv, TypeOK
<1>2. QED BY <1>1, ServerAlways, PTL

(* No endpoint dereferences a nil room, for any number of connections and any
   interleaving of their requests, failures and repeated joins.                 *)
THEOREM RoomAlwaysKnown == Spec => []RoomKnown
<1>1. ServerInv => RoomKnown
  BY DEF ServerInv, ConnsInv
<1>2. QED BY <1>1, ServerAlways, PTL

(* No game of any room ever starts or goes on with an empty seat. *)
THEOREM RequestsAlwaysSeated == Spec => []RequestsSeated
<1>1. ServerInv => RequestsSeated
  BY DEF ServerInv, RoomsInv, RoomGood, RequestsSeated
<1>2. QED BY <1>1, ServerAlways, PTL

(* A user object holds at most one seat of one room. *)
THEOREM SeatsAlwaysConsistent == Spec => []SeatsConsistent
<1>1. ServerInv => SeatsConsistent
  BY DEF ServerInv, RoomsInv, RoomGood, SeatsConsistent
<1>2. QED BY <1>1, ServerAlways, PTL

(* The board of every room is the replay of its record. *)
THEOREM BoardAlwaysRecord == Spec => []BoardIsRecord
<1>1. ServerInv => BoardIsRecord
  BY DEF ServerInv, RoomsInv, BoardIsRecord
<1>2. QED BY <1>1, ServerAlways, PTL

(* A finished goroutine whose join was completed holds no seat any more. *)
THEOREM SeatAlwaysReleased == Spec => []SeatReleased
<1>1. ServerInv => SeatReleased
  BY DEF ServerInv
<1>2. QED BY <1>1, ServerAlways, PTL

(* Seats are taken and given up by their own connections only. *)
THEOREM SeatNeverStolen == Spec => SeatNotStolen
<1> DEFINE Kept ==
        \A id \in RoomIds, color \in Stones :
          LET before == rooms[id].seat[color]
              after  == rooms'[id].seat[color]
          IN  before # after =>
                  \/ before = NoUser /\ pipe[after.conn] # pipe'[after.conn]
                                     /\ after = userOf'[after.conn]
                  \/ after = NoUser /\ pipe[before.conn] # pipe'[before.conn]
                                    /\ before = userOf[before.conn]
<1>1. ASSUME ServerInv, [Next]_vars PROVE [Kept]_vars
  <2>1. ASSUME NEW c \in Conns, Step(c) PROVE Kept
    <3>1. SeatsChange(c) /\ ConnsInv /\ ConnsInv' /\ NoUser \notin Users
      BY <1>1, <2>1, RoomsStep, ConnsStep, ServerAssumption DEF ServerInv
    <3>2. /\ userOf[c] \in Users => userOf[c].conn = c
          /\ userOf'[c] \in Users => userOf'[c].conn = c
      BY <3>1 DEF ConnsInv
    <3>3. QED BY <3>1, <3>2 DEF SeatsChange
  <2> HIDE DEF Kept
  <2>2. QED BY <1>1, <2>1 DEF Next
<1>2. SeatNotStolen <=> [][Kept]_vars
  BY DEF SeatNotStolen
<1> HIDE DEF Kept
<1>3. QED BY <1>1, <1>2, ServerAlways, PTL DEF Spec

(* A running game is disturbed by its own two players only. *)
THEOREM GamesForPlayersOnly == Spec => PlayersOnly
<1> DEFINE Undisturbed ==
        \A id \in RoomIds, c \in Conns :
          /\ rooms[id].playing
          /\ rooms'[id].chess # rooms[id].chess \/ ~ rooms'[id].playing
          /\ pipe'[c] # pipe[c]
          => roomOf[c] = id /\ IsPlayer(rooms[id], userOf[c])
<1>1. ASSUME ServerInv, [Next]_vars PROVE [Undisturbed]_vars
  <2>1. ASSUME NEW c \in Conns, Step(c) PROVE Undisturbed
    <3>1. GamesChange(c) /\ \A d \in Conns : d # c => pipe'[d] = pipe[d]
      BY <1>1, <2>1, RoomsStep, ConnsStep
    <3>2. QED BY <3>1, Zenon DEF GamesChange
  <2> HIDE DEF Undisturbed
  <2>2. QED BY <1>1, <2>1 DEF Next
<1>2. PlayersOnly <=> [][Undisturbed]_vars
  BY DEF PlayersOnly
<1> HIDE DEF Undisturbed
<1>3. QED BY <1>1, <1>2, ServerAlways, PTL DEF Spec

-----------------------------------------------------------------------------
(* The rooms as tables *)

SeatMap == [id \in RoomIds |-> rooms[id].seat]

PlayingMap == [id \in RoomIds |-> rooms[id].playing]

MovesOf(chess) == [i \in DOMAIN chess.record |-> parseCoor(chess.record[i])]

MovesMap == [id \in RoomIds |-> MovesOf(rooms[id].chess)]

(* Replacing one room replaces the three things seen of its table. *)
LEMMA TableUpdate ==
    ASSUME rooms \in [RoomIds -> RoomStates(Users)], NEW id \in RoomIds, NEW new,
           rooms' = [rooms EXCEPT ![id] = new]
    PROVE  /\ SeatMap' = [SeatMap EXCEPT ![id] = new.seat]
           /\ PlayingMap' = [PlayingMap EXCEPT ![id] = new.playing]
           /\ MovesMap' = [MovesMap EXCEPT ![id] = MovesOf(new.chess)]
<1>1. \A k \in RoomIds : rooms'[k] = IF k = id THEN new ELSE rooms[k]
  OBVIOUS
<1>2. SeatMap' = [SeatMap EXCEPT ![id] = new.seat]
  BY <1>1 DEF SeatMap
<1>3. PlayingMap' = [PlayingMap EXCEPT ![id] = new.playing]
  BY <1>1 DEF PlayingMap
<1>4. MovesMap' = [MovesMap EXCEPT ![id] = MovesOf(new.chess)]
  <2>1. \A k \in RoomIds : MovesOf(rooms'[k].chess) = IF k = id THEN MovesOf(new.chess)
                                                              ELSE MovesOf(rooms[k].chess)
    BY <1>1
  <2>2. MovesMap' = [k \in RoomIds |-> MovesOf(rooms'[k].chess)]
    BY DEF MovesMap, MovesOf
  <2>3. QED BY <2>1, <2>2 DEF MovesMap
<1>5. QED BY <1>2, <1>3, <1>4

(* A step that leaves these three alone in the room it replaces stutters. *)
LEMMA TableStutters ==
    ASSUME rooms \in [RoomIds -> RoomStates(Users)], NEW id \in RoomIds, NEW new,
           rooms' = [rooms EXCEPT ![id] = new],
           new.seat = rooms[id].seat, new.playing = rooms[id].playing,
           new.chess = rooms[id].chess
    PROVE  UNCHANGED <<SeatMap, PlayingMap, MovesMap>>
<1>1. \A k \in RoomIds : /\ rooms'[k].seat = rooms[k].seat
                         /\ rooms'[k].playing = rooms[k].playing
                         /\ rooms'[k].chess = rooms[k].chess
  OBVIOUS
<1>2. SeatMap' = SeatMap /\ PlayingMap' = PlayingMap
  BY <1>1 DEF SeatMap, PlayingMap
<1>3. MovesMap' = [k \in RoomIds |-> MovesOf(rooms'[k].chess)]
  BY DEF MovesMap, MovesOf
<1>4. MovesMap' = MovesMap
  BY <1>1, <1>3 DEF MovesMap
<1>5. QED BY <1>2, <1>4

(* The initial state of AsTables, and below its actions, said of these maps. *)
LEMMA TablesInit ==
    /\ SeatMap = [t \in RoomIds |-> [c \in Stones |-> NoUser]]
    /\ PlayingMap = [t \in RoomIds |-> FALSE]
    /\ MovesMap = [t \in RoomIds |-> << >>]
    => AsTables!Init
BY DEF AsTables!Init, SeatMap, PlayingMap, MovesMap, MovesOf

(* What leaves the three maps alone is nothing to the tables. *)
LEMMA TablesStutter ==
    UNCHANGED <<SeatMap, PlayingMap, MovesMap>> => UNCHANGED AsTables!vars
BY DEF AsTables!vars, SeatMap, PlayingMap, MovesMap, MovesOf

(* SitDown: somebody who sat nowhere takes a free seat. *)
LEMMA TablesSitDown ==
    ASSUME NEW t \in RoomIds, NEW c \in Stones, NEW p \in Users,
           SeatMap[t][c] = NoUser,
           \A other \in RoomIds, d \in Stones : SeatMap[other][d] # p,
           SeatMap' = [SeatMap EXCEPT ![t] = [@ EXCEPT ![c] = p]],
           PlayingMap' = PlayingMap, MovesMap' = MovesMap
    PROVE  AsTables!Next
<1>1. AsTables!SitDown(t, c, p)
  BY DEF AsTables!SitDown, SeatMap, PlayingMap, MovesMap, MovesOf
<1>2. QED BY <1>1 DEF AsTables!Next

(* GetUp: a seat becomes free and its game is over. *)
LEMMA TablesGetUp ==
    ASSUME NEW t \in RoomIds, NEW c \in Stones,
           SeatMap[t][c] # NoUser,
           SeatMap' = [SeatMap EXCEPT ![t] = [@ EXCEPT ![c] = NoUser]],
           PlayingMap' = [PlayingMap EXCEPT ![t] = FALSE], MovesMap' = MovesMap
    PROVE  AsTables!Next
<1>1. AsTables!GetUp(t, c)
  BY DEF AsTables!GetUp, SeatMap, PlayingMap, MovesMap, MovesOf
<1>2. QED BY <1>1 DEF AsTables!Next

(* Begin: both seats are taken and the board is empty again. *)
LEMMA TablesBegin ==
    ASSUME NEW t \in RoomIds,
           \A c \in Stones : SeatMap[t][c] # NoUser,
           PlayingMap' = [PlayingMap EXCEPT ![t] = TRUE],
           MovesMap' = [MovesMap EXCEPT ![t] = << >>], SeatMap' = SeatMap
    PROVE  AsTables!Next
<1>1. AsTables!Begin(t)
  BY DEF AsTables!Begin, SeatMap, PlayingMap, MovesMap, MovesOf
<1>2. QED BY <1>1 DEF AsTables!Next

(* Place: one more cell, which the game did not have. *)
LEMMA TablesPlace ==
    ASSUME NEW t \in RoomIds, NEW cell \in Cells,
           PlayingMap[t],
           \A i \in 1..Len(MovesMap[t]) : MovesMap[t][i] # cell,
           MovesMap' = [MovesMap EXCEPT ![t] = Append(@, cell)],
           SeatMap' = SeatMap, PlayingMap' = PlayingMap
    PROVE  AsTables!Next
<1>1. AsTables!Place(t, cell)
  BY DEF AsTables!Place, SeatMap, PlayingMap, MovesMap, MovesOf
<1>2. QED BY <1>1 DEF AsTables!Next

(* Somebody leaves: the seat becomes free and the game is over, or an onlooker goes
   of whom the tables know nothing (room.go:56-78, mdwroom/room.go:64-80).      *)
LEMMA LeavesTable ==
    ASSUME ServerInv, NEW c \in Conns, UserLeaves(c)
    PROVE  [AsTables!Next]_AsTables!vars
<1> DEFINE id   == roomOf[c]
           user == userOf[c]
           old  == rooms[id]
           new  == leave(old, user)
<1>1. rooms \in [RoomIds -> RoomStates(Users)]
  BY DEF ServerInv, RoomsInv
<1>2. CASE rooms' = rooms
  <2>1. UNCHANGED <<SeatMap, PlayingMap, MovesMap>>
    BY <1>2 DEF SeatMap, PlayingMap, MovesMap, MovesOf
  <2>2. QED BY <2>1, TablesStutter
<1>3. CASE rooms' # rooms
  <2>1. /\ id \in RoomIds /\ user \in Users /\ old \in RoomStates(Users)
        /\ NoUser \notin Users /\ rooms' = [rooms EXCEPT ![id] = new]
    BY <1>1, <1>3, ServerAssumption DEF UserLeaves, ServerInv, ConnsInv
  <2> HIDE DEF id, user
  <2>2. CASE IsPlayer(old, user)
    <3> DEFINE color == PlayerColor(old, user)
    <3>1. color \in Stones /\ old.seat[color] = user
      BY <2>2, PlayerHoldsSeat
    <3>2. /\ new.seat = [old.seat EXCEPT ![color] = NoUser]
          /\ new.playing = FALSE /\ new.chess = old.chess
      BY <2>1, <2>2 DEF leave, Leave, RoomStates
    <3> HIDE DEF color, new
    <3>3. /\ SeatMap' = [SeatMap EXCEPT ![id] = new.seat]
          /\ PlayingMap' = [PlayingMap EXCEPT ![id] = new.playing]
          /\ MovesMap' = [MovesMap EXCEPT ![id] = MovesOf(new.chess)]
      BY <1>1, <2>1, TableUpdate
    <3>4. SeatMap[id] = old.seat /\ MovesMap[id] = MovesOf(new.chess)
      BY <2>1, <3>2 DEF SeatMap, MovesMap
    <3>5. MovesMap' = MovesMap
      BY <2>1, <3>3, <3>4 DEF MovesMap
    <3>6. /\ SeatMap' = [SeatMap EXCEPT ![id] = [@ EXCEPT ![color] = NoUser]]
          /\ PlayingMap' = [PlayingMap EXCEPT ![id] = FALSE]
          /\ SeatMap[id][color] # NoUser
      BY <2>1, <3>1, <3>2, <3>3, <3>4
    <3>7. QED BY <2>1, <3>1, <3>5, <3>6, TablesGetUp
  <2>3. CASE ~ IsPlayer(old, user)
    <3>1. new.seat = old.seat /\ new.playing = old.playing /\ new.chess = old.chess
      BY <2>1, <2>3 DEF leave, RoomStates
    <3> HIDE DEF new
    <3>2. UNCHANGED <<SeatMap, PlayingMap, MovesMap>>
      BY <1>1, <2>1, <3>1, TableStutters
    <3>3. QED BY <3>2, TablesStutter
  <2>4. QED BY <2>2, <2>3
<1>4. QED BY <1>2, <1>3

(* Somebody joins: a new user object, which sits nowhere yet, takes a free seat, or
   looks on (mdwroom/view.go:31-37).                                            *)
LEMMA JoinTable ==
    ASSUME ServerInv, NEW c \in Conns, NEW q \in JoinRequests, Authenticated(c), Admitted(q),
           rooms' = [rooms EXCEPT ![q.room] = Place(q, userOf'[c])]
    PROVE  [AsTables!Next]_AsTables!vars
<1> DEFINE user == userOf'[c]
           id   == q.room
           old  == rooms[id]
           new  == Place(q, user)
<1>1. /\ rooms \in [RoomIds -> RoomStates(Users)] /\ id \in RoomIds
      /\ old \in RoomStates(Users) /\ user \in Users /\ NoUser \notin Users
      /\ \A k \in RoomIds : user \notin rooms[k].users
  BY FreshUser, ServerAssumption DEF ServerInv, RoomsInv, Admitted
<1>2. \A k \in RoomIds, d \in Stones : rooms[k].seat[d] # user
  BY <1>1 DEF ServerInv, RoomsInv, RoomGood, SeatsDistinct
<1> HIDE DEF user
<1>3. CASE q.role = "P"
  <2> DEFINE color == FreeSeat(old)
  <2>1. color \in Stones /\ old.seat[color] = NoUser
    BY <1>3 DEF Admitted, CanSit, FreeSeat, Stones, BLACK, WHITE
  <2>2. /\ new.seat = [old.seat EXCEPT ![color] = user]
        /\ new.playing = old.playing /\ new.chess = old.chess
    BY <1>1, <1>3 DEF Place, joinAsPlayer, RoomStates
  <2> HIDE DEF color, new
  <2>3. /\ SeatMap' = [SeatMap EXCEPT ![id] = new.seat]
        /\ PlayingMap' = [PlayingMap EXCEPT ![id] = new.playing]
        /\ MovesMap' = [MovesMap EXCEPT ![id] = MovesOf(new.chess)]
    BY <1>1, TableUpdate DEF new, user
  <2>4. /\ \A k \in RoomIds : SeatMap[k] = rooms[k].seat
        /\ PlayingMap[id] = new.playing /\ MovesMap[id] = MovesOf(new.chess)
    BY <1>1, <2>2 DEF SeatMap, PlayingMap, MovesMap
  <2>5. PlayingMap' = PlayingMap /\ MovesMap' = MovesMap
    BY <1>1, <2>3, <2>4 DEF PlayingMap, MovesMap
  <2>6. SeatMap[id] = old.seat
    BY <1>1, <2>4
  <2>7. SeatMap' = [SeatMap EXCEPT ![id] = [@ EXCEPT ![color] = user]]
    BY <2>2, <2>3, <2>6
  <2>8. \A k \in RoomIds, d \in Stones : SeatMap[k][d] # user
    BY <1>2, <2>4
  <2>9. QED BY <1>1, <2>1, <2>5, <2>6, <2>7, <2>8, TablesSitDown
<1>4. CASE q.role # "P"
  <2>1. new.seat = old.seat /\ new.playing = old.playing /\ new.chess = old.chess
    BY <1>1, <1>4 DEF Place, joinAsOnlooker, RoomStates
  <2> HIDE DEF new
  <2>2. UNCHANGED <<SeatMap, PlayingMap, MovesMap>>
    BY <1>1, <2>1, TableStutters DEF new, user
  <2>3. QED BY <2>2, TablesStutter
<1>5. QED BY <1>3, <1>4

(* Both are ready: a game begins on an empty board.  One is: nothing happens that
   the tables know of (distribute.go:73-94).                                    *)
LEMMA ReadyTable ==
    ASSUME ServerInv, NEW c \in Conns, PlayerReady(c)
    PROVE  [AsTables!Next]_AsTables!vars
<1> DEFINE id   == roomOf[c]
           user == userOf[c]
           old  == rooms[id]
           new  == ReceiveReady(old, user)
           color == PlayerColor(old, user)
<1>1. /\ rooms \in [RoomIds -> RoomStates(Users)] /\ id \in RoomIds
      /\ old \in RoomStates(Users) /\ RoomGood(old)
      /\ rooms' = [rooms EXCEPT ![id] = new]
      /\ color \in Stones /\ old.seat[color] = user /\ user \in Users /\ NoUser \notin Users
  BY ServedRoom, PlayerHoldsSeat DEF PlayerReady, Serving, ServerInv, RoomsInv, ConnsInv
<1>2. CASE BothReady(old, color)
  <2>1. new.seat = old.seat /\ new.playing = TRUE /\ new.chess = ChessInit
    BY <1>1, <1>2 DEF ReceiveReady, Start, Ready, RoomStates
  <2>2. \A d \in Stones : old.seat[d] # NoUser
    <3>1. old.seat[Opponent(color)] # NoUser
      BY <1>1, <1>2 DEF BothReady, RoomGood, FlagsSeated, Opponent, Stones, BLACK, WHITE
    <3>2. \A d \in Stones : d = color \/ d = Opponent(color)
      BY <1>1 DEF Opponent, Stones, BLACK, WHITE
    <3>3. QED BY <1>1, <3>1, <3>2
  <2>3. MovesOf(ChessInit) = << >>
    BY DEF MovesOf, ChessInit
  <2> HIDE DEF new, color
  <2>4. /\ SeatMap' = [SeatMap EXCEPT ![id] = new.seat]
        /\ PlayingMap' = [PlayingMap EXCEPT ![id] = new.playing]
        /\ MovesMap' = [MovesMap EXCEPT ![id] = MovesOf(new.chess)]
    BY <1>1, TableUpdate
  <2>5. SeatMap[id] = old.seat /\ SeatMap' = SeatMap
    BY <1>1, <2>1, <2>4 DEF SeatMap
  <2>6. QED BY <1>1, <2>1, <2>2, <2>3, <2>4, <2>5, TablesBegin
<1>3. CASE ~ BothReady(old, color)
  <2>1. new.seat = old.seat /\ new.playing = old.playing /\ new.chess = old.chess
    BY <1>1, <1>3 DEF ReceiveReady, Ready, RoomStates
  <2> HIDE DEF new, color
  <2>2. UNCHANGED <<SeatMap, PlayingMap, MovesMap>>
    BY <1>1, <2>1, TableStutters
  <2>3. QED BY <2>2, TablesStutter
<1>4. QED BY <1>2, <1>3

(* A stone that passes every test takes a cell that no move of the record has
   (chess.go:31-50).                                                            *)
LEMMA StoneTable ==
    ASSUME ServerInv, NEW c \in Conns, NEW move \in 0..MaxMoves-1, NEW coor \in Coors,
           ReceivePlayerStone(c, move, coor)
    PROVE  [AsTables!Next]_AsTables!vars
<1> DEFINE id   == roomOf[c]
           old  == rooms[id]
           new  == PlayStone(old, coor)
           cell == parseCoor(coor)
<1>1. /\ rooms \in [RoomIds -> RoomStates(Users)] /\ id \in RoomIds
      /\ old \in RoomStates(Users) /\ LiveMoves(old.chess)
      /\ rooms' = [rooms EXCEPT ![id] = new]
      /\ old.playing /\ CanStone(old.chess, move, coor) /\ coor \in Byte
  BY ServedRoom, ServerAssumption
  DEF ReceivePlayerStone, CanPlayStone, Serving, ServerInv, RoomsInv, ConnsInv
<1>2. /\ new.seat = old.seat /\ new.playing = old.playing
      /\ new.chess.record = Append(old.chess.record, coor)
  BY <1>1 DEF PlayStone, Stone, RoomStates
<1>3. cell \in Cells /\ old.chess.board[cell] = SPACE /\ old.chess.record \in Seq(Byte)
  BY <1>1, ValidCell DEF CanStone, RoomStates, ChessStates
<1>4. \A i \in 1..Len(old.chess.record) : parseCoor(old.chess.record[i]) # cell
  BY <1>1, <1>3 DEF LiveMoves, SPACE
<1>5. MovesOf(new.chess) = Append(MovesOf(old.chess), cell)
      /\ \A i \in 1..Len(MovesOf(old.chess)) : MovesOf(old.chess)[i] # cell
  <2> DEFINE rec  == old.chess.record
             more == new.chess.record
             seen == MovesOf(old.chess)
             n    == Len(rec)
  <2>1. rec \in Seq(Byte) /\ n \in Nat /\ more = Append(rec, coor)
    BY <1>2, <1>3
  <2>2. /\ seen = [i \in 1..n |-> parseCoor(rec[i])]
        /\ MovesOf(new.chess) = [i \in DOMAIN more |-> parseCoor(more[i])]
    BY <1>3 DEF MovesOf
  <2> HIDE DEF rec, more, n, cell, new
  <2>3. DOMAIN more = 1..n+1 /\ \A i \in 1..n+1 : more[i] = IF i = n + 1 THEN coor ELSE rec[i]
    BY <2>1 DEF n
  <2>4. MovesOf(new.chess) = [i \in 1..n+1 |-> IF i = n + 1 THEN cell ELSE seen[i]]
    BY <2>1, <2>2, <2>3 DEF cell
  <2>5. seen \in Seq(Cells) /\ Len(seen) = n
    <3>1. \A i \in 1..n : parseCoor(rec[i]) \in Cells
      BY <1>1 DEF LiveMoves, n, rec
    <3> HIDE DEF seen
    <3>2. QED BY <2>1, <2>2, <3>1
  <2> DEFINE all == MovesOf(new.chess)
  <2> HIDE DEF seen, all
  <2>6. all \in Seq(Cells) /\ Len(all) = n + 1
    <3>1. cell \in Cells /\ n + 1 \in Nat /\ n + 1 = Len(seen) + 1
      BY <1>3, <2>1, <2>5 DEF cell
    <3>2. all = [i \in 1..n+1 |-> IF i = n + 1 THEN cell ELSE seen[i]]
      BY <2>4 DEF all
    <3>3. \A i \in 1..n+1 : (IF i = n + 1 THEN cell ELSE seen[i]) \in Cells
      BY <2>1, <2>5, <3>1
    <3> HIDE DEF cell, all
    <3>4. QED BY <3>1, <3>2, <3>3
  <2>7. /\ Append(seen, cell) \in Seq(Cells) /\ Len(Append(seen, cell)) = n + 1
        /\ \A i \in 1..n+1 : Append(seen, cell)[i] = IF i = n + 1 THEN cell ELSE seen[i]
    BY <1>3, <2>1, <2>5 DEF cell
  <2>8. \A i \in 1..n+1 : all[i] = Append(seen, cell)[i]
    BY <2>4, <2>7 DEF all
  <2>9. all = Append(seen, cell)
    BY <2>6, <2>7, <2>8, SeqEqual
  <2>10. \A i \in 1..Len(seen) : seen[i] # cell
    BY <1>4, <2>2, <2>5 DEF n, rec
  <2>11. QED BY <2>9, <2>10 DEF seen, all
<1> HIDE DEF new, cell
<1>7. /\ SeatMap' = [SeatMap EXCEPT ![id] = new.seat]
      /\ PlayingMap' = [PlayingMap EXCEPT ![id] = new.playing]
      /\ MovesMap' = [MovesMap EXCEPT ![id] = MovesOf(new.chess)]
  BY <1>1, TableUpdate
<1>8. MovesMap[id] = MovesOf(old.chess) /\ PlayingMap[id]
  BY <1>1 DEF MovesMap, PlayingMap
<1>9. SeatMap' = SeatMap /\ PlayingMap' = PlayingMap
  BY <1>1, <1>2, <1>7 DEF SeatMap, PlayingMap
<1>10. MovesMap' = [MovesMap EXCEPT ![id] = Append(@, cell)]
  BY <1>5, <1>7, <1>8
<1>11. QED BY <1>1, <1>3, <1>5, <1>8, <1>9, <1>10, TablesPlace

(* Each step of the server is one of the tables or nothing to them. *)
LEMMA TableStep ==
    ASSUME ServerInv, [Next]_vars
    PROVE  [AsTables!Next]_AsTables!vars
<1>1. ASSUME rooms' = rooms PROVE [AsTables!Next]_AsTables!vars
  <2>1. UNCHANGED <<SeatMap, PlayingMap, MovesMap>>
    BY <1>1 DEF SeatMap, PlayingMap, MovesMap, MovesOf
  <2>2. QED BY <2>1, TablesStutter
<1>2. CASE UNCHANGED vars
  BY <1>1, <1>2 DEF vars
<1>3. ASSUME NEW c \in Conns, Step(c) PROVE [AsTables!Next]_AsTables!vars
  <2>1. CASE Disconnect(c) \/ ReceiveLeaveRoom(c)
    BY <2>1, LeavesTable DEF Disconnect, ReceiveLeaveRoom
  <2>2. ASSUME NEW q \in JoinRequests, JoinAccepted(c, q) \/ JoinReplyFails(c, q)
        PROVE  [AsTables!Next]_AsTables!vars
    BY <2>2, JoinTable DEF JoinAccepted, JoinReplyFails
  <2>3. CASE PlayerReady(c)
    BY <2>3, ReadyTable
  <2>4. ASSUME NEW move \in 0..MaxMoves-1, NEW coor \in Coors, ReceivePlayerStone(c, move, coor)
        PROVE  [AsTables!Next]_AsTables!vars
    BY <2>4, StoneTable
  <2>5. CASE ReceivePlayerRegret(c)
    <3> DEFINE old == rooms[roomOf[c]]
               new == Regret(old, userOf[c])
    <3>1. /\ rooms \in [RoomIds -> RoomStates(Users)] /\ roomOf[c] \in RoomIds
          /\ rooms' = [rooms EXCEPT ![roomOf[c]] = new]
      BY <2>5 DEF ReceivePlayerRegret, Serving, ServerInv, RoomsInv, ConnsInv
    <3>2. new.seat = old.seat /\ new.playing = old.playing /\ new.chess = old.chess
      BY <3>1 DEF Regret, RoomStates
    <3> HIDE DEF new
    <3>3. UNCHANGED <<SeatMap, PlayingMap, MovesMap>>
      BY <3>1, <3>2, TableStutters
    <3>4. QED BY <3>3, TablesStutter
  <2>6. CASE \/ Accept(c) \/ PeerCloses(c) \/ Read(c) \/ ReadFails(c) \/ RejectAnonymous(c)
             \/ JoinDenied(c) \/ JoinRefused(c) \/ ReceiveFatalError(c) \/ NothingToDo(c)
    <3>1. rooms' = rooms
      BY <2>6 DEF Accept, PeerCloses, Read, ReadFails, RejectAnonymous, JoinDenied,
                  JoinRefused, ReceiveFatalError, NothingToDo
    <3>2. QED BY <1>1, <3>1
  <2>7. QED BY <1>3, <2>1, <2>2, <2>3, <2>4, <2>5, <2>6 DEF Step, Handle
<1>4. QED BY <1>2, <1>3 DEF Next

(* The server implements the tables: for any number of connections, rooms and users,
   and whatever fails, what its players see are two people at a table who take free
   cells (game/room.go, mdwroom/room.go, chess.go).                             *)
THEOREM TablesImplemented == Spec => ImplementsTables
<1>1. Init => AsTables!Init
  <2> SUFFICES ASSUME Init PROVE AsTables!Init
    OBVIOUS
  <2>1. \A t \in RoomIds : rooms[t] = NewRoom
    BY DEF Init
  <2>2. /\ NewRoom.seat = [c \in Stones |-> NoUser] /\ NewRoom.playing = FALSE
        /\ MovesOf(NewRoom.chess) = << >>
    BY DEF NewRoom, MovesOf, ChessInit
  <2>3. QED BY <2>1, <2>2, TablesInit DEF SeatMap, PlayingMap, MovesMap
<1>2. QED BY <1>1, TableStep, ServerAlways, PTL DEF Spec, ImplementsTables, AsTables!Spec

-----------------------------------------------------------------------------
(* Clients and server *)

IsSequence(s) == \E S : s \in Seq(S)

(* A request the server's specification knows: a join asks for a room of the list,
   a stone for one of the moves and coordinates that are tried.                 *)
Known(q) ==
    /\ q.op = "join"  => q.query \in JoinRequests
    /\ q.op = "stone" => q.move \in 0..MaxMoves - 1 /\ q.coor \in Coors

KnownOnly(s) == IsSequence(s) /\ \A i \in 1..Len(s) : Known(s[i])

(* Only requests the server knows are under way. *)
RequestsInv ==
    /\ DOMAIN c2s = Conns
    /\ \A c \in Conns : KnownOnly(c2s[c])

-----------------------------------------------------------------------------
(* Sequences *)

(* A channel stays a channel of known requests when a known one is sent. *)
LEMMA KnownAppend ==
    ASSUME NEW s, NEW q, KnownOnly(s), Known(q)
    PROVE  KnownOnly(Append(s, q))
<1>1. PICK S : s \in Seq(S)
  BY DEF KnownOnly, IsSequence
<1> DEFINE T == S \cup {q}
<1>2. s \in Seq(T) /\ q \in T
  BY <1>1
<1> HIDE DEF T
<1>3. /\ Append(s, q) \in Seq(T)
      /\ Len(Append(s, q)) = Len(s) + 1
      /\ \A i \in 1..Len(s) : Append(s, q)[i] = s[i]
      /\ Append(s, q)[Len(s) + 1] = q
      /\ Len(s) \in Nat
  BY <1>2
<1>4. \A i \in 1..Len(Append(s, q)) : Known(Append(s, q)[i])
  <2> SUFFICES ASSUME NEW i \in 1..Len(Append(s, q)) PROVE Known(Append(s, q)[i])
    OBVIOUS
  <2>1. i \in 1..Len(s) \/ i = Len(s) + 1
    BY <1>3
  <2>2. QED BY <1>3, <2>1 DEF KnownOnly
<1>5. QED BY <1>3, <1>4 DEF KnownOnly, IsSequence

(* The first request is a known one, and so are those behind it. *)
LEMMA KnownTail ==
    ASSUME NEW s, KnownOnly(s), s # << >>
    PROVE  KnownOnly(Tail(s)) /\ Known(Head(s))
<1>1. PICK S : s \in Seq(S)
  BY DEF KnownOnly, IsSequence
<1>2. /\ Tail(s) \in Seq(S)
      /\ Len(s) \in Nat /\ Len(s) > 0
      /\ Len(Tail(s)) = Len(s) - 1
      /\ \A i \in 1..Len(Tail(s)) : Tail(s)[i] = s[i + 1] /\ i + 1 \in 1..Len(s)
      /\ Head(s) = s[1] /\ 1 \in 1..Len(s)
  BY <1>1
<1>3. QED BY <1>2 DEF KnownOnly, IsSequence

-----------------------------------------------------------------------------
(* Every step is a step of the server, or none *)

(* The client's end of a connection goes: the server finds the peer gone, or has
   closed the connection already (server_game_room.cpp:219-223).                *)
LEMMA GoneIsPeerCloses ==
    ASSUME ConnsInv, NEW c \in Conns, Gone(c)
    PROVE  PeerCloses(c) \/ UNCHANGED vars
<1>1. link \in [Conns -> LinkStates]
  BY DEF ConnsInv
<1>2. CASE link[c] = "up"
  BY <1>1, <1>2 DEF Gone, PeerCloses
<1>3. CASE link[c] # "up"
  <2>1. link' = [link EXCEPT ![c] = link[c]]
    BY <1>3 DEF Gone
  <2>2. link' = link
    BY <1>1, <2>1
  <2>3. QED BY <2>2 DEF Gone, vars
<1>4. QED BY <1>2, <1>3

(* A request at the head of a channel is known to the server. *)
LEMMA HandledKnown ==
    ASSUME RequestsInv, NEW c \in Conns, NEW op, Handled(c, op)
    PROVE  Known(Request(c)) /\ Request(c).op = op /\ RequestsInv'
<1>1. c2s[c] # << >> /\ KnownOnly(c2s[c])
  BY DEF RequestsInv, Handled
<1>2. KnownOnly(Tail(c2s[c])) /\ Known(Head(c2s[c]))
  BY <1>1, KnownTail
<1>3. c2s' = [c2s EXCEPT ![c] = Tail(c2s[c])]
  BY DEF Handled
<1>4. RequestsInv'
  BY <1>2, <1>3 DEF RequestsInv
<1>5. QED BY <1>2, <1>4 DEF Request, Handled

(* What the server does in the composition, it does in its own specification. *)
LEMMA ServerSide ==
    ASSUME RequestsInv, NEW c \in Conns, ServerStep(c)
    PROVE  Step(c) /\ RequestsInv'
<1>1. ASSUME UNCHANGED c2s PROVE RequestsInv'
  BY <1>1 DEF RequestsInv
<1>2. CASE ServerRead(c)
  BY <1>1, <1>2 DEF ServerRead, clientVars, Step
<1>3. CASE ServerReadFails(c)
  BY <1>1, <1>3 DEF ServerReadFails, clientVars, Step
<1>4. CASE ServerDisconnect(c)
  BY <1>1, <1>4 DEF ServerDisconnect, Step
<1>5. CASE HandleJoinDenied(c)
  BY <1>5, HandledKnown DEF HandleJoinDenied, Step, Handle
<1>6. CASE HandleJoinRefused(c)
  BY <1>6, HandledKnown DEF HandleJoinRefused, Step, Handle
<1>7. CASE HandleJoin(c)
  <2>1. Request(c).query \in JoinRequests /\ RequestsInv'
    BY <1>7, HandledKnown DEF HandleJoin, Known
  <2>2. QED BY <1>7, <2>1 DEF HandleJoin, Step, Handle
<1>8. CASE HandleJoinReplyFails(c)
  <2>1. Request(c).query \in JoinRequests /\ RequestsInv'
    BY <1>8, HandledKnown DEF HandleJoinReplyFails, Known
  <2>2. QED BY <1>8, <2>1 DEF HandleJoinReplyFails, Step, Handle
<1>9. CASE HandleLeave(c)
  BY <1>9, HandledKnown DEF HandleLeave, Step, Handle
<1>10. CASE HandleReady(c)
  BY <1>10, HandledKnown DEF HandleReady, Step, Handle
<1>11. CASE HandleStone(c)
  <2>1. Request(c).move \in 0..MaxMoves - 1 /\ Request(c).coor \in Coors /\ RequestsInv'
    BY <1>11, HandledKnown DEF HandleStone, Known
  <2>2. QED BY <1>11, <2>1 DEF HandleStone, Step, Handle
<1>12. CASE HandleNothing(c)
  BY <1>12, HandledKnown DEF HandleNothing, Step, Handle
<1>13. QED
  BY <1>2, <1>3, <1>4, <1>5, <1>6, <1>7, <1>8, <1>9, <1>10, <1>11, <1>12 DEF ServerStep

(* What is sent is known to the server. *)
LEMMA SendKnown ==
    ASSUME RequestsInv, NEW c \in Conns, NEW q, Known(q), Send(c, q)
    PROVE  RequestsInv'
<1>1. KnownOnly(Append(c2s[c], q))
  BY KnownAppend DEF RequestsInv
<1>2. c2s' = [c2s EXCEPT ![c] = Append(c2s[c], q)]
  BY DEF Send
<1>3. QED BY <1>1, <1>2 DEF RequestsInv

(* What a client does, the server's specification sees as a new connection, a peer
   that goes away, or nothing.                                                  *)
LEMMA ClientSide ==
    ASSUME ConnsInv, RequestsInv, NEW c \in Conns, ClientStep(c)
    PROVE  (Step(c) \/ UNCHANGED vars) /\ RequestsInv'
<1>1. ASSUME UNCHANGED c2s PROVE RequestsInv'
  BY <1>1 DEF RequestsInv
<1>2. CASE Connect(c)
  <2>1. PICK id \in RoomIds, letter \in {"P", "O"} :
           Send(c, [op |-> "join", query |-> [room |-> id, role |-> letter]])
    BY <1>2 DEF Connect
  <2>2. RoomIds \subseteq 0..Len(ConfigRooms)
    BY ServerAssumption DEF RoomIds, MaxRooms
  <2>3. Known([op |-> "join", query |-> [room |-> id, role |-> letter]])
    BY <2>1, <2>2 DEF Known, JoinRequests
  <2>4. QED BY <1>2, <2>1, <2>3, SendKnown DEF Connect, Step
<1>3. ASSUME Gone(c) PROVE Step(c) \/ UNCHANGED vars
  BY <1>3, GoneIsPeerCloses DEF Step
<1>4. CASE Listen(c) \/ OpenWindows(c) \/ Quit(c)
  BY <1>1, <1>3, <1>4 DEF Listen, OpenWindows, Quit, ReceiveYouJoinRoom, ReceiveDenied, Receive,
     ReceiveGameOver, StreamEnds
<1>5. CASE ClickLeave(c)
  BY <1>5, SendKnown DEF ClickLeave, Known
<1>6. CASE ClickReady(c)
  BY <1>6, SendKnown DEF ClickReady, Known
<1>7. ASSUME NEW coor \in Coors, ClickStone(c, coor) PROVE UNCHANGED vars /\ RequestsInv'
  <2> DEFINE n == Len(view[c].record)
             q == [op |-> "stone", move |-> n % 256, coor |-> coor, seen |-> view[c].record]
  <2>1. n \in 0..MaxMoves - 1 /\ Send(c, q) /\ UNCHANGED vars
    BY <1>7 DEF ClickStone
  <2>2. Known(q)
    <3> HIDE DEF n
    <3>1. n % 256 \in 0..MaxMoves - 1
      BY <2>1, ServerAssumption
    <3>2. QED BY <1>7, <3>1 DEF Known
  <2>3. QED BY <2>1, <2>2, SendKnown
<1>8. QED BY <1>2, <1>4, <1>5, <1>6, <1>7 DEF ClientStep

(* A step of the composition is a step of the server or leaves it alone, and the
   requests under way stay known to it.                                         *)
LEMMA GobangStep ==
    ASSUME ConnsInv, RequestsInv, [GobangNext]_gobangVars
    PROVE  [Next]_vars /\ RequestsInv'
<1>1. CASE UNCHANGED gobangVars
  BY <1>1 DEF gobangVars, clientVars, RequestsInv
<1>2. ASSUME NEW c \in Conns, ServerStep(c) PROVE [Next]_vars /\ RequestsInv'
  BY <1>2, ServerSide DEF Next
<1>3. ASSUME NEW c \in Conns, ClientStep(c) PROVE [Next]_vars /\ RequestsInv'
  BY <1>3, ClientSide DEF Next
<1>4. QED BY <1>1, <1>2, <1>3 DEF GobangNext

(* The server driven by its clients: its invariant, and the known requests that make
   every step one of its own.                                                   *)
LEMMA GobangAlways == GobangSpec => [](ServerInv /\ RequestsInv)
<1>1. GobangInit => ServerInv /\ RequestsInv
  <2> SUFFICES ASSUME GobangInit PROVE ServerInv /\ RequestsInv
    OBVIOUS
  <2>1. ServerInv
    BY ServerInit DEF GobangInit
  <2>2. DOMAIN c2s = Conns /\ \A c \in Conns : c2s[c] = << >>
    BY DEF GobangInit
  <2>3. << >> \in Seq({}) /\ Len(<< >>) = 0
    OBVIOUS
  <2>4. KnownOnly(<< >>)
    BY <2>3 DEF KnownOnly, IsSequence
  <2>5. QED BY <2>1, <2>2, <2>4 DEF RequestsInv
<1>2. ServerInv /\ RequestsInv /\ [GobangNext]_gobangVars => (ServerInv /\ RequestsInv)'
  BY GobangStep, ServerNext DEF ServerInv
<1>3. QED BY <1>1, <1>2, PTL DEF GobangSpec
-----------------------------------------------------------------------------
(* Windows and seats *)

(* The kinds of the messages and of the requests in a channel. *)
TypesOf(s) == {s[i].type : i \in 1..Len(s)}

OpsOf(s) == {s[i].op : i \in 1..Len(s)}

(* The seat the server holds for a client, and what a colour shown to it may be: once
   the seat is lost, the windows may still offer it, but never another one.     *)
ColorOf(c) == PlayerColor(rooms[roomOf[c]], userOf[c])

Right(c, color) == roomOf[c] # NoRoom /\ (color # SPACE => ColorOf(c) \in {color, SPACE})

(* Whoever has a room has joined. *)
Joined(c) == roomOf[c] # NoRoom => userOf[c] # NoUser /\ joins[c] # 0

(* A copy of a room has its parts. *)
IsView(v) ==
    /\ v = [black |-> v.black, white |-> v.white, ready |-> v.ready,
            playing |-> v.playing, record |-> v.record]
    /\ IsSequence(v.record)

(* Before its join is handled nothing is written to a client, and it waits. *)
Newcomer(c) ==
    joins[c] = 0 =>
        /\ userOf[c] = NoUser /\ roomOf[c] = NoRoom
        /\ pipe[c] \in {"idle", "reading", "waiting"} => s2c[c] = << >> /\ view[c] = NewView
        /\ pipe[c] \in {"reading", "waiting"} => phase[c] \in {"joining", "out"}
        /\ "stone" \notin OpsOf(c2s[c])

PhaseMeans(c) ==
    /\ phase[c] = "home" => pipe[c] = "idle" /\ joins[c] = 0
    /\ link[c] = "up" => phase[c] \in Connected
    /\ phase[c] \in {"joined", "in"} => joins[c] # 0

(* The answer to a join comes first and only once, to a client that has no room yet. *)
AnswerFirst(c) ==
    /\ s2c[c] # << >> => "joined" \notin TypesOf(Tail(s2c[c]))
    /\ s2c[c] # << >> /\ Head(s2c[c]).type = "joined" =>
           /\ phase[c] = "joining" /\ view[c] = NewView /\ joins[c] # 0
           /\ IsView(Head(s2c[c]).room)

ClientPresent(c) ==
    /\ IsSequence(s2c[c]) /\ IsView(view[c])
    /\ Joined(c) /\ Newcomer(c) /\ PhaseMeans(c) /\ AnswerFirst(c)

(* Where the clients are, whatever their names. *)
PresentInv ==
    /\ phase \in [Conns -> Phases]
    /\ DOMAIN s2c = Conns /\ DOMAIN view = Conns /\ DOMAIN role = Conns
    /\ \A c \in Conns : ClientPresent(c)

(* The answer, the copy made of it and the windows opened with the copy show the seat
   of the server.                                                               *)
AnswerRight(c) ==
    /\ s2c[c] # << >> /\ Head(s2c[c]).type = "joined" =>
           Right(c, RoleIn(Head(s2c[c]).room, username[c]))
    /\ phase[c] = "joined" => Right(c, RoleIn(view[c], username[c]))
    /\ role[c] # SPACE => Right(c, role[c])

(* While its windows are closed a player cannot have said that it is ready, so that no
   game starts which would change the colours over under it.                    *)
NotReadyYet(c) ==
    phase[c] \in {"home", "joining", "joined"} =>
        /\ "ready" \notin OpsOf(c2s[c])
        /\ roomOf[c] # NoRoom /\ ColorOf(c) # SPACE =>
               rooms[roomOf[c]].ready # ColorOf(c) /\ "start" \notin TypesOf(s2c[c])

ClientGood(c) == AnswerRight(c) /\ NotReadyYet(c)

ClientsInv == PresentInv /\ \A c \in Conns : ClientGood(c)

(* What comes with the messages written behind others. *)
LEMMA TypesBehind ==
    ASSUME NEW s, NEW t, IsSequence(s), IsSequence(t)
    PROVE  /\ IsSequence(s \o t)
           /\ TypesOf(s \o t) \subseteq TypesOf(s) \cup TypesOf(t)
           /\ s = << >> => s \o t = t
           /\ t = << >> => s \o t = s
           /\ s # << >> => /\ s \o t # << >> /\ Head(s \o t) = Head(s)
                           /\ TypesOf(Tail(s \o t)) \subseteq TypesOf(Tail(s)) \cup TypesOf(t)
<1>1. PICK S : s \in Seq(S)
  BY DEF IsSequence
<1>2. PICK T : t \in Seq(T)
  BY DEF IsSequence
<1> DEFINE U == S \cup T
           m == Len(s)
           n == Len(t)
           w == s \o t
<1>3. s \in Seq(U) /\ t \in Seq(U) /\ m \in Nat /\ n \in Nat
  BY <1>1, <1>2
<1> HIDE DEF U
<1>4. w \in Seq(U) /\ Len(w) = m + n
  BY <1>3
<1>5. \A i \in 1..m : w[i] = s[i]
  BY <1>3
<1>6. \A i \in (m+1)..(m+n) : w[i] = t[i - m] /\ i - m \in 1..n
  BY <1>3
<1>7. IsSequence(w)
  BY <1>4 DEF IsSequence
<1>8. s = << >> => w = t
  BY <1>3
<1>9. t = << >> => w = s
  BY <1>3
<1>10. s # << >> => m > 0 /\ w # << >> /\ Head(w) = w[1] /\ Head(s) = s[1]
  BY <1>3, <1>4
<1>11. s # << >> => /\ Tail(w) \in Seq(U) /\ Len(Tail(w)) = m + n - 1
                    /\ \A i \in 1..(m + n - 1) : Tail(w)[i] = w[i + 1]
                    /\ Tail(s) \in Seq(U) /\ Len(Tail(s)) = m - 1
                    /\ \A i \in 1..(m - 1) : Tail(s)[i] = s[i + 1]
  BY <1>3, <1>4, <1>10
<1> HIDE DEF m, n, w
<1>12. TypesOf(w) \subseteq TypesOf(s) \cup TypesOf(t)
  <2> SUFFICES ASSUME NEW i \in 1..(m + n) PROVE w[i].type \in TypesOf(s) \cup TypesOf(t)
    BY <1>4 DEF TypesOf
  <2>1. i \in 1..m \/ i \in (m+1)..(m+n)
    BY <1>3
  <2>2. QED BY <1>5, <1>6, <2>1 DEF TypesOf, m, n
<1>13. ASSUME s # << >>
       PROVE  TypesOf(Tail(w)) \subseteq TypesOf(Tail(s)) \cup TypesOf(t)
  <2> SUFFICES ASSUME NEW i \in 1..(m + n - 1)
               PROVE  Tail(w)[i].type \in TypesOf(Tail(s)) \cup TypesOf(t)
    BY <1>11, <1>13 DEF TypesOf
  <2>1. CASE i + 1 \in 1..m
    <3>1. i \in 1..(m - 1) /\ Tail(w)[i] = Tail(s)[i]
      BY <1>3, <1>5, <1>11, <1>13, <2>1
    <3>2. QED BY <1>11, <1>13, <3>1 DEF TypesOf
  <2>2. CASE i + 1 \in (m+1)..(m+n)
    <3>1. Tail(w)[i] = w[i + 1]
      BY <1>11, <1>13
    <3>2. w[i + 1] = t[(i + 1) - m] /\ (i + 1) - m \in 1..n
      BY <1>6, <2>2
    <3>3. QED BY <3>1, <3>2 DEF TypesOf, n
  <2>3. i + 1 \in 1..m \/ i + 1 \in (m+1)..(m+n)
    BY <1>3
  <2>4. QED BY <2>1, <2>2, <2>3
<1>14. QED BY <1>5, <1>7, <1>8, <1>9, <1>10, <1>12, <1>13 DEF m, w

(* What is left when a message or a request was taken. *)
LEMMA TypesLeft ==
    ASSUME NEW s, IsSequence(s), s # << >>
    PROVE  /\ IsSequence(Tail(s))
           /\ TypesOf(Tail(s)) \subseteq TypesOf(s) /\ OpsOf(Tail(s)) \subseteq OpsOf(s)
           /\ Head(s).type \in TypesOf(s) /\ Head(s).op \in OpsOf(s)
<1>1. PICK S : s \in Seq(S)
  BY DEF IsSequence
<1>2. /\ Tail(s) \in Seq(S)
      /\ Len(s) \in Nat /\ Len(s) > 0 /\ Len(Tail(s)) = Len(s) - 1
      /\ \A i \in 1..Len(Tail(s)) : Tail(s)[i] = s[i + 1] /\ i + 1 \in 1..Len(s)
      /\ Head(s) = s[1] /\ 1 \in 1..Len(s)
  BY <1>1
<1>3. QED BY <1>2 DEF IsSequence, TypesOf, OpsOf

(* The kinds in a channel: that of the first message, and those behind it. *)
LEMMA TypesSplit ==
    ASSUME NEW s, IsSequence(s), s # << >>
    PROVE  TypesOf(s) \subseteq {Head(s).type} \cup TypesOf(Tail(s))
<1>1. PICK S : s \in Seq(S)
  BY DEF IsSequence
<1>2. /\ Tail(s) \in Seq(S) /\ Len(s) \in Nat /\ Len(Tail(s)) = Len(s) - 1 /\ Head(s) = s[1]
      /\ \A i \in 1..(Len(s) - 1) : Tail(s)[i] = s[i + 1]
  BY <1>1
<1>3. ASSUME NEW i \in 1..Len(s), i # 1 PROVE s[i].type \in TypesOf(Tail(s))
  <2>1. i - 1 \in 1..Len(Tail(s)) /\ Tail(s)[i - 1] = s[i]
    BY <1>2, <1>3
  <2>2. QED BY <2>1 DEF TypesOf
<1>4. QED BY <1>2, <1>3 DEF TypesOf

(* What is put at the end of a sequence makes a sequence again. *)
LEMMA AppendSequence ==
    ASSUME NEW s, NEW x, IsSequence(s)
    PROVE  /\ IsSequence(Append(s, x))
           /\ Len(s) \in Nat /\ Len(Append(s, x)) = Len(s) + 1
           /\ \A i \in 1..Len(s) : Append(s, x)[i] = s[i]
           /\ Append(s, x)[Len(s) + 1] = x
<1>1. PICK S : s \in Seq(S)
  BY DEF IsSequence
<1> DEFINE T == S \cup {x}
<1>2. s \in Seq(T) /\ x \in T
  BY <1>1
<1> HIDE DEF T
<1>3. QED BY <1>2 DEF IsSequence

(* A request sent is behind the others. *)
LEMMA OpsSent ==
    ASSUME NEW s, NEW q, IsSequence(s)
    PROVE  OpsOf(Append(s, q)) \subseteq OpsOf(s) \cup {q.op}
<1>1. /\ Len(Append(s, q)) = Len(s) + 1 /\ Len(s) \in Nat
      /\ \A i \in 1..Len(s) : Append(s, q)[i] = s[i]
      /\ Append(s, q)[Len(s) + 1] = q
  BY AppendSequence
<1>2. \A i \in 1..(Len(s) + 1) : i \in 1..Len(s) \/ i = Len(s) + 1
  BY <1>1
<1>3. QED BY <1>1, <1>2 DEF OpsOf

(* The kinds in nothing and in a single message. *)
LEMMA TypesOfFew ==
    /\ IsSequence(<< >>) /\ TypesOf(<< >>) = {}
    /\ \A m : IsSequence(<<m>>) /\ TypesOf(<<m>>) = {m.type} /\ <<m>> # << >>
<1>1. << >> \in Seq({}) /\ Len(<< >>) = 0
  OBVIOUS
<1>2. ASSUME NEW m PROVE <<m>> \in Seq({m}) /\ Len(<<m>>) = 1 /\ <<m>>[1] = m /\ <<m>> # << >>
  OBVIOUS
<1>3. IsSequence(<< >>) /\ TypesOf(<< >>) = {}
  BY <1>1 DEF IsSequence, TypesOf
<1>4. ASSUME NEW m PROVE IsSequence(<<m>>) /\ TypesOf(<<m>>) = {m.type}
  <2> DEFINE w == <<m>>
  <2>1. 1..1 = {1}
    OBVIOUS
  <2>2. w \in Seq({m}) /\ Len(w) = 1 /\ w[1] = m
    BY <1>2
  <2> HIDE DEF w
  <2>3. TypesOf(w) = {m.type}
    BY <2>1, <2>2 DEF TypesOf
  <2>4. QED BY <2>2, <2>3 DEF IsSequence, w
<1>5. QED BY <1>2, <1>3, <1>4

(* Leaving gives up seats and readiness, and gives nobody any. *)
LEMMA LeaveLoses ==
    ASSUME NEW room \in RoomStates(Users), NEW user \in Users
    PROVE  /\ \A color \in Stones : leave(room, user).seat[color] \in {room.seat[color], NoUser}
           /\ leave(room, user).ready \in {room.ready, SPACE}
<1>1. CASE IsPlayer(room, user)
  <2>1. room.seat \in [Stones -> Users \cup {NoUser}]
    BY DEF RoomStates
  <2>2. leave(room, user) = Leave(room, user)
    BY <1>1 DEF leave
  <2>3. /\ Leave(room, user).seat = [room.seat EXCEPT ![PlayerColor(room, user)] = NoUser]
        /\ Leave(room, user).ready = Cleared(room.ready, PlayerColor(room, user))
    BY DEF Leave, RoomStates
  <2>4. QED BY <2>1, <2>2, <2>3 DEF Cleared
<1>2. CASE ~ IsPlayer(room, user)
  BY <1>2 DEF leave, RoomStates
<1>3. QED BY <1>1, <1>2

(* A step of the server takes seats and readiness away; it gives a seat only to the
   user that joins in it, and makes only the one ready who says so.             *)
LEMMA SeatsMove ==
    ASSUME ServerInv, NEW d \in Conns, ServerStep(d), NEW id \in RoomIds
    PROVE  /\ \A color \in Stones :
                 \/ rooms'[id].seat[color] \in {rooms[id].seat[color], NoUser}
                 \/ joins'[d] # joins[d] /\ rooms'[id].seat[color] = userOf'[d]
           /\ \/ rooms'[id].ready \in {rooms[id].ready, SPACE}
              \/ /\ HandleReady(d) /\ roomOf[d] = id
                 /\ rooms'[id].ready = PlayerColor(rooms[id], userOf[d])
<1> DEFINE Goal == /\ \A color \in Stones :
                         \/ rooms'[id].seat[color] \in {rooms[id].seat[color], NoUser}
                         \/ joins'[d] # joins[d] /\ rooms'[id].seat[color] = userOf'[d]
                   /\ \/ rooms'[id].ready \in {rooms[id].ready, SPACE}
                      \/ /\ HandleReady(d) /\ roomOf[d] = id
                         /\ rooms'[id].ready = PlayerColor(rooms[id], userOf[d])
<1>1. /\ rooms \in [RoomIds -> RoomStates(Users)] /\ joins \in [Conns -> 0..MaxJoins]
      /\ userOf \in [Conns -> Users \cup {NoUser}] /\ roomOf \in [Conns -> RoomIds \cup {NoRoom}]
  BY DEF ServerInv, RoomsInv, ConnsInv
<1>2. ASSUME rooms' = rooms PROVE Goal
  BY <1>2
<1>3. ASSUME UserLeaves(d) PROVE Goal
  <2>1. CASE roomOf[d] # NoRoom /\ userOf[d] # NoUser
    <3>1. rooms' = [rooms EXCEPT ![roomOf[d]] = leave(rooms[roomOf[d]], userOf[d])]
      BY <1>3, <2>1 DEF UserLeaves
    <3>2. roomOf[d] \in RoomIds /\ userOf[d] \in Users /\ rooms[roomOf[d]] \in RoomStates(Users)
      BY <1>1, <2>1
    <3>3. CASE id = roomOf[d]
      BY <1>1, <3>1, <3>2, <3>3, LeaveLoses
    <3>4. CASE id # roomOf[d]
      BY <1>1, <3>1, <3>4
    <3>5. QED BY <3>3, <3>4
  <2>2. CASE ~ (roomOf[d] # NoRoom /\ userOf[d] # NoUser)
    BY <1>2, <1>3, <2>2 DEF UserLeaves
  <2>3. QED BY <2>1, <2>2
<1>4. ASSUME NEW q, Authenticated(d), Admitted(q),
             rooms' = [rooms EXCEPT ![q.room] = Place(q, userOf'[d])]
      PROVE  Goal
  <2>1. joins'[d] # joins[d]
    BY <1>1, <1>4 DEF Authenticated
  <2>2. q.room \in RoomIds
    BY <1>4 DEF Admitted
  <2>3. CASE id = q.room
    <3>1. rooms'[id] = Place(q, userOf'[d]) /\ rooms[id] \in RoomStates(Users)
      BY <1>1, <1>4, <2>2, <2>3
    <3>2. /\ \A color \in Stones : Place(q, userOf'[d]).seat[color] \in {rooms[id].seat[color], userOf'[d]}
          /\ Place(q, userOf'[d]).ready = rooms[id].ready
      BY <2>3, <3>1 DEF Place, joinAsPlayer, joinAsOnlooker, RoomStates
    <3>3. QED BY <2>1, <3>1, <3>2
  <2>4. CASE id # q.room
    BY <1>1, <1>4, <2>4
  <2>5. QED BY <2>3, <2>4
<1>5. CASE HandleReady(d)
  <2> DEFINE new == ReceiveReady(rooms[roomOf[d]], userOf[d])
  <2>1. roomOf[d] \in RoomIds /\ rooms' = [rooms EXCEPT ![roomOf[d]] = new]
    BY <1>1, <1>5 DEF HandleReady, PlayerReady, Serving
  <2>2. /\ new.seat = rooms[roomOf[d]].seat
        /\ new.ready \in {SPACE, PlayerColor(rooms[roomOf[d]], userOf[d])}
    BY <1>1, <2>1 DEF ReceiveReady, Start, Ready, RoomStates
  <2> HIDE DEF new
  <2>3. CASE id = roomOf[d]
    BY <1>1, <1>5, <2>1, <2>2, <2>3
  <2>4. CASE id # roomOf[d]
    BY <1>1, <2>1, <2>4
  <2>5. QED BY <2>3, <2>4
<1>6. CASE HandleStone(d)
  <2> DEFINE new == PlayStone(rooms[roomOf[d]], Request(d).coor)
  <2>1. roomOf[d] \in RoomIds /\ rooms' = [rooms EXCEPT ![roomOf[d]] = new]
    BY <1>1, <1>6 DEF HandleStone, ReceivePlayerStone, Serving
  <2>2. new.seat = rooms[roomOf[d]].seat /\ new.ready = rooms[roomOf[d]].ready
    BY <1>1, <2>1 DEF PlayStone, RoomStates
  <2> HIDE DEF new
  <2>3. QED BY <1>1, <2>1, <2>2
<1>7. QED
  BY <1>2, <1>3, <1>4, <1>5, <1>6
  DEF ServerStep, ServerRead, Read, ServerReadFails, ReadFails, ServerDisconnect, Disconnect,
      HandleJoinDenied, JoinDenied, HandleJoinRefused, JoinRefused, HandleJoin, JoinAccepted,
      HandleJoinReplyFails, JoinReplyFails, HandleLeave, ReceiveLeaveRoom,
      HandleNothing, NothingToDo

(* A step leaves the payloads of the other connections alone. *)
LEMMA OthersRest ==
    ASSUME ServerInv, RequestsInv, NEW d \in Conns, ServerStep(d), NEW c \in Conns, c # d
    PROVE  /\ pipe'[c] = pipe[c] /\ userOf'[c] = userOf[c]
           /\ roomOf'[c] = roomOf[c] /\ joins'[c] = joins[c]
<1>1. Step(d)
  BY ServerSide
<1>2. QED BY <1>1, ConnsStep

(* The user made for a join is the joining connection's. *)
LEMMA NewUserOwn ==
    ASSUME ServerInv, RequestsInv, NEW d \in Conns, ServerStep(d), joins'[d] # joins[d]
    PROVE  userOf'[d].conn = d
<1>1. Authenticated(d)
  BY DEF ServerStep, ServerRead, Read, ServerReadFails, ReadFails, ServerDisconnect, Disconnect,
     HandleJoinDenied, JoinDenied, HandleJoinRefused, JoinRefused, HandleJoin, JoinAccepted,
     HandleJoinReplyFails, JoinReplyFails, HandleLeave, ReceiveLeaveRoom, HandleReady,
     PlayerReady, HandleStone, ReceivePlayerStone, HandleNothing, NothingToDo
<1>2. QED BY <1>1, FreshUser

(* A client that has joined keeps its user and room, and never gets a seat it did not
   have: it joins once.                                                         *)
LEMMA ColorKept ==
    ASSUME ServerInv, RequestsInv, NEW d \in Conns, ServerStep(d), NEW c \in Conns,
           Joined(c), roomOf[c] # NoRoom
    PROVE  /\ roomOf'[c] = roomOf[c] /\ userOf'[c] = userOf[c] /\ joins'[c] = joins[c]
           /\ ColorOf(c)' \in {ColorOf(c), SPACE}
<1>1. /\ joins \in [Conns -> 0..MaxJoins] /\ MaxJoins = 1 /\ joins[c] = 1
      /\ userOf \in [Conns -> Users \cup {NoUser}] /\ userOf[c] \in Users /\ userOf[c].conn = c
      /\ roomOf[c] \in RoomIds /\ NoUser \notin Users
  BY GobangAssumption, ServerAssumption DEF ServerInv, ConnsInv, Joined
<1>2. ~ Authenticated(c)
  BY <1>1 DEF Authenticated
<1>3. roomOf'[c] = roomOf[c] /\ userOf'[c] = userOf[c] /\ joins'[c] = joins[c]
  <2>1. CASE c = d
    BY <1>2, <2>1
    DEF ServerStep, ServerRead, Read, ServerReadFails, ReadFails, ServerDisconnect, Disconnect,
        HandleJoinDenied, JoinDenied, HandleJoinRefused, JoinRefused, HandleJoin, JoinAccepted,
        HandleJoinReplyFails, JoinReplyFails, HandleLeave, ReceiveLeaveRoom, HandleReady,
        PlayerReady, HandleStone, ReceivePlayerStone, HandleNothing, NothingToDo
  <2>2. CASE c # d
    BY <2>2, OthersRest
  <2>3. QED BY <2>1, <2>2
<1>4. ASSUME NEW color \in Stones, rooms'[roomOf[c]].seat[color] = userOf[c]
      PROVE  rooms[roomOf[c]].seat[color] = userOf[c]
  <2>1. CASE d = c
    BY <1>1, <1>3, <1>4, <2>1, SeatsMove
  <2>2. CASE d # c /\ joins'[d] # joins[d]
    <3>1. userOf'[d] # userOf[c]
      BY <1>1, <2>2, NewUserOwn
    <3>2. QED BY <1>1, <1>4, <3>1, SeatsMove
  <2>3. CASE d # c /\ joins'[d] = joins[d]
    BY <1>1, <1>4, <2>3, SeatsMove
  <2>4. QED BY <2>1, <2>2, <2>3
<1>5. SeatsDistinct(rooms[roomOf[c]])
  BY <1>1 DEF ServerInv, RoomsInv, RoomGood
<1>6. ColorOf(c)' = PlayerColor(rooms'[roomOf[c]], userOf[c])
  BY <1>3 DEF ColorOf
<1>7. PlayerColor(rooms'[roomOf[c]], userOf[c]) \in {PlayerColor(rooms[roomOf[c]], userOf[c]), SPACE}
  BY <1>1, <1>4, <1>5 DEF PlayerColor, SeatsDistinct, Stones, BLACK, WHITE, SPACE
<1>8. QED BY <1>3, <1>6, <1>7 DEF ColorOf

(* What a write puts on a channel (idtcp/idtcp.go:14-30): all of it, or nothing when
   the connection is not up.                                                    *)
LEMMA WriteAdds ==
    ASSUME DOMAIN s2c = Conns, NEW out, Write(out), NEW c \in Conns, IsSequence(s2c[c])
    PROVE  s2c'[c] = s2c[c] \o (IF c \in DOMAIN out /\ link[c] = "up" THEN out[c] ELSE << >>)
<1>1. IsSequence(<< >>)
  BY TypesOfFew
<1>2. s2c[c] \o << >> = s2c[c]
  BY <1>1, TypesBehind
<1>3. s2c'[c] = IF c \in DOMAIN out /\ link[c] = "up" THEN s2c[c] \o out[c] ELSE s2c[c]
  BY DEF Write
<1>4. QED BY <1>2, <1>3

(* The same messages, written to several. *)
LEMMA WriteToAllAdds ==
    ASSUME DOMAIN s2c = Conns, NEW audience, NEW messages, Write(ToAll(audience, messages)),
           NEW c \in Conns, IsSequence(s2c[c])
    PROVE  s2c'[c] = s2c[c] \o (IF c \in audience /\ link[c] = "up" THEN messages ELSE << >>)
BY WriteAdds DEF ToAll

(* Only whoever joined is written to by others. *)
LEMMA MembersJoined ==
    ASSUME ServerInv, NEW id \in RoomIds, NEW c \in Conns, c \in Members(rooms[id])
    PROVE  joins[c] # 0
<1>1. PICK user \in rooms[id].users : user.conn = c
  BY DEF Members
<1>2. user \in Users /\ user.seq <= joins[user.conn] /\ MaxJoins = 1
  BY GobangAssumption DEF ServerInv, RoomsInv, RoomStates
<1>3. user.seq \in 1..MaxJoins /\ user.conn \in Conns
  BY <1>2 DEF Users
<1>4. joins \in [Conns -> 0..MaxJoins]
  BY DEF ServerInv, ConnsInv
<1>5. QED BY <1>1, <1>2, <1>3, <1>4

(* The same after the step. *)
LEMMA MembersJoinedThen ==
    ASSUME ServerInv', NEW id \in RoomIds, NEW c \in Conns, c \in Members(rooms'[id])
    PROVE  joins'[c] # 0
<1>1. PICK user \in rooms'[id].users : user.conn = c
  BY DEF Members
<1>2. user \in Users /\ user.seq <= joins'[user.conn] /\ MaxJoins = 1
  BY GobangAssumption DEF ServerInv, RoomsInv, RoomStates
<1>3. user.seq \in 1..MaxJoins /\ joins' \in [Conns -> 0..MaxJoins]
  BY <1>2 DEF Users, ServerInv, ConnsInv
<1>4. QED BY <1>1, <1>2, <1>3

(* What a step of the server for d puts on the channel of c: never the answer to a
   join, unless it is c that joins; nothing as long as c has not joined; the start of
   a game only when both its players are ready; a stone only to those in the room
   where it is placed.                                                          *)
Delivered(d, c, t) ==
    /\ IsSequence(t)
    /\ s2c'[c] = s2c[c] \o t
    /\ "joined" \notin TypesOf(t)
    /\ joins'[c] = 0 /\ pipe'[c] \in {"idle", "reading", "waiting"} => t = << >>
    /\ "start" \in TypesOf(t) =>
          /\ HandleReady(d) /\ c \in Members(rooms[roomOf[d]])
          /\ BothReady(rooms[roomOf[d]], PlayerColor(rooms[roomOf[d]], userOf[d]))
    /\ "stone" \in TypesOf(t) => HandleStone(d) /\ c \in Members(rooms[roomOf[d]])

(* It is so for every client but the one that joins. *)
LEMMA Deliveries ==
    ASSUME ServerInv, ServerInv', PresentInv, NEW d \in Conns, ServerStep(d), NEW c \in Conns,
           ~ (c = d /\ HandleJoin(d))
    PROVE  \E t : Delivered(d, c, t)
<1>1. DOMAIN s2c = Conns /\ IsSequence(s2c[c])
  BY DEF PresentInv, ClientPresent
<1>2. /\ pipe \in [Conns -> PipeStates] /\ joins \in [Conns -> 0..MaxJoins]
      /\ rooms \in [RoomIds -> RoomStates(Users)] /\ roomOf \in [Conns -> RoomIds \cup {NoRoom}]
  BY DEF ServerInv, ConnsInv, RoomsInv
<1>3. s2c[c] \o << >> = s2c[c] /\ IsSequence(<< >>) /\ TypesOf(<< >>) = {}
  BY <1>1, TypesBehind, TypesOfFew
<1>4. ASSUME s2c' = s2c PROVE Delivered(d, c, << >>)
  BY <1>3, <1>4 DEF Delivered
<1>5. ASSUME NEW m, Write(ToAll({d}, <<m>>)), m.type \notin {"joined", "start", "stone"},
             pipe'[d] \in {"leaving", "done"} \/ joins'[d] # 0
      PROVE  \E t : Delivered(d, c, t)
  <2> DEFINE t == IF c \in {d} /\ link[c] = "up" THEN <<m>> ELSE << >>
  <2>1. s2c'[c] = s2c[c] \o t
    BY <1>1, <1>5, WriteToAllAdds
  <2>2. IsSequence(t) /\ TypesOf(t) \subseteq {m.type} /\ (c # d => t = << >>)
    BY TypesOfFew
  <2> HIDE DEF t
  <2>3. Delivered(d, c, t)
    BY <1>5, <2>1, <2>2 DEF Delivered
  <2>4. QED BY <2>3
<1>6. ASSUME Write(ToAll({d}, LeaveNotices(d))), joins' = joins,
             roomOf[d] # NoRoom => joins[d] # 0
      PROVE  \E t : Delivered(d, c, t)
  <2>1. CASE roomOf[d] = NoRoom
    <3>1. LeaveNotices(d) = << >>
      BY <2>1 DEF LeaveNotices
    <3>2. s2c'[c] = s2c[c] \o (IF c \in {d} /\ link[c] = "up" THEN << >> ELSE << >>)
      BY <1>1, <1>6, <3>1, WriteToAllAdds
    <3>3. QED BY <1>3, <3>2 DEF Delivered
  <2>2. CASE roomOf[d] # NoRoom
    <3> DEFINE m == [type |-> "leave", names |-> {NameOf(u) : u \in rooms[roomOf[d]].users}]
    <3>1. LeaveNotices(d) = <<m>> /\ m.type = "leave"
      BY <2>2 DEF LeaveNotices
    <3> HIDE DEF m
    <3>2. QED BY <1>5, <1>6, <2>2, <3>1
  <2>3. QED BY <2>1, <2>2
<1>7. ASSUME NEW messages, NEW audience, Write(ToAll(audience, messages)),
             c \in audience => joins'[c] # 0,
             IsSequence(messages), "joined" \notin TypesOf(messages),
             "start" \in TypesOf(messages) /\ c \in audience =>
                 /\ HandleReady(d) /\ c \in Members(rooms[roomOf[d]])
                 /\ BothReady(rooms[roomOf[d]], PlayerColor(rooms[roomOf[d]], userOf[d])),
             "stone" \in TypesOf(messages) /\ c \in audience =>
                 HandleStone(d) /\ c \in Members(rooms[roomOf[d]])
      PROVE  \E t : Delivered(d, c, t)
  <2> DEFINE t == IF c \in audience /\ link[c] = "up" THEN messages ELSE << >>
  <2>1. s2c'[c] = s2c[c] \o t
    BY <1>1, <1>7, WriteToAllAdds
  <2>2. IsSequence(t) /\ TypesOf(t) \subseteq TypesOf(messages) /\ (c \notin audience => t = << >>)
    BY <1>3, <1>7
  <2>3. CASE c \in audience
    BY <1>7, <2>1, <2>2, <2>3, TypesOfFew DEF Delivered
  <2>4. CASE c \notin audience
    BY <1>3, <2>1, <2>2, <2>4 DEF Delivered
  <2>5. QED BY <2>3, <2>4
<1>8. CASE ServerDisconnect(d)
  <2>1. joins' = joins /\ (roomOf[d] # NoRoom => joins[d] # 0)
    BY <1>8 DEF ServerDisconnect, Disconnect, PresentInv, ClientPresent, Joined
  <2>2. QED BY <1>6, <1>8, <2>1 DEF ServerDisconnect
<1>9. CASE HandleLeave(d)
  <2>1. joins' = joins /\ (roomOf[d] # NoRoom => joins[d] # 0)
    BY <1>9 DEF HandleLeave, ReceiveLeaveRoom, PresentInv, ClientPresent, Joined
  <2>2. QED BY <1>6, <1>9, <2>1 DEF HandleLeave
<1>10. CASE HandleJoinDenied(d)
  <2>1. pipe'[d] = "leaving"
    BY <1>2, <1>10 DEF HandleJoinDenied, JoinDenied, Stop
  <2>2. Write(ToAll({d}, <<[type |-> "denied"]>>)) /\ [type |-> "denied"].type = "denied"
    BY <1>10 DEF HandleJoinDenied
  <2>3. QED BY <1>5, <2>1, <2>2
<1>11. ASSUME NEW id \in RoomIds, NEW out, Write(out),
              DOMAIN out \subseteq Members(rooms'[id]),
              c \in DOMAIN out => out[c] = <<[type |-> "other", name |-> username[c]]>>
       PROVE  \E t : Delivered(d, c, t)
  <2> DEFINE t == IF c \in DOMAIN out /\ link[c] = "up" THEN out[c] ELSE << >>
  <2>1. s2c'[c] = s2c[c] \o t
    BY <1>1, <1>11, WriteAdds
  <2>2. IsSequence(t) /\ TypesOf(t) \subseteq {"other"} /\ (c \notin DOMAIN out => t = << >>)
    BY <1>11, TypesOfFew
  <2>3. c \in DOMAIN out => joins'[c] # 0
    BY <1>11, MembersJoinedThen
  <2> HIDE DEF t
  <2>4. Delivered(d, c, t)
    BY <2>1, <2>2, <2>3 DEF Delivered
  <2>5. QED BY <2>4
<1>12. CASE HandleJoin(d)
  <2> DEFINE id == Request(d).query.room
             out == JoinTraffic(d, id)
  <2>1. Write(out) /\ id \in RoomIds /\ c # d
    BY <1>12 DEF HandleJoin, JoinAccepted, Admitted
  <2>2. DOMAIN out = Members(rooms'[id])
        /\ (c \in DOMAIN out => out[c] = <<[type |-> "other", name |-> username[c]]>>)
    BY <2>1 DEF JoinTraffic
  <2> HIDE DEF out, id
  <2>3. QED BY <1>11, <2>1, <2>2
<1>13. CASE HandleJoinReplyFails(d)
  <2> DEFINE id == Request(d).query.room
             all == JoinTraffic(d, id)
             out == [e \in DOMAIN all \ {d} |-> all[e]]
  <2>1. Write(out) /\ id \in RoomIds
    BY <1>13 DEF HandleJoinReplyFails, JoinReplyFails, Admitted
  <2>2. DOMAIN out \subseteq Members(rooms'[id])
        /\ (c \in DOMAIN out => out[c] = <<[type |-> "other", name |-> username[c]]>>)
    BY <2>1 DEF JoinTraffic
  <2> HIDE DEF out, id
  <2>3. QED BY <1>11, <2>1, <2>2
<1>14. CASE HandleReady(d)
  <2> DEFINE room  == rooms[roomOf[d]]
             color == PlayerColor(room, userOf[d])
             start == [type |-> "start", name |-> NameOf(room.seat[BLACK])]
             ready == [type |-> "ready", color |-> color]
  <2>1. roomOf[d] \in RoomIds /\ joins' = joins
    BY <1>2, <1>14 DEF HandleReady, PlayerReady, Serving
  <2>2. c \in Members(room) => joins'[c] # 0
    BY <2>1, MembersJoined
  <2>3. start.type = "start" /\ ready.type = "ready"
    OBVIOUS
  <2>4. IF BothReady(room, color) THEN Write(ToAll(Members(room), <<start>>))
                                  ELSE Write(ToAll(Members(room), <<ready>>))
    BY <1>14 DEF HandleReady
  <2> HIDE DEF start, ready
  <2>5. /\ IsSequence(<<start>>) /\ TypesOf(<<start>>) = {"start"}
        /\ IsSequence(<<ready>>) /\ TypesOf(<<ready>>) = {"ready"}
    BY <2>3, TypesOfFew
  <2>6. CASE BothReady(room, color)
    BY <1>7, <1>14, <2>2, <2>4, <2>5, <2>6
  <2>7. CASE ~ BothReady(room, color)
    BY <1>7, <2>2, <2>4, <2>5, <2>7
  <2>8. QED BY <2>6, <2>7
<1>15. CASE HandleStone(d)
  <2> DEFINE room  == rooms[roomOf[d]]
             stone == [type |-> "stone", coor |-> Request(d).coor]
             over  == [type |-> "over", color |-> WhoseTurn(room.chess)]
             said  == IF DidYouWin(rooms'[roomOf[d]].chess) THEN <<stone>> \o <<over>> ELSE <<stone>>
  <2>1. roomOf[d] \in RoomIds /\ joins' = joins
    BY <1>2, <1>15 DEF HandleStone, ReceivePlayerStone, Serving
  <2>2. c \in Members(room) => joins'[c] # 0
    BY <2>1, MembersJoined
  <2>3. Write(ToAll(Members(room), said))
    BY <1>15 DEF HandleStone, StoneAudience
  <2>4. stone.type = "stone" /\ over.type = "over"
    OBVIOUS
  <2> HIDE DEF stone, over
  <2>5. IsSequence(said) /\ TypesOf(said) \subseteq {"stone", "over"}
    BY <2>4, TypesOfFew, TypesBehind
  <2> HIDE DEF said
  <2>6. QED BY <1>7, <1>15, <2>2, <2>3, <2>5
<1>16. CASE ServerRead(d) \/ ServerReadFails(d) \/ HandleJoinRefused(d) \/ HandleNothing(d)
  <2>1. s2c' = s2c
    BY <1>16 DEF ServerRead, ServerReadFails, clientVars, HandleJoinRefused, HandleNothing
  <2>2. QED BY <1>4, <2>1
<1>17. QED
  BY <1>8, <1>9, <1>10, <1>12, <1>13, <1>14, <1>15, <1>16 DEF ServerStep

-----------------------------------------------------------------------------
(* The server's steps, seen from one client *)

(* A step of the server takes one request from its connection, or none. *)
LEMMA RequestTaken ==
    ASSUME DOMAIN c2s = Conns, NEW d \in Conns, ServerStep(d), NEW c \in Conns
    PROVE  c2s'[c] = c2s[c] \/ (c2s[c] # << >> /\ c2s'[c] = Tail(c2s[c]))
<1>1. ASSUME NEW op, Handled(d, op) PROVE c2s[d] # << >> /\ c2s' = [c2s EXCEPT ![d] = Tail(c2s[d])]
  BY <1>1 DEF Handled
<1>2. ASSUME ServerRead(d) \/ ServerReadFails(d) \/ ServerDisconnect(d) PROVE c2s' = c2s
  BY <1>2 DEF ServerRead, ServerReadFails, ServerDisconnect, clientVars
<1>3. ASSUME ~ (ServerRead(d) \/ ServerReadFails(d) \/ ServerDisconnect(d))
      PROVE  \E op : Handled(d, op)
  BY <1>3 DEF ServerStep, HandleJoinDenied, HandleJoinRefused, HandleJoin, HandleJoinReplyFails,
     HandleLeave, HandleReady, HandleStone, HandleNothing
<1>4. c2s' = c2s \/ (c2s[d] # << >> /\ c2s' = [c2s EXCEPT ![d] = Tail(c2s[d])])
  BY <1>1, <1>2, <1>3
<1>5. QED BY <1>4

(* No step of the server brings a connection up. *)
LEMMA LinkLost ==
    ASSUME link \in [Conns -> LinkStates], NEW d \in Conns, ServerStep(d), NEW c \in Conns,
           link'[c] = "up"
    PROVE  link[c] = "up"
<1>1. CASE ServerDisconnect(d)
  BY <1>1 DEF ServerDisconnect, Disconnect
<1>2. CASE HandleLeave(d)
  BY <1>2 DEF HandleLeave, ReceiveLeaveRoom
<1>3. CASE HandleReady(d)
  BY <1>3 DEF HandleReady, PlayerReady, Broadcast
<1>4. CASE ~ (ServerDisconnect(d) \/ HandleLeave(d) \/ HandleReady(d))
  <2>1. link' = link
    BY <1>4 DEF ServerStep, ServerRead, ServerReadFails, HandleJoinDenied, HandleJoinRefused,
       HandleJoin, HandleJoinReplyFails, HandleStone, HandleNothing, Read, ReadFails, JoinDenied,
       JoinRefused, JoinAccepted, JoinReplyFails, ReceivePlayerStone, NothingToDo
  <2>2. QED BY <2>1
<1>5. QED BY <1>1, <1>2, <1>3, <1>4

(* What a step of the server does to a client that is not joining in it. *)
LEMMA ServerStepFacts ==
    ASSUME ServerInv, RequestsInv, PresentInv, NEW d \in Conns, ServerStep(d), NEW c \in Conns
    PROVE  /\ phase' = phase /\ view' = view /\ role' = role /\ DOMAIN s2c' = Conns
           /\ c2s'[c] = c2s[c] \/ (c2s[c] # << >> /\ c2s'[c] = Tail(c2s[c]))
           /\ link'[c] = "up" => link[c] = "up"
           /\ pipe'[c] \in {"reading", "waiting"} => pipe[c] \in {"reading", "waiting"}
           /\ pipe'[c] = "idle" <=> pipe[c] = "idle"
           /\ pipe[c] = "idle" => joins'[c] = joins[c]
           /\ joins'[c] = 0 => joins[c] = 0 /\ userOf'[c] = userOf[c]
           /\ ~ (c = d /\ HandleJoin(d)) => roomOf'[c] = roomOf[c]
<1> USE DEF ServerStep, ServerRead, ServerReadFails, ServerDisconnect, HandleJoinDenied,
            HandleJoinRefused, HandleJoin, HandleJoinReplyFails, HandleLeave, HandleReady,
            HandleStone, HandleNothing, clientVars
<1>1. /\ joins \in [Conns -> 0..MaxJoins] /\ link \in [Conns -> LinkStates]
      /\ pipe \in [Conns -> PipeStates] /\ userOf \in [Conns -> Users \cup {NoUser}]
      /\ DOMAIN s2c = Conns /\ DOMAIN c2s = Conns
  BY DEF ServerInv, ConnsInv, PresentInv, RequestsInv
<1>2. phase' = phase /\ view' = view /\ role' = role /\ DOMAIN s2c' = Conns
  BY <1>1 DEF Write
<1>3. c2s'[c] = c2s[c] \/ (c2s[c] # << >> /\ c2s'[c] = Tail(c2s[c]))
  BY <1>1, RequestTaken
<1>4. link'[c] = "up" => link[c] = "up"
  BY <1>1, LinkLost
<1>5. /\ pipe[d] \in {"reading", "waiting", "leaving"} /\ pipe'[d] # "idle"
      /\ pipe'[d] \in {"reading", "waiting"} => pipe[d] \in {"reading", "waiting"}
      /\ joins'[d] = 0 => joins[d] = 0 /\ userOf'[d] = userOf[d]
      /\ ~ HandleJoin(d) => roomOf'[d] = roomOf[d]
  BY <1>1 DEF Read, ReadFails, Disconnect, JoinDenied, JoinRefused, JoinAccepted, JoinReplyFails,
     ReceiveLeaveRoom, PlayerReady, ReceivePlayerStone, NothingToDo, Serving, Authenticated,
     Stop, Continue
<1>6. c # d => /\ pipe'[c] = pipe[c] /\ userOf'[c] = userOf[c]
               /\ roomOf'[c] = roomOf[c] /\ joins'[c] = joins[c]
  BY OthersRest
<1>7. QED BY <1>2, <1>3, <1>4, <1>5, <1>6

(* What was right stays so: a seat can only be lost. *)
LEMMA RightKept ==
    ASSUME ServerInv, RequestsInv, PresentInv, NEW d \in Conns, ServerStep(d), NEW c \in Conns,
           NEW color, Right(c, color)
    PROVE  roomOf'[c] # NoRoom /\ (color # SPACE => ColorOf(c)' \in {color, SPACE})
<1>1. roomOf[c] # NoRoom /\ Joined(c) /\ (color # SPACE => ColorOf(c) \in {color, SPACE})
  BY DEF Right, PresentInv, ClientPresent
<1>2. roomOf'[c] = roomOf[c] /\ ColorOf(c)' \in {ColorOf(c), SPACE}
  BY <1>1, ColorKept
<1>3. QED BY <1>1, <1>2

(* The player whose request to be ready is handled is not one whose windows are closed. *)
LEMMA ReadyIsOpen ==
    ASSUME ServerInv, RequestsInv, ClientsInv, NEW d \in Conns, HandleReady(d), NEW c \in Conns,
           phase[c] \in {"home", "joining", "joined"},
           roomOf[c] # NoRoom, roomOf[d] = roomOf[c], ColorOf(c) # SPACE
    PROVE  PlayerColor(rooms[roomOf[d]], userOf[d]) # ColorOf(c)
<1>1. "ready" \notin OpsOf(c2s[c]) /\ IsSequence(c2s[c])
  BY DEF ClientsInv, ClientGood, NotReadyYet, RequestsInv, KnownOnly
<1>2. c2s[d] # << >> /\ Head(c2s[d]).op = "ready"
  BY DEF HandleReady, Handled, Request
<1>3. c # d
  BY <1>1, <1>2, TypesLeft
<1>4. /\ userOf[c] # NoUser /\ userOf[c].conn = c
      /\ userOf[d] # NoUser /\ userOf[d].conn = d
  BY DEF ClientsInv, PresentInv, ClientPresent, Joined, ServerInv, ConnsInv, HandleReady, PlayerReady, Serving
<1>5. SUFFICES ASSUME PlayerColor(rooms[roomOf[d]], userOf[d]) = ColorOf(c) PROVE FALSE
  OBVIOUS
<1>6. /\ rooms[roomOf[c]].seat[ColorOf(c)] = userOf[c]
      /\ rooms[roomOf[d]].seat[PlayerColor(rooms[roomOf[d]], userOf[d])] = userOf[d]
  BY <1>5, PlayerHoldsSeat DEF ColorOf, IsPlayer
<1>7. QED BY <1>3, <1>4, <1>5, <1>6

(* No start is written to a player whose windows are closed. *)
LEMMA NoStartYet ==
    ASSUME ServerInv, RequestsInv, ClientsInv, NEW d \in Conns, HandleReady(d), NEW c \in Conns,
           phase[c] \in {"home", "joining", "joined"},
           roomOf[c] # NoRoom, ColorOf(c) # SPACE, c \in Members(rooms[roomOf[d]]),
           BothReady(rooms[roomOf[d]], PlayerColor(rooms[roomOf[d]], userOf[d]))
    PROVE  FALSE
<1>1. PICK user \in rooms[roomOf[d]].users : user.conn = c
  BY DEF Members
<1>2. /\ rooms \in [RoomIds -> RoomStates(Users)]
      /\ userOf \in [Conns -> Users \cup {NoUser}] /\ roomOf \in [Conns -> RoomIds \cup {NoRoom}]
      /\ userOf[c] \in Users /\ userOf[c].conn = c
      /\ roomOf[d] \in RoomIds /\ roomOf[c] \in RoomIds
  BY DEF ClientsInv, PresentInv, ClientPresent, Joined, ServerInv, ConnsInv, RoomsInv, HandleReady, PlayerReady, Serving
<1>3. user \in Users
  BY <1>1, <1>2 DEF RoomStates
<1>4. user = userOf[c]
  <2>1. MaxJoins = 1
    BY GobangAssumption
  <2>2. user = [conn |-> user.conn, seq |-> 1] /\ userOf[c] = [conn |-> userOf[c].conn, seq |-> 1]
    BY <1>2, <1>3, <2>1 DEF Users
  <2>3. QED BY <1>1, <1>2, <2>2
<1>5. rooms[roomOf[c]].seat[ColorOf(c)] = userOf[c] /\ ColorOf(c) \in Stones
  BY PlayerHoldsSeat DEF ColorOf, IsPlayer
<1>6. userOf[c] \in rooms[roomOf[c]].users
  <2>1. SeatsDistinct(rooms[roomOf[c]]) /\ NoUser \notin Users
    BY <1>2, ServerAssumption DEF ServerInv, RoomsInv, RoomGood
  <2>2. QED BY <1>2, <1>5, <2>1 DEF SeatsDistinct
<1>7. roomOf[d] = roomOf[c]
  BY <1>1, <1>2, <1>4, <1>6 DEF ServerInv, RoomsInv
<1> DEFINE color == PlayerColor(rooms[roomOf[d]], userOf[d])
<1>8. color # ColorOf(c) /\ color \in Stones
  BY <1>7, ReadyIsOpen, PlayerHoldsSeat DEF HandleReady, PlayerReady
<1>9. rooms[roomOf[c]].ready # ColorOf(c)
  BY DEF ClientsInv, ClientGood, NotReadyYet
<1> HIDE DEF color
<1>10. 1 - color = ColorOf(c)
  BY <1>5, <1>8 DEF Stones, BLACK, WHITE
<1>11. QED BY <1>7, <1>9, <1>10 DEF BothReady, Opponent, color

(* What the server writes to a client that it does not let join in this step leaves
   the answer to its join where it is: first in the channel, or not in it.      *)
LEMMA Behind ==
    ASSUME ServerInv, ServerInv', PresentInv, NEW d \in Conns, ServerStep(d), NEW c \in Conns,
           NEW t, Delivered(d, c, t)
    PROVE  /\ IsSequence(s2c'[c]) /\ TypesOf(s2c'[c]) \subseteq TypesOf(s2c[c]) \cup TypesOf(t)
           /\ t = << >> => s2c'[c] = s2c[c]
           /\ s2c'[c] # << >> => "joined" \notin TypesOf(Tail(s2c'[c]))
           /\ s2c'[c] # << >> /\ Head(s2c'[c]).type = "joined" =>
                  s2c[c] # << >> /\ Head(s2c'[c]) = Head(s2c[c])
<1>1. IsSequence(s2c[c]) /\ AnswerFirst(c)
  BY DEF PresentInv, ClientPresent
<1>2. IsSequence(t) /\ s2c'[c] = s2c[c] \o t /\ "joined" \notin TypesOf(t)
  BY DEF Delivered
<1>3. /\ IsSequence(s2c'[c])
      /\ TypesOf(s2c'[c]) \subseteq TypesOf(s2c[c]) \cup TypesOf(t)
      /\ s2c[c] = << >> => s2c'[c] = t
      /\ t = << >> => s2c'[c] = s2c[c]
      /\ s2c[c] # << >> =>
             /\ Head(s2c'[c]) = Head(s2c[c])
             /\ TypesOf(Tail(s2c'[c])) \subseteq TypesOf(Tail(s2c[c])) \cup TypesOf(t)
  BY <1>1, <1>2, TypesBehind
<1>4. CASE s2c[c] = << >>
  BY <1>2, <1>3, <1>4, TypesLeft
<1>5. CASE s2c[c] # << >>
  BY <1>1, <1>2, <1>3, <1>5 DEF AnswerFirst
<1>6. QED BY <1>4, <1>5

(* Whatever the server does, except letting this very client join, the client stays
   where it is.                                                                 *)
LEMMA OthersPresent ==
    ASSUME ServerInv, ServerInv', RequestsInv, PresentInv, NEW d \in Conns, ServerStep(d),
           NEW c \in Conns, ~ (c = d /\ HandleJoin(d))
    PROVE  ClientPresent(c)'
<1>1. /\ phase' = phase /\ view' = view /\ role' = role
      /\ c2s'[c] = c2s[c] \/ (c2s[c] # << >> /\ c2s'[c] = Tail(c2s[c]))
      /\ link'[c] = "up" => link[c] = "up"
      /\ pipe'[c] \in {"reading", "waiting"} => pipe[c] \in {"reading", "waiting"}
      /\ pipe'[c] = "idle" <=> pipe[c] = "idle"
      /\ pipe[c] = "idle" => joins'[c] = joins[c]
      /\ joins'[c] = 0 => joins[c] = 0 /\ userOf'[c] = userOf[c]
      /\ roomOf'[c] = roomOf[c]
  BY ServerStepFacts
<1>2. PICK t : Delivered(d, c, t)
  BY Deliveries
<1>3. /\ IsSequence(s2c[c]) /\ IsView(view[c])
      /\ Joined(c) /\ Newcomer(c) /\ PhaseMeans(c) /\ AnswerFirst(c)
      /\ joins \in [Conns -> 0..MaxJoins] /\ IsSequence(c2s[c])
  BY DEF PresentInv, ClientPresent, ServerInv, ConnsInv, RequestsInv, KnownOnly
<1>4. joins'[c] = 0 /\ pipe'[c] \in {"idle", "reading", "waiting"} => t = << >>
  BY <1>2 DEF Delivered
<1>5. /\ IsSequence(s2c'[c])
      /\ t = << >> => s2c'[c] = s2c[c]
      /\ s2c'[c] # << >> => "joined" \notin TypesOf(Tail(s2c'[c]))
      /\ s2c'[c] # << >> /\ Head(s2c'[c]).type = "joined" =>
             s2c[c] # << >> /\ Head(s2c'[c]) = Head(s2c[c])
  BY <1>2, Behind
<1>6. roomOf[c] # NoRoom => userOf'[c] = userOf[c] /\ joins'[c] = joins[c]
  BY <1>3, ColorKept
<1>7. Joined(c)'
  BY <1>1, <1>3, <1>6 DEF Joined
<1>8. "stone" \notin OpsOf(c2s[c]) => "stone" \notin OpsOf(c2s'[c])
  BY <1>1, <1>3, TypesLeft
<1>9. Newcomer(c)'
  BY <1>1, <1>3, <1>4, <1>5, <1>8 DEF Newcomer
<1>10. PhaseMeans(c)'
  BY <1>1, <1>3 DEF PhaseMeans
<1>11. AnswerFirst(c)'
  BY <1>1, <1>3, <1>5 DEF AnswerFirst
<1>12. QED BY <1>1, <1>3, <1>5, <1>7, <1>9, <1>10, <1>11 DEF ClientPresent

(* Nor is anything lost of what its windows and its copy show. *)
LEMMA OthersKeep ==
    ASSUME ServerInv, ServerInv', RequestsInv, ClientsInv, NEW d \in Conns, ServerStep(d),
           NEW c \in Conns, ~ (c = d /\ HandleJoin(d))
    PROVE  ClientGood(c)'
<1> USE DEF ClientsInv
<1>1. /\ phase' = phase /\ view' = view /\ role' = role
      /\ c2s'[c] = c2s[c] \/ (c2s[c] # << >> /\ c2s'[c] = Tail(c2s[c]))
      /\ link'[c] = "up" => link[c] = "up"
      /\ pipe'[c] \in {"reading", "waiting"} => pipe[c] \in {"reading", "waiting"}
      /\ pipe'[c] = "idle" <=> pipe[c] = "idle"
      /\ pipe[c] = "idle" => joins'[c] = joins[c]
      /\ joins'[c] = 0 => joins[c] = 0 /\ userOf'[c] = userOf[c]
      /\ roomOf'[c] = roomOf[c]
  BY ServerStepFacts
<1>2. PICK t : Delivered(d, c, t)
  BY Deliveries
<1>3. Joined(c) /\ AnswerRight(c) /\ NotReadyYet(c)
  BY DEF ClientGood, PresentInv, ClientPresent
<1>4. /\ TypesOf(s2c'[c]) \subseteq TypesOf(s2c[c]) \cup TypesOf(t)
      /\ s2c'[c] # << >> /\ Head(s2c'[c]).type = "joined" =>
             s2c[c] # << >> /\ Head(s2c'[c]) = Head(s2c[c])
  BY <1>2, Behind
<1>5. roomOf[c] # NoRoom => /\ userOf'[c] = userOf[c] /\ joins'[c] = joins[c]
                            /\ ColorOf(c)' \in {ColorOf(c), SPACE}
  BY <1>3, ColorKept
<1>6. AnswerRight(c)'
  <2>1. ASSUME s2c'[c] # << >>, Head(s2c'[c]).type = "joined"
        PROVE  Right(c, RoleIn(Head(s2c[c]).room, username[c]))'
    <3> DEFINE color == RoleIn(Head(s2c[c]).room, username[c])
    <3>1. s2c[c] # << >> /\ Head(s2c'[c]) = Head(s2c[c])
      BY <1>4, <2>1
    <3>2. Right(c, color)
      BY <1>3, <2>1, <3>1 DEF AnswerRight
    <3>3. roomOf'[c] # NoRoom /\ (color # SPACE => ColorOf(c)' \in {color, SPACE})
      BY <3>2, RightKept
    <3>4. color = RoleIn(Head(s2c'[c]).room, username[c])
      BY <3>1
    <3> HIDE DEF color
    <3>5. QED BY <3>3, <3>4 DEF Right
  <2>2. phase'[c] = "joined" => Right(c, RoleIn(view[c], username[c]))'
    BY <1>1, <1>3, RightKept DEF AnswerRight, Right
  <2>3. role'[c] # SPACE => Right(c, role[c])'
    BY <1>1, <1>3, RightKept DEF AnswerRight, Right
  <2>4. QED BY <2>1, <2>2, <2>3 DEF AnswerRight
<1>7. NotReadyYet(c)'
  <2> SUFFICES ASSUME phase[c] \in {"home", "joining", "joined"}
               PROVE  /\ "ready" \notin OpsOf(c2s'[c])
                      /\ roomOf'[c] # NoRoom /\ ColorOf(c)' # SPACE =>
                             /\ rooms'[roomOf'[c]].ready # ColorOf(c)'
                             /\ "start" \notin TypesOf(s2c'[c])
    BY <1>1 DEF NotReadyYet
  <2>1. "ready" \notin OpsOf(c2s'[c])
    <3>1. "ready" \notin OpsOf(c2s[c]) /\ IsSequence(c2s[c])
      BY <1>3 DEF NotReadyYet, RequestsInv, KnownOnly
    <3>2. QED BY <1>1, <3>1, TypesLeft
  <2>2. ASSUME roomOf'[c] # NoRoom, ColorOf(c)' # SPACE
        PROVE  /\ rooms'[roomOf'[c]].ready # ColorOf(c)'
               /\ "start" \notin TypesOf(s2c'[c])
    <3>1. /\ roomOf[c] # NoRoom /\ roomOf[c] \in RoomIds
          /\ ColorOf(c)' = ColorOf(c) /\ ColorOf(c) # SPACE
      BY <1>1, <1>5, <2>2 DEF ServerInv, ConnsInv
    <3>2. rooms[roomOf[c]].ready # ColorOf(c) /\ "start" \notin TypesOf(s2c[c])
      BY <1>3, <3>1 DEF NotReadyYet
    <3>3. rooms'[roomOf[c]].ready # ColorOf(c)
      <4>1. CASE rooms'[roomOf[c]].ready \in {rooms[roomOf[c]].ready, SPACE}
        BY <3>1, <3>2, <4>1
      <4>2. CASE /\ HandleReady(d) /\ roomOf[d] = roomOf[c]
                 /\ rooms'[roomOf[c]].ready = PlayerColor(rooms[roomOf[c]], userOf[d])
        BY <3>1, <4>2, ReadyIsOpen
      <4>3. QED BY <3>1, <4>1, <4>2, SeatsMove
    <3>4. "start" \notin TypesOf(t)
      BY <1>2, <3>1, NoStartYet DEF Delivered
    <3>5. QED BY <1>1, <1>4, <3>1, <3>2, <3>3, <3>4
  <2>3. QED BY <2>1, <2>2
<1>8. QED BY <1>6, <1>7 DEF ClientGood

(* Every player typed in a name of its own. *)
NamesDiffer == \A c, d \in Conns : username[c] = username[d] => c = d

(* Two users of one connection are the same: a client joins once. *)
LEMMA OneUser ==
    ASSUME NEW user \in Users, NEW other \in Users, user.conn = other.conn
    PROVE  user = other
<1>1. MaxJoins = 1
  BY GobangAssumption
<1>2. user = [conn |-> user.conn, seq |-> 1] /\ other = [conn |-> other.conn, seq |-> 1]
  BY <1>1 DEF Users
<1>3. QED BY <1>2

(* In the room its client is told (mdwroom/view.go:60-100), a player looks for its own
   name and finds the colour of its seat (room.cpp:12-21).                      *)
LEMMA SnapshotRole ==
    ASSUME NamesDiffer, NEW room \in RoomStates(Users), NEW user \in Users
    PROVE  RoleIn(Snapshot(room), username[user.conn]) = PlayerColor(room, user)
<1>1. ASSUME NEW other \in Users \cup {NoUser}
      PROVE  username[user.conn] = NameOf(other) <=> other = user
  <2>1. user.conn \in Conns /\ username[user.conn] # NoName /\ NoUser \notin Users
    BY GobangAssumption, ServerAssumption DEF Users
  <2>2. CASE other = NoUser
    BY <2>1, <2>2 DEF NameOf
  <2>3. CASE other # NoUser
    <3>1. other \in Users /\ other.conn \in Conns
      BY <2>3 DEF Users
    <3>2. NameOf(other) = username[other.conn]
      BY <2>3 DEF NameOf
    <3>3. username[user.conn] = username[other.conn] => user.conn = other.conn
      BY <2>1, <3>1 DEF NamesDiffer
    <3>4. user.conn = other.conn => other = user
      BY <3>1, OneUser
    <3>5. QED BY <3>2, <3>3, <3>4
  <2>4. QED BY <2>2, <2>3
<1>2. room.seat[BLACK] \in Users \cup {NoUser} /\ room.seat[WHITE] \in Users \cup {NoUser}
  BY DEF RoomStates, Stones
<1>3. /\ Snapshot(room).black = NameOf(room.seat[BLACK])
      /\ Snapshot(room).white = NameOf(room.seat[WHITE])
  BY DEF Snapshot
<1>4. QED BY <1>1, <1>2, <1>3 DEF RoleIn, PlayerColor

(* Its own join: the one step that makes a client a member.  Nothing was written to it
   before, and the answer shows the room as it is now.                          *)
LEMMA JoinAnswer ==
    ASSUME ServerInv, ServerInv', RequestsInv, PresentInv, NEW c \in Conns, HandleJoin(c)
    PROVE  /\ joins[c] = 0 /\ joins'[c] # 0 /\ pipe[c] = "waiting"
           /\ roomOf[c] = NoRoom /\ s2c[c] = << >> /\ view[c] = NewView
           /\ phase[c] \in {"joining", "out"} /\ "stone" \notin OpsOf(c2s[c])
           /\ phase' = phase /\ view' = view /\ role' = role /\ link' = link
           /\ Request(c).query.room \in RoomIds
           /\ roomOf' = [roomOf EXCEPT ![c] = Request(c).query.room] /\ roomOf'[c] # NoRoom
           /\ userOf'[c] \in Users /\ userOf'[c].conn = c
           /\ \A id \in RoomIds : userOf'[c] \notin rooms[id].users
           /\ rooms' = [rooms EXCEPT ![Request(c).query.room] = Place(Request(c).query, userOf'[c])]
           /\ s2c'[c] = IF link[c] # "up" THEN << >>
                        ELSE <<[type |-> "joined", room |-> Snapshot(rooms'[roomOf'[c]])]>>
           /\ link[c] = "up" => phase[c] = "joining"
<1> DEFINE q == Request(c).query
           user == userOf'[c]
           room == rooms'[q.room]
           answer == [type |-> "joined", room |-> Snapshot(room)]
           out == JoinTraffic(c, q.room)
<1>1. /\ IsSequence(s2c[c]) /\ DOMAIN s2c = Conns /\ Newcomer(c) /\ PhaseMeans(c)
  BY DEF PresentInv, ClientPresent
<1>2. /\ Handled(c, "join") /\ Authenticated(c) /\ Admitted(q) /\ Write(out)
      /\ rooms' = [rooms EXCEPT ![q.room] = Place(q, user)]
      /\ roomOf' = [roomOf EXCEPT ![c] = q.room]
      /\ link' = link /\ phase' = phase /\ view' = view /\ role' = role
  BY DEF HandleJoin, JoinAccepted
<1>3. /\ rooms \in [RoomIds -> RoomStates(Users)] /\ rooms' \in [RoomIds -> RoomStates(Users)]
      /\ roomOf \in [Conns -> RoomIds \cup {NoRoom}] /\ joins \in [Conns -> 0..MaxJoins]
      /\ NoRoom \notin RoomIds /\ NoUser \notin Users /\ MaxJoins = 1
      /\ q \in JoinRequests /\ q.room \in RoomIds
  BY <1>2, HandledKnown, ServerAssumption, GobangAssumption
  DEF ServerInv, RoomsInv, ConnsInv, Known, Admitted
<1>4. joins[c] = 0 /\ joins'[c] # 0 /\ pipe[c] = "waiting"
  BY <1>2, <1>3 DEF Authenticated
<1>5. /\ roomOf[c] = NoRoom /\ s2c[c] = << >> /\ view[c] = NewView
      /\ phase[c] \in {"joining", "out"} /\ "stone" \notin OpsOf(c2s[c])
  BY <1>1, <1>4 DEF Newcomer
<1>6. /\ user \in Users /\ user.conn = c /\ \A id \in RoomIds : user \notin rooms[id].users
  BY <1>2, FreshUser
<1>7. roomOf'[c] = q.room /\ roomOf'[c] # NoRoom /\ user \in room.users
  BY <1>2, <1>3 DEF Place, joinAsPlayer, joinAsOnlooker, RoomStates
<1>8. link[c] = "up" => phase[c] = "joining"
  BY <1>1, <1>5 DEF PhaseMeans, Connected
<1>9. c \in DOMAIN out /\ out[c] = <<answer>>
  BY <1>6, <1>7 DEF JoinTraffic, Members
<1> HIDE DEF out, answer
<1>10. s2c'[c] = IF link[c] # "up" THEN << >> ELSE <<answer>>
  <2>1. s2c'[c] = s2c[c] \o (IF c \in DOMAIN out /\ link[c] = "up" THEN out[c] ELSE << >>)
    BY <1>1, <1>2, WriteAdds
  <2>2. << >> \o << >> = << >> /\ << >> \o <<answer>> = <<answer>>
    BY TypesBehind, TypesOfFew
  <2>3. QED BY <1>5, <1>9, <2>1, <2>2
<1>11. QED BY <1>2, <1>3, <1>4, <1>5, <1>6, <1>7, <1>8, <1>10 DEF answer

(* What the channel of a newcomer holds then. *)
LEMMA AnswerAlone ==
    ASSUME NEW c \in Conns, NEW room, NEW up,
           s2c'[c] = IF ~ up THEN << >> ELSE <<[type |-> "joined", room |-> room]>>
    PROVE  /\ IsSequence(s2c'[c]) /\ TypesOf(s2c'[c]) \subseteq {"joined"}
           /\ s2c'[c] # << >> => /\ up /\ Head(s2c'[c]) = [type |-> "joined", room |-> room]
                                 /\ TypesOf(Tail(s2c'[c])) = {}
<1> DEFINE answer == [type |-> "joined", room |-> room]
<1>1. answer.type = "joined"
  OBVIOUS
<1> HIDE DEF answer
<1>2. Head(<<answer>>) = answer /\ Tail(<<answer>>) = << >>
  OBVIOUS
<1>3. s2c'[c] = << >> \/ (s2c'[c] = <<answer>> /\ up)
  BY DEF answer
<1>4. /\ IsSequence(s2c'[c]) /\ TypesOf(s2c'[c]) \subseteq {"joined"}
      /\ s2c'[c] # << >> => /\ up /\ Head(s2c'[c]) = answer
                            /\ TypesOf(Tail(s2c'[c])) = {}
  BY <1>1, <1>2, <1>3, TypesOfFew
<1>5. QED BY <1>4 DEF answer

(* A snapshot is a copy of a room. *)
LEMMA SnapshotView ==
    ASSUME NEW room \in RoomStates(Users)
    PROVE  IsView(Snapshot(room))
<1>1. room.chess.record \in Seq(Byte)
  BY DEF RoomStates, ChessStates
<1>2. IsSequence(room.chess.record)
  BY <1>1 DEF IsSequence
<1>3. QED BY <1>2 DEF IsView, Snapshot

(* The one who joins is told the room, and waits for that. *)
LEMMA NewcomerPresent ==
    ASSUME ServerInv, ServerInv', RequestsInv, PresentInv, NEW c \in Conns, HandleJoin(c)
    PROVE  ClientPresent(c)'
<1> DEFINE room == Snapshot(rooms'[roomOf'[c]])
<1>1. /\ joins'[c] # 0 /\ view[c] = NewView /\ userOf'[c] \in Users
      /\ phase' = phase /\ view' = view /\ link' = link /\ roomOf'[c] \in RoomIds
      /\ s2c'[c] = IF ~ (link[c] = "up") THEN << >> ELSE <<[type |-> "joined", room |-> room]>>
      /\ link[c] = "up" => phase[c] = "joining"
      /\ phase[c] \in {"joining", "out"} /\ IsView(view[c]) /\ NoUser \notin Users
      /\ rooms' \in [RoomIds -> RoomStates(Users)]
  BY JoinAnswer, ServerAssumption DEF PresentInv, ClientPresent, ServerInv, ConnsInv, RoomsInv
<1>2. IsView(room)
  BY <1>1, SnapshotView
<1> HIDE DEF room
<1>3. /\ IsSequence(s2c'[c])
      /\ s2c'[c] # << >> => /\ link[c] = "up" /\ Head(s2c'[c]) = [type |-> "joined", room |-> room]
                            /\ TypesOf(Tail(s2c'[c])) = {}
  BY <1>1, AnswerAlone
<1>4. Joined(c)' /\ Newcomer(c)' /\ PhaseMeans(c)'
  BY <1>1 DEF Joined, Newcomer, PhaseMeans, Connected
<1>5. AnswerFirst(c)'
  BY <1>1, <1>2, <1>3 DEF AnswerFirst
<1>6. QED BY <1>1, <1>3, <1>4, <1>5 DEF ClientPresent

(* It takes an empty seat, for which nobody can be ready, and is told its colour. *)
LEMMA NewcomerKeeps ==
    ASSUME NamesDiffer, ServerInv, ServerInv', RequestsInv, ClientsInv, NEW c \in Conns,
           HandleJoin(c)
    PROVE  ClientGood(c)'
<1> DEFINE q == Request(c).query
           user == userOf'[c]
           room == rooms'[q.room]
<1> USE DEF ClientsInv
<1>1. AnswerRight(c) /\ NotReadyYet(c)
  BY DEF ClientGood
<1>2. /\ Handled(c, "join") /\ rooms' = [rooms EXCEPT ![q.room] = Place(q, user)]
      /\ roomOf' = [roomOf EXCEPT ![c] = q.room] /\ roomOf'[c] # NoRoom /\ roomOf[c] = NoRoom
      /\ phase' = phase /\ view' = view /\ role' = role
      /\ q.room \in RoomIds /\ phase[c] \in {"joining", "out"}
      /\ user \in Users /\ user.conn = c /\ \A id \in RoomIds : user \notin rooms[id].users
  BY JoinAnswer DEF HandleJoin
<1>3. /\ rooms \in [RoomIds -> RoomStates(Users)] /\ rooms' \in [RoomIds -> RoomStates(Users)]
      /\ roomOf \in [Conns -> RoomIds \cup {NoRoom}] /\ NoUser \notin Users
      /\ Authenticated(c) /\ Admitted(q) /\ q \in JoinRequests
  BY <1>2, HandledKnown, ServerAssumption
  DEF ServerInv, RoomsInv, ConnsInv, Known, HandleJoin, JoinAccepted
<1>4. role[c] = SPACE
  BY <1>1, <1>2 DEF AnswerRight, Right
<1>5. roomOf'[c] = q.room /\ room \in RoomStates(Users) /\ ColorOf(c)' = PlayerColor(room, user)
  BY <1>2, <1>3 DEF ColorOf
<1>6. s2c'[c] = IF ~ (link[c] = "up") THEN << >> ELSE <<[type |-> "joined", room |-> Snapshot(room)]>>
  BY <1>5, JoinAnswer
<1> HIDE DEF q, user, room
<1>7. /\ TypesOf(s2c'[c]) \subseteq {"joined"}
      /\ s2c'[c] # << >> => Head(s2c'[c]) = [type |-> "joined", room |-> Snapshot(room)]
  <2> DEFINE told == Snapshot(room)
  <2>1. s2c'[c] = IF ~ (link[c] = "up") THEN << >> ELSE <<[type |-> "joined", room |-> told]>>
    BY <1>6
  <2> HIDE DEF told
  <2>2. QED BY <2>1, AnswerAlone DEF told
<1>8. AnswerRight(c)'
  <2>1. RoleIn(Snapshot(room), username[c]) = ColorOf(c)'
    BY <1>2, <1>5, SnapshotRole
  <2>2. s2c'[c] # << >> => Right(c, RoleIn(Head(s2c[c]).room, username[c]))'
    BY <1>2, <1>7, <2>1 DEF Right
  <2>3. QED BY <1>2, <1>4, <1>7, <2>1, <2>2 DEF AnswerRight
<1>9. NotReadyYet(c)'
  <2>1. phase[c] \in {"home", "joining", "joined"} => "ready" \notin OpsOf(c2s'[c])
    <3>1. c2s[c] # << >> /\ c2s'[c] = Tail(c2s[c]) /\ IsSequence(c2s[c])
      BY <1>2 DEF Handled, RequestsInv, KnownOnly
    <3>2. QED BY <1>1, <3>1, TypesLeft DEF NotReadyYet
  <2>2. ASSUME ColorOf(c)' # SPACE, room.ready = ColorOf(c)' PROVE FALSE
    <3> DEFINE color == PlayerColor(room, user)
    <3>1. color \in Stones /\ room.seat[color] = user
      BY <1>5, <2>2, PlayerHoldsSeat DEF IsPlayer
    <3>2. room = Place(q, user) /\ rooms[q.room] \in RoomStates(Users)
      BY <1>2, <1>3 DEF room
    <3>3. room.ready = rooms[q.room].ready
      BY <3>2 DEF Place, joinAsPlayer, joinAsOnlooker, RoomStates
    <3>4. FlagsSeated(rooms[q.room]) /\ SeatsDistinct(rooms[q.room])
      BY <1>2, <1>3 DEF ServerInv, RoomsInv, RoomGood
    <3> HIDE DEF color
    <3>5. rooms[q.room].seat[color] # NoUser
      BY <1>5, <2>2, <3>1, <3>3, <3>4 DEF FlagsSeated, color
    <3>6. rooms[q.room].seat[color] # user
      BY <1>2, <1>3, <3>1, <3>4, <3>5 DEF SeatsDistinct
    <3>7. rooms[q.room].seat[color] # room.seat[color] => rooms[q.room].seat[color] = NoUser
      BY <1>2, <1>3, <3>1, JoinGood DEF room, user
    <3>8. QED BY <3>1, <3>5, <3>6, <3>7
  <2>3. rooms'[roomOf'[c]] = room
    BY <1>5 DEF room
  <2>4. QED BY <1>2, <1>7, <2>1, <2>2, <2>3 DEF NotReadyYet
<1>10. QED BY <1>8, <1>9 DEF ClientGood

(* Every step of the server keeps all clients present, *)
LEMMA ServerPresent ==
    ASSUME ServerInv, ServerInv', RequestsInv, PresentInv, NEW d \in Conns, ServerStep(d)
    PROVE  PresentInv'
<1>1. \A c \in Conns : ClientPresent(c)'
  BY OthersPresent, NewcomerPresent
<1>2. phase' = phase /\ view' = view /\ role' = role /\ DOMAIN s2c' = Conns
  BY ServerStepFacts
<1>3. QED BY <1>1, <1>2 DEF PresentInv

(* and what they show right. *)
LEMMA ServerKeeps ==
    ASSUME NamesDiffer, ServerInv, ServerInv', RequestsInv, ClientsInv, NEW d \in Conns,
           ServerStep(d)
    PROVE  ClientsInv'
<1>1. \A c \in Conns : ClientGood(c)'
  BY OthersKeep, NewcomerKeeps
<1>2. PresentInv'
  BY ServerPresent DEF ClientsInv
<1>3. QED BY <1>1, <1>2 DEF ClientsInv

-----------------------------------------------------------------------------
(* The client's steps *)

(* No message but the start of a game lets a player find its name at another colour
   than before (server_game_room.cpp:335-385, room.cpp:36-52).                  *)
LEMMA AppliedRole ==
    ASSUME NEW v, IsView(v), NEW m, m.type \in {"other", "leave", "ready", "start", "stone"}
    PROVE  /\ IsView(Applied(v, m))
           /\ \A name : m.type # "start" /\ name # NoName =>
                          RoleIn(Applied(v, m), name) \in {RoleIn(v, name), SPACE}
<1> DEFINE w == [black |-> v.black, white |-> v.white, ready |-> v.ready,
                 playing |-> v.playing, record |-> v.record]
<1>1. v = w
  BY DEF IsView
<1>2. CASE m.type = "other"
  BY <1>1, <1>2 DEF Applied
<1>3. CASE m.type = "leave"
  <2>1. Applied(v, m) = [w EXCEPT !.black = IF @ \in m.names THEN NoName ELSE @,
                                  !.white = IF @ \in m.names THEN NoName ELSE @]
    BY <1>1, <1>3 DEF Applied, Without
  <2>2. Applied(v, m) = [black |-> IF v.black \in m.names THEN NoName ELSE v.black,
                         white |-> IF v.white \in m.names THEN NoName ELSE v.white,
                         ready |-> v.ready, playing |-> v.playing, record |-> v.record]
    BY <2>1
  <2>3. QED BY <2>2 DEF IsView, RoleIn
<1>4. CASE m.type = "ready"
  <2>1. Applied(v, m) = [w EXCEPT !.ready = m.color]
    BY <1>1, <1>4 DEF Applied
  <2>2. QED BY <2>1 DEF IsView, RoleIn
<1>5. CASE m.type = "start"
  <2>1. Applied(v, m) = Started(w, m.name)
    BY <1>1, <1>5 DEF Applied
  <2>2. QED BY <1>5, <2>1 DEF IsView, Started
<1>6. CASE m.type = "stone"
  <2>1. Applied(v, m) = [w EXCEPT !.record = Append(@, m.coor)]
    BY <1>1, <1>6 DEF Applied
  <2>2. IsSequence(Append(v.record, m.coor))
    BY AppendSequence DEF IsView
  <2>3. QED BY <2>1, <2>2 DEF IsView, RoleIn
<1>7. QED BY <1>2, <1>3, <1>4, <1>5, <1>6

(* The record is touched by the answer to a join and by stones only. *)
LEMMA AppliedRecord ==
    ASSUME NEW v, IsView(v), NEW m, m.type \in {"other", "leave", "ready", "start", "stone"}
    PROVE  Applied(v, m).record = RecordRead(v.record, m)
<1> DEFINE w == [black |-> v.black, white |-> v.white, ready |-> v.ready,
                 playing |-> v.playing, record |-> v.record]
<1>1. v = w
  BY DEF IsView
<1>2. CASE m.type = "other"
  BY <1>2 DEF Applied, RecordRead
<1>3. CASE m.type = "leave"
  <2>1. Applied(v, m) = Without(w, m.names)
    BY <1>1, <1>3 DEF Applied
  <2>2. QED BY <1>3, <2>1 DEF Without, RecordRead
<1>4. CASE m.type = "ready"
  <2>1. Applied(v, m) = [w EXCEPT !.ready = m.color]
    BY <1>1, <1>4 DEF Applied
  <2>2. QED BY <1>4, <2>1 DEF RecordRead
<1>5. CASE m.type = "start"
  <2>1. Applied(v, m) = Started(w, m.name)
    BY <1>1, <1>5 DEF Applied
  <2>2. QED BY <1>5, <2>1 DEF Started, RecordRead
<1>6. CASE m.type = "stone"
  <2>1. Applied(v, m) = [w EXCEPT !.record = Append(@, m.coor)]
    BY <1>1, <1>6 DEF Applied
  <2>2. QED BY <1>6, <2>1 DEF RecordRead
<1>7. QED BY <1>2, <1>3, <1>4, <1>5, <1>6

(* A client's step leaves the server's rooms and the other clients alone. *)
LEMMA ClientStepFacts ==
    ASSUME ServerInv, RequestsInv, PresentInv, NEW e \in Conns, ClientStep(e)
    PROVE  /\ phase' \in [Conns -> Phases]
           /\ DOMAIN s2c' = Conns /\ DOMAIN view' = Conns /\ DOMAIN role' = Conns
           /\ rooms' = rooms /\ userOf' = userOf /\ roomOf' = roomOf /\ joins' = joins
           /\ \A c \in Conns : c # e => /\ pipe'[c] = pipe[c] /\ link'[c] = link[c]
                                        /\ c2s'[c] = c2s[c] /\ s2c'[c] = s2c[c]
                                        /\ phase'[c] = phase[c] /\ view'[c] = view[c]
                                        /\ role'[c] = role[c]
<1> DEFINE Goal == /\ phase' \in [Conns -> Phases]
                   /\ DOMAIN s2c' = Conns /\ DOMAIN view' = Conns /\ DOMAIN role' = Conns
                   /\ rooms' = rooms /\ userOf' = userOf /\ roomOf' = roomOf /\ joins' = joins
                   /\ \A c \in Conns : c # e => /\ pipe'[c] = pipe[c] /\ link'[c] = link[c]
                                                /\ c2s'[c] = c2s[c] /\ s2c'[c] = s2c[c]
                                                /\ phase'[c] = phase[c] /\ view'[c] = view[c]
                                                /\ role'[c] = role[c]
<1>1. /\ phase \in [Conns -> Phases] /\ DOMAIN s2c = Conns /\ DOMAIN view = Conns
      /\ DOMAIN role = Conns /\ DOMAIN c2s = Conns
      /\ pipe \in [Conns -> PipeStates] /\ link \in [Conns -> LinkStates]
  BY DEF PresentInv, RequestsInv, ServerInv, ConnsInv
<1>2. \A state \in {"joining", "joined", "in", "failed", "out"} : state \in Phases
  BY DEF Phases
<1>3. ASSUME Gone(e), UNCHANGED c2s PROVE Goal
  BY <1>1, <1>2, <1>3 DEF Gone
<1>4. ASSUME NEW q, Send(e, q) PROVE c2s' = [c2s EXCEPT ![e] = Append(@, q)]
  BY <1>4 DEF Send
<1>5. CASE Connect(e)
  <2>1. PICK q : Send(e, q)
    BY <1>5 DEF Connect
  <2>2. QED BY <1>1, <1>2, <1>4, <1>5, <2>1 DEF Connect, Accept
<1>6. CASE ReceiveYouJoinRoom(e)
  BY <1>1, <1>2, <1>6 DEF ReceiveYouJoinRoom, OpensWindows, vars
<1>7. CASE ReceiveDenied(e) \/ Receive(e) \/ OpenWindows(e)
  BY <1>1, <1>2, <1>7 DEF ReceiveDenied, Receive, OpenWindows, OpensWindows, vars
<1>8. CASE ReceiveGameOver(e) \/ StreamEnds(e) \/ Quit(e)
  BY <1>3, <1>8 DEF ReceiveGameOver, StreamEnds, Quit
<1>9. ASSUME ClickLeave(e) \/ ClickReady(e) \/ \E coor \in Coors : ClickStone(e, coor) PROVE Goal
  <2>1. (\E q : Send(e, q)) /\ UNCHANGED <<vars, s2c, phase, view, role>>
    BY <1>9 DEF ClickLeave, ClickReady, ClickStone
  <2>2. QED BY <1>1, <1>4, <2>1 DEF vars
<1>10. QED BY <1>5, <1>6, <1>7, <1>8, <1>9 DEF ClientStep, Listen

(* What a client has read is gone, and no second answer to its join is behind it. *)
LEMMA MessageRead ==
    ASSUME NEW c \in Conns, ClientPresent(c), s2c[c] # << >>, s2c'[c] = Tail(s2c[c])
    PROVE  /\ IsSequence(s2c'[c]) /\ TypesOf(s2c'[c]) \subseteq TypesOf(s2c[c])
           /\ s2c'[c] # << >> => /\ Head(s2c'[c]).type # "joined"
                                 /\ "joined" \notin TypesOf(Tail(s2c'[c]))
           /\ Head(s2c[c]).type \in TypesOf(s2c[c])
<1>1. IsSequence(s2c[c]) /\ "joined" \notin TypesOf(Tail(s2c[c]))
  BY DEF ClientPresent, AnswerFirst
<1>2. IsSequence(s2c'[c]) /\ "joined" \notin TypesOf(s2c'[c])
  BY <1>1, TypesLeft
<1>3. s2c'[c] # << >> => /\ Head(s2c'[c]).type \in TypesOf(s2c'[c])
                         /\ TypesOf(Tail(s2c'[c])) \subseteq TypesOf(s2c'[c])
  BY <1>2, TypesLeft
<1>4. QED BY <1>1, <1>2, <1>3, TypesLeft

(* A client's own steps: it asks for a room once, hears the answer while it waits for
   it, and places stones only with its windows open.                            *)
LEMMA OwnStepPresent ==
    ASSUME ServerInv, RequestsInv, PresentInv, NEW c \in Conns, ClientStep(c)
    PROVE  ClientPresent(c)'
<1>1. /\ IsSequence(s2c[c]) /\ IsView(view[c])
      /\ Joined(c) /\ Newcomer(c) /\ PhaseMeans(c) /\ AnswerFirst(c)
      /\ phase \in [Conns -> Phases] /\ DOMAIN s2c = Conns /\ DOMAIN view = Conns
      /\ DOMAIN c2s = Conns
      /\ pipe \in [Conns -> PipeStates] /\ link \in [Conns -> LinkStates]
      /\ IsSequence(c2s[c])
  BY DEF PresentInv, ClientPresent, RequestsInv, KnownOnly, ServerInv, ConnsInv
<1>2. userOf' = userOf /\ roomOf' = roomOf /\ joins' = joins
  BY ClientStepFacts
<1>3. Joined(c)'
  BY <1>1, <1>2 DEF Joined
<1>4. CASE Connect(c)
  <2>1. PICK q : Send(c, q) /\ q.op = "join"
    BY <1>4 DEF Connect
  <2>2. /\ phase[c] = "home" /\ pipe[c] = "idle" /\ phase'[c] = "joining"
        /\ s2c' = s2c /\ view' = view
    BY <1>1, <1>4 DEF Connect, Accept
  <2>3. joins[c] = 0 /\ s2c[c] = << >> /\ view[c] = NewView /\ "stone" \notin OpsOf(c2s[c])
    BY <1>1, <2>2 DEF PhaseMeans, Newcomer
  <2>4. OpsOf(c2s'[c]) \subseteq OpsOf(c2s[c]) \cup {"join"}
    BY <1>1, <2>1, OpsSent DEF Send
  <2>5. Newcomer(c)' /\ PhaseMeans(c)' /\ AnswerFirst(c)'
    BY <1>1, <1>2, <2>2, <2>3, <2>4 DEF Newcomer, PhaseMeans, Connected, AnswerFirst
  <2>6. QED BY <1>1, <1>3, <2>2, <2>5 DEF ClientPresent
<1>5. ASSUME Gone(c), UNCHANGED c2s PROVE ClientPresent(c)'
  <2>1. /\ phase'[c] = "out" /\ s2c'[c] = << >> /\ view' = view
        /\ link'[c] # "up" /\ pipe' = pipe /\ c2s' = c2s
    BY <1>1, <1>5 DEF Gone
  <2>2. IsSequence(s2c'[c]) /\ IsView(view'[c])
    BY <1>1, <2>1, TypesOfFew
  <2>3. Newcomer(c)' /\ PhaseMeans(c)' /\ AnswerFirst(c)'
    BY <1>1, <1>2, <2>1 DEF Newcomer, PhaseMeans, AnswerFirst
  <2>4. QED BY <1>3, <2>2, <2>3 DEF ClientPresent
<1>6. ASSUME s2c[c] # << >>, s2c'[c] = Tail(s2c[c]), Head(s2c[c]).type = "joined" \/ phase'[c] \in {phase[c], "failed"},
             phase'[c] \in Connected, IsView(view'[c]), UNCHANGED <<c2s, pipe>>,
             phase'[c] \in {"joined", "in"} => joins[c] # 0
      PROVE  ClientPresent(c)'
  <2>1. /\ IsSequence(s2c'[c])
        /\ s2c'[c] # << >> => /\ Head(s2c'[c]).type # "joined"
                              /\ "joined" \notin TypesOf(Tail(s2c'[c]))
    BY <1>1, <1>6, MessageRead DEF ClientPresent
  <2>2. Newcomer(c)' /\ PhaseMeans(c)'
    BY <1>1, <1>2, <1>6 DEF Newcomer, PhaseMeans, AnswerFirst, Connected
  <2>3. AnswerFirst(c)'
    BY <2>1 DEF AnswerFirst
  <2>4. QED BY <1>3, <1>6, <2>1, <2>2, <2>3 DEF ClientPresent
<1>7. CASE OpenWindows(c)
  <2>1. /\ phase[c] = "joined" /\ phase'[c] = "in"
        /\ s2c' = s2c /\ view' = view /\ c2s' = c2s /\ pipe' = pipe
    BY <1>1, <1>7 DEF OpenWindows, OpensWindows, vars
  <2>2. Newcomer(c)' /\ PhaseMeans(c)' /\ AnswerFirst(c)'
    BY <1>1, <1>2, <2>1 DEF Newcomer, PhaseMeans, Connected, AnswerFirst
  <2>3. QED BY <1>1, <1>3, <2>1, <2>2 DEF ClientPresent
<1>8. CASE ReceiveYouJoinRoom(c)
  <2>1. /\ s2c[c] # << >> /\ Head(s2c[c]).type = "joined" /\ s2c'[c] = Tail(s2c[c])
        /\ view'[c] = Head(s2c[c]).room /\ UNCHANGED <<c2s, pipe>>
        /\ phase'[c] \in {"joined", "in"}
    BY <1>1, <1>8 DEF ReceiveYouJoinRoom, OpensWindows, Incoming, vars
  <2>2. joins[c] # 0 /\ IsView(view'[c])
    BY <1>1, <2>1 DEF AnswerFirst
  <2>3. QED BY <1>6, <2>1, <2>2 DEF Connected
<1>9. CASE ReceiveDenied(c)
  <2>1. /\ s2c[c] # << >> /\ s2c'[c] = Tail(s2c[c]) /\ phase'[c] = "failed"
        /\ view' = view /\ UNCHANGED <<c2s, pipe>>
    BY <1>1, <1>9 DEF ReceiveDenied, Incoming, vars
  <2>2. QED BY <1>1, <1>6, <2>1 DEF Connected
<1>10. CASE Receive(c)
  <2>1. /\ s2c[c] # << >> /\ s2c'[c] = Tail(s2c[c]) /\ view'[c] = Applied(view[c], Head(s2c[c]))
        /\ Head(s2c[c]).type \in {"other", "leave", "ready", "start", "stone"}
        /\ phase' = phase /\ phase[c] \in Connected /\ UNCHANGED <<c2s, pipe>>
    BY <1>1, <1>10 DEF Receive, Incoming, vars
  <2>2. IsView(view'[c])
    BY <1>1, <2>1, AppliedRole
  <2>3. phase[c] \in {"joined", "in"} => joins[c] # 0
    BY <1>1 DEF PhaseMeans
  <2>4. QED BY <1>6, <2>1, <2>2, <2>3
<1>11. CASE ReceiveGameOver(c) \/ StreamEnds(c) \/ Quit(c)
  BY <1>5, <1>11 DEF ReceiveGameOver, StreamEnds, Quit
<1>12. ASSUME ClickLeave(c) \/ ClickReady(c) \/ \E coor \in Coors : ClickStone(c, coor)
       PROVE  ClientPresent(c)'
  <2>1. /\ phase[c] = "in" /\ phase' = phase /\ s2c' = s2c /\ view' = view
        /\ pipe' = pipe /\ link' = link
    BY <1>12 DEF ClickLeave, ClickReady, ClickStone, CanClick, vars
  <2>2. Newcomer(c)' /\ PhaseMeans(c)' /\ AnswerFirst(c)'
    BY <1>1, <1>2, <2>1 DEF Newcomer, PhaseMeans, AnswerFirst
  <2>3. QED BY <1>1, <1>3, <2>1, <2>2 DEF ClientPresent
<1>13. QED
  BY <1>4, <1>7, <1>8, <1>9, <1>10, <1>11, <1>12 DEF ClientStep, Listen

(* It opens its windows with the copy it was told, or with none; it says that it is
   ready only with its windows open; and the messages it reads before that take
   colours away, but start no game with it.                                     *)
LEMMA OwnStepKeeps ==
    ASSUME ServerInv, RequestsInv, ClientsInv, NEW c \in Conns, ClientStep(c)
    PROVE  ClientGood(c)'
<1>1. /\ ClientPresent(c) /\ IsView(view[c]) /\ AnswerFirst(c) /\ AnswerRight(c) /\ NotReadyYet(c)
      /\ phase \in [Conns -> Phases] /\ DOMAIN s2c = Conns /\ DOMAIN view = Conns
      /\ DOMAIN role = Conns /\ DOMAIN c2s = Conns
      /\ pipe \in [Conns -> PipeStates] /\ IsSequence(c2s[c])
  BY DEF ClientsInv, PresentInv, ClientPresent, ClientGood, RequestsInv, KnownOnly, ServerInv, ConnsInv
<1>2. rooms' = rooms /\ userOf' = userOf /\ roomOf' = roomOf
  BY ClientStepFacts DEF ClientsInv
<1>3. ColorOf(c)' = ColorOf(c)
  BY <1>2 DEF ColorOf
<1>4. CASE Connect(c)
  <2>1. PICK q : Send(c, q) /\ q.op = "join"
    BY <1>4 DEF Connect
  <2>2. /\ phase[c] = "home" /\ pipe[c] = "idle" /\ phase'[c] = "joining"
        /\ s2c' = s2c /\ view' = view /\ role' = role
    BY <1>1, <1>4 DEF Connect, Accept
  <2>3. roomOf[c] = NoRoom /\ s2c[c] = << >>
    BY <1>1, <2>2 DEF ClientPresent, PhaseMeans, Newcomer
  <2>4. AnswerRight(c)'
    BY <1>1, <1>2, <2>2, <2>3 DEF AnswerRight, Right
  <2>5. OpsOf(c2s'[c]) \subseteq OpsOf(c2s[c]) \cup {"join"}
    BY <1>1, <2>1, OpsSent DEF Send
  <2>6. NotReadyYet(c)'
    BY <1>1, <1>2, <2>2, <2>3, <2>5 DEF NotReadyYet
  <2>7. QED BY <2>4, <2>6 DEF ClientGood
<1>5. ASSUME Gone(c) PROVE ClientGood(c)'
  <2>1. phase'[c] = "out" /\ s2c'[c] = << >> /\ role'[c] = SPACE
    BY <1>1, <1>5 DEF Gone
  <2>2. QED BY <2>1 DEF ClientGood, AnswerRight, NotReadyYet
<1>6. CASE OpenWindows(c)
  <2>1. /\ phase[c] = "joined" /\ phase'[c] = "in" /\ role'[c] = RoleIn(view[c], username[c])
        /\ s2c' = s2c
    BY <1>1, <1>6 DEF OpenWindows, OpensWindows
  <2>2. Right(c, role'[c])
    BY <1>1, <2>1 DEF AnswerRight
  <2>3. role'[c] # SPACE => Right(c, role[c])'
    BY <1>2, <1>3, <2>2 DEF Right
  <2>4. s2c[c] # << >> => Head(s2c[c]).type # "joined"
    BY <1>1, <2>1 DEF AnswerFirst
  <2>5. QED BY <2>1, <2>3, <2>4 DEF ClientGood, AnswerRight, NotReadyYet
<1>7. CASE ReceiveYouJoinRoom(c)
  <2>1. /\ s2c[c] # << >> /\ Head(s2c[c]).type = "joined" /\ s2c'[c] = Tail(s2c[c])
        /\ view'[c] = Head(s2c[c]).room /\ c2s' = c2s
        /\ \/ phase'[c] = "joined" /\ role' = role
           \/ phase'[c] = "in" /\ role'[c] = RoleIn(view[c], username[c])
    BY <1>1, <1>7 DEF ReceiveYouJoinRoom, OpensWindows, Incoming, vars
  <2>2. phase[c] = "joining" /\ view[c] = NewView /\ Right(c, RoleIn(Head(s2c[c]).room, username[c]))
    BY <1>1, <2>1 DEF AnswerFirst, AnswerRight
  <2>3. RoleIn(NewView, username[c]) = SPACE
    BY GobangAssumption DEF RoleIn, NewView
  <2>4. role'[c] = role[c] \/ role'[c] = SPACE
    BY <2>1, <2>2, <2>3
  <2>5. Right(c, RoleIn(view[c], username[c]))'
    BY <1>2, <1>3, <2>1, <2>2 DEF Right
  <2>6. role'[c] # SPACE => Right(c, role[c])'
    BY <1>1, <1>2, <1>3, <2>4 DEF AnswerRight, Right
  <2>7. AnswerRight(c)'
    BY <1>1, <2>1, <2>5, <2>6, MessageRead DEF AnswerRight
  <2>8. NotReadyYet(c)'
    BY <1>1, <1>2, <1>3, <2>1, <2>2, MessageRead DEF NotReadyYet
  <2>9. QED BY <2>7, <2>8 DEF ClientGood
<1>8. CASE ReceiveDenied(c)
  <2>1. s2c[c] # << >> /\ s2c'[c] = Tail(s2c[c]) /\ phase'[c] = "failed" /\ role' = role
    BY <1>1, <1>8 DEF ReceiveDenied, Incoming
  <2>2. role'[c] # SPACE => Right(c, role[c])'
    BY <1>1, <1>2, <1>3, <2>1 DEF AnswerRight, Right
  <2>3. QED BY <1>1, <2>1, <2>2, MessageRead DEF ClientGood, AnswerRight, NotReadyYet
<1>9. CASE Receive(c)
  <2> DEFINE m == Head(s2c[c])
  <2>1. /\ s2c[c] # << >> /\ s2c'[c] = Tail(s2c[c]) /\ view'[c] = Applied(view[c], m)
        /\ m.type \in {"other", "leave", "ready", "start", "stone"}
        /\ phase' = phase /\ role' = role /\ c2s' = c2s
    BY <1>1, <1>9 DEF Receive, Incoming, vars
  <2>2. m.type \in TypesOf(s2c[c])
    BY <1>1, <2>1, MessageRead
  <2>3. username[c] # NoName
    BY GobangAssumption
  <2> HIDE DEF m
  <2>4. m.type # "start" => RoleIn(view'[c], username[c]) \in {RoleIn(view[c], username[c]), SPACE}
    BY <1>1, <2>1, <2>3, AppliedRole
  <2>5. ASSUME phase[c] = "joined" PROVE Right(c, RoleIn(view[c], username[c]))'
    <3> DEFINE old == RoleIn(view[c], username[c])
               new == RoleIn(view'[c], username[c])
    <3>1. roomOf[c] # NoRoom /\ (old # SPACE => ColorOf(c) \in {old, SPACE})
      BY <1>1, <2>5 DEF AnswerRight, Right
    <3>2. m.type = "start" => ColorOf(c) = SPACE
      BY <1>1, <2>2, <2>5, <3>1 DEF NotReadyYet
    <3>3. m.type # "start" => new \in {old, SPACE}
      BY <2>4
    <3> HIDE DEF old
    <3>4. new # SPACE => ColorOf(c) \in {new, SPACE}
      <4> HIDE DEF new
      <4>1. QED BY <3>1, <3>2, <3>3
    <3>5. QED BY <1>2, <1>3, <3>1, <3>4 DEF Right
  <2>6. role'[c] # SPACE => Right(c, role[c])'
    BY <1>1, <1>2, <1>3, <2>1 DEF AnswerRight, Right
  <2>7. AnswerRight(c)'
    BY <1>1, <2>1, <2>5, <2>6, MessageRead DEF AnswerRight
  <2>8. NotReadyYet(c)'
    BY <1>1, <1>2, <1>3, <2>1, MessageRead DEF NotReadyYet
  <2>9. QED BY <2>7, <2>8 DEF ClientGood
<1>10. CASE ReceiveGameOver(c) \/ StreamEnds(c) \/ Quit(c)
  BY <1>5, <1>10 DEF ReceiveGameOver, StreamEnds, Quit
<1>11. ASSUME ClickLeave(c) \/ ClickReady(c) \/ \E coor \in Coors : ClickStone(c, coor)
       PROVE  ClientGood(c)'
  <2>1. phase[c] = "in" /\ phase' = phase /\ s2c' = s2c /\ view' = view /\ role' = role
    BY <1>11 DEF ClickLeave, ClickReady, ClickStone, CanClick
  <2>2. role'[c] # SPACE => Right(c, role[c])'
    BY <1>1, <1>2, <1>3, <2>1 DEF AnswerRight, Right
  <2>3. QED BY <1>1, <1>2, <1>3, <2>1, <2>2 DEF ClientGood, AnswerRight, NotReadyYet, Right
<1>12. QED
  BY <1>4, <1>6, <1>7, <1>8, <1>9, <1>10, <1>11 DEF ClientStep, Listen

(* Every step of a client keeps all clients present, *)
LEMMA ClientPresentKept ==
    ASSUME ServerInv, RequestsInv, PresentInv, NEW e \in Conns, ClientStep(e)
    PROVE  PresentInv'
<1>1. /\ phase' \in [Conns -> Phases]
      /\ DOMAIN s2c' = Conns /\ DOMAIN view' = Conns /\ DOMAIN role' = Conns
      /\ userOf' = userOf /\ roomOf' = roomOf /\ joins' = joins
      /\ \A c \in Conns : c # e => /\ pipe'[c] = pipe[c] /\ link'[c] = link[c]
                                   /\ c2s'[c] = c2s[c] /\ s2c'[c] = s2c[c]
                                   /\ phase'[c] = phase[c] /\ view'[c] = view[c]
  BY ClientStepFacts
<1>2. ASSUME NEW c \in Conns, c # e PROVE ClientPresent(c)'
  <2>1. /\ pipe'[c] = pipe[c] /\ link'[c] = link[c] /\ c2s'[c] = c2s[c] /\ s2c'[c] = s2c[c]
        /\ phase'[c] = phase[c] /\ view'[c] = view[c]
    BY <1>1, <1>2
  <2>2. ClientPresent(c)
    BY DEF PresentInv
  <2>3. QED BY <1>1, <2>1, <2>2 DEF ClientPresent, Joined, Newcomer, PhaseMeans, AnswerFirst
<1>3. \A c \in Conns : ClientPresent(c)'
  BY <1>2, OwnStepPresent
<1>4. QED BY <1>1, <1>3 DEF PresentInv

(* and what they show right. *)
LEMMA ClientKeeps ==
    ASSUME ServerInv, RequestsInv, ClientsInv, NEW e \in Conns, ClientStep(e)
    PROVE  ClientsInv'
<1>1. /\ rooms' = rooms /\ userOf' = userOf /\ roomOf' = roomOf
      /\ \A c \in Conns : c # e => /\ c2s'[c] = c2s[c] /\ s2c'[c] = s2c[c]
                                   /\ phase'[c] = phase[c] /\ view'[c] = view[c]
                                   /\ role'[c] = role[c]
  BY ClientStepFacts DEF ClientsInv
<1>2. ASSUME NEW c \in Conns, c # e PROVE ClientGood(c)'
  <2>1. /\ c2s'[c] = c2s[c] /\ s2c'[c] = s2c[c] /\ phase'[c] = phase[c]
        /\ view'[c] = view[c] /\ role'[c] = role[c]
    BY <1>1, <1>2
  <2>2. ClientGood(c)
    BY DEF ClientsInv
  <2>3. QED BY <1>1, <2>1, <2>2 DEF ClientGood, AnswerRight, NotReadyYet, Right, ColorOf
<1>3. \A c \in Conns : ClientGood(c)'
  BY <1>2, OwnStepKeeps
<1>4. QED BY <1>3, ClientPresentKept DEF ClientsInv

(* Nobody has connected, and nothing is under way. *)
LEMMA ClientsInit ==
    ASSUME GobangInit
    PROVE  ClientsInv
<1>1. /\ DOMAIN s2c = Conns /\ DOMAIN view = Conns /\ DOMAIN role = Conns
      /\ phase \in [Conns -> Phases]
  BY DEF GobangInit, Phases
<1>2. ASSUME NEW c \in Conns PROVE ClientPresent(c) /\ ClientGood(c)
  <2>1. /\ c2s[c] = << >> /\ s2c[c] = << >> /\ phase[c] = "home" /\ view[c] = NewView
        /\ role[c] = SPACE /\ link[c] = "none" /\ pipe[c] = "idle" /\ userOf[c] = NoUser
        /\ roomOf[c] = NoRoom /\ joins[c] = 0
    BY <1>2 DEF GobangInit, Init
  <2>2. OpsOf(<< >>) = {}
    <3>1. Len(<< >>) = 0 /\ 1..0 = {}
      OBVIOUS
    <3>2. QED BY <3>1 DEF OpsOf
  <2>3. IsSequence(s2c[c]) /\ IsView(view[c])
    BY <2>1, TypesOfFew DEF IsView, NewView
  <2>4. Joined(c) /\ Newcomer(c) /\ PhaseMeans(c) /\ AnswerFirst(c) /\ AnswerRight(c) /\ NotReadyYet(c)
    BY <2>1, <2>2 DEF Joined, Newcomer, PhaseMeans, AnswerFirst, AnswerRight, NotReadyYet
  <2>5. QED BY <2>3, <2>4 DEF ClientPresent, ClientGood
<1>3. QED BY <1>1, <1>2 DEF ClientsInv, PresentInv

(* Where the clients are is known throughout, whatever names they use. *)
LEMMA PresentAlways == GobangSpec => []PresentInv
<1>1. GobangInit => PresentInv
  BY ClientsInit DEF ClientsInv
<1>2. ServerInv /\ ServerInv' /\ RequestsInv /\ PresentInv /\ [GobangNext]_gobangVars => PresentInv'
  <2> SUFFICES ASSUME ServerInv, ServerInv', RequestsInv, PresentInv, [GobangNext]_gobangVars
               PROVE  PresentInv'
    OBVIOUS
  <2>1. CASE UNCHANGED gobangVars
    BY <2>1 DEF gobangVars, clientVars, vars, PresentInv, ClientPresent, Joined, Newcomer,
       PhaseMeans, AnswerFirst
  <2>2. ASSUME NEW c \in Conns, ServerStep(c) PROVE PresentInv'
    BY <2>2, ServerPresent
  <2>3. ASSUME NEW c \in Conns, ClientStep(c) PROVE PresentInv'
    BY <2>3, ClientPresentKept
  <2>4. QED BY <2>1, <2>2, <2>3 DEF GobangNext
<1>3. QED BY <1>1, <1>2, GobangAlways, PTL DEF GobangSpec

(* Whatever the order in which joins, readiness, leaving and the messages about them
   are handled and read, a window that offers a colour (server_game_room.cpp opens it
   for the role found in the room it was told) belongs to the client that holds, or
   has lost, that very seat: for every number of clients and rooms, as long as no two
   players use one name.                                                        *)
THEOREM RoleAlwaysSeat == ASSUME NamesDiffer PROVE GobangSpec => []RoleIsSeat
<1>1. GobangInit => ClientsInv
  BY ClientsInit
<1>2. ServerInv /\ ServerInv' /\ RequestsInv /\ ClientsInv /\ [GobangNext]_gobangVars => ClientsInv'
  <2> SUFFICES ASSUME ServerInv, ServerInv', RequestsInv, ClientsInv, [GobangNext]_gobangVars
               PROVE  ClientsInv'
    OBVIOUS
  <2>1. CASE UNCHANGED gobangVars
    BY <2>1 DEF gobangVars, clientVars, vars, ClientsInv, PresentInv, ClientPresent, Joined,
       Newcomer, PhaseMeans, AnswerFirst, ClientGood, AnswerRight, NotReadyYet, Right, ColorOf
  <2>2. ASSUME NEW c \in Conns, ServerStep(c) PROVE ClientsInv'
    BY <2>2, ServerKeeps
  <2>3. ASSUME NEW c \in Conns, ClientStep(c) PROVE ClientsInv'
    BY <2>3, ClientKeeps
  <2>4. QED BY <2>1, <2>2, <2>3 DEF GobangNext
<1>3. ClientsInv => RoleIsSeat
  BY DEF ClientsInv, ClientGood, AnswerRight, Right, ColorOf, RoleIsSeat
<1>4. QED BY <1>1, <1>2, <1>3, GobangAlways, PTL DEF GobangSpec

-----------------------------------------------------------------------------
(* Records as they are read *)

(* f holds the records met while the first n of the messages t are read, from b on. *)
IsReading(f, b, t, n) ==
    f = [i \in 0..n |-> IF i = 0 THEN b ELSE RecordRead(f[i - 1], t[i])]

(* There is one for any number of messages. *)
LEMMA ReadingExists ==
    ASSUME NEW b, NEW t, NEW n \in Nat
    PROVE  \E f : IsReading(f, b, t, n)
<1> DEFINE T == {k \in Nat : \E f : IsReading(f, b, t, k)}
<1>1. 0 \in T
  <2>1. IsReading([i \in 0..0 |-> b], b, t, 0)
    BY DEF IsReading
  <2>2. QED BY <2>1
<1>2. ASSUME NEW k \in T PROVE k + 1 \in T
  <2>1. PICK f : IsReading(f, b, t, k)
    BY <1>2
  <2> DEFINE g == [i \in 0..(k + 1) |-> IF i = k + 1 THEN RecordRead(f[k], t[k + 1]) ELSE f[i]]
  <2>2. k \in Nat /\ g[k + 1] = RecordRead(f[k], t[k + 1]) /\ \A i \in 0..k : g[i] = f[i]
    BY <1>2
  <2>3. f[0] = b /\ \A i \in 1..k : f[i] = RecordRead(f[i - 1], t[i])
    BY <2>1, <2>2 DEF IsReading
  <2>4. \A i \in 0..(k + 1) : g[i] = IF i = 0 THEN b ELSE RecordRead(g[i - 1], t[i])
    <3> SUFFICES ASSUME NEW i \in 0..(k + 1)
                 PROVE  g[i] = IF i = 0 THEN b ELSE RecordRead(g[i - 1], t[i])
      OBVIOUS
    <3> HIDE DEF g
    <3>1. CASE i = 0
      BY <2>2, <2>3, <3>1
    <3>2. CASE i \in 1..k
      <4>1. i # 0 /\ i \in 0..k /\ i - 1 \in 0..k
        BY <2>2, <3>2
      <4>2. QED BY <2>2, <2>3, <3>2, <4>1
    <3>3. CASE i = k + 1
      <4>1. i # 0 /\ i - 1 = k /\ k \in 0..k
        BY <2>2, <3>3
      <4>2. QED BY <2>2, <3>3, <4>1
    <3>4. QED BY <2>2, <3>1, <3>2, <3>3
  <2>5. IsReading(g, b, t, k + 1)
    BY <2>4 DEF IsReading
  <2> HIDE DEF g
  <2>6. QED BY <2>2, <2>5
<1> HIDE DEF T
<1>3. T \in SUBSET Nat
  BY DEF T
<1>4. n \in T
  BY <1>1, <1>2, <1>3, SetInduction
<1>5. QED BY <1>4 DEF T

(* The record after the messages is the last of them. *)
LEMMA ReadingGives ==
    ASSUME NEW b, NEW t, Len(t) \in Nat
    PROVE  \E f : IsReading(f, b, t, Len(t)) /\ RecordAfter(b, t) = f[Len(t)]
<1>1. PICK h : IsReading(h, b, t, Len(t))
  BY ReadingExists
<1>2. h = [i \in 0..Len(t) |-> IF i = 0 THEN b ELSE RecordRead(h[i - 1], t[i])]
  BY <1>1 DEF IsReading
<1>3. \E f : /\ RecordAfter(b, t) = f[Len(t)]
             /\ f = [i \in 0..Len(t) |-> IF i = 0 THEN b ELSE RecordRead(f[i - 1], t[i])]
  BY <1>2 DEF RecordAfter
<1>4. QED BY <1>3 DEF IsReading

(* What is read depends on the messages read so far only. *)
LEMMA ReadingUnique ==
    ASSUME NEW b, NEW s, NEW t, NEW f, NEW g, NEW m \in Nat, NEW n \in Nat, m <= n,
           IsReading(f, b, s, m), IsReading(g, b, t, n), \A i \in 1..m : s[i] = t[i]
    PROVE  f[m] = g[m]
<1>1. /\ f[0] = b /\ \A i \in 1..m : f[i] = RecordRead(f[i - 1], s[i])
      /\ g[0] = b /\ \A i \in 1..n : g[i] = RecordRead(g[i - 1], t[i])
  BY DEF IsReading
<1> DEFINE T == {k \in Nat : k <= m => f[k] = g[k]}
<1>2. 0 \in T
  BY <1>1
<1>3. ASSUME NEW k \in T PROVE k + 1 \in T
  <2> SUFFICES ASSUME k + 1 <= m PROVE f[k + 1] = g[k + 1]
    BY <1>3
  <2>1. k \in Nat /\ k + 1 \in 1..m /\ k + 1 \in 1..n /\ (k + 1) - 1 = k /\ f[k] = g[k]
    BY <1>3
  <2>2. f[k + 1] = RecordRead(f[k], s[k + 1]) /\ g[k + 1] = RecordRead(g[k], t[k + 1])
    BY <1>1, <2>1
  <2>3. QED BY <2>1, <2>2
<1>4. m \in T
  <2> HIDE DEF T
  <2>1. T \in SUBSET Nat
    BY DEF T
  <2>2. QED BY <1>2, <1>3, <2>1, SetInduction
<1>5. QED BY <1>4

(* Reading one channel after another. *)
LEMMA ReadBoth ==
    ASSUME NEW b, NEW s, NEW t, IsSequence(s), IsSequence(t)
    PROVE  RecordAfter(b, s \o t) = RecordAfter(RecordAfter(b, s), t)
<1> DEFINE m == Len(s)
           n == Len(t)
           w == s \o t
<1>1. /\ m \in Nat /\ n \in Nat /\ Len(w) = m + n
      /\ \A i \in 1..m : w[i] = s[i]
      /\ \A i \in 1..n : w[m + i] = t[i]
  <2>1. PICK S, T : s \in Seq(S) /\ t \in Seq(T)
    BY DEF IsSequence
  <2> DEFINE U == S \cup T
  <2>2. s \in Seq(U) /\ t \in Seq(U)
    BY <2>1
  <2> HIDE DEF U
  <2>3. QED BY <2>2
<1> HIDE DEF m, n, w
<1>2. PICK f : IsReading(f, b, s, m) /\ RecordAfter(b, s) = f[m]
  BY <1>1, ReadingGives DEF m
<1>3. PICK g : IsReading(g, f[m], t, n) /\ RecordAfter(f[m], t) = g[n]
  BY <1>1, ReadingGives DEF n
<1>4. PICK h : IsReading(h, b, w, m + n) /\ RecordAfter(b, w) = h[m + n]
  BY <1>1, ReadingGives
<1>5. h[m] = f[m]
  <2>1. m <= m + n /\ m + n \in Nat /\ \A i \in 1..m : s[i] = w[i]
    BY <1>1
  <2>2. IsReading(f, b, s, m) /\ IsReading(h, b, w, m + n)
    BY <1>2, <1>4
  <2>3. f[m] = h[m]
    BY <1>1, <2>1, <2>2, ReadingUnique
  <2>4. QED BY <2>3
<1> DEFINE k == [i \in 0..n |-> h[m + i]]
<1>6. IsReading(k, f[m], t, n)
  <2>1. \A i \in 0..n : k[i] = IF i = 0 THEN f[m] ELSE RecordRead(k[i - 1], t[i])
    <3> SUFFICES ASSUME NEW i \in 0..n
                 PROVE  k[i] = IF i = 0 THEN f[m] ELSE RecordRead(k[i - 1], t[i])
      OBVIOUS
    <3>1. CASE i = 0
      BY <1>1, <1>5, <3>1
    <3>2. CASE i # 0
      <4>1. /\ i \in 1..n /\ i - 1 \in 0..n /\ m + i \in 0..(m + n) /\ m + i # 0
            /\ (m + i) - 1 = m + (i - 1)
        BY <1>1, <3>2
      <4>2. h[m + i] = RecordRead(h[(m + i) - 1], w[m + i])
        BY <1>4, <4>1 DEF IsReading
      <4>3. w[m + i] = t[i]
        BY <1>1, <4>1
      <4>4. QED BY <3>2, <4>1, <4>2, <4>3
    <3>3. QED BY <3>1, <3>2
  <2>2. QED BY <2>1 DEF IsReading
<1>7. k[n] = g[n]
  <2> HIDE DEF k
  <2>1. QED BY <1>1, <1>3, <1>6, ReadingUnique
<1>8. k[n] = h[m + n]
  BY <1>1
<1>9. QED BY <1>2, <1>3, <1>4, <1>7, <1>8 DEF w

(* What no message read takes the record out of, it stays in. *)
LEMMA ReadWithin ==
    ASSUME NEW b, NEW t, IsSequence(t), NEW P, b \in P,
           \A r \in P : \A i \in 1..Len(t) : RecordRead(r, t[i]) \in P
    PROVE  RecordAfter(b, t) \in P
<1>1. Len(t) \in Nat
  BY DEF IsSequence
<1>2. PICK f : IsReading(f, b, t, Len(t)) /\ RecordAfter(b, t) = f[Len(t)]
  BY <1>1, ReadingGives
<1>3. f[0] = b /\ \A i \in 1..Len(t) : f[i] = RecordRead(f[i - 1], t[i])
  BY <1>1, <1>2 DEF IsReading
<1> DEFINE T == {k \in Nat : k <= Len(t) => f[k] \in P}
<1>4. 0 \in T
  BY <1>3
<1>5. ASSUME NEW k \in T PROVE k + 1 \in T
  <2> SUFFICES ASSUME k + 1 <= Len(t) PROVE f[k + 1] \in P
    BY <1>5
  <2>1. k + 1 \in 1..Len(t) /\ (k + 1) - 1 = k /\ f[k] \in P
    BY <1>1, <1>5
  <2>2. QED BY <1>3, <2>1
<1>6. Len(t) \in T
  <2> HIDE DEF T
  <2>1. T \in SUBSET Nat
    BY DEF T
  <2>2. QED BY <1>1, <1>4, <1>5, <2>1, SetInduction
<1>7. QED BY <1>1, <1>2, <1>6

(* Nothing read, one message read, and messages read that tell of no stone. *)
LEMMA ReadFew ==
    ASSUME NEW b
    PROVE  /\ RecordAfter(b, << >>) = b
           /\ \A m : RecordAfter(b, <<m>>) = RecordRead(b, m)
           /\ \A t : IsSequence(t) /\ TypesOf(t) \cap {"joined", "stone"} = {} => RecordAfter(b, t) = b
<1>1. ASSUME NEW t, IsSequence(t), TypesOf(t) \cap {"joined", "stone"} = {}
      PROVE  RecordAfter(b, t) = b
  <2>1. \A i \in 1..Len(t) : RecordRead(b, t[i]) = b
    BY <1>1 DEF TypesOf, RecordRead
  <2> DEFINE P == {b}
  <2>2. b \in P /\ \A r \in P : \A i \in 1..Len(t) : RecordRead(r, t[i]) \in P
    BY <2>1
  <2> HIDE DEF P
  <2>3. RecordAfter(b, t) \in P
    BY <1>1, <2>2, ReadWithin
  <2>4. QED BY <2>3 DEF P
<1>2. RecordAfter(b, << >>) = b
  BY <1>1, TypesOfFew
<1>3. ASSUME NEW m PROVE RecordAfter(b, <<m>>) = RecordRead(b, m)
  <2> DEFINE t == <<m>>
  <2>1. Len(t) = 1 /\ t[1] = m
    OBVIOUS
  <2> HIDE DEF t
  <2>2. PICK f : IsReading(f, b, t, 1) /\ RecordAfter(b, t) = f[1]
    BY <2>1, ReadingGives
  <2>3. f[1] = RecordRead(f[0], t[1]) /\ f[0] = b
    BY <2>2 DEF IsReading
  <2>4. QED BY <2>1, <2>2, <2>3 DEF t
<1>4. QED BY <1>1, <1>2, <1>3

(* The message at the head is read first. *)
LEMMA ReadHead ==
    ASSUME NEW b, NEW s, IsSequence(s), s # << >>
    PROVE  RecordAfter(b, s) = RecordAfter(RecordRead(b, Head(s)), Tail(s))
<1>1. PICK S : s \in Seq(S)
  BY DEF IsSequence
<1>2. s = <<Head(s)>> \o Tail(s) /\ Tail(s) \in Seq(S)
  BY <1>1
<1> DEFINE m == Head(s)
           t == Tail(s)
<1>3. IsSequence(<<m>>) /\ IsSequence(t)
  BY <1>2, TypesOfFew DEF IsSequence
<1>4. s = <<m>> \o t
  BY <1>2
<1> HIDE DEF m, t
<1>5. RecordAfter(b, <<m>> \o t) = RecordAfter(RecordAfter(b, <<m>>), t)
  BY <1>3, ReadBoth
<1>6. RecordAfter(b, <<m>>) = RecordRead(b, m)
  BY ReadFew
<1>7. QED BY <1>4, <1>5, <1>6 DEF m, t

(* s is the beginning of r. *)
Begins(s, r) ==
    /\ IsSequence(s) /\ IsSequence(r)
    /\ Len(s) <= Len(r)
    /\ \A i \in 1..Len(s) : r[i] = s[i]

(* Without the answer to a join among the messages a record only grows. *)
LEMMA ReadGrows ==
    ASSUME NEW b, IsSequence(b), NEW t, IsSequence(t), "joined" \notin TypesOf(t)
    PROVE  Begins(b, RecordAfter(b, t))
<1>1. PICK S : b \in Seq(S)
  BY DEF IsSequence
<1> DEFINE U == S \cup {t[i].coor : i \in 1..Len(t)}
           P == {r \in Seq(U) : Len(b) <= Len(r) /\ \A i \in 1..Len(b) : r[i] = b[i]}
<1>2. b \in P
  BY <1>1
<1>3. ASSUME NEW r \in P, NEW i \in 1..Len(t) PROVE RecordRead(r, t[i]) \in P
  <2>1. CASE t[i].type = "stone"
    <3>1. t[i].coor \in U /\ r \in Seq(U)
      BY <1>3
    <3> HIDE DEF U
    <3> DEFINE w == Append(r, t[i].coor)
    <3>2. /\ w \in Seq(U) /\ Len(w) = Len(r) + 1 /\ \A j \in 1..Len(r) : w[j] = r[j]
          /\ Len(b) \in Nat /\ Len(r) \in Nat /\ Len(b) <= Len(r)
          /\ \A j \in 1..Len(b) : r[j] = b[j] /\ j \in 1..Len(r)
      BY <1>1, <1>3, <3>1
    <3> HIDE DEF w
    <3>3. Len(b) <= Len(w) /\ \A j \in 1..Len(b) : w[j] = b[j]
      BY <3>2
    <3>4. RecordRead(r, t[i]) = w
      BY <2>1 DEF RecordRead, w
    <3>5. w \in P
      BY <3>2, <3>3
    <3>6. QED BY <3>4, <3>5
  <2>2. CASE t[i].type # "stone"
    <3>1. t[i].type # "joined"
      BY <1>3 DEF TypesOf
    <3>2. QED BY <1>3, <2>2, <3>1 DEF RecordRead
  <2>3. QED BY <2>1, <2>2
<1>4. RecordAfter(b, t) \in P
  <2> HIDE DEF P
  <2>1. QED BY <1>2, <1>3, ReadWithin
<1>5. QED BY <1>4 DEF Begins, IsSequence

(* The whole and its beginning of the same length. *)
LEMMA BeginsAll ==
    ASSUME NEW s, NEW r, Begins(s, r), Len(s) = Len(r)
    PROVE  s = r
<1>1. PICK S, R : s \in Seq(S) /\ r \in Seq(R)
  BY DEF Begins, IsSequence
<1>2. \A i \in 1..Len(s) : s[i] = r[i]
  BY DEF Begins
<1>3. QED BY <1>1, <1>2

(* The end of a sequence, element by element. *)
LEMMA SuffixMeans ==
    ASSUME NEW s, NEW t, IsSequence(s), IsSequence(t)
    PROVE  IsSuffix(s, t) <=> /\ Len(s) <= Len(t)
                              /\ \A i \in 1..Len(s) : s[(Len(s) - i) + 1] = t[(Len(t) - i) + 1]
<1>1. PICK S, T : s \in Seq(S) /\ t \in Seq(T)
  BY DEF IsSequence
<1> DEFINE p == Reverse(s)
           q == Reverse(t)
           m == Len(s)
           n == Len(t)
<1>2. m \in Nat /\ n \in Nat /\ p \in Seq(S) /\ q \in Seq(T) /\ Len(p) = m /\ Len(q) = n
  BY <1>1 DEF Reverse
<1>3. /\ \A i \in 1..m : p[i] = s[(m - i) + 1]
      /\ \A i \in 1..n : q[i] = t[(n - i) + 1]
  BY DEF Reverse
<1>4. IsSuffix(s, t) <=> (m <= n /\ SubSeq(p, 1, m) = SubSeq(q, 1, m))
  BY <1>2 DEF IsSuffix, IsPrefix
<1> HIDE DEF p, q, m, n
<1>5. ASSUME m <= n
      PROVE  (SubSeq(p, 1, m) = SubSeq(q, 1, m)) <=> \A i \in 1..m : p[i] = q[i]
  <2>1. SubSeq(p, 1, m) = [i \in 1..m |-> p[i]] /\ SubSeq(q, 1, m) = [i \in 1..m |-> q[i]]
    BY <1>2, <1>5
  <2>2. QED BY <2>1
<1>6. ASSUME m <= n, NEW i \in 1..m
      PROVE  p[i] = q[i] <=> s[(m - i) + 1] = t[(n - i) + 1]
  <2>1. i \in 1..n
    BY <1>2, <1>6
  <2>2. p[i] = s[(m - i) + 1] /\ q[i] = t[(n - i) + 1]
    BY <1>3, <1>6, <2>1
  <2>3. QED BY <2>2
<1>7. IsSuffix(s, t) <=> (m <= n /\ \A i \in 1..m : s[(m - i) + 1] = t[(n - i) + 1])
  BY <1>4, <1>5, <1>6
<1>8. QED BY <1>7 DEF m, n

(* Nothing and all of a record are ends of it. *)
LEMMA SuffixSelf ==
    ASSUME NEW r, IsSequence(r)
    PROVE  IsSuffix(<< >>, r) /\ IsSuffix(r, r)
<1>1. Len(r) \in Nat
  BY DEF IsSequence
<1>2. IsSuffix(<< >>, r)
  <2>1. IsSequence(<< >>) /\ Len(<< >>) = 0
    BY TypesOfFew
  <2>2. QED BY <1>1, <2>1, SuffixMeans
<1>3. IsSuffix(r, r)
  BY <1>1, SuffixMeans
<1>4. QED BY <1>2, <1>3

(* With a stone more on both, the end of a record is one still. *)
LEMMA SuffixAppend ==
    ASSUME NEW s, NEW r, IsSequence(s), IsSequence(r), IsSuffix(s, r), NEW x
    PROVE  IsSuffix(Append(s, x), Append(r, x))
<1> DEFINE u == Append(s, x)
           w == Append(r, x)
<1>1. /\ IsSequence(u) /\ Len(s) \in Nat /\ Len(u) = Len(s) + 1
      /\ \A i \in 1..Len(s) : u[i] = s[i]
      /\ u[Len(s) + 1] = x
      /\ IsSequence(w) /\ Len(r) \in Nat /\ Len(w) = Len(r) + 1
      /\ \A i \in 1..Len(r) : w[i] = r[i]
      /\ w[Len(r) + 1] = x
  BY AppendSequence
<1> HIDE DEF u, w
<1>2. Len(s) <= Len(r) /\ \A i \in 1..Len(s) : s[(Len(s) - i) + 1] = r[(Len(r) - i) + 1]
  BY SuffixMeans
<1>3. ASSUME NEW i \in 1..Len(u) PROVE u[(Len(u) - i) + 1] = w[(Len(w) - i) + 1]
  <2>1. CASE i = 1
    BY <1>1, <2>1
  <2>2. CASE i # 1
    <3>1. /\ i - 1 \in 1..Len(s)
          /\ (Len(u) - i) + 1 = (Len(s) - (i - 1)) + 1 /\ (Len(s) - (i - 1)) + 1 \in 1..Len(s)
          /\ (Len(w) - i) + 1 = (Len(r) - (i - 1)) + 1 /\ (Len(r) - (i - 1)) + 1 \in 1..Len(r)
      BY <1>1, <1>2, <1>3, <2>2
    <3>2. QED BY <1>1, <1>2, <3>1
  <2>3. QED BY <2>1, <2>2
<1>4. Len(u) <= Len(w)
  BY <1>1, <1>2
<1>5. IsSuffix(u, w)
  BY <1>1, <1>3, <1>4, SuffixMeans
<1>6. QED BY <1>5 DEF u, w

-----------------------------------------------------------------------------
(* The server's records, and what its clients have of them *)

(* A client is in the room it joined. *)
Here(c) == roomOf[c] # NoRoom /\ userOf[c] \in rooms[roomOf[c]].users

(* In the step of the server for d a stone is placed in a room, or a game begins. *)
Placed(d, id) == HandleStone(d) /\ roomOf[d] = id

Begun(d, id) ==
    /\ HandleReady(d) /\ roomOf[d] = id
    /\ BothReady(rooms[id], PlayerColor(rooms[id], userOf[d]))

(* A record changes with a stone placed and is emptied when a game begins; a member
   is new only by joining, and a game is on only if it was or begins.           *)
LEMMA RoomsMove ==
    ASSUME ServerInv, RequestsInv, NEW d \in Conns, ServerStep(d), NEW id \in RoomIds
    PROVE  /\ \A user \in rooms'[id].users :
                 user \in rooms[id].users \/ (joins'[d] # joins[d] /\ user = userOf'[d])
           /\ rooms'[id].playing => rooms[id].playing \/ Begun(d, id)
           /\ rooms'[id].chess.record = IF Placed(d, id) THEN Append(rooms[id].chess.record, Request(d).coor)
                            ELSE IF Begun(d, id) THEN << >> ELSE rooms[id].chess.record
<1> DEFINE Goal == /\ \A user \in rooms'[id].users :
                         user \in rooms[id].users \/ (joins'[d] # joins[d] /\ user = userOf'[d])
                   /\ rooms'[id].playing => rooms[id].playing \/ Begun(d, id)
                   /\ rooms'[id].chess.record = IF Placed(d, id) THEN Append(rooms[id].chess.record, Request(d).coor)
                                    ELSE IF Begun(d, id) THEN << >> ELSE rooms[id].chess.record
           Same == /\ rooms'[id].users \subseteq rooms[id].users
                   /\ rooms'[id].playing => rooms[id].playing
                   /\ rooms'[id].chess.record = rooms[id].chess.record
<1>1. /\ rooms \in [RoomIds -> RoomStates(Users)] /\ joins \in [Conns -> 0..MaxJoins]
      /\ userOf \in [Conns -> Users \cup {NoUser}] /\ roomOf \in [Conns -> RoomIds \cup {NoRoom}]
      /\ \A other \in RoomIds : RoomGood(rooms[other])
      /\ NoUser \notin Users
  BY ServerAssumption DEF ServerInv, RoomsInv, ConnsInv
<1>2. HandleStone(d) => Request(d).op = "stone"
  BY DEF HandleStone, Handled
<1>3. HandleReady(d) => Request(d).op = "ready"
  BY DEF HandleReady, Handled
<1>4. ASSUME Same, ~ Placed(d, id), ~ Begun(d, id) PROVE Goal
  BY <1>4
<1>5. ASSUME rooms' = rooms PROVE Same
  BY <1>5
<1>6. ASSUME UserLeaves(d) PROVE Same
  <2>1. CASE roomOf[d] # NoRoom /\ userOf[d] # NoUser /\ id = roomOf[d]
    <3>1. rooms'[id] = leave(rooms[id], userOf[d]) /\ userOf[d] \in Users /\ rooms[id] \in RoomStates(Users)
      BY <1>1, <1>6, <2>1 DEF UserLeaves
    <3>2. leave(rooms[id], userOf[d]).playing => rooms[id].playing
      BY <3>1 DEF leave, Leave, RoomStates
    <3>3. QED BY <1>1, <3>1, <3>2, LeaveGood
  <2>2. CASE ~ (roomOf[d] # NoRoom /\ userOf[d] # NoUser /\ id = roomOf[d])
    <3>1. rooms'[id] = rooms[id]
      BY <1>1, <1>6, <2>2 DEF UserLeaves
    <3>2. QED BY <3>1
  <2>3. QED BY <2>1, <2>2
<1>7. ASSUME NEW q, Authenticated(d), Admitted(q), ~ Placed(d, id), ~ Begun(d, id),
             rooms' = [rooms EXCEPT ![q.room] = Place(q, userOf'[d])]
      PROVE  Goal
  <2>1. joins'[d] # joins[d]
    BY <1>1, <1>7 DEF Authenticated
  <2>2. CASE id = q.room
    <3>1. rooms'[id] = Place(q, userOf'[d]) /\ rooms[id] \in RoomStates(Users)
      BY <1>1, <1>7, <2>2
    <3>2. /\ Place(q, userOf'[d]).users = rooms[id].users \cup {userOf'[d]}
          /\ Place(q, userOf'[d]).playing = rooms[id].playing
          /\ Place(q, userOf'[d]).chess = rooms[id].chess
      BY <2>2, <3>1 DEF Place, joinAsPlayer, joinAsOnlooker, RoomStates
    <3>3. QED BY <1>7, <2>1, <3>1, <3>2
  <2>3. CASE id # q.room
    <3>1. rooms'[id] = rooms[id]
      BY <1>1, <1>7, <2>3
    <3>2. QED BY <1>7, <3>1
  <2>4. QED BY <2>2, <2>3
<1>8. CASE HandleReady(d)
  <2> DEFINE new == ReceiveReady(rooms[roomOf[d]], userOf[d])
             both == BothReady(rooms[roomOf[d]], PlayerColor(rooms[roomOf[d]], userOf[d]))
  <2>1. roomOf[d] \in RoomIds /\ rooms' = [rooms EXCEPT ![roomOf[d]] = new] /\ ~ Placed(d, id)
    BY <1>1, <1>2, <1>3, <1>8 DEF HandleReady, PlayerReady, Serving, Placed
  <2>2. rooms[roomOf[d]] \in RoomStates(Users)
    BY <1>1, <2>1
  <2>3. /\ new.users = rooms[roomOf[d]].users
        /\ both => new.chess = ChessInit
        /\ ~ both => new.chess = rooms[roomOf[d]].chess /\ new.playing = rooms[roomOf[d]].playing
    BY <2>2 DEF ReceiveReady, Start, Ready, RoomStates
  <2>4. ChessInit.record = << >>
    BY DEF ChessInit
  <2>5. Begun(d, id) <=> roomOf[d] = id /\ both
    BY <1>8 DEF Begun
  <2> HIDE DEF new, both
  <2>6. CASE id = roomOf[d]
    <3>1. rooms'[id] = new
      BY <1>1, <2>1, <2>6
    <3>2. QED BY <2>1, <2>3, <2>4, <2>5, <2>6, <3>1
  <2>7. CASE id # roomOf[d]
    <3>1. rooms'[id] = rooms[id]
      BY <1>1, <2>1, <2>7
    <3>2. QED BY <2>1, <2>5, <2>7, <3>1
  <2>8. QED BY <2>6, <2>7
<1>9. CASE HandleStone(d)
  <2> DEFINE new == PlayStone(rooms[roomOf[d]], Request(d).coor)
  <2>1. roomOf[d] \in RoomIds /\ rooms' = [rooms EXCEPT ![roomOf[d]] = new] /\ ~ Begun(d, id)
    BY <1>1, <1>2, <1>3, <1>9 DEF HandleStone, ReceivePlayerStone, Serving, Begun
  <2>2. rooms[roomOf[d]] \in RoomStates(Users)
    BY <1>1, <2>1
  <2>3. /\ new.users = rooms[roomOf[d]].users
        /\ new.playing = rooms[roomOf[d]].playing
        /\ new.chess.record = Append(rooms[roomOf[d]].chess.record, Request(d).coor)
    BY <2>2 DEF PlayStone, Stone, RoomStates
  <2>4. Placed(d, id) <=> roomOf[d] = id
    BY <1>9 DEF Placed
  <2> HIDE DEF new
  <2>5. CASE id = roomOf[d]
    <3>1. rooms'[id] = new
      BY <1>1, <2>1, <2>5
    <3>2. QED BY <2>1, <2>3, <2>4, <2>5, <3>1
  <2>6. CASE id # roomOf[d]
    <3>1. rooms'[id] = rooms[id]
      BY <1>1, <2>1, <2>6
    <3>2. QED BY <2>1, <2>4, <2>6, <3>1
  <2>7. QED BY <2>5, <2>6
<1>10. ASSUME ~ HandleReady(d), ~ HandleStone(d) PROVE Goal
  <2>1. ~ Placed(d, id) /\ ~ Begun(d, id)
    BY <1>10 DEF Placed, Begun
  <2>2. CASE \E q : /\ Authenticated(d) /\ Admitted(q)
                    /\ rooms' = [rooms EXCEPT ![q.room] = Place(q, userOf'[d])]
    BY <1>7, <2>1, <2>2
  <2>3. CASE UserLeaves(d) \/ rooms' = rooms
    BY <1>4, <1>5, <1>6, <2>1, <2>3
  <2>4. QED
    BY <1>10, <2>2, <2>3
    DEF ServerStep, ServerRead, Read, ServerReadFails, ReadFails, ServerDisconnect, Disconnect,
        HandleJoinDenied, JoinDenied, HandleJoinRefused, JoinRefused, HandleJoin, JoinAccepted,
        HandleJoinReplyFails, JoinReplyFails, HandleLeave, ReceiveLeaveRoom,
        HandleNothing, NothingToDo
<1>11. QED BY <1>8, <1>9, <1>10

(* Whoever is in its room after a step was there before, unless it joins in the step. *)
LEMMA StaysHere ==
    ASSUME ServerInv, RequestsInv, PresentInv, NEW d \in Conns, ServerStep(d), NEW c \in Conns,
           ~ (c = d /\ HandleJoin(d)), Here(c)'
    PROVE  Here(c) /\ roomOf[c] \in RoomIds /\ roomOf'[c] = roomOf[c] /\ userOf'[c] = userOf[c]
<1>1. roomOf'[c] # NoRoom /\ userOf'[c] \in rooms'[roomOf'[c]].users /\ roomOf'[c] = roomOf[c]
  BY ServerStepFacts DEF Here
<1>2. /\ roomOf \in [Conns -> RoomIds \cup {NoRoom}] /\ userOf \in [Conns -> Users \cup {NoUser}]
      /\ userOf[c] # NoUser => userOf[c].conn = c
      /\ Joined(c)
  BY DEF ServerInv, ConnsInv, PresentInv, ClientPresent
<1>3. roomOf[c] \in RoomIds /\ userOf'[c] = userOf[c] /\ joins'[c] = joins[c] /\ userOf[c].conn = c
  BY <1>1, <1>2, ColorKept DEF Joined
<1>4. joins'[d] # joins[d] => userOf'[d] # userOf[c]
  BY <1>3, NewUserOwn
<1>5. userOf[c] \in rooms[roomOf[c]].users
  BY <1>1, <1>3, <1>4, RoomsMove
<1>6. QED BY <1>1, <1>3, <1>5 DEF Here

(* A client is written to as a member of its own room only. *)
LEMMA OwnRoom ==
    ASSUME ServerInv, NEW c \in Conns, Here(c), NEW id \in RoomIds
    PROVE  c \in Members(rooms[id]) <=> id = roomOf[c]
<1>1. /\ roomOf[c] \in RoomIds /\ userOf[c] \in rooms[roomOf[c]].users
      /\ rooms \in [RoomIds -> RoomStates(Users)] /\ NoUser \notin Users
      /\ userOf[c] # NoUser => userOf[c].conn = c
  BY ServerAssumption DEF Here, ServerInv, ConnsInv, RoomsInv
<1>2. rooms[roomOf[c]].users \subseteq Users /\ rooms[id].users \subseteq Users
  BY <1>1 DEF RoomStates
<1>3. userOf[c] \in Users /\ userOf[c].conn = c
  BY <1>1, <1>2
<1>4. ASSUME NEW user \in rooms[id].users, user.conn = c PROVE id = roomOf[c]
  <2>1. user = userOf[c]
    BY <1>2, <1>3, <1>4, OneUser
  <2>2. QED BY <1>1, <1>4, <2>1 DEF ServerInv, RoomsInv
<1>5. QED BY <1>1, <1>3, <1>4 DEF Members

(* The record a client will have is a sequence of stones. *)
LEMMA ReplayedSequence ==
    ASSUME PresentInv, NEW c \in Conns
    PROVE  IsSequence(Replayed(c)) /\ IsSequence(view[c].record) /\ IsSequence(s2c[c])
<1>1. IsSequence(view[c].record) /\ IsSequence(s2c[c]) /\ AnswerFirst(c)
  BY DEF PresentInv, ClientPresent, IsView
<1>2. CASE "joined" \notin TypesOf(s2c[c])
  BY <1>1, <1>2, ReadGrows DEF Replayed, Begins
<1>3. CASE s2c[c] # << >>
  <2> DEFINE b == RecordRead(view[c].record, Head(s2c[c]))
  <2>1. IsSequence(Tail(s2c[c])) /\ "joined" \notin TypesOf(Tail(s2c[c]))
    BY <1>1, <1>3, TypesLeft DEF AnswerFirst
  <2>2. IsSequence(b)
    BY <1>1, <1>3, AppendSequence DEF RecordRead, AnswerFirst, IsView
  <2> HIDE DEF b
  <2>3. IsSequence(RecordAfter(b, Tail(s2c[c])))
    BY <2>1, <2>2, ReadGrows DEF Begins
  <2>4. Replayed(c) = RecordAfter(b, Tail(s2c[c]))
    BY <1>1, <1>3, ReadHead DEF Replayed, b
  <2>5. QED BY <1>1, <2>3, <2>4
<1>4. QED BY <1>1, <1>2, <1>3, TypesOfFew

(* What is written to the connected members of a room: the stone placed in it, and else
   nothing that tells of stones.                                                *)
LEMMA RecordFollows ==
    ASSUME ServerInv, ServerInv', RequestsInv, PresentInv, NEW d \in Conns, ServerStep(d),
           NEW c \in Conns, ~ (c = d /\ HandleJoin(d)), Here(c), link[c] = "up"
    PROVE  Replayed(c)' = IF Placed(d, roomOf[c]) THEN Append(Replayed(c), Request(d).coor)
                                                  ELSE Replayed(c)
<1>1. IsSequence(s2c[c]) /\ DOMAIN s2c = Conns /\ view' = view
  BY ServerStepFacts, ReplayedSequence DEF PresentInv
<1>2. roomOf[c] \in RoomIds /\ roomOf \in [Conns -> RoomIds \cup {NoRoom}]
  BY DEF Here, ServerInv, ConnsInv
<1>3. ASSUME NEW t, IsSequence(t), s2c'[c] = s2c[c] \o t
      PROVE  Replayed(c)' = RecordAfter(Replayed(c), t)
  <2>1. Replayed(c)' = RecordAfter(view[c].record, s2c[c] \o t)
    BY <1>1, <1>3 DEF Replayed
  <2>2. QED BY <1>1, <1>3, <2>1, ReadBoth DEF Replayed
<1>4. CASE Placed(d, roomOf[c])
  <2> DEFINE room  == rooms[roomOf[d]]
             stone == [type |-> "stone", coor |-> Request(d).coor]
             over  == [type |-> "over", color |-> WhoseTurn(room.chess)]
             said  == IF DidYouWin(rooms'[roomOf[d]].chess) THEN <<stone>> \o <<over>> ELSE <<stone>>
  <2>1. HandleStone(d) /\ roomOf[d] = roomOf[c]
    BY <1>4 DEF Placed
  <2>2. c \in Members(room)
    BY <1>2, <2>1, OwnRoom
  <2>3. Write(ToAll(Members(room), said))
    BY <2>1 DEF HandleStone, StoneAudience
  <2>4. stone.type = "stone" /\ over.type = "over" /\ stone.coor = Request(d).coor
    OBVIOUS
  <2> HIDE DEF stone, over
  <2>5. s2c'[c] = s2c[c] \o (IF c \in Members(room) /\ link[c] = "up" THEN said ELSE << >>)
    BY <1>1, <2>3, WriteToAllAdds
  <2>6. s2c'[c] = s2c[c] \o said
    BY <2>2, <2>5
  <2>7. /\ IsSequence(<<stone>>) /\ IsSequence(<<over>>) /\ IsSequence(said)
        /\ TypesOf(<<over>>) = {"over"}
    BY <2>4, TypesOfFew, TypesBehind
  <2>8. RecordAfter(Replayed(c), <<stone>>) = Append(Replayed(c), Request(d).coor)
    <3>1. RecordAfter(Replayed(c), <<stone>>) = RecordRead(Replayed(c), stone)
      BY ReadFew
    <3>2. QED BY <2>4, <3>1 DEF RecordRead
  <2>9. \A b : RecordAfter(b, <<over>>) = b
    BY <2>7, ReadFew
  <2>10. RecordAfter(Replayed(c), <<stone>> \o <<over>>)
           = RecordAfter(RecordAfter(Replayed(c), <<stone>>), <<over>>)
    BY <2>7, ReadBoth
  <2>11. RecordAfter(Replayed(c), said) = Append(Replayed(c), Request(d).coor)
    BY <2>8, <2>9, <2>10
  <2> HIDE DEF said
  <2>12. QED BY <1>3, <1>4, <2>6, <2>7, <2>11
<1>5. CASE ~ Placed(d, roomOf[c])
  <2>1. PICK t : Delivered(d, c, t)
    BY Deliveries
  <2>2. IsSequence(t) /\ s2c'[c] = s2c[c] \o t /\ "joined" \notin TypesOf(t)
    BY <2>1 DEF Delivered
  <2>3. "stone" \notin TypesOf(t)
    <3>1. SUFFICES ASSUME HandleStone(d), c \in Members(rooms[roomOf[d]]) PROVE FALSE
      BY <2>1 DEF Delivered
    <3>2. roomOf[d] \in RoomIds
      BY <1>2, <3>1 DEF HandleStone, ReceivePlayerStone, Serving
    <3>3. QED BY <1>5, <3>1, <3>2, OwnRoom DEF Placed
  <2>4. RecordAfter(Replayed(c), t) = Replayed(c)
    BY <2>2, <2>3, ReadFew
  <2>5. QED BY <1>3, <1>5, <2>2, <2>4
<1>6. QED BY <1>4, <1>5

(* The one who joins is told the record as it is. *)
LEMMA NewcomerTold ==
    ASSUME ServerInv, ServerInv', RequestsInv, PresentInv, NEW c \in Conns, HandleJoin(c),
           link'[c] = "up"
    PROVE  Replayed(c)' = rooms'[roomOf'[c]].chess.record
<1> DEFINE answer == [type |-> "joined", room |-> Snapshot(rooms'[roomOf'[c]])]
<1>1. s2c'[c] = <<answer>>
  BY JoinAnswer
<1>2. answer.type = "joined" /\ answer.room.record = rooms'[roomOf'[c]].chess.record
  BY DEF Snapshot
<1> HIDE DEF answer
<1>3. Replayed(c)' = RecordRead(view'[c].record, answer)
  BY <1>1, ReadFew DEF Replayed
<1>4. QED BY <1>2, <1>3 DEF RecordRead

(* Reading a message moves it from the channel to the copy; nothing else a connected
   client does touches either (server_game_room.cpp:300-420).                   *)
LEMMA ClientReads ==
    ASSUME ServerInv, RequestsInv, PresentInv, NEW c \in Conns, ClientStep(c),
           roomOf[c] # NoRoom, link'[c] = "up"
    PROVE  Replayed(c)' = Replayed(c) /\ link[c] = "up"
<1>1. /\ IsSequence(s2c[c]) /\ IsView(view[c]) /\ PhaseMeans(c) /\ Joined(c)
      /\ DOMAIN s2c = Conns /\ DOMAIN view = Conns /\ link \in [Conns -> LinkStates]
  BY DEF PresentInv, ClientPresent, ServerInv, ConnsInv
<1>2. ASSUME s2c[c] # << >>, s2c'[c] = Tail(s2c[c]),
             view'[c].record = RecordRead(view[c].record, Head(s2c[c]))
      PROVE  Replayed(c)' = Replayed(c)
  BY <1>1, <1>2, ReadHead DEF Replayed
<1>3. CASE Connect(c)
  BY <1>1, <1>3 DEF Connect, PhaseMeans, Joined
<1>4. CASE ReceiveYouJoinRoom(c)
  <2>1. /\ s2c[c] # << >> /\ s2c'[c] = Tail(s2c[c]) /\ Head(s2c[c]).type = "joined"
        /\ view'[c] = Head(s2c[c]).room /\ link' = link
    BY <1>1, <1>4 DEF ReceiveYouJoinRoom, Incoming, vars
  <2>2. QED BY <1>2, <2>1 DEF RecordRead
<1>5. CASE ReceiveDenied(c)
  <2>1. /\ s2c[c] # << >> /\ s2c'[c] = Tail(s2c[c]) /\ Head(s2c[c]).type = "denied"
        /\ view'[c] = view[c] /\ link' = link
    BY <1>1, <1>5 DEF ReceiveDenied, Incoming, vars
  <2>2. QED BY <1>2, <2>1 DEF RecordRead
<1>6. CASE Receive(c)
  <2>1. /\ s2c[c] # << >> /\ s2c'[c] = Tail(s2c[c]) /\ link' = link
        /\ Head(s2c[c]).type \in {"other", "leave", "ready", "start", "stone"}
        /\ view'[c] = Applied(view[c], Head(s2c[c]))
    BY <1>1, <1>6 DEF Receive, Incoming, vars
  <2>2. Applied(view[c], Head(s2c[c])).record = RecordRead(view[c].record, Head(s2c[c]))
    BY <1>1, <2>1, AppliedRecord
  <2>3. QED BY <1>2, <2>1, <2>2
<1>7. CASE ReceiveGameOver(c) \/ StreamEnds(c) \/ Quit(c)
  <2>1. link'[c] # "up"
    BY <1>1, <1>7 DEF ReceiveGameOver, StreamEnds, Quit, Gone
  <2>2. QED BY <2>1
<1>8. ASSUME OpenWindows(c) \/ ClickLeave(c) \/ ClickReady(c) \/ \E coor \in Coors : ClickStone(c, coor)
      PROVE  Replayed(c)' = Replayed(c) /\ link[c] = "up"
  <2>1. s2c' = s2c /\ view' = view /\ link' = link
    BY <1>8 DEF OpenWindows, ClickLeave, ClickReady, ClickStone, vars
  <2>2. QED BY <2>1 DEF Replayed
<1>9. QED BY <1>3, <1>4, <1>5, <1>6, <1>7, <1>8 DEF ClientStep, Listen

(* However joins, games and clicks interleave, whoever is listening in a room and has
   read what is under way to it has the stones of the running game, in the server's
   order, at the end of its record (mdwroom/view.go:60-130, distribute.go:88-170,
   server_game_room.cpp:300-420): for every number of clients, rooms and games.   *)
THEOREM RecordAlwaysAgrees == GobangSpec => []RecordAgrees
<1>1. GobangInit => RecordAgrees
  BY DEF GobangInit, Init, RecordAgrees, Listening
<1>2. ServerInv /\ ServerInv' /\ RequestsInv /\ PresentInv /\ RecordAgrees /\ [GobangNext]_gobangVars
        => RecordAgrees'
  <2> SUFFICES ASSUME ServerInv, ServerInv', RequestsInv, PresentInv, RecordAgrees,
                      [GobangNext]_gobangVars, NEW c \in Conns, Listening(c)'
               PROVE  IsSuffix(rooms'[roomOf'[c]].chess.record, Replayed(c)')
    BY DEF RecordAgrees
  <2>1. Listening(c) => IsSuffix(rooms[roomOf[c]].chess.record, Replayed(c))
    BY DEF RecordAgrees
  <2>2. link'[c] = "up" /\ Here(c)'
    BY DEF Listening, Here
  <2>3. CASE UNCHANGED gobangVars
    BY <2>1, <2>3 DEF gobangVars, clientVars, vars, Listening, Replayed
  <2>4. ASSUME NEW d \in Conns, ServerStep(d), ~ (c = d /\ HandleJoin(d))
        PROVE  IsSuffix(rooms'[roomOf'[c]].chess.record, Replayed(c)')
    <3>1. Here(c) /\ roomOf[c] \in RoomIds /\ roomOf'[c] = roomOf[c]
      BY <2>2, <2>4, StaysHere
    <3>2. link[c] = "up"
      BY <2>2, <2>4, ServerStepFacts
    <3>3. IsSuffix(rooms[roomOf[c]].chess.record, Replayed(c)) /\ IsSequence(Replayed(c))
      BY <2>1, <3>1, <3>2, ReplayedSequence DEF Listening, Here
    <3>4. IsSequence(rooms[roomOf[c]].chess.record)
      BY <3>1 DEF ServerInv, RoomsInv, RoomStates, ChessStates, IsSequence
    <3>5. Replayed(c)' = IF Placed(d, roomOf[c]) THEN Append(Replayed(c), Request(d).coor)
                                                 ELSE Replayed(c)
      BY <2>4, <3>1, <3>2, RecordFollows
    <3>6. rooms'[roomOf[c]].chess.record = IF Placed(d, roomOf[c]) THEN Append(rooms[roomOf[c]].chess.record, Request(d).coor)
                               ELSE IF Begun(d, roomOf[c]) THEN << >> ELSE rooms[roomOf[c]].chess.record
      BY <2>4, <3>1, RoomsMove
    <3>7. rooms'[roomOf'[c]].chess.record = rooms'[roomOf[c]].chess.record
      BY <3>1
    <3>8. QED BY <3>3, <3>4, <3>5, <3>6, <3>7, SuffixSelf, SuffixAppend
  <2>5. ASSUME HandleJoin(c) PROVE IsSuffix(rooms'[roomOf'[c]].chess.record, Replayed(c)')
    <3>1. Replayed(c)' = rooms'[roomOf'[c]].chess.record
      BY <2>2, <2>5, NewcomerTold
    <3>2. roomOf'[c] \in RoomIds
      BY <2>2 DEF Here, ServerInv, ConnsInv
    <3>3. IsSequence(rooms'[roomOf'[c]].chess.record)
      BY <3>2 DEF ServerInv, RoomsInv, RoomStates, ChessStates, IsSequence
    <3>4. QED BY <3>1, <3>3, SuffixSelf
  <2>6. ASSUME NEW e \in Conns, ClientStep(e) PROVE IsSuffix(rooms'[roomOf'[c]].chess.record, Replayed(c)')
    <3>1. rooms' = rooms /\ roomOf' = roomOf /\ userOf' = userOf
      BY <2>6, ClientStepFacts
    <3>2. rooms'[roomOf'[c]].chess.record = rooms[roomOf[c]].chess.record /\ Here(c)
      BY <2>2, <3>1 DEF Here
    <3>3. Replayed(c)' = Replayed(c) /\ link[c] = "up"
      <4>1. CASE e = c
        BY <2>2, <2>6, <3>2, <4>1, ClientReads DEF Here
      <4>2. CASE e # c
        BY <2>2, <2>6, <4>2, ClientStepFacts DEF Replayed
      <4>3. QED BY <4>1, <4>2
    <3>4. QED BY <2>1, <3>2, <3>3 DEF Listening, Here
  <2>7. QED BY <2>3, <2>4, <2>5, <2>6 DEF GobangNext
<1>3. QED BY <1>1, <1>2, GobangAlways, PresentAlways, PTL DEF GobangSpec

-----------------------------------------------------------------------------
(* Stones and what their players saw *)

(* Before the first game of a room there is no stone, and none can be placed. *)
NoGameYet(id) == games[id] = 0 => rooms[id].chess.record = << >> /\ ~ rooms[id].playing

(* The player who sends a stone looks at a beginning of the server's record; the move
   number tells how much of it.                                                 *)
AsSeen(q, record) == q.op = "stone" => Begins(q.seen, record) /\ q.move = Len(q.seen) % 256

(* In the first game: whoever is connected will have the server's record exactly. *)
Follows(c) ==
    /\ link[c] = "up" => Replayed(c) = rooms[roomOf[c]].chess.record
    /\ \A i \in 1..Len(c2s[c]) : AsSeen(c2s[c][i], rooms[roomOf[c]].chess.record)

SeenInv ==
    /\ games \in [RoomIds -> Nat]
    /\ \A id \in RoomIds : NoGameYet(id)
    /\ \A c \in Conns : Here(c) /\ games[roomOf[c]] <= 1 => Follows(c)

(* What was a beginning is one still when a stone is added. *)
LEMMA BeginsMore ==
    ASSUME NEW s, NEW r, Begins(s, r), NEW x
    PROVE  Begins(s, Append(r, x))
<1> DEFINE w == Append(r, x)
<1>1. /\ IsSequence(w) /\ Len(w) = Len(r) + 1 /\ Len(r) \in Nat /\ \A i \in 1..Len(r) : w[i] = r[i]
  BY AppendSequence DEF Begins
<1>2. IsSequence(s) /\ Len(s) \in Nat /\ Len(s) <= Len(r) /\ \A i \in 1..Len(s) : r[i] = s[i]
  BY DEF Begins, IsSequence
<1> HIDE DEF w
<1>3. Len(s) <= Len(w) /\ \A i \in 1..Len(s) : w[i] = s[i]
  BY <1>1, <1>2
<1>4. QED BY <1>1, <1>2, <1>3 DEF Begins, w

(* The requests that are left are among those that were there. *)
LEMMA RequestsLeft ==
    ASSUME RequestsInv, NEW d \in Conns, ServerStep(d), NEW c \in Conns,
           NEW i \in 1..Len(c2s'[c])
    PROVE  \E j \in 1..Len(c2s[c]) : c2s'[c][i] = c2s[c][j]
<1>1. IsSequence(c2s[c]) /\ DOMAIN c2s = Conns
  BY DEF RequestsInv, KnownOnly
<1>2. c2s'[c] = c2s[c] \/ (c2s[c] # << >> /\ c2s'[c] = Tail(c2s[c]))
  BY <1>1, RequestTaken
<1>3. PICK S : c2s[c] \in Seq(S)
  BY <1>1 DEF IsSequence
<1>4. CASE c2s'[c] = c2s[c]
  BY <1>4
<1>5. CASE c2s[c] # << >> /\ c2s'[c] = Tail(c2s[c])
  <2>1. c2s'[c][i] = c2s[c][i + 1] /\ i + 1 \in 1..Len(c2s[c])
    BY <1>3, <1>5
  <2>2. QED BY <2>1
<1>6. QED BY <1>2, <1>4, <1>5

(* The games of a room are counted when they begin. *)
LEMMA GamesMove ==
    ASSUME ServerInv, games \in [RoomIds -> Nat], NEW d \in Conns, ServerStep(d)
    PROVE  /\ games' \in [RoomIds -> Nat]
           /\ \A id \in RoomIds : games'[id] = IF Begun(d, id) THEN games[id] + 1 ELSE games[id]
<1>1. CASE HandleReady(d)
  <2>1. roomOf[d] \in RoomIds
    BY <1>1 DEF HandleReady, PlayerReady, Serving, ServerInv, ConnsInv
  <2>2. IF BothReady(rooms[roomOf[d]], PlayerColor(rooms[roomOf[d]], userOf[d]))
        THEN games' = [games EXCEPT ![roomOf[d]] = games[roomOf[d]] + 1] ELSE games' = games
    BY <1>1 DEF HandleReady
  <2>3. QED BY <1>1, <2>1, <2>2 DEF Begun
<1>2. CASE ~ HandleReady(d)
  <2>1. games' = games
    BY <1>2 DEF ServerStep, ServerRead, ServerReadFails, ServerDisconnect, HandleJoinDenied,
       HandleJoinRefused, HandleJoin, HandleJoinReplyFails, HandleLeave, HandleStone,
       HandleNothing, clientVars
  <2>2. QED BY <1>2, <2>1 DEF Begun
<1>3. QED BY <1>1, <1>2

(* Stones are placed in games only. *)
LEMMA NoGameKept ==
    ASSUME ServerInv, RequestsInv, SeenInv, NEW d \in Conns, ServerStep(d), NEW id \in RoomIds
    PROVE  NoGameYet(id)'
<1>1. games'[id] = IF Begun(d, id) THEN games[id] + 1 ELSE games[id]
  BY GamesMove DEF SeenInv
<1>2. games[id] \in Nat /\ NoGameYet(id)
  BY DEF SeenInv
<1>3. Placed(d, id) => rooms[id].playing
  BY DEF Placed, HandleStone, ReceivePlayerStone, CanPlayStone
<1>4. /\ rooms'[id].playing => rooms[id].playing \/ Begun(d, id)
      /\ rooms'[id].chess.record =
             IF Placed(d, id) THEN Append(rooms[id].chess.record, Request(d).coor)
             ELSE IF Begun(d, id) THEN << >> ELSE rooms[id].chess.record
  BY RoomsMove
<1>5. QED BY <1>1, <1>2, <1>3, <1>4 DEF NoGameYet

(* The server's steps, for whoever is in a room: in the first game records only grow,
   on both sides alike, and the one who joins is told all.                      *)
LEMMA ServerFollowed ==
    ASSUME ServerInv, ServerInv', RequestsInv, PresentInv, SeenInv, NEW d \in Conns,
           ServerStep(d), NEW c \in Conns, Here(c)', games'[roomOf'[c]] <= 1
    PROVE  Follows(c)'
<1> DEFINE new == rooms'[roomOf'[c]].chess.record
<1>1. SUFFICES /\ link'[c] = "up" => Replayed(c)' = new
               /\ \A i \in 1..Len(c2s'[c]) : AsSeen(c2s'[c][i], new)
  BY DEF Follows, AsSeen
<1>2. CASE c = d /\ HandleJoin(d)
  <2>1. link'[c] = "up" => Replayed(c)' = new
    BY <1>2, NewcomerTold
  <2>2. "stone" \notin OpsOf(c2s[c])
    BY <1>2, JoinAnswer
  <2>3. \A j \in 1..Len(c2s[c]) : c2s[c][j].op # "stone"
    BY <2>2 DEF OpsOf
  <2>4. \A i \in 1..Len(c2s'[c]) : c2s'[c][i].op # "stone"
    BY <2>3, RequestsLeft
  <2>5. QED BY <2>1, <2>4 DEF AsSeen
<1>3. CASE ~ (c = d /\ HandleJoin(d))
  <2> DEFINE id  == roomOf[c]
             old == rooms[id].chess.record
  <2>1. Here(c) /\ id \in RoomIds /\ roomOf'[c] = id
    BY <1>3, StaysHere
  <2>2. games'[id] = (IF Begun(d, id) THEN games[id] + 1 ELSE games[id]) /\ games[id] \in Nat
    BY <2>1, GamesMove DEF SeenInv
  <2>3. Follows(c) /\ (Begun(d, id) => old = << >>)
    <3>1. games'[id] <= 1
      BY <2>1
    <3>2. games[id] <= 1 /\ (Begun(d, id) => games[id] = 0)
      BY <2>2, <3>1
    <3>3. QED BY <2>1, <3>2 DEF SeenInv, NoGameYet
  <2>4. new = IF Placed(d, id) THEN Append(old, Request(d).coor)
              ELSE IF Begun(d, id) THEN << >> ELSE old
    <3>1. rooms'[id].chess.record = IF Placed(d, id) THEN Append(old, Request(d).coor)
                                    ELSE IF Begun(d, id) THEN << >> ELSE old
      BY <2>1, RoomsMove
    <3>2. QED BY <2>1, <3>1
  <2>5. new = IF Placed(d, id) THEN Append(old, Request(d).coor) ELSE old
    BY <2>3, <2>4
  <2>6. link'[c] = "up" => link[c] = "up"
    BY ServerStepFacts
  <2>7. link'[c] = "up" => Replayed(c)' = new
    <3>1. SUFFICES ASSUME link[c] = "up" PROVE Replayed(c)' = new
      BY <2>6
    <3>2. Replayed(c)' = IF Placed(d, id) THEN Append(Replayed(c), Request(d).coor) ELSE Replayed(c)
      BY <1>3, <2>1, <3>1, RecordFollows
    <3>3. Replayed(c) = old
      BY <2>3, <3>1 DEF Follows
    <3>4. QED BY <2>5, <3>2, <3>3
  <2>8. ASSUME NEW i \in 1..Len(c2s'[c]) PROVE AsSeen(c2s'[c][i], new)
    <3>1. PICK j \in 1..Len(c2s[c]) : c2s'[c][i] = c2s[c][j]
      BY <2>8, RequestsLeft
    <3>2. AsSeen(c2s[c][j], old)
      BY <2>3, <3>1 DEF Follows
    <3> DEFINE q == c2s[c][j]
    <3> HIDE DEF q, old, new
    <3>3. AsSeen(q, old)
      BY <3>2 DEF q
    <3>4. AsSeen(q, new)
      BY <2>5, <3>3, BeginsMore DEF AsSeen
    <3>5. QED BY <3>1, <3>4 DEF q
  <2>9. QED BY <2>7, <2>8
<1>4. QED BY <1>2, <1>3

(* What a client in a room sends: a stone is sent from its open windows, with the
   record it shows (server_game_room.cpp:122-160).                              *)
LEMMA ClientSends ==
    ASSUME ServerInv, RequestsInv, PresentInv, NEW c \in Conns, ClientStep(c), roomOf[c] # NoRoom
    PROVE  \/ c2s'[c] = c2s[c]
           \/ \E q : /\ c2s'[c] = Append(c2s[c], q)
                     /\ q.op = "stone" =>
                            /\ phase[c] = "in" /\ link[c] = "up"
                            /\ q.seen = view[c].record /\ q.move = Len(view[c].record) % 256
<1> DEFINE Goal == \/ c2s'[c] = c2s[c]
                   \/ \E q : /\ c2s'[c] = Append(c2s[c], q)
                             /\ q.op = "stone" =>
                                    /\ phase[c] = "in" /\ link[c] = "up"
                                    /\ q.seen = view[c].record /\ q.move = Len(view[c].record) % 256
<1>1. PhaseMeans(c) /\ Joined(c) /\ DOMAIN c2s = Conns
  BY DEF PresentInv, ClientPresent, RequestsInv
<1>2. ASSUME NEW q, Send(c, q) PROVE c2s'[c] = Append(c2s[c], q)
  BY <1>1, <1>2 DEF Send
<1>3. CASE Connect(c)
  BY <1>1, <1>3 DEF Connect, PhaseMeans, Joined
<1>4. CASE Listen(c) \/ OpenWindows(c) \/ Quit(c)
  BY <1>4 DEF Listen, OpenWindows, Quit, ReceiveYouJoinRoom, ReceiveDenied, Receive,
     ReceiveGameOver, StreamEnds
<1>5. CASE ClickLeave(c) \/ ClickReady(c)
  <2>1. PICK q : Send(c, q) /\ q.op # "stone"
    BY <1>5 DEF ClickLeave, ClickReady
  <2>2. QED BY <1>2, <2>1
<1>6. ASSUME NEW coor \in Coors, ClickStone(c, coor) PROVE Goal
  <2> DEFINE q == [op |-> "stone", move |-> Len(view[c].record) % 256, coor |-> coor,
                   seen |-> view[c].record]
  <2>1. Send(c, q) /\ phase[c] = "in" /\ link[c] = "up"
    BY <1>6 DEF ClickStone, CanClick
  <2>2. q.seen = view[c].record /\ q.move = Len(view[c].record) % 256
    OBVIOUS
  <2> HIDE DEF q
  <2>3. QED BY <1>2, <2>1, <2>2
<1>7. QED BY <1>3, <1>4, <1>5, <1>6 DEF ClientStep

(* The client's steps: it reads what it is told, and sends what it sees. *)
LEMMA ClientFollows ==
    ASSUME ServerInv, RequestsInv, PresentInv, SeenInv, NEW e \in Conns, ClientStep(e),
           NEW c \in Conns, Here(c), games[roomOf[c]] <= 1
    PROVE  Follows(c)'
<1> DEFINE record == rooms[roomOf[c]].chess.record
<1>1. rooms' = rooms /\ roomOf' = roomOf
  BY ClientStepFacts
<1>2. Follows(c)
  BY DEF SeenInv
<1>3. SUFFICES /\ link'[c] = "up" => Replayed(c)' = record
               /\ \A i \in 1..Len(c2s'[c]) : AsSeen(c2s'[c][i], record)
  BY <1>1 DEF Follows, AsSeen
<1>4. CASE e # c
  <2>1. link'[c] = link[c] /\ c2s'[c] = c2s[c] /\ Replayed(c)' = Replayed(c)
    BY <1>4, ClientStepFacts DEF Replayed
  <2>2. QED BY <1>2, <2>1 DEF Follows
<1>5. CASE e = c
  <2>1. link'[c] = "up" => Replayed(c)' = record
    BY <1>2, <1>5, ClientReads DEF Follows, Here
  <2>2. CASE c2s'[c] = c2s[c]
    BY <1>2, <2>1, <2>2 DEF Follows
  <2>3. ASSUME NEW q, c2s'[c] = Append(c2s[c], q),
               q.op = "stone" => /\ phase[c] = "in" /\ link[c] = "up"
                                 /\ q.seen = view[c].record /\ q.move = Len(view[c].record) % 256
        PROVE  \A i \in 1..Len(c2s'[c]) : AsSeen(c2s'[c][i], record)
    <3>1. AsSeen(q, record)
      <4>1. SUFFICES ASSUME q.op = "stone" PROVE Begins(q.seen, record) /\ q.move = Len(q.seen) % 256
        BY DEF AsSeen
      <4>2. Replayed(c) = record /\ phase[c] = "in" /\ q.seen = view[c].record
            /\ q.move = Len(q.seen) % 256
        BY <1>2, <2>3, <4>1 DEF Follows
      <4>3. "joined" \notin TypesOf(s2c[c])
        <5>1. IsSequence(s2c[c]) /\ AnswerFirst(c)
          BY DEF PresentInv, ClientPresent
        <5>2. CASE s2c[c] = << >>
          BY <5>2, TypesOfFew
        <5>3. CASE s2c[c] # << >>
          <6>1. Head(s2c[c]).type # "joined" /\ "joined" \notin TypesOf(Tail(s2c[c]))
            BY <4>2, <5>1, <5>3 DEF AnswerFirst
          <6>2. TypesOf(s2c[c]) \subseteq {Head(s2c[c]).type} \cup TypesOf(Tail(s2c[c]))
            BY <5>1, <5>3, TypesSplit
          <6>3. QED BY <6>1, <6>2
        <5>4. QED BY <5>2, <5>3
      <4>4. Begins(view[c].record, Replayed(c))
        BY <4>3, ReplayedSequence, ReadGrows DEF Replayed
      <4>5. QED BY <4>2, <4>4
    <3>2. IsSequence(c2s[c])
      BY DEF RequestsInv, KnownOnly
    <3> DEFINE w == Append(c2s[c], q)
    <3>3. /\ Len(w) = Len(c2s[c]) + 1 /\ Len(c2s[c]) \in Nat /\ w[Len(c2s[c]) + 1] = q
          /\ \A i \in 1..Len(c2s[c]) : w[i] = c2s[c][i]
      BY <3>2, AppendSequence
    <3>4. \A i \in 1..Len(c2s[c]) : AsSeen(c2s[c][i], record)
      BY <1>2 DEF Follows
    <3> HIDE DEF w, record
    <3>5. ASSUME NEW i \in 1..Len(w) PROVE AsSeen(w[i], record)
      <4>1. i \in 1..Len(c2s[c]) \/ i = Len(c2s[c]) + 1
        BY <3>3, <3>5
      <4>2. QED BY <3>1, <3>3, <3>4, <4>1
    <3>6. c2s'[c] = w
      BY <2>3 DEF w
    <3>7. QED BY <3>5, <3>6
  <2>4. roomOf[c] # NoRoom
    BY DEF Here
  <2>5. QED BY <1>5, <2>1, <2>2, <2>3, <2>4, ClientSends
<1>6. QED BY <1>4, <1>5

(* All of it, for every step. *)
LEMMA SeenStep ==
    ASSUME ServerInv, ServerInv', RequestsInv, PresentInv, SeenInv, [GobangNext]_gobangVars
    PROVE  SeenInv'
<1>1. CASE UNCHANGED gobangVars
  BY <1>1 DEF gobangVars, clientVars, vars, SeenInv, NoGameYet, Here, Follows, Replayed
<1>2. ASSUME NEW d \in Conns, ServerStep(d) PROVE SeenInv'
  <2>1. games' \in [RoomIds -> Nat]
    BY <1>2, GamesMove DEF SeenInv
  <2>2. \A id \in RoomIds : NoGameYet(id)'
    BY <1>2, NoGameKept
  <2>3. \A c \in Conns : Here(c)' /\ games'[roomOf'[c]] <= 1 => Follows(c)'
    BY <1>2, ServerFollowed
  <2>4. QED BY <2>1, <2>2, <2>3 DEF SeenInv
<1>3. ASSUME NEW e \in Conns, ClientStep(e) PROVE SeenInv'
  <2>1. rooms' = rooms /\ roomOf' = roomOf /\ userOf' = userOf
    BY <1>3, ClientStepFacts
  <2>2. games' = games
    BY <1>3 DEF ClientStep, Listen, Connect, ReceiveYouJoinRoom, ReceiveDenied, Receive,
       ReceiveGameOver, StreamEnds, OpenWindows, Quit, ClickLeave, ClickReady, ClickStone
  <2>3. \A c \in Conns : Here(c)' /\ games'[roomOf'[c]] <= 1 => Follows(c)'
    BY <1>3, <2>1, <2>2, ClientFollows DEF Here
  <2>4. QED BY <2>1, <2>2, <2>3 DEF SeenInv, NoGameYet
<1>4. QED BY <1>1, <1>2, <1>3 DEF GobangNext

(* In the first game of a room a stone is only ever placed on the position its player
   was looking at (chess.go:62-84, server_game_room.cpp:122-160): the move number is
   the length of the record seen, modulo 256, and no longer than the server's.  *)
THEOREM AlwaysPlacedAsSeen == GobangSpec => PlacedAsSeen
<1>1. GobangInit => SeenInv
  <2> SUFFICES ASSUME GobangInit PROVE SeenInv
    OBVIOUS
  <2>1. games \in [RoomIds -> Nat] /\ \A c \in Conns : ~ Here(c)
    BY DEF GobangInit, Init, Here
  <2>2. ASSUME NEW id \in RoomIds PROVE NoGameYet(id)
    <3>1. rooms[id] = NewRoom
      BY <2>2 DEF GobangInit, Init
    <3>2. NewRoom.chess.record = << >> /\ ~ NewRoom.playing
      BY DEF NewRoom, ChessInit
    <3>3. QED BY <3>1, <3>2 DEF NoGameYet
  <2>3. QED BY <2>1, <2>2 DEF SeenInv
<1>2. ASSUME ServerInv, RequestsInv, PresentInv, SeenInv, [GobangNext]_gobangVars,
             NEW id \in RoomIds, NEW c \in Conns,
             Len(rooms'[id].chess.record) > Len(rooms[id].chess.record),
             pipe'[c] # pipe[c], games[id] <= 1
      PROVE  Request(c).seen = rooms[id].chess.record
  <2> DEFINE record == rooms[id].chess.record
  <2>1. PICK d \in Conns : ServerStep(d)
    <3>1. ~ UNCHANGED gobangVars
      BY <1>2 DEF gobangVars, vars
    <3>2. \A e \in Conns : ~ ClientStep(e)
      <4>1. rooms' = rooms => FALSE
        <5>1. Len(rooms[id].chess.record) \in Nat
          BY <1>2 DEF ServerInv, RoomsInv, RoomStates, ChessStates
        <5>2. QED BY <1>2, <5>1
      <4>2. QED BY <1>2, <4>1, ClientStepFacts
    <3>3. QED BY <1>2, <3>1, <3>2 DEF GobangNext
  <2>2. c = d
    BY <1>2, <2>1, OthersRest
  <2>3. rooms \in [RoomIds -> RoomStates(Users)] /\ rooms[id].chess \in ChessStates
        /\ record \in Seq(Byte) /\ Len(record) \in Nat
    BY <1>2 DEF ServerInv, RoomsInv, RoomStates, ChessStates
  <2>4. Placed(d, id)
    <3>1. rooms'[id].chess.record = IF Placed(d, id) THEN Append(record, Request(d).coor)
                                    ELSE IF Begun(d, id) THEN << >> ELSE record
      BY <1>2, <2>1, RoomsMove
    <3>2. Len(<< >>) = 0
      OBVIOUS
    <3> HIDE DEF record
    <3>3. Len(rooms'[id].chess.record) > Len(record)
      BY <1>2 DEF record
    <3>4. QED BY <2>3, <3>1, <3>2, <3>3
  <2>5. /\ roomOf[c] = id /\ c2s[c] # << >> /\ Request(c).op = "stone"
        /\ userOf[c] # NoUser
        /\ CanPlayStone(rooms[id], userOf[c], Request(c).move, Request(c).coor)
    BY <2>2, <2>4 DEF Placed, HandleStone, Handled, ReceivePlayerStone, Serving
  <2>6. Here(c)
    <3>1. rooms[id].seat[PlayerColor(rooms[id], userOf[c])] = userOf[c]
          /\ PlayerColor(rooms[id], userOf[c]) \in Stones
      BY <2>5, PlayerHoldsSeat DEF CanPlayStone
    <3>2. SeatsDistinct(rooms[id]) /\ NoRoom \notin RoomIds
      BY <1>2, ServerAssumption DEF ServerInv, RoomsInv, RoomGood
    <3>3. QED BY <2>5, <3>1, <3>2 DEF SeatsDistinct, Here
  <2>7. Follows(c)
    BY <1>2, <2>5, <2>6 DEF SeenInv
  <2>8. Request(c) = c2s[c][1] /\ 1 \in 1..Len(c2s[c])
    <3>1. PICK S : c2s[c] \in Seq(S)
      BY <1>2 DEF RequestsInv, KnownOnly, IsSequence
    <3>2. QED BY <2>5, <3>1 DEF Request
  <2>9. AsSeen(Request(c), record)
    BY <2>5, <2>7, <2>8 DEF Follows
  <2>10. Begins(Request(c).seen, record) /\ Request(c).move = Len(Request(c).seen) % 256
    BY <2>5, <2>9 DEF AsSeen
  <2>11. Request(c).move = Len(record)
    BY <2>5 DEF CanPlayStone, CanStone
  <2>12. Len(Request(c).seen) \in Nat /\ Len(Request(c).seen) <= Len(record)
    BY <2>10 DEF Begins, IsSequence
  <2>13. \A n \in Nat : n % 256 <= n
    OBVIOUS
  <2> HIDE DEF record
  <2>14. Len(Request(c).seen) = Len(record)
    <3>1. Len(Request(c).seen) % 256 = Len(record)
      BY <2>10, <2>11
    <3>2. Len(Request(c).seen) % 256 <= Len(Request(c).seen)
      BY <2>12, <2>13
    <3>3. Len(record) <= Len(Request(c).seen)
      BY <3>1, <3>2
    <3>4. QED BY <2>3, <2>12, <3>3
  <2>15. Request(c).seen = record
    BY <2>10, <2>14, BeginsAll
  <2>16. QED BY <2>15 DEF record
<1>3. ServerInv /\ RequestsInv /\ PresentInv /\ SeenInv /\ [GobangNext]_gobangVars =>
        [\A id \in RoomIds, c \in Conns :
              /\ Len(rooms'[id].chess.record) > Len(rooms[id].chess.record)
              /\ pipe'[c] # pipe[c]
              /\ games[id] <= 1
              => Request(c).seen = rooms[id].chess.record]_gobangVars
  BY <1>2
<1>4. ServerInv /\ ServerInv' /\ RequestsInv /\ PresentInv /\ SeenInv /\ [GobangNext]_gobangVars
        => SeenInv'
  BY SeenStep
<1>5. QED BY <1>1, <1>3, <1>4, GobangAlways, PresentAlways, PTL DEF GobangSpec, PlacedAsSeen
=============================================================================
