-------------------------------- MODULE Server --------------------------------
(* The game server: one requestPipe goroutine per TCP connection
   (backend/idtcp/server.go), the middleware chain fatal - user - room
   (backend/middlewares), and the endpoints (backend/server/distribute.go).

   A pipe reads a request without any lock, waits for the pipelineMutex, and runs
   the whole chain and the endpoint under it: handling a request is one step, and
   between the read and the handling any number of other requests are handled.
   The mutex is not a variable; a step that needs it is atomic.

   What a handler writes to clients matters here only where a failed write changes
   the server's state: the connection closed by the server, a join given up.

   Requests are chosen when they are handled.  Reading one earlier and keeping it
   would allow the same behaviours, for no pipe looks at another's request.      *)
EXTENDS Room

CONSTANTS
    Conns,        \* connections ever accepted
    ConfigRooms,  \* configured room sizes, in order
    NoRoom,       \* nil
    ListMax,      \* longest onlooker list a reply can carry: 255 in the code
    MaxJoins,     \* bound: user objects made for one connection
    Coors,        \* coordinate bytes that are tried
    MaxMoves      \* bound: move numbers tried are 0..MaxMoves-1

(* NewMiddleware keeps the first MaxRooms configured rooms. *)
MaxRooms == 200

RoomIds == 0 .. (IF Len(ConfigRooms) < MaxRooms THEN Len(ConfigRooms) ELSE MaxRooms) - 1

RoomMax(id) == ClampedMaxUsers(ConfigRooms[id + 1])

(* The user objects: getUser makes a new one for every authenticated join. *)
Users == [conn : Conns, seq : 1..MaxJoins]

ASSUME ServerAssumption ==
    /\ ConfigRooms \in Seq(Int)
    /\ NoRoom \notin RoomIds
    /\ NoUser \notin Users
    /\ ListMax \in Nat
    /\ MaxJoins \in Nat
    /\ MaxMoves \in Nat
    /\ Coors \subseteq Byte

VARIABLES
    rooms,   \* room id -> room
    link,    \* conn -> the TCP connection as the server can find it
    pipe,    \* conn -> where its requestPipe goroutine is
    userOf,  \* conn -> Payload.User of the user middleware
    roomOf,  \* conn -> Payload.Room of the room middleware
    joins    \* conn -> user objects made for it so far

vars == <<rooms, link, pipe, userOf, roomOf, joins>>

(* none: not accepted yet; up; gone: the peer closed it or it was lost; closed:
   the server closed it.                                                        *)
LinkStates == {"none", "up", "gone", "closed"}

(* reading: in conn.Read; waiting: has a request, wants the mutex; leaving: out of
   the loop, wants the mutex to disconnect; done: the goroutine has returned.    *)
PipeStates == {"idle", "reading", "waiting", "leaving", "done"}

TypeOK ==
    /\ rooms  \in [RoomIds -> RoomStates(Users)]
    /\ link   \in [Conns -> LinkStates]
    /\ pipe   \in [Conns -> PipeStates]
    /\ userOf \in [Conns -> Users \cup {NoUser}]
    /\ roomOf \in [Conns -> RoomIds \cup {NoRoom}]
    /\ joins  \in [Conns -> 0..MaxJoins]

Init ==
    /\ rooms  = [id \in RoomIds |-> NewRoom]
    /\ link   = [c \in Conns |-> "none"]
    /\ pipe   = [c \in Conns |-> "idle"]
    /\ userOf = [c \in Conns |-> NoUser]
    /\ roomOf = [c \in Conns |-> NoRoom]
    /\ joins  = [c \in Conns |-> 0]

-----------------------------------------------------------------------------
(* The network, as the server meets it *)

(* A write to a closed connection fails; one to a connection the peer has left
   fails or is lost.                                                            *)
WriteMayFail(c) == link[c] \in {"gone", "closed"}

WriteMayPass(c) == link[c] \in {"up", "gone"}

PeerCloses(c) ==
    /\ link[c] = "up"
    /\ link' = [link EXCEPT ![c] = "gone"]
    /\ UNCHANGED <<rooms, pipe, userOf, roomOf, joins>>

-----------------------------------------------------------------------------
(* The pipe of a connection *)

Accept(c) ==
    /\ pipe[c] = "idle"
    /\ pipe' = [pipe EXCEPT ![c] = "reading"]
    /\ link' = [link EXCEPT ![c] = "up"]
    /\ UNCHANGED <<rooms, userOf, roomOf, joins>>

(* A whole request arrived; what the peer sent before it went away still does. *)
Read(c) ==
    /\ pipe[c] = "reading"
    /\ link[c] \in {"up", "gone"}
    /\ pipe' = [pipe EXCEPT ![c] = "waiting"]
    /\ UNCHANGED <<rooms, link, userOf, roomOf, joins>>

(* Slip: the end of the stream is not taken for an error. *)
ReadFails_NotAtEnd(c) ==
    /\ pipe[c] = "reading"
    /\ link[c] = "closed"
    /\ pipe' = [pipe EXCEPT ![c] = "leaving"]
    /\ UNCHANGED <<rooms, link, userOf, roomOf, joins>>

ReadFails(c) ==
    /\ pipe[c] = "reading"
    /\ link[c] \in {"gone", "closed"}
    /\ pipe' = [pipe EXCEPT ![c] = "leaving"]
    /\ UNCHANGED <<rooms, link, userOf, roomOf, joins>>

(* Where the handled request leaves the pipe: an error ends its loop. *)
Continue(c) == pipe' = [pipe EXCEPT ![c] = "reading"]

Stop(c) == pipe' = [pipe EXCEPT ![c] = "leaving"]

-----------------------------------------------------------------------------
(* processUserLeave: the leaver is written to once for each member, and its
   connection closed at the first failure; then leave.  It does nothing unless
   both payloads are set.                                                       *)
UserLeaves(c) ==
    rooms' = IF roomOf[c] # NoRoom /\ userOf[c] # NoUser
             THEN [rooms EXCEPT ![roomOf[c]] = leave(@, userOf[c])]
             ELSE rooms

(* ProcessDisconnect, and the goroutine's end. *)
Disconnect(c) ==
    /\ pipe[c] = "leaving"
    /\ UserLeaves(c)
    /\ link' = [link EXCEPT ![c] = "closed"]
    /\ pipe' = [pipe EXCEPT ![c] = "done"]
    /\ UNCHANGED <<userOf, roomOf, joins>>

-----------------------------------------------------------------------------
(* Requests a connection may send before it has authenticated *)

(* Anything but a join without a user: a fatal error is written and the
   connection closed.                                                           *)
RejectAnonymous(c) ==
    /\ pipe[c] = "waiting"
    /\ userOf[c] = NoUser
    /\ link' = [link EXCEPT ![c] = "closed"]
    /\ Stop(c)
    /\ UNCHANGED <<rooms, userOf, roomOf, joins>>

(* A join that cannot be decoded or is not authenticated. *)
JoinDenied(c) ==
    /\ pipe[c] = "waiting"
    /\ Stop(c)
    /\ UNCHANGED <<rooms, link, userOf, roomOf, joins>>

(* Slip: a connection that authenticates again keeps its user object. *)
Authenticated_SameUser(c) ==
    /\ pipe[c] = "waiting"
    /\ joins[c] < MaxJoins
    /\ joins' = [joins EXCEPT ![c] = @ + 1]
    /\ userOf' = [userOf EXCEPT ![c] = [conn |-> c, seq |-> 1]]

(* An authenticated join: first the user middleware replaces the user of the
   connection, then the room middleware looks for a place.                      *)
Authenticated(c) ==
    /\ pipe[c] = "waiting"
    /\ joins[c] < MaxJoins
    /\ joins' = [joins EXCEPT ![c] = @ + 1]
    /\ userOf' = [userOf EXCEPT ![c] = [conn |-> c, seq |-> joins'[c]]]

(* 'P' asks for a seat, 'O' to look on; any other role is an error, and so is a
   room id beyond the list.                                                     *)
JoinRequests == [room : 0..Len(ConfigRooms), role : {"P", "O", "other"}]

Admitted(q) ==
    /\ q.room \in RoomIds
    /\ \/ q.role = "P" /\ CanSit(rooms[q.room])
       \/ q.role = "O" /\ CanWatch(rooms[q.room], RoomMax(q.room))

Place(q, user) ==
    IF q.role = "P" THEN joinAsPlayer(rooms[q.room], user)
                    ELSE joinAsOnlooker(rooms[q.room], user)

(* Slip: the error is dropped. *)
JoinRefused_Dropped(c) ==
    /\ Authenticated(c)
    /\ \E q \in JoinRequests : ~ Admitted(q)
    /\ Continue(c)
    /\ UNCHANGED <<rooms, link, roomOf>>

JoinRefused(c) ==
    /\ Authenticated(c)
    /\ \E q \in JoinRequests : ~ Admitted(q)
    /\ Stop(c)
    /\ UNCHANGED <<rooms, link, roomOf>>

(* What the reply must at least have: a list of onlookers that fits behind its byte.
   The name of the room, names and the frame of 65535 bytes are limits as well, which
   no room comes near or goes beyond here: whether a reply fails is a free choice.  *)
ReplyFits(room) == Cardinality(Onlookers(room)) <= ListMax

JoinAccepted(c, q) ==
    /\ Authenticated(c)
    /\ Admitted(q)
    /\ rooms' = [rooms EXCEPT ![q.room] = Place(q, userOf'[c])]
    /\ ReplyFits(rooms'[q.room]) /\ WriteMayPass(c)
    /\ roomOf' = [roomOf EXCEPT ![c] = q.room]
    /\ Continue(c)
    /\ UNCHANGED link

(* Slip: the error of the reply is dropped. *)
JoinReplyFails_Dropped(c, q) ==
    /\ Authenticated(c)
    /\ Admitted(q)
    /\ rooms' = [rooms EXCEPT ![q.room] = Place(q, userOf'[c])]
    /\ Continue(c)
    /\ UNCHANGED <<link, roomOf>>

(* The reply cannot be encoded or written: the user is in the room, and the payload
   does not know it.                                                            *)
JoinReplyFails(c, q) ==
    /\ Authenticated(c)
    /\ Admitted(q)
    /\ rooms' = [rooms EXCEPT ![q.room] = Place(q, userOf'[c])]
    /\ Stop(c)
    /\ UNCHANGED <<link, roomOf>>

-----------------------------------------------------------------------------
(* Requests of an authenticated connection.  Their handlers dereference the room
   payload without a test; that it is set is an invariant (RoomKnown).          *)

Serving(c) ==
    /\ pipe[c] = "waiting"
    /\ userOf[c] # NoUser
    /\ roomOf[c] # NoRoom

(* A fatal error reported by the client closes the connection; the rest of the
   chain passes it on to an empty endpoint.  Requests are as long as their fields:
   reading an integer or a name out of fewer bytes panics, and ends the process
   (Codec has where reading panics).                                            *)
ReceiveFatalError(c) ==
    /\ Serving(c)
    /\ link' = [link EXCEPT ![c] = "closed"]
    /\ Continue(c)
    /\ UNCHANGED <<rooms, userOf, roomOf, joins>>

(* Leaving keeps both payloads and the connection, unless a leave notice could
   not be written.  There is one notice for each member, all sent to the leaver. *)
ReceiveLeaveRoom(c) ==
    /\ Serving(c)
    /\ UserLeaves(c)
    /\ \/ UNCHANGED link
       \/ /\ WriteMayFail(c) /\ rooms[roomOf[c]].users # {}
          /\ link' = [link EXCEPT ![c] = "closed"]
    /\ Continue(c)
    /\ UNCHANGED <<userOf, roomOf, joins>>

(* broadcastMessage closes every member's connection that cannot be written to. *)
Broadcast(room) ==
    \E failed \in SUBSET {u.conn : u \in {v \in room.users : WriteMayFail(v.conn)}} :
        link' = [c \in Conns |-> IF c \in failed THEN "closed" ELSE link[c]]

PlayerReady(c) ==
    /\ Serving(c)
    /\ IsPlayer(rooms[roomOf[c]], userOf[c])
    /\ Broadcast(rooms[roomOf[c]])
    /\ rooms' = [rooms EXCEPT ![roomOf[c]] = ReceiveReady(@, userOf[c])]
    /\ Continue(c)
    /\ UNCHANGED <<userOf, roomOf, joins>>

ReceivePlayerStone(c, move, coor) ==
    /\ Serving(c)
    /\ CanPlayStone(rooms[roomOf[c]], userOf[c], move, coor)
    /\ rooms' = [rooms EXCEPT ![roomOf[c]] = PlayStone(@, coor)]
    /\ Continue(c)
    /\ UNCHANGED <<link, userOf, roomOf, joins>>

ReceivePlayerRegret(c) ==
    /\ Serving(c)
    /\ rooms' = [rooms EXCEPT ![roomOf[c]] = Regret(@, userOf[c])]
    /\ Continue(c)
    /\ UNCHANGED <<link, userOf, roomOf, joins>>

(* Chat, user info, the endpoints that are Empty, instructions out of range, and
   the requests above when their handler returns early: errors of the endpoints
   are dropped by the room middleware, so the pipe goes on.  As above, requests
   are as long as their fields.                                                 *)
NothingToDo(c) ==
    /\ Serving(c)
    /\ Continue(c)
    /\ UNCHANGED <<rooms, link, userOf, roomOf, joins>>

-----------------------------------------------------------------------------
Handle(c) ==
    \/ RejectAnonymous(c)
    \/ JoinDenied(c)
    \/ JoinRefused(c)
    \/ \E q \in JoinRequests : JoinAccepted(c, q)
    \/ \E q \in JoinRequests : JoinReplyFails(c, q)
    \/ ReceiveFatalError(c)
    \/ ReceiveLeaveRoom(c)
    \/ PlayerReady(c)
    \/ \E move \in 0..MaxMoves - 1, coor \in Coors : ReceivePlayerStone(c, move, coor)
    \/ ReceivePlayerRegret(c)
    \/ NothingToDo(c)

Step(c) ==
    \/ Accept(c)
    \/ PeerCloses(c)
    \/ Read(c)
    \/ ReadFails(c)
    \/ Handle(c)
    \/ Disconnect(c)

Next == \E c \in Conns : Step(c)

Spec == Init /\ [][Next]_vars
-----------------------------------------------------------------------------
(* Safety *)

(* An endpoint never meets a nil room payload (distribute.go:56-237 dereference
   it untested): whenever a pipe may still serve requests for a user, the join
   that made the user also set the room, for a join that fails halfway ends the
   pipe.                                                                        *)
RoomKnown ==
    \A c \in Conns :
        pipe[c] \in {"reading", "waiting"} /\ userOf[c] # NoUser => roomOf[c] # NoRoom

(* No game starts with an empty seat (room.go:41, distribute.go:82), however
   joins, leaves and disconnects of several connections interleave with the two
   ready requests.                                                              *)
RequestsSeated == \A id \in RoomIds : FlagsSeated(rooms[id])

(* A user object holds at most one seat in one room and is a member there: the
   broadcasts of that room, and only of that room, reach its connection.        *)
SeatsConsistent ==
    /\ \A id \in RoomIds : SeatsDistinct(rooms[id])
    /\ \A id, other \in RoomIds :
          id # other => rooms[id].users \cap rooms[other].users = {}

(* The stones a move is checked against are the moves of the record a joining
   client is sent, and nothing else.                                            *)
BoardIsRecord ==
    \A id \in RoomIds : LiveMoves(rooms[id].chess) /\ NoStrayStone(rooms[id].chess)

(* When a goroutine has ended after a join that was completed, its user no longer
   holds a seat in that room, whatever interrupted it.                          *)
SeatReleased ==
    \A c \in Conns :
        pipe[c] = "done" /\ userOf[c] # NoUser /\ roomOf[c] # NoRoom =>
            ~ IsPlayer(rooms[roomOf[c]], userOf[c])

-----------------------------------------------------------------------------
(* What a step may never do.  A step of the connection c is one in which its
   pipe moves.                                                                  *)

(* A seat is taken only while empty and only by the connection that just
   authenticated for it, and given up only by its holder's connection.          *)
SeatNotStolen ==
    [][\A id \in RoomIds, color \in Stones :
          LET before == rooms[id].seat[color]
              after  == rooms'[id].seat[color]
          IN  before # after =>
                  \/ before = NoUser /\ pipe[after.conn] # pipe'[after.conn]
                                     /\ after = userOf'[after.conn]
                  \/ after = NoUser /\ pipe[before.conn] # pipe'[before.conn]
                                    /\ before = userOf[before.conn]]_vars

(* A running game is disturbed only by a player of it: no onlooker, no member of
   another room and no connection that lost its seat can place a stone in it,
   restart it or stop it.                                                       *)
PlayersOnly ==
    [][\A id \in RoomIds, c \in Conns :
          /\ rooms[id].playing
          /\ rooms'[id].chess # rooms[id].chess \/ ~ rooms'[id].playing
          /\ pipe'[c] # pipe[c]
          => roomOf[c] = id /\ IsPlayer(rooms[id], userOf[c])]_vars

-----------------------------------------------------------------------------
(* What it is all for *)

(* The rooms as tables: who holds the seats, whether a game is on, and the cells
   the record stands for.                                                       *)
AsTables == INSTANCE Table WITH
    Tables  <- RoomIds,
    Colours <- Stones,
    Players <- Users,
    Nobody  <- NoUser,
    seat    <- [id \in RoomIds |-> rooms[id].seat],
    playing <- [id \in RoomIds |-> rooms[id].playing],
    moves   <- [id \in RoomIds |->
                   [i \in DOMAIN rooms[id].chess.record |-> parseCoor(rooms[id].chess.record[i])]]

(* Whatever connections, requests and failures do, seen from the tables they sit
   down, get up, begin a game of two and take free cells, one such thing at a time
   and for one table only (game/room.go, mdwroom/room.go, chess.go under the
   endpoints).                                                                  *)
ImplementsTables == AsTables!Spec

-----------------------------------------------------------------------------
(* Liveness *)

(* Once a connection is lost or closed, by whichever side and in whatever state
   its pipe is, the goroutine ends.                                             *)
TornDown ==
    \A c \in Conns : link[c] \in {"gone", "closed"} ~> pipe[c] = "done"

-----------------------------------------------------------------------------
(* What comments of the code promise and the code does not keep *)

(* chess.go:26: "0 will be black's turn, 1 will be white's".  A stone is placed
   by the player whose turn it is.                                              *)
StoneByTurn ==
    [][\A id \in RoomIds, c \in Conns :
          /\ Len(rooms'[id].chess.record) > Len(rooms[id].chess.record)
          /\ pipe'[c] # pipe[c]
          => userOf[c] = rooms[id].seat[WhoseTurn(rooms[id].chess)]]_vars
=============================================================================
