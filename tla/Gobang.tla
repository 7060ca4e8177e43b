-------------------------------- MODULE Gobang --------------------------------
(* Clients and the server together.  A client (frontend/src/server/
   server_game_room.cpp, frontend/src/game/room.cpp) keeps a copy of the room it
   joined, applies the server's messages to it in the order they come, and decides
   by that copy what its windows let the player do.  Requests and messages travel
   in order, one channel each way per connection; a request is on its channel until
   it is handled.

   Every step of the server is a step of Server, with the request it answers taken
   from the channel and what it writes put on the others.  A client's connection
   joins once, with the message on_connected_ sends; the windows come up only when
   the join was answered.

   A client connects once: its windows are never built from the room an earlier
   connection left behind.  Left out: chat and user information, which the server handles without
   a change of state, and take-backs and ties, of which clients hear nothing.   *)
EXTENDS Server, SequencesExt

CONSTANTS
    username,   \* conn -> the name its player typed in
    NoName,     \* the empty string
    Requests,   \* bound: requests under way on one channel
    Backlog,    \* bound: messages under way on one channel before more are written
    Quitters,   \* bound: clients that quit or whose connection is lost
    MaxGames    \* bound: nobody asks for more games in one room than these

VARIABLES
    c2s,     \* conn -> requests under way to the server
    s2c,     \* conn -> messages under way to the client
    phase,   \* conn -> what the client is doing
    view,    \* conn -> the client's copy of the room
    role,    \* conn -> the colour its windows were opened with
    games    \* room id -> games started so far

clientVars == <<c2s, s2c, phase, view, role, games>>

gobangVars == <<vars, clientVars>>

ASSUME GobangAssumption ==
    /\ DOMAIN username = Conns
    /\ NoName \notin {username[c] : c \in Conns}
    /\ Requests \in Nat /\ Backlog \in Nat
    /\ MaxGames \in Nat
    /\ MaxJoins = 1

(* home: not connected yet; joining; joined: the join was answered and the windows
   are still to be opened; in; failed: told that the join was refused; out:
   disconnected.                                                                *)
Phases == {"home", "joining", "joined", "in", "failed", "out"}

Connected == {"joining", "joined", "in", "failed"}

Names == {username[c] : c \in Conns} \cup {NoName}

(* What the windows decide by.  The board is not kept: it shows exactly the moves of
   the record.  The list of onlookers is only displayed.                        *)
Views == [black : Names, white : Names, ready : Colors, playing : BOOLEAN,
          record : Seq(Byte)]

(* Before a join was answered; the flags are not initialised and not looked at. *)
NewView == [black |-> NoName, white |-> NoName, ready |-> SPACE, playing |-> FALSE,
            record |-> << >>]

GobangInit ==
    /\ Init
    /\ c2s   = [c \in Conns |-> << >>]
    /\ s2c   = [c \in Conns |-> << >>]
    /\ phase = [c \in Conns |-> "home"]
    /\ view  = [c \in Conns |-> NewView]
    /\ role  = [c \in Conns |-> SPACE]
    /\ games = [id \in RoomIds |-> 0]

-----------------------------------------------------------------------------
(* The client's copy of the room *)

NameOf(user) == IF user = NoUser THEN NoName ELSE username[user.conn]

RoleIn(v, name) ==
    IF name = v.black THEN BLACK ELSE IF name = v.white THEN WHITE ELSE SPACE

(* user_leave for each of the names; an onlooker is only taken off the display. *)
Without(v, names) ==
    [v EXCEPT !.black = IF @ \in names THEN NoName ELSE @,
              !.white = IF @ \in names THEN NoName ELSE @]

(* A game start may change the colours over; the record goes on. *)
Started(v, black) ==
    IF v.black # black
    THEN [v EXCEPT !.black = v.white, !.white = v.black, !.playing = TRUE]
    ELSE [v EXCEPT !.playing = TRUE]

(* user_join gets the role as the letter 'P' or 'O', which is no colour: whoever
   joins ends up with the onlookers.                                            *)
Applied(v, m) ==
    CASE m.type = "other" -> v
      [] m.type = "leave" -> Without(v, m.names)
      [] m.type = "ready" -> [v EXCEPT !.ready = m.color]
      [] m.type = "start" -> Started(v, m.name)
      [] m.type = "stone" -> [v EXCEPT !.record = Append(@, m.coor)]

-----------------------------------------------------------------------------
(* What the server writes *)

(* Slip: the names of the two players are swapped. *)
Snapshot_Swapped(room) ==
    [black |-> NameOf(room.seat[WHITE]), white |-> NameOf(room.seat[BLACK]),
     ready |-> room.ready, playing |-> room.playing, record |-> room.chess.record]

(* The room as the answer to a join tells it. *)
Snapshot(room) ==
    [black |-> NameOf(room.seat[BLACK]), white |-> NameOf(room.seat[WHITE]),
     ready |-> room.ready, playing |-> room.playing, record |-> room.chess.record]

(* The members' connections; each client has one user. *)
Members(room) == {u.conn : u \in room.users}

(* out[c] is written to every c it is defined for: it arrives if the connection is
   up and is lost otherwise.  The writer waits while a channel is full.         *)
Write(out) ==
    /\ \A c \in DOMAIN out : link[c] = "up" => Len(s2c[c]) < Backlog
    /\ s2c' = [c \in Conns |-> IF c \in DOMAIN out /\ link[c] = "up"
                               THEN s2c[c] \o out[c] ELSE s2c[c]]

ToAll(conns, messages) == [c \in conns |-> messages]

(* The request a pipe is at, and its removal once handled. *)
Request(c) == Head(c2s[c])

Handled(c, op) ==
    /\ pipe[c] = "waiting" /\ c2s[c] # << >>
    /\ Request(c).op = op
    /\ c2s' = [c2s EXCEPT ![c] = Tail(@)]

-----------------------------------------------------------------------------
(* The server's side.  Each action is one of Server with its traffic.           *)

ServerRead(c) ==
    /\ c2s[c] # << >>
    /\ Read(c)
    /\ UNCHANGED clientVars

ServerReadFails(c) ==
    /\ ReadFails(c)
    /\ UNCHANGED clientVars

(* A notice with every member's name is written to the one who leaves.  They come one
   behind the other and nothing the windows let through depends on how many of them
   were read: they are one message here.                                        *)
LeaveNotices(c) ==
    IF roomOf[c] = NoRoom THEN << >>
    ELSE <<[type |-> "leave", names |-> {NameOf(u) : u \in rooms[roomOf[c]].users}]>>

ServerDisconnect(c) ==
    /\ Disconnect(c)
    /\ Write(ToAll({c}, LeaveNotices(c)))
    /\ UNCHANGED <<c2s, phase, view, role, games>>

(* Wrong password: the client is told. *)
HandleJoinDenied(c) ==
    /\ Handled(c, "join")
    /\ JoinDenied(c)
    /\ Write(ToAll({c}, <<[type |-> "denied"]>>))
    /\ UNCHANGED <<phase, view, role, games>>

(* No place: the client is not told, its connection is closed. *)
HandleJoinRefused(c) ==
    /\ Handled(c, "join")
    /\ ~ Admitted(Request(c).query)
    /\ JoinRefused(c)
    /\ UNCHANGED <<s2c, phase, view, role, games>>

(* Every other member is told of a join, by its own name; then the one who joined
   gets the room.                                                               *)
JoinTraffic(c, id) ==
    [d \in Members(rooms'[id]) |->
        IF d = c THEN <<[type |-> "joined", room |-> Snapshot(rooms'[id])]>>
                 ELSE <<[type |-> "other", name |-> username[d]]>>]

HandleJoin(c) ==
    /\ Handled(c, "join")
    /\ JoinAccepted(c, Request(c).query)
    /\ Write(JoinTraffic(c, Request(c).query.room))
    /\ UNCHANGED <<phase, view, role, games>>

HandleJoinReplyFails(c) ==
    /\ Handled(c, "join")
    /\ JoinReplyFails(c, Request(c).query)
    /\ LET all == JoinTraffic(c, Request(c).query.room)
       IN  Write([d \in DOMAIN all \ {c} |-> all[d]])
    /\ UNCHANGED <<phase, view, role, games>>

HandleLeave(c) ==
    /\ Handled(c, "leave")
    /\ ReceiveLeaveRoom(c)
    /\ Write(ToAll({c}, LeaveNotices(c)))
    /\ UNCHANGED <<phase, view, role, games>>

(* Game start or readiness, to every member. *)
HandleReady(c) ==
    LET room  == rooms[roomOf[c]]
        color == PlayerColor(room, userOf[c])
    IN  /\ Handled(c, "ready")
        /\ PlayerReady(c)
        /\ IF BothReady(room, color)
           THEN /\ games' = [games EXCEPT ![roomOf[c]] = @ + 1]
                /\ Write(ToAll(Members(room),
                         <<[type |-> "start", name |-> NameOf(room.seat[BLACK])]>>))
           ELSE /\ Write(ToAll(Members(room), <<[type |-> "ready", color |-> color]>>))
                /\ UNCHANGED games
        /\ UNCHANGED <<phase, view, role>>

(* Slip: the player who placed the stone is not told of it. *)
StoneAudience_Others(room, user) == Members(room) \ {user.conn}

StoneAudience(room, user) == Members(room)

(* The stone, and the end of the game when it wins, to every member. *)
HandleStone(c) ==
    LET q     == Request(c)
        id    == roomOf[c]
        stone == <<[type |-> "stone", coor |-> q.coor]>>
        over  == <<[type |-> "over", color |-> WhoseTurn(rooms[id].chess)]>>
    IN  /\ Handled(c, "stone")
        /\ ReceivePlayerStone(c, q.move, q.coor)
        /\ Write(ToAll(StoneAudience(rooms[id], userOf[c]),
                       IF DidYouWin(rooms'[id].chess) THEN stone \o over ELSE stone))
        /\ UNCHANGED <<phase, view, role, games>>

(* A ready or a stone that is turned away is answered by nothing. *)
HandleNothing(c) ==
    /\ \/ Handled(c, "ready") /\ ~ IsPlayer(rooms[roomOf[c]], userOf[c])
       \/ /\ Handled(c, "stone")
          /\ ~ CanPlayStone(rooms[roomOf[c]], userOf[c], Request(c).move, Request(c).coor)
    /\ NothingToDo(c)
    /\ UNCHANGED <<s2c, phase, view, role, games>>

-----------------------------------------------------------------------------
(* The client's side *)

Send(c, request) ==
    /\ Len(c2s[c]) < Requests
    /\ c2s' = [c2s EXCEPT ![c] = Append(@, request)]

(* connect, and on_connected_: the join goes out as soon as the connection is up. *)
Connect(c) ==
    /\ phase[c] = "home"
    /\ Accept(c)
    /\ \E id \in RoomIds, letter \in {"P", "O"} :
          Send(c, [op |-> "join", query |-> [room |-> id, role |-> letter]])
    /\ phase' = [phase EXCEPT ![c] = "joining"]
    /\ UNCHANGED <<s2c, view, role, games>>

(* The client's end of the connection goes: by its own doing, because a message
   could not be decoded, or because the server closed.  The windows close; the copy
   of the room stays.                                                           *)
Gone(c) ==
    /\ phase' = [phase EXCEPT ![c] = "out"]
    /\ s2c'   = [s2c EXCEPT ![c] = << >>]
    /\ role'  = [role EXCEPT ![c] = SPACE]
    /\ link'  = [link EXCEPT ![c] = IF @ = "up" THEN "gone" ELSE @]
    /\ UNCHANGED <<view, rooms, pipe, userOf, roomOf, joins>>

Incoming(c, types) ==
    /\ phase[c] \in Connected
    /\ s2c[c] # << >>
    /\ Head(s2c[c]).type \in types

(* The main thread opens the windows with the next frame, for the role the player
   has in the room it can see then.                                             *)
OpensWindows(c) ==
    /\ phase' = [phase EXCEPT ![c] = "in"]
    /\ role'  = [role EXCEPT ![c] = RoleIn(view[c], username[c])]

OpenWindows(c) ==
    /\ phase[c] = "joined"
    /\ OpensWindows(c)
    /\ UNCHANGED <<vars, c2s, s2c, view, games>>

(* The main thread is told of the join before the new room is put in place of the
   old one: it may open the windows in between.                                 *)
ReceiveYouJoinRoom(c) ==
    /\ Incoming(c, {"joined"})
    /\ view' = [view EXCEPT ![c] = Head(s2c[c]).room]
    /\ \/ phase' = [phase EXCEPT ![c] = "joined"] /\ UNCHANGED role
       \/ OpensWindows(c)
    /\ s2c' = [s2c EXCEPT ![c] = Tail(@)]
    /\ UNCHANGED <<vars, c2s, games>>

ReceiveDenied(c) ==
    /\ Incoming(c, {"denied"})
    /\ phase' = [phase EXCEPT ![c] = "failed"]
    /\ s2c' = [s2c EXCEPT ![c] = Tail(@)]
    /\ UNCHANGED <<vars, c2s, view, role, games>>

Receive(c) ==
    /\ Incoming(c, {"other", "leave", "ready", "start", "stone"})
    /\ view' = [view EXCEPT ![c] = Applied(@, Head(s2c[c]))]
    /\ s2c' = [s2c EXCEPT ![c] = Tail(@)]
    /\ UNCHANGED <<vars, c2s, phase, role, games>>

(* The end of a game comes as one byte and is read as two: decoding it throws, and
   the receive loop ends.                                                       *)
ReceiveGameOver(c) ==
    /\ Incoming(c, {"over"})
    /\ Gone(c)
    /\ UNCHANGED <<c2s, games>>

(* The server has closed and everything was read. *)
StreamEnds(c) ==
    /\ phase[c] \in Connected
    /\ link[c] = "closed" /\ s2c[c] = << >>
    /\ Gone(c)
    /\ UNCHANGED <<c2s, games>>

(* The player quits, or the connection is lost. *)
Quit(c) ==
    /\ c \in Quitters
    /\ phase[c] \in Connected
    /\ Gone(c)
    /\ UNCHANGED <<c2s, games>>

(* The windows: a role is needed for everything but leaving.  Nobody looks whether
   a game is on before a stone is sent, nor whose turn it is.                   *)
CanClick(c) == phase[c] = "in" /\ link[c] = "up"

ClickLeave(c) ==
    /\ CanClick(c)
    /\ Send(c, [op |-> "leave"])
    /\ UNCHANGED <<vars, s2c, phase, view, role, games>>

ClickReady(c) ==
    /\ CanClick(c)
    /\ role[c] # SPACE
    /\ ~ (view[c].playing /\ view[c].ready = role[c])
    /\ games[roomOf[c]] < MaxGames
    /\ Send(c, [op |-> "ready"])
    /\ UNCHANGED <<vars, s2c, phase, view, role, games>>

(* seen is not sent: it is the record the player looked at, for PlacedAsSeen. *)
ClickStone(c, coor) ==
    /\ CanClick(c)
    /\ role[c] # SPACE
    /\ isVaildCoor(parseCoor(coor))
    /\ \A i \in 1..Len(view[c].record) : view[c].record[i] # coor
    /\ Len(view[c].record) \in 0..MaxMoves - 1
    /\ Send(c, [op |-> "stone", move |-> Len(view[c].record) % 256, coor |-> coor,
                seen |-> view[c].record])
    /\ UNCHANGED <<vars, s2c, phase, view, role, games>>

-----------------------------------------------------------------------------
ServerStep(c) ==
    \/ ServerRead(c)
    \/ ServerReadFails(c)
    \/ ServerDisconnect(c)
    \/ HandleJoinDenied(c)
    \/ HandleJoinRefused(c)
    \/ HandleJoin(c)
    \/ HandleJoinReplyFails(c)
    \/ HandleLeave(c)
    \/ HandleReady(c)
    \/ HandleStone(c)
    \/ HandleNothing(c)

Listen(c) ==
    \/ ReceiveYouJoinRoom(c)
    \/ ReceiveDenied(c)
    \/ Receive(c)
    \/ ReceiveGameOver(c)
    \/ StreamEnds(c)

ClientStep(c) ==
    \/ Connect(c)
    \/ Listen(c)
    \/ OpenWindows(c)
    \/ Quit(c)
    \/ ClickLeave(c)
    \/ ClickReady(c)
    \/ \E coor \in Coors : ClickStone(c, coor)

GobangNext == \E c \in Conns : ServerStep(c) \/ ClientStep(c)

GobangSpec == GobangInit /\ [][GobangNext]_gobangVars

(* A client that has something to read reads it.  A pipe that has something to do
   comes to do it although it may have to wait for the mutex, which is handed over in
   turn, and for the clients it writes to, which read; a peer that is gone has sent
   finitely many requests, so that the error behind them is met.                *)
FairGobangSpec ==
    /\ GobangSpec
    /\ \A c \in Conns : WF_gobangVars(Listen(c)) /\ SF_gobangVars(ServerStep(c))
-----------------------------------------------------------------------------
(* Properties *)

(* What reading a message does to a client's record. *)
RecordRead(record, m) ==
    CASE m.type = "joined" -> m.room.record
      [] m.type = "stone"  -> Append(record, m.coor)
      [] OTHER             -> record

RecordAfter(start, messages) ==
    LET record[i \in 0..Len(messages)] ==
            IF i = 0 THEN start ELSE RecordRead(record[i - 1], messages[i])
    IN  record[Len(messages)]

(* The record a client will have when it has read what is under way to it. *)
Replayed(c) == RecordAfter(view[c].record, s2c[c])

(* A member that is connected and stays so: a client that decodes the end of a game
   drops out.                                                                   *)
Listening(c) ==
    /\ link[c] = "up"
    /\ roomOf[c] # NoRoom
    /\ userOf[c] \in rooms[roomOf[c]].users

(* However joins, games and clicks interleave, a client that has read everything has
   the stones of the running game, in the server's order, at the end of its record:
   none is missed while it joins, and none comes twice.                         *)
RecordAgrees ==
    \A c \in Conns :
        Listening(c) => IsSuffix(rooms[roomOf[c]].chess.record, Replayed(c))

(* A window that offers to play a colour was opened by the client that holds, or held
   and left, that very seat on the server.                                      *)
RoleIsSeat ==
    \A c \in Conns :
        role[c] # SPACE =>
            PlayerColor(rooms[roomOf[c]], userOf[c]) \in {role[c], SPACE}

(* Whoever asked to join is answered or disconnected: the client does not wait for
   ever, whatever the reason the server has for turning it away.                *)
JoinAnswered == \A c \in Conns : phase[c] = "joining" ~> phase[c] # "joining"

(* In the first game of a room a stone is only ever placed on the position its player
   was looking at: the move number turns away every stone that was overtaken.  (In
   later games it need not be, for a client goes on counting where the last game
   ended.)                                                                      *)
PlacedAsSeen ==
    [][\A id \in RoomIds, c \in Conns :
          /\ Len(rooms'[id].chess.record) > Len(rooms[id].chess.record)
          /\ pipe'[c] # pipe[c]
          /\ games[id] <= 1
          => Request(c).seen = rooms[id].chess.record]_gobangVars

=============================================================================
