------------------------------- MODULE Search -------------------------------
(* Searching for rooms over UDP: server/udp.go and udp/server.go, and on the client
   server_room_search.cpp and the list of modal_room_search.cpp.

   The server reads every request into one buffer and answers each in a goroutine of
   its own, which looks at the rooms field by field and without the mutex while the
   connections go on changing them.  Datagrams are lost, doubled and overtaken.  The
   client decodes an answer from a buffer that still holds what an earlier, longer
   one left behind its end, and queues the rooms; a frame moves one of them into the
   list.                                                                        *)
EXTENDS Serializer

CONSTANTS
    Clients,     \* who searches
    Outdated,    \* those of another version
    RoomNames,   \* names of the server's rooms, in order
    PlayerNames, \* names of players
    UserCounts,  \* numbers of users tried
    MaxUsers,    \* as configured, and shown in an answer
    BufferSize,  \* bytes of the client's buffer
    MaxRequests, \* bound: requests sent
    MaxChanges   \* bound: changes to rooms

(* There are up to 200 rooms; the names of players came in behind one byte of length,
   and those of the configured rooms are taken to fit there.                    *)
ASSUME SearchAssumption ==
    /\ Outdated \subseteq Clients
    /\ RoomNames \in Seq(Seq(0..Radix - 1)) /\ Len(RoomNames) < Radix
    /\ \A i \in DOMAIN RoomNames : Len(RoomNames[i]) < Radix
    /\ PlayerNames \subseteq Seq(0..Radix - 1) /\ \A p \in PlayerNames : Len(p) < Radix
    /\ MaxUsers \in 0..Radix - 1 /\ UserCounts \subseteq Nat
    /\ {MaxRequests, MaxChanges, BufferSize} \subseteq Nat

VARIABLES
    history,     \* the rooms so far; the last ones are the rooms now
    requests,    \* requests under way
    asked,       \* requests sent so far, copies included
    buffer,      \* server: whose request is in the buffer
    pipes,       \* server: answers being put together
    answers,     \* answers under way
    recv_buffer_,\* client -> its buffer
    receiving,   \* client -> its receiver is still there
    queue,       \* client -> rooms decoded and not yet listed
    listed       \* client -> the list: room id -> room

serverVars == <<history, requests, asked, buffer, pipes>>
clientVars == <<recv_buffer_, receiving, queue, listed>>
searchVars == <<serverVars, answers, clientVars>>

RoomIds == DOMAIN RoomNames

NoPlayer == << >>

(* What an answer tells of a room, as the rooms of the server can be: a game is on
   between two players, and players are counted among the users.  A player who left
   is still counted, so that there is no limit to the number.                    *)
RoomStates ==
    {r \in [playing : BOOLEAN, black : PlayerNames \cup {NoPlayer},
            white : PlayerNames \cup {NoPlayer}, users : UserCounts] :
        /\ r.playing => r.black # NoPlayer /\ r.white # NoPlayer
        /\ r.users >= Len(SelectSeq(<<r.black, r.white>>, LAMBDA p : p # NoPlayer))}

rooms == Last(history)

SearchInit ==
    /\ history = <<[i \in RoomIds |-> [playing |-> FALSE, black |-> NoPlayer,
                                       white |-> NoPlayer, users |-> 0]]>>
    /\ requests = {} /\ asked = 0
    /\ buffer \in Clients
    /\ pipes = {} /\ answers = {}
    /\ recv_buffer_ = [c \in Clients |-> [i \in 1..BufferSize |-> 0]]
    /\ receiving = [c \in Clients |-> TRUE]
    /\ queue = [c \in Clients |-> << >>]
    /\ listed = [c \in Clients |-> [i \in {} |-> 0]]

-----------------------------------------------------------------------------
(* The server *)

(* A connection changes a room. *)
RoomChanges(i, r) ==
    /\ Len(history) <= MaxChanges
    /\ r # rooms[i]
    /\ history' = Append(history, [rooms EXCEPT ![i] = r])
    /\ UNCHANGED <<requests, asked, buffer, pipes, answers, clientVars>>

(* Run: the request is read into the buffer, whatever goroutines look at it still. *)
Receive(q) ==
    /\ q \in requests
    /\ requests' = requests \ {q}
    /\ buffer' = q.from
    /\ pipes' = pipes \cup {[from |-> q.from, id |-> q.id, step |-> "version",
                             room |-> 1, seats |-> << >>, raw |-> << >>]}
    /\ UNCHANGED <<history, asked, answers, clientVars>>

GoOn(p, q) == pipes' = (pipes \ {p}) \cup {q}

(* The version is read off the buffer, and an answer begins with version, name and
   number of rooms, or there is none.                                           *)
ReadVersion(p) ==
    /\ p.step = "version"
    /\ IF buffer \in Outdated
       THEN pipes' = pipes \ {p}
       ELSE GoOn(p, [p EXCEPT !.step = "black",
                              !.raw = Encoded("Serializer", <<Head8, Head8, U8>>,
                                              <<<<0>>, << >>, Len(RoomNames)>>)])
    /\ UNCHANGED <<history, requests, asked, buffer, answers, clientVars>>

ReadSeat(p, seat, next) ==
    /\ p.step = seat /\ p.room \in RoomIds
    /\ GoOn(p, [p EXCEPT !.step = next, !.seats = Append(@, rooms[p.room][seat])])
    /\ UNCHANGED <<history, requests, asked, buffer, answers, clientVars>>

ReadPlaying(p) ==
    /\ p.step = "playing"
    /\ GoOn(p, [p EXCEPT !.step = "users",
                         !.raw = @ \o Encoded("Serializer", <<Head8, Bool, Head8, Head8>>,
                            <<RoomNames[p.room], rooms[p.room].playing, p.seats[1], p.seats[2]>>)])
    /\ UNCHANGED <<history, requests, asked, buffer, answers, clientVars>>

(* The error of WriteUint8_Int is dropped, and the byte with it. *)
Uint8_Int(n) == IF Fits(n, 1) THEN LittleEndian(n, 1) ELSE << >>

(* Slip: the two numbers of a room the other way round. *)
ReadUsers_Swapped(p) ==
    /\ p.step = "users"
    /\ GoOn(p, [p EXCEPT !.step = "black", !.room = @ + 1, !.seats = << >>,
                         !.raw = @ \o Uint8_Int(MaxUsers) \o Uint8_Int(rooms[p.room].users)])
    /\ UNCHANGED <<history, requests, asked, buffer, answers, clientVars>>

ReadUsers(p) ==
    /\ p.step = "users"
    /\ GoOn(p, [p EXCEPT !.step = "black", !.room = @ + 1, !.seats = << >>,
                         !.raw = @ \o Uint8_Int(rooms[p.room].users) \o Uint8_Int(MaxUsers)])
    /\ UNCHANGED <<history, requests, asked, buffer, answers, clientVars>>

Answer(p) ==
    /\ p.step = "black" /\ p.room \notin RoomIds
    /\ answers' = answers \cup {[to |-> p.from, raw |-> p.raw]}
    /\ pipes' = pipes \ {p}
    /\ UNCHANGED <<history, requests, asked, buffer, clientVars>>

UdpPipe(p) ==
    \/ ReadVersion(p)
    \/ ReadSeat(p, "black", "white")
    \/ ReadSeat(p, "white", "playing")
    \/ ReadPlaying(p)
    \/ ReadUsers(p)
    \/ Answer(p)

-----------------------------------------------------------------------------
(* The client *)

Search(c) ==
    /\ asked < MaxRequests
    /\ requests' = requests \cup {[from |-> c, id |-> asked + 1]}
    /\ asked' = asked + 1
    /\ UNCHANGED <<history, buffer, pipes, answers, clientVars>>

ConciseRoom == <<Head8, Bool, Head8, Head8, U8, U8>>

(* The fields of so many rooms. *)
ConciseRooms(n) == [j \in 1..6 * n |-> ConciseRoom[((j - 1) % 6) + 1]]

ListedRoom(i, v) ==
    [id |-> i, name |-> v[1], playing |-> v[2], black |-> v[3], white |-> v[4],
     users |-> v[5], max |-> v[6]]

(* As many rooms as the head of an answer promises. *)
RoomsBehind(s, head) ==
    IF head.end # "ok" THEN [head EXCEPT !.val = << >>]
    ELSE ReadFields("client", s, head.at, ConciseRooms(head.val[3]))

(* Those that could be decoded. *)
Told(r) ==
    [i \in 1..Len(r.val) \div 6 |-> ListedRoom(i, SubSeq(r.val, 6 * i - 5, 6 * i))]

(* An answer that cannot be decoded ends the receiver, after the rooms before. *)
ReceiveAnswer(a) ==
    \E s \in {a.raw \o SubSeq(recv_buffer_[a.to], Len(a.raw) + 1, BufferSize)} :
    \E r \in {RoomsBehind(s, ReadFields("client", s, 0, <<Head8, Head8, U8>>))} :
        /\ receiving[a.to]
        /\ recv_buffer_' = [recv_buffer_ EXCEPT ![a.to] = s]
        /\ queue' = [queue EXCEPT ![a.to] = @ \o Told(r)]
        /\ receiving' = [receiving EXCEPT ![a.to] = r.end = "ok"]
        /\ answers' = answers \ {a}
        /\ UNCHANGED <<serverVars, listed>>

(* Slip: the room is taken off the queue before it is known whether it is new. *)
UpdateRooms_Loses(c) ==
    /\ queue[c] # << >>
    /\ queue' = [queue EXCEPT ![c] = Tail(@)]
    /\ UNCHANGED <<serverVars, answers, recv_buffer_, receiving, listed>>

(* A frame that gets the lock of the queue lists one room, unless it is listed: an
   entry stays what it was.                                                     *)
UpdateRooms(c) ==
    /\ queue[c] # << >>
    /\ listed' = [listed EXCEPT ![c] = [i \in DOMAIN @ \cup {Head(queue[c]).id} |->
                    IF i \in DOMAIN @ THEN @[i] ELSE Head(queue[c])]]
    /\ queue' = [queue EXCEPT ![c] = Tail(@)]
    /\ UNCHANGED <<serverVars, answers, recv_buffer_, receiving>>

(* Datagrams get lost, and a request may come twice. *)
Lose ==
    \/ \E q \in requests : requests' = requests \ {q} /\ UNCHANGED <<asked, answers>>
    \/ \E a \in answers : answers' = answers \ {a} /\ UNCHANGED <<asked, requests>>

Double(q) ==
    /\ q \in requests /\ asked < MaxRequests
    /\ requests' = requests \cup {[q EXCEPT !.id = asked + 1]}
    /\ asked' = asked + 1
    /\ UNCHANGED answers

Network == Lose \/ \E q \in requests : Double(q)

-----------------------------------------------------------------------------
SearchNext ==
    \/ \E i \in RoomIds, r \in RoomStates : RoomChanges(i, r)
    \/ \E q \in requests : Receive(q)
    \/ \E p \in pipes : UdpPipe(p)
    \/ \E c \in Clients : Search(c)
    \/ \E a \in answers : ReceiveAnswer(a)
    \/ \E c \in Clients : UpdateRooms(c)
    \/ Network /\ UNCHANGED <<history, buffer, pipes, clientVars>>

SearchSpec == SearchInit /\ [][SearchNext]_searchVars

(* Frames come one after the other, and one gets the lock of the queue. *)
SearchFairSpec == SearchSpec /\ \A c \in Clients : WF_searchVars(UpdateRooms(c))

-----------------------------------------------------------------------------
(* Properties *)

(* Some room had more users than a byte can tell. *)
Overfull == \E k \in DOMAIN history, i \in RoomIds : ~ Fits(history[k][i].users, 1)

(* What the list says of a room was true of that room: it has its name, and its
   seats, its game and its users were once like that, though perhaps not at one
   time.  (With too many users the bytes behind the number slip.)                *)
ListedWasTrue ==
    ~ Overfull => \A c \in Clients : \A i \in DOMAIN listed[c] :
        /\ receiving[c]
        /\ i \in RoomIds
        /\ listed[c][i].name = RoomNames[i] /\ listed[c][i].max = MaxUsers
        /\ \A field \in {"playing", "black", "white", "users"} :
              \E k \in DOMAIN history : history[k][i][field] = listed[c][i][field]

(* Every room the client was told of is listed in the end. *)
ToldIsListed ==
    \A c \in Clients, i \in RoomIds :
        (\E k \in DOMAIN queue[c] : queue[c][k].id = i) ~> i \in DOMAIN listed[c]
=============================================================================
