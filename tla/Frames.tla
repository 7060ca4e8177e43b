------------------------------- MODULE Frames -------------------------------
(* Messages on a TCP connection (backend/idtcp/idtcp.go, frontend mixi/net/idtcp.cpp).
   A frame is its own length in two bytes, an instruction in two bytes, and data.  TCP
   keeps the order of bytes and nothing else: what is written at once is read in any
   pieces, and a full connection takes a part of what it is offered.

   The server writes with a call that comes back when everything is written, one pipe
   at a time.  The client packs every frame into one buffer that all its sends share
   and offers it to the connection once.

   A byte has Radix values, 256 in the code, so that the largest frames are small. *)
EXTENDS Serializer

CONSTANTS
    Instructions, \* instructions sent
    ServerData,   \* data the server is to send
    ClientData,   \* data the client is to send
    Capacity,     \* bytes a connection holds
    MaxMessages   \* bound: messages sent

(* What the client sends comes out of input fields of 256 bytes at most
   (window_chat.h:29, modal_room_search.h:39).                                  *)
ASSUME FramesAssumption ==
    /\ Instructions \subseteq 0..Span(2) - 1
    /\ ServerData \cup ClientData \subseteq Seq(0..Radix - 1)
    /\ \A data \in ClientData : Len(data) + 4 < Span(2)
    /\ Capacity \in Nat \ {0}
    /\ MaxMessages \in Nat

VARIABLES
    sender,       \* which side sends; the other one receives
    sent,         \* messages accepted for sending
    pending,      \* server: what Write has not written yet
    send_buffer_, \* client: the buffer of all its sends
    waiting,      \* client: lengths of the sends the full connection keeps waiting
    wire,         \* bytes on the connection
    got,          \* receiver: bytes of the frame it is reading
    received,     \* messages received
    broken,       \* the receiver gave up
    crowded       \* the connection could not take a whole frame of the client

vars == <<sender, sent, pending, send_buffer_, waiting, wire, got, received, broken, crowded>>

Sides == {"server", "client"}

Messages(data) == [instruction : Instructions, data : data]

Init ==
    /\ sender \in Sides
    /\ sent = << >> /\ pending = << >>
    /\ send_buffer_ = << >> /\ waiting = << >>
    /\ wire = << >> /\ got = << >> /\ received = << >>
    /\ broken = FALSE /\ crowded = FALSE

-----------------------------------------------------------------------------
Uint16(n) == LittleEndian(n, 2)

Length(raw) == Number(SubSeq(raw, 1, 2))

Limit == Span(2)

(* The length is cut to sixteen bits. *)
Pack(m) ==
    LET length == Len(m.data) + 4
    IN  Uint16(length % Limit) \o Uint16(m.instruction) \o m.data

Unpack(raw) == [instruction |-> Number(SubSeq(raw, 3, 4)), data |-> SubSeq(raw, 5, Len(raw))]

Room == Capacity - Len(wire)

First(s, n) == SubSeq(s, 1, IF n <= Len(s) THEN n ELSE Len(s))

-----------------------------------------------------------------------------
(* Conn.Write *)

(* Slip: the length itself may reach the limit. *)
FitsServer_OffByOne(m) == Len(m.data) + 4 <= Limit

FitsServer(m) == Len(m.data) + 4 < Limit

(* The next message waits for the mutex. *)
Write(m) ==
    /\ sender = "server" /\ pending = << >>
    /\ Len(sent) < MaxMessages
    /\ FitsServer(m)
    /\ sent' = Append(sent, m)
    /\ pending' = Pack(m)
    /\ UNCHANGED <<sender, send_buffer_, waiting, wire, got, received, broken, crowded>>

(* Part of it gets onto the connection, the rest stays. *)
WriteSome(n) ==
    /\ n <= Len(pending) /\ n <= Room
    /\ wire' = wire \o First(pending, n)
    /\ pending' = SubSeq(pending, n + 1, Len(pending))
    /\ UNCHANGED <<sender, sent, send_buffer_, waiting, got, received, broken, crowded>>

-----------------------------------------------------------------------------
(* IdtcpSocket::send_instrution_data *)

(* One byte too many would fit: a length of Limit is sent as zero.  No data the
   client sends comes near.                                                     *)
FitsClient(m) == Len(m.data) <= Limit - 4

(* Packing overwrites the front of the buffer, whoever else is waiting with it. *)
Packed(m) == Pack(m) \o SubSeq(send_buffer_, Len(Pack(m)) + 1, Len(send_buffer_))

(* How much of the buffer is sent comes from the length in the frame. *)
Send(m) ==
    LET length == Length(Pack(m))
        raw    == First(Pack(m), length)
    IN  /\ sender = "client"
        /\ Len(sent) < MaxMessages
        /\ FitsClient(m)
        /\ sent' = Append(sent, m)
        /\ send_buffer_' = Packed(m)
        /\ crowded' = (crowded \/ length > Room \/ waiting # << >>)
        /\ IF length = 0 \/ (waiting = << >> /\ Room > 0)
           THEN wire' = wire \o First(raw, Room) /\ UNCHANGED waiting
           ELSE waiting' = Append(waiting, length) /\ UNCHANGED wire
        /\ UNCHANGED <<sender, pending, got, received, broken>>

(* The connection has room again: it takes what the buffer holds now, and no more
   than fits.                                                                   *)
Ready ==
    /\ waiting # << >> /\ Room > 0
    /\ wire' = wire \o First(First(send_buffer_, Head(waiting)), Room)
    /\ waiting' = Tail(waiting)
    /\ UNCHANGED <<sender, sent, pending, send_buffer_, got, received, broken, crowded>>

-----------------------------------------------------------------------------
(* Conn.Read, IdtcpSocket::receive_instrution_data *)

(* The length first, then as many bytes as it says. *)
Wanted == IF Len(got) < 2 THEN 2 - Len(got) ELSE Length(got) - Len(got)

ReadSome(n) ==
    /\ ~ broken
    /\ n <= Wanted /\ n <= Len(wire)
    /\ got' = got \o First(wire, n)
    /\ wire' = SubSeq(wire, n + 1, Len(wire))
    /\ UNCHANGED <<sender, sent, pending, send_buffer_, waiting, received, broken, crowded>>

(* Slip: the frame waits for one more byte. *)
Deliver_OneMore ==
    /\ ~ broken /\ Len(got) >= 2 /\ Wanted < 0
    /\ received' = Append(received, Unpack(got))
    /\ got' = << >>
    /\ UNCHANGED <<sender, sent, pending, send_buffer_, waiting, wire, broken, crowded>>

(* A length below four panics on the server and throws on the client. *)
Deliver ==
    /\ ~ broken /\ Len(got) >= 2 /\ Wanted <= 0
    /\ IF Length(got) < 4
       THEN broken' = TRUE /\ UNCHANGED <<got, received>>
       ELSE /\ received' = Append(received, Unpack(got))
            /\ got' = << >>
            /\ UNCHANGED broken
    /\ UNCHANGED <<sender, sent, pending, send_buffer_, waiting, wire, crowded>>

-----------------------------------------------------------------------------
Sending ==
    \/ \E m \in Messages(ServerData) : Write(m)
    \/ \E m \in Messages(ClientData) : Send(m)

Moving ==
    \/ \E n \in 1..Limit : WriteSome(n)
    \/ Ready
    \/ \E n \in 1..Limit : ReadSome(n)
    \/ Deliver

Next == Sending \/ Moving

Spec == Init /\ [][Next]_vars

(* Connections move what they hold and readers read; nobody has to send. *)
FairSpec == Spec /\ WF_vars(Moving)

-----------------------------------------------------------------------------
(* Properties *)

(* What is received is what was sent, message by message, however the frames are cut
   up on the way: always from server to client, and from client to server while
   the connection takes each frame whole.                                       *)
InOrder == ~ crowded => ~ broken /\ IsPrefix(received, sent)

(* Every message is received in the end, the largest included. *)
AllReceived ==
    \A i \in 1..MaxMessages : Len(sent) >= i ~> (Len(received) >= i \/ crowded)
=============================================================================
