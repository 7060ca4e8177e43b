------------------------------ MODULE Lifecycle ------------------------------
(* How connections come and go (backend/idtcp/server.go): Run, which accepts them
   under the listenerMutex; a requestPipe goroutine for each, which handles its
   requests and takes it down under the pipelineMutex; and CloseAll, which may be
   called at any time by another goroutine.

   Server takes the handling of a request for one step and says what becomes of the
   rooms.  Here the requests have no contents: what is kept of one is to whom its
   handling writes, for a Write does not return while the peer does not read, and
   all this time its goroutine holds the mutex of all pipes.

   Neither mutex is a variable: which goroutine holds one is where it stands.    *)
EXTENDS FiniteSets, Integers

CONSTANT Conns   \* connections that are ever made

ASSUME ConnsAssumption == IsFiniteSet(Conns)

VARIABLES
    listening,      \* whether the listener is open
    accepter,       \* where Run is
    closer,         \* where the caller of CloseAll is
    toClose,        \* what its Range has still to visit
    connectionSet,
    connWaitGroup,  \* the counter of the wait group
    link,           \* conn -> the TCP connection
    pipe,           \* conn -> where its requestPipe goroutine is
    toWrite         \* whom the holder of the pipelineMutex has still to write to

vars == <<listening, accepter, closer, toClose, connectionSet, connWaitGroup, link, pipe, toWrite>>

(* full: the peer does not read and the buffers between are full; gone: the peer
   closed it or it was lost; closed: the server closed it.                       *)
LinkStates == {"none", "up", "full", "gone", "closed"}

Open(c) == link[c] \in {"up", "full"}

(* handling, rejecting and disconnecting hold the pipelineMutex; waiting and leaving
   want it; ending: disconnected, with the deferred function to run.              *)
PipeStates == {"none", "reading", "waiting", "handling", "rejecting",
               "leaving", "disconnecting", "ending", "done"}

PipelineFree == \A c \in Conns : pipe[c] \notin {"handling", "rejecting", "disconnecting"}

(* accepting: in AcceptTCP; storing: it returned a connection.  Both hold the
   listenerMutex, and so does a closer that is closing.                          *)
AccepterStates == {"locking", "accepting", "storing"}

CloserStates == {"idle", "locking", "closing", "returned"}

ListenerFree == accepter = "locking" /\ closer # "closing"

Started(c) == pipe[c] # "none"

(* The connection that AcceptTCP returned and Run has not stored yet. *)
Incoming(c) == link[c] # "none" /\ ~ Started(c)

(* The counter of the wait group never goes below zero, where Go panics
   (server.go:96,106). *)
TypeOK ==
    /\ listening \in BOOLEAN
    /\ accepter \in AccepterStates
    /\ closer \in CloserStates
    /\ toClose \in SUBSET Conns
    /\ connectionSet \in SUBSET Conns
    /\ connWaitGroup \in Nat
    /\ link \in [Conns -> LinkStates]
    /\ pipe \in [Conns -> PipeStates]
    /\ toWrite \in SUBSET Conns

Init ==
    /\ listening = TRUE
    /\ accepter = "locking"
    /\ closer = "idle"
    /\ toClose = {}
    /\ connectionSet = {}
    /\ connWaitGroup = 0
    /\ link = [c \in Conns |-> "none"]
    /\ pipe = [c \in Conns |-> "none"]
    /\ toWrite = {}

Close(c) == link' = [link EXCEPT ![c] = "closed"]

Goto(c, place) == pipe' = [pipe EXCEPT ![c] = place]

-----------------------------------------------------------------------------
(* The peer *)

PeerVars == <<listening, accepter, closer, toClose, connectionSet, connWaitGroup, pipe, toWrite>>

PeerCloses(c) ==
    /\ Open(c)
    /\ link' = [link EXCEPT ![c] = "gone"]
    /\ UNCHANGED PeerVars

PeerStopsReading(c) ==
    /\ link[c] = "up"
    /\ link' = [link EXCEPT ![c] = "full"]
    /\ UNCHANGED PeerVars

PeerReadsAgain(c) ==
    /\ link[c] = "full"
    /\ link' = [link EXCEPT ![c] = "up"]
    /\ UNCHANGED PeerVars

-----------------------------------------------------------------------------
(* Run *)

RunVars == <<listening, closer, toClose, toWrite>>

LockListener ==
    /\ accepter = "locking"
    /\ ListenerFree
    /\ accepter' = "accepting"
    /\ UNCHANGED RunVars /\ UNCHANGED <<connectionSet, connWaitGroup, link, pipe>>

AcceptTCP(c) ==
    /\ accepter = "accepting"
    /\ listening
    /\ link[c] = "none"
    /\ link' = [link EXCEPT ![c] = "up"]
    /\ accepter' = "storing"
    /\ UNCHANGED RunVars /\ UNCHANGED <<connectionSet, connWaitGroup, pipe>>

(* Whatever the error, Run goes on: the one of a closed listener comes wrapped in a
   net.OpError and never equals net.ErrClosed.                                   *)
AcceptFails ==
    /\ accepter = "accepting"
    /\ accepter' = "locking"
    /\ UNCHANGED RunVars /\ UNCHANGED <<connectionSet, connWaitGroup, link, pipe>>

(* Slip: the goroutine is not counted. *)
Store_Uncounted(c) ==
    /\ accepter = "storing" /\ Incoming(c)
    /\ connectionSet' = connectionSet \cup {c}
    /\ Goto(c, "reading")
    /\ accepter' = "locking"
    /\ UNCHANGED RunVars /\ UNCHANGED <<connWaitGroup, link>>

(* The Store, Add and go, and the unlocking that follows. *)
Store(c) ==
    /\ accepter = "storing" /\ Incoming(c)
    /\ connectionSet' = connectionSet \cup {c}
    /\ connWaitGroup' = connWaitGroup + 1
    /\ Goto(c, "reading")
    /\ accepter' = "locking"
    /\ UNCHANGED RunVars /\ UNCHANGED link

-----------------------------------------------------------------------------
(* The requestPipe goroutine *)

PipeVars == <<listening, accepter, closer, toClose>>

(* A whole request arrived; what the peer sent before it went away still does. *)
Read(c) ==
    /\ pipe[c] = "reading"
    /\ link[c] \in {"up", "full", "gone"}
    /\ Goto(c, "waiting")
    /\ UNCHANGED PipeVars /\ UNCHANGED <<connectionSet, connWaitGroup, link, toWrite>>

(* Slip: the end of the stream is not taken for an error. *)
ReadFails_NotAtEnd(c) ==
    /\ pipe[c] = "reading"
    /\ link[c] = "closed"
    /\ Goto(c, "leaving")
    /\ UNCHANGED PipeVars /\ UNCHANGED <<connectionSet, connWaitGroup, link, toWrite>>

ReadFails(c) ==
    /\ pipe[c] = "reading"
    /\ link[c] \in {"gone", "closed"}
    /\ Goto(c, "leaving")
    /\ UNCHANGED PipeVars /\ UNCHANGED <<connectionSet, connWaitGroup, link, toWrite>>

(* The middlewares and the endpoint, which may write to anybody who ever joined. *)
Distribute(c) ==
    /\ pipe[c] = "waiting" /\ PipelineFree
    /\ Goto(c, "handling")
    /\ toWrite' \in SUBSET {d \in Conns : Started(d)}
    /\ UNCHANGED PipeVars /\ UNCHANGED <<connectionSet, connWaitGroup, link>>

(* A request that the user middleware turns down: nobody but its sender is written
   to, by the fatal middleware, if the message fits.                             *)
Reject(c) ==
    /\ pipe[c] = "waiting" /\ PipelineFree
    /\ Goto(c, "rejecting")
    /\ toWrite' \in SUBSET {c}
    /\ UNCHANGED PipeVars /\ UNCHANGED <<connectionSet, connWaitGroup, link>>

(* The fatal middleware closes the connection at once; what the rest of the chain
   writes to it then fails, and fails without waiting.                            *)
receiveFatalError(c) ==
    /\ pipe[c] = "waiting" /\ PipelineFree
    /\ Close(c)
    /\ \E place \in {"reading", "leaving"} : Goto(c, place)
    /\ UNCHANGED PipeVars /\ UNCHANGED <<connectionSet, connWaitGroup, toWrite>>

(* To a peer that reads, or that is gone without the server knowing. *)
WritePasses(c) ==
    /\ c \in toWrite
    /\ link[c] \in {"up", "gone"}
    /\ toWrite' = toWrite \ {c}
    /\ UNCHANGED PipeVars /\ UNCHANGED <<connectionSet, connWaitGroup, link, pipe>>

(* Most who write close the connection when that fails, and some do not. *)
WriteFails(c) ==
    /\ c \in toWrite
    /\ link[c] \in {"gone", "closed"}
    /\ toWrite' = toWrite \ {c}
    /\ Close(c) \/ UNCHANGED link
    /\ UNCHANGED PipeVars /\ UNCHANGED <<connectionSet, connWaitGroup, pipe>>

Distributed(c) ==
    /\ pipe[c] = "handling" /\ toWrite = {}
    /\ \E place \in {"reading", "leaving"} : Goto(c, place)
    /\ UNCHANGED PipeVars /\ UNCHANGED <<connectionSet, connWaitGroup, link, toWrite>>

Rejected(c) ==
    /\ pipe[c] = "rejecting" /\ toWrite = {}
    /\ Close(c)
    /\ Goto(c, "leaving")
    /\ UNCHANGED PipeVars /\ UNCHANGED <<connectionSet, connWaitGroup, toWrite>>

(* The room middleware first writes the notices of leaving, to the connection of the
   one who leaves.                                                               *)
Disconnect(c) ==
    /\ pipe[c] = "leaving" /\ PipelineFree
    /\ Goto(c, "disconnecting")
    /\ toWrite' \in SUBSET {c}
    /\ UNCHANGED PipeVars /\ UNCHANGED <<connectionSet, connWaitGroup, link>>

(* Slip: the connection is left to the peer to close. *)
Disconnected_LeftOpen(c) ==
    /\ pipe[c] = "disconnecting" /\ toWrite = {}
    /\ Goto(c, "ending")
    /\ UNCHANGED PipeVars /\ UNCHANGED <<connectionSet, connWaitGroup, link, toWrite>>

Disconnected(c) ==
    /\ pipe[c] = "disconnecting" /\ toWrite = {}
    /\ Close(c)
    /\ Goto(c, "ending")
    /\ UNCHANGED PipeVars /\ UNCHANGED <<connectionSet, connWaitGroup, toWrite>>

(* The deferred function. *)
Finish(c) ==
    /\ pipe[c] = "ending"
    /\ connectionSet' = connectionSet \ {c}
    /\ connWaitGroup' = connWaitGroup - 1
    /\ Goto(c, "done")
    /\ UNCHANGED PipeVars /\ UNCHANGED <<link, toWrite>>

-----------------------------------------------------------------------------
(* CloseAll *)

CloserVars == <<accepter, connectionSet, connWaitGroup, pipe, toWrite>>

CloseListener ==
    /\ closer = "idle"
    /\ listening' = FALSE
    /\ closer' = "locking"
    /\ UNCHANGED CloserVars /\ UNCHANGED <<toClose, link>>

(* Slip: the set is read without the mutex. *)
StartClosing_Unlocked ==
    /\ closer = "locking"
    /\ closer' = "closing"
    /\ toClose' = connectionSet
    /\ UNCHANGED CloserVars /\ UNCHANGED <<listening, link>>

(* Slip: the requests in progress are waited for. *)
StartClosing_AfterRequests ==
    /\ closer = "locking" /\ ListenerFree /\ PipelineFree
    /\ closer' = "closing"
    /\ toClose' = connectionSet
    /\ UNCHANGED CloserVars /\ UNCHANGED <<listening, link>>

StartClosing ==
    /\ closer = "locking" /\ ListenerFree
    /\ closer' = "closing"
    /\ toClose' = connectionSet
    /\ UNCHANGED CloserVars /\ UNCHANGED <<listening, link>>

(* Closing again what its pipe closed in the meantime does nothing. *)
CloseOne(c) ==
    /\ closer = "closing" /\ c \in toClose
    /\ Close(c)
    /\ toClose' = toClose \ {c}
    /\ UNCHANGED CloserVars /\ UNCHANGED <<listening, closer>>

AllClosed ==
    /\ closer = "closing" /\ toClose = {}
    /\ closer' = "returned"
    /\ UNCHANGED CloserVars /\ UNCHANGED <<listening, toClose, link>>

-----------------------------------------------------------------------------
(* Takes the pipelineMutex. *)
LockPipeline(c) == Distribute(c) \/ Reject(c) \/ receiveFatalError(c) \/ Disconnect(c)

Write(c) == WritePasses(c) \/ WriteFails(c)

GoOn(c) == Distributed(c) \/ Rejected(c) \/ Disconnected(c) \/ Finish(c)

Peer(c) == PeerCloses(c) \/ PeerStopsReading(c) \/ PeerReadsAgain(c)

Run == LockListener \/ AcceptFails \/ \E c \in Conns : AcceptTCP(c) \/ Store(c)

requestPipe(c) == Read(c) \/ ReadFails(c) \/ LockPipeline(c) \/ Write(c) \/ GoOn(c)

CloseAll == CloseListener \/ StartClosing \/ (\E c \in Conns : CloseOne(c)) \/ AllClosed

Next == \/ Run \/ CloseAll
        \/ \E c \in Conns : requestPipe(c) \/ Peer(c)

Spec == Init /\ [][Next]_vars

(* A goroutine that can run does, and one that waits for a mutex gets it: after a
   millisecond a Go mutex goes to the one who has waited longest.  A write that can go
   through again and again does, and what a peer sent before it went away ends.  Not
   that peers read, that anybody connects or that CloseAll is called.              *)
Fairness ==
    /\ WF_vars(~ listening /\ AcceptFails)
    /\ WF_vars(\E c \in Conns : Store(c))
    /\ SF_vars(StartClosing)
    /\ WF_vars(AllClosed \/ \E c \in Conns : CloseOne(c))
    /\ SF_vars(\E c \in Conns : Write(c))
    /\ \A c \in Conns : SF_vars(LockPipeline(c)) /\ SF_vars(ReadFails(c)) /\ WF_vars(GoOn(c))

LiveSpec == Spec /\ Fairness

-----------------------------------------------------------------------------
(* Safety *)

(* The set and the wait group are those of the goroutines, no connection is open that
   CloseAll would not find, but for the one that Run is about to store, and a
   goroutine that ends leaves its connection closed (server.go:95-98, 104-107,
   135-143).                                                                      *)
Tracked ==
    /\ connWaitGroup = Cardinality(connectionSet)
    /\ \A c \in Conns :
          /\ c \in connectionSet <=> pipe[c] \notin {"none", "done"}
          /\ Open(c) => c \in connectionSet \/ accepter = "storing"
          /\ pipe[c] = "done" => link[c] = "closed"

(* When CloseAll returns, no connection is open and none will be, also when one was
   being accepted in the meantime (server.go:145-154).                            *)
NoneMissed == closer = "returned" => ~ listening /\ \A c \in Conns : ~ Open(c)

-----------------------------------------------------------------------------
(* Liveness *)

(* Somebody holds up all pipes by not reading. *)
HeldUp == \E c \in toWrite : link[c] = "full"

(* Once a connection is lost or closed its goroutine ends, unless from some point on
   all are held up by somebody who never reads again (server.go:119-143).          *)
TornDownUnlessHeldUp ==
    \/ <>[]HeldUp
    \/ \A c \in Conns : link[c] \in {"gone", "closed"} ~> pipe[c] = "done"

(* CloseAll ends all goroutines of connections, also those that are held up
   (server.go:145-154).                                                          *)
ClosedDown ==
    closer = "locking" ~> closer = "returned" /\ \A c \in Conns : pipe[c] \in {"none", "done"}
=============================================================================
