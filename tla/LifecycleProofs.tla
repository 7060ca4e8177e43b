--------------------------- MODULE LifecycleProofs ---------------------------
(* The safety properties of Lifecycle for any set of connections. *)
EXTENDS Lifecycle, FiniteSetTheorems, TLAPS

(* Run stores what it accepted before it accepts again, so that at most one open
   connection is in no set.                                                      *)
OneIncoming ==
    /\ \A c \in Conns : Incoming(c) => accepter = "storing"
    /\ \A c, d \in Conns : Incoming(c) /\ Incoming(d) => c = d

(* How far CloseAll has come. *)
ClosingInv ==
    /\ \A c \in toClose : Started(c)
    /\ closer # "idle" => ~ listening
    /\ closer = "closing" =>
          accepter = "locking" /\ \A c \in Conns : Open(c) => c \in toClose
    /\ closer = "returned" =>
          accepter # "storing" /\ \A c \in Conns : ~ Open(c)

(* A goroutine has a connection, and disconnecting it closes that. *)
PipesLinked ==
    \A c \in Conns :
        /\ pipe[c] # "none" => link[c] # "none"
        /\ pipe[c] = "ending" => link[c] = "closed"

LifecycleInv ==
    /\ TypeOK
    /\ Tracked
    /\ OneIncoming
    /\ ClosingInv
    /\ PipesLinked

(* Nothing is accepted, listed or closed yet. *)
LEMMA LifecycleInit == Init => LifecycleInv
<1> SUFFICES ASSUME Init PROVE LifecycleInv
  OBVIOUS
<1>1. TypeOK
  BY DEF Init, TypeOK, AccepterStates, CloserStates, LinkStates, PipeStates
<1>2. Tracked
  BY FS_EmptySet DEF Init, Tracked, Open
<1>3. OneIncoming /\ ClosingInv
  BY DEF Init, OneIncoming, ClosingInv, Incoming, Started, Open
<1>4. QED BY <1>1, <1>2, <1>3 DEF Init, LifecycleInv, PipesLinked

(* What the steps of one goroutine that leave the listener, the set and its count
   alone may do to connections and pipes: close, lose, or fill one that is open, and
   move one goroutine between places where it is listed.                          *)
LEMMA LinkStep ==
    ASSUME LifecycleInv, TypeOK',
           UNCHANGED <<listening, accepter, closer, toClose, connectionSet, connWaitGroup>>,
           \A d \in Conns : Open(d)' => Open(d),
           \A d \in Conns : link[d] = "closed" => link'[d] = "closed",
           \A d \in Conns : link'[d] # link[d] => link'[d] # "none" /\ link[d] # "none",
           \A d \in Conns : pipe'[d] # pipe[d] =>
                /\ pipe[d] \notin {"none", "done"} /\ pipe'[d] \notin {"none", "done"}
                /\ pipe'[d] = "ending" => link'[d] = "closed"
    PROVE  LifecycleInv'
<1>1. Tracked'
  BY DEF LifecycleInv, Tracked
<1>2. \A d \in Conns : (Incoming(d)' <=> Incoming(d)) /\ (Started(d)' <=> Started(d))
  BY DEF Incoming, Started
<1>3. OneIncoming'
  BY <1>2 DEF LifecycleInv, OneIncoming
<1>4. ClosingInv'
  BY <1>2 DEF LifecycleInv, ClosingInv, TypeOK
<1>5. PipesLinked'
  BY <1>2 DEF LifecycleInv, PipesLinked
<1>6. QED BY <1>1, <1>3, <1>4, <1>5 DEF LifecycleInv

(* Storing a connection and counting its goroutine (server.go:95-98). *)
LEMMA StoreKeeps ==
    ASSUME LifecycleInv, NEW c \in Conns, Store(c)
    PROVE  LifecycleInv'
<1>1. /\ accepter = "storing" /\ link[c] # "none" /\ pipe[c] = "none"
      /\ connectionSet' = connectionSet \cup {c} /\ connWaitGroup' = connWaitGroup + 1
      /\ pipe' = [pipe EXCEPT ![c] = "reading"] /\ accepter' = "locking"
      /\ UNCHANGED <<listening, closer, toClose, toWrite, link>>
  BY DEF Store, Incoming, Started, Goto, RunVars
<1>2. TypeOK'
  BY <1>1 DEF LifecycleInv, TypeOK, AccepterStates, PipeStates
<1>3. Tracked'
  <2>1. c \notin connectionSet /\ IsFiniteSet(connectionSet)
    BY <1>1, FS_Subset, ConnsAssumption DEF LifecycleInv, Tracked, TypeOK
  <2>2. Cardinality(connectionSet') = Cardinality(connectionSet) + 1
    BY <1>1, <2>1, FS_AddElement
  <2>3. connWaitGroup' = Cardinality(connectionSet')
    BY <1>1, <2>2 DEF LifecycleInv, Tracked
  <2>4. \A d \in Conns : pipe'[d] = IF d = c THEN "reading" ELSE pipe[d]
    BY <1>1 DEF LifecycleInv, TypeOK
  <2>5. \A d \in Conns : Open(d)' => d \in connectionSet'
    <3>1. ASSUME NEW d \in Conns, Open(d), d # c PROVE d \in connectionSet
      <4>1. Incoming(c) /\ link[d] # "none" /\ link[d] # "closed"
        BY <1>1, <3>1 DEF Incoming, Started, Open
      <4>2. pipe[d] # "none"
        BY <3>1, <4>1 DEF LifecycleInv, OneIncoming, Incoming, Started
      <4>3. QED BY <4>1, <4>2 DEF LifecycleInv, Tracked
    <3>2. QED BY <1>1, <3>1 DEF Open
  <2>6. QED BY <1>1, <2>3, <2>4, <2>5 DEF LifecycleInv, Tracked
<1>4. \A d \in Conns : ~ Incoming(d)'
  <2>1. \A d \in Conns : Incoming(d)' => Incoming(d) /\ d # c
    BY <1>1 DEF LifecycleInv, TypeOK, Incoming, Started
  <2>2. QED BY <1>1, <2>1 DEF LifecycleInv, OneIncoming, Incoming, Started
<1>5. ClosingInv'
  BY <1>1 DEF LifecycleInv, ClosingInv, TypeOK, Started, Open
<1>6. OneIncoming' /\ PipesLinked'
  BY <1>1, <1>4 DEF LifecycleInv, OneIncoming, PipesLinked, TypeOK, Started
<1>7. QED BY <1>2, <1>3, <1>5, <1>6 DEF LifecycleInv

(* The end of a goroutine, which is listed nowhere any more (server.go:104-107). *)
LEMMA FinishKeeps ==
    ASSUME LifecycleInv, NEW c \in Conns, Finish(c)
    PROVE  LifecycleInv'
<1>1. /\ pipe[c] = "ending" /\ link[c] = "closed"
      /\ connectionSet' = connectionSet \ {c} /\ connWaitGroup' = connWaitGroup - 1
      /\ pipe' = [pipe EXCEPT ![c] = "done"]
      /\ UNCHANGED <<listening, accepter, closer, toClose, toWrite, link>>
  BY DEF Finish, Goto, PipeVars, LifecycleInv, PipesLinked
<1>2. c \in connectionSet /\ IsFiniteSet(connectionSet)
  BY <1>1, FS_Subset, ConnsAssumption DEF LifecycleInv, Tracked, TypeOK
<1>3. /\ Cardinality(connectionSet') = Cardinality(connectionSet) - 1
      /\ Cardinality(connectionSet') \in Nat
  BY <1>1, <1>2, FS_RemoveElement, FS_CardinalityType
<1>4. connWaitGroup' = Cardinality(connectionSet')
  BY <1>1, <1>3 DEF LifecycleInv, Tracked
<1>5. TypeOK'
  BY <1>1, <1>3, <1>4 DEF LifecycleInv, TypeOK, PipeStates
<1>6. \A d \in Conns : pipe'[d] = IF d = c THEN "done" ELSE pipe[d]
  BY <1>1 DEF LifecycleInv, TypeOK
<1>7. Tracked'
  BY <1>1, <1>4, <1>6 DEF LifecycleInv, Tracked, Open
<1>8. \A d \in Conns : (Incoming(d)' <=> Incoming(d)) /\ (Started(d)' <=> Started(d))
  BY <1>1, <1>6 DEF Incoming, Started
<1>9. OneIncoming' /\ ClosingInv'
  BY <1>1, <1>8 DEF LifecycleInv, OneIncoming, ClosingInv, TypeOK, Open
<1>10. PipesLinked'
  BY <1>1, <1>6, <1>8 DEF LifecycleInv, PipesLinked
<1>11. QED BY <1>5, <1>7, <1>9, <1>10 DEF LifecycleInv

(* Run takes its mutex, accepts a connection or fails to (server.go:80-94). *)
LEMMA RunKeeps ==
    ASSUME LifecycleInv, Run
    PROVE  LifecycleInv'
<1>1. CASE LockListener \/ AcceptFails
  <2>1. /\ accepter \in {"locking", "accepting"} /\ accepter' \in {"locking", "accepting"}
        /\ closer # "closing" \/ accepter' = "locking"
        /\ UNCHANGED <<listening, closer, toClose, toWrite, connectionSet, connWaitGroup, link, pipe>>
    BY <1>1 DEF LockListener, AcceptFails, ListenerFree, RunVars
  <2>2. QED BY <2>1 DEF LifecycleInv, TypeOK, AccepterStates, Tracked, OneIncoming, ClosingInv,
                        PipesLinked, Incoming, Started, Open
<1>2. ASSUME NEW c \in Conns, AcceptTCP(c) PROVE LifecycleInv'
  <2>1. /\ accepter = "accepting" /\ listening /\ link[c] = "none"
        /\ link' = [link EXCEPT ![c] = "up"] /\ accepter' = "storing"
        /\ UNCHANGED <<listening, closer, toClose, toWrite, connectionSet, connWaitGroup, pipe>>
    BY <1>2 DEF AcceptTCP, RunVars
  <2>2. \A d \in Conns : link'[d] = IF d = c THEN "up" ELSE link[d]
    BY <2>1 DEF LifecycleInv, TypeOK
  <2>3. TypeOK'
    BY <2>1 DEF LifecycleInv, TypeOK, AccepterStates, LinkStates
  <2>4. Tracked'
    BY <2>1, <2>2 DEF LifecycleInv, Tracked, Open
  <2>5. \A d \in Conns : ~ Incoming(d)
    BY <2>1 DEF LifecycleInv, OneIncoming
  <2>6. OneIncoming'
    BY <2>1, <2>2, <2>5 DEF OneIncoming, Incoming, Started
  <2>7. ClosingInv'
    BY <2>1 DEF LifecycleInv, ClosingInv, Started
  <2>8. PipesLinked'
    BY <2>1, <2>2 DEF LifecycleInv, PipesLinked
  <2>9. QED BY <2>3, <2>4, <2>6, <2>7, <2>8 DEF LifecycleInv
<1>3. QED BY <1>1, <1>2, StoreKeeps DEF Run

(* CloseAll closes the listener, then what it finds in the set (server.go:145-154). *)
LEMMA CloseAllKeeps ==
    ASSUME LifecycleInv, CloseAll
    PROVE  LifecycleInv'
<1>1. CASE CloseListener
  BY <1>1 DEF CloseListener, CloserVars, LifecycleInv, TypeOK, CloserStates, Tracked, OneIncoming,
              ClosingInv, PipesLinked, Incoming, Started, Open
<1>2. CASE StartClosing
  <2>1. /\ closer = "locking" /\ accepter = "locking" /\ closer' = "closing"
        /\ toClose' = connectionSet
        /\ UNCHANGED <<accepter, connectionSet, connWaitGroup, pipe, toWrite, listening, link>>
    BY <1>2 DEF StartClosing, ListenerFree, CloserVars
  <2>2. \A c \in connectionSet : Started(c)
    BY DEF LifecycleInv, TypeOK, Tracked, Started
  <2>3. ClosingInv'
    BY <2>1, <2>2 DEF LifecycleInv, ClosingInv, Tracked, Started, Open
  <2>4. TypeOK' /\ Tracked' /\ OneIncoming' /\ PipesLinked'
    BY <2>1 DEF LifecycleInv, TypeOK, CloserStates, Tracked, OneIncoming, PipesLinked,
                Incoming, Started, Open
  <2>5. QED BY <2>3, <2>4 DEF LifecycleInv
<1>3. ASSUME NEW c \in Conns, CloseOne(c) PROVE LifecycleInv'
  <2>1. /\ closer = "closing" /\ c \in toClose
        /\ link' = [link EXCEPT ![c] = "closed"] /\ toClose' = toClose \ {c}
        /\ UNCHANGED <<accepter, connectionSet, connWaitGroup, pipe, toWrite, listening, closer>>
    BY <1>3 DEF CloseOne, Close, CloserVars
  <2>2. \A d \in Conns : link'[d] = IF d = c THEN "closed" ELSE link[d]
    BY <2>1 DEF LifecycleInv, TypeOK
  <2>3. Started(c)
    BY <2>1 DEF LifecycleInv, ClosingInv
  <2>4. TypeOK' /\ Tracked'
    BY <2>1, <2>2 DEF LifecycleInv, TypeOK, LinkStates, Tracked, Open
  <2>5. OneIncoming'
    BY <2>1, <2>2, <2>3 DEF LifecycleInv, OneIncoming, Incoming, Started
  <2>6. ClosingInv'
    BY <2>1, <2>2 DEF LifecycleInv, ClosingInv, Started, Open
  <2>7. PipesLinked'
    BY <2>1, <2>2 DEF LifecycleInv, PipesLinked
  <2>8. QED BY <2>4, <2>5, <2>6, <2>7 DEF LifecycleInv
<1>4. CASE AllClosed
  <2>1. /\ closer = "closing" /\ toClose = {} /\ closer' = "returned"
        /\ UNCHANGED <<accepter, connectionSet, connWaitGroup, pipe, toWrite, listening, toClose, link>>
    BY <1>4 DEF AllClosed, CloserVars
  <2>2. QED BY <2>1 DEF LifecycleInv, TypeOK, CloserStates, Tracked, OneIncoming, ClosingInv,
                        PipesLinked, Incoming, Started, Open
<1>5. QED BY <1>1, <1>2, <1>3, <1>4 DEF CloseAll

(* A goroutine reads, handles, writes and disconnects (server.go:109-142). *)
LEMMA PipeKeeps ==
    ASSUME LifecycleInv, NEW c \in Conns, requestPipe(c)
    PROVE  LifecycleInv'
<1> USE DEF PipeVars, Goto, Close
<1>1. CASE Read(c) \/ ReadFails(c) \/ Distribute(c) \/ Reject(c) \/ Disconnect(c) \/ Distributed(c)
  <2>1. /\ pipe[c] \notin {"none", "done"}
        /\ \E place \in PipeStates \ {"none", "done", "ending"} : pipe' = [pipe EXCEPT ![c] = place]
        /\ toWrite' \in SUBSET Conns
        /\ UNCHANGED <<listening, accepter, closer, toClose, connectionSet, connWaitGroup, link>>
    BY <1>1 DEF Read, ReadFails, Distribute, Reject, Disconnect, Distributed, PipeStates,
                LifecycleInv, TypeOK
  <2>2. TypeOK'
    BY <2>1 DEF LifecycleInv, TypeOK
  <2>3. \A d \in Conns : pipe'[d] # pipe[d] =>
           pipe[d] \notin {"none", "done"} /\ pipe'[d] \notin {"none", "done", "ending"}
    BY <2>1 DEF LifecycleInv, TypeOK
  <2>4. QED BY <2>1, <2>2, <2>3, LinkStep DEF Open
<1>2. CASE WritePasses(c)
  <2>1. TypeOK'
    BY <1>2 DEF WritePasses, LifecycleInv, TypeOK
  <2>2. QED BY <1>2, <2>1, LinkStep DEF WritePasses, Open
<1>3. CASE WriteFails(c)
  <2>1. TypeOK'
    BY <1>3 DEF WriteFails, LifecycleInv, TypeOK, LinkStates
  <2>2. \A d \in Conns : link'[d] = link[d] \/ (d = c /\ link'[d] = "closed" /\ link[d] # "none")
    BY <1>3 DEF WriteFails, LifecycleInv, TypeOK
  <2>3. QED BY <1>3, <2>1, <2>2, LinkStep DEF WriteFails, Open
<1>4. CASE receiveFatalError(c) \/ Rejected(c) \/ Disconnected(c)
  <2>1. /\ pipe[c] \in {"waiting", "rejecting", "disconnecting"}
        /\ link' = [link EXCEPT ![c] = "closed"]
        /\ \E place \in {"reading", "leaving", "ending"} : pipe' = [pipe EXCEPT ![c] = place]
        /\ UNCHANGED <<listening, accepter, closer, toClose, connectionSet, connWaitGroup, toWrite>>
    BY <1>4 DEF receiveFatalError, Rejected, Disconnected
  <2>2. TypeOK'
    BY <2>1 DEF LifecycleInv, TypeOK, LinkStates, PipeStates
  <2>3. link[c] # "none"
    BY <2>1 DEF LifecycleInv, PipesLinked
  <2>4. QED BY <2>1, <2>2, <2>3, LinkStep DEF LifecycleInv, TypeOK, Open
<1>5. QED BY <1>1, <1>2, <1>3, <1>4, FinishKeeps DEF requestPipe, LockPipeline, Write, GoOn

(* The peer goes away, stops reading or reads again. *)
LEMMA PeerKeeps ==
    ASSUME LifecycleInv, NEW c \in Conns, Peer(c)
    PROVE  LifecycleInv'
<1>1. /\ Open(c)
      /\ \E state \in {"up", "full", "gone"} : link' = [link EXCEPT ![c] = state]
      /\ UNCHANGED PeerVars
  BY DEF Peer, PeerCloses, PeerStopsReading, PeerReadsAgain, Open
<1>2. TypeOK'
  BY <1>1 DEF PeerVars, LifecycleInv, TypeOK, LinkStates
<1>3. QED BY <1>1, <1>2, LinkStep DEF PeerVars, Open, LifecycleInv, TypeOK

-----------------------------------------------------------------------------
(* The invariant holds for any set of connections. *)
LEMMA LifecycleAlways == Spec => []LifecycleInv
<1>1. ASSUME LifecycleInv, [Next]_vars PROVE LifecycleInv'
  <2>1. CASE UNCHANGED vars
    BY <1>1, <2>1 DEF vars, LifecycleInv, TypeOK, Tracked, OneIncoming, ClosingInv, PipesLinked,
                      Incoming, Started, Open
  <2>2. CASE Next
    BY <1>1, <2>2, RunKeeps, CloseAllKeeps, PipeKeeps, PeerKeeps DEF Next
  <2>3. QED BY <1>1, <2>1, <2>2
<1>2. QED BY <1>1, LifecycleInit, PTL DEF Spec

(* The wait group never counts below zero (server.go:96,106). *)
THEOREM LifecycleTypeCorrect == Spec => []TypeOK
<1>1. LifecycleInv => TypeOK
  BY DEF LifecycleInv
<1>2. QED BY <1>1, LifecycleAlways, PTL

(* The set that CloseAll closes and the counter of the wait group follow the
   goroutines, however many there are (server.go:95-107,135-143).                *)
THEOREM AlwaysTracked == Spec => []Tracked
<1>1. LifecycleInv => Tracked
  BY DEF LifecycleInv
<1>2. QED BY <1>1, LifecycleAlways, PTL

(* Nothing is open when CloseAll returns, whenever it is called (server.go:145-154). *)
THEOREM NeverMissed == Spec => []NoneMissed
<1>1. LifecycleInv => NoneMissed
  BY DEF LifecycleInv, ClosingInv, NoneMissed
<1>2. QED BY <1>1, LifecycleAlways, PTL
=============================================================================
