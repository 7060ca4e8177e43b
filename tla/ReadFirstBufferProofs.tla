------------------------ MODULE ReadFirstBufferProofs ------------------------
(* The double buffer for any number of readers and messages. *)
EXTENDS ReadFirstBuffer, TLAPS

Room(first, second) == [first |-> first, second |-> second]

(* How far the copy is ahead of what is shown.  Without it nothing says that the
   flip puts a whole message in place.                                          *)
CopyAhead ==
    /\ writer = "editing"  => Copy = Room(applied, applied)
    /\ writer = "halfway"  => Copy = Room(applied + 1, applied)
    /\ writer = "flipping" => Copy = Room(applied + 1, applied + 1)

BufferInv ==
    /\ TypeOK
    /\ writer # "idle" => applied < MaxMessages
    /\ WholeMessages
    /\ ~ torn => CopyAhead

(* The initial state satisfies the invariant. *)
LEMMA BufferInit == Init => BufferInv
<1> SUFFICES ASSUME Init PROVE BufferInv
  OBVIOUS
<1>1. TypeOK
  <2>1. read_id \in {0, 1} /\ buffer \in [{0, 1} -> Rooms] /\ applied \in 0..MaxMessages
    BY BufferAssumption DEF Init, Rooms
  <2>2. held \in [Readers -> 0..2] /\ nesting \subseteq {r \in Readers : held[r] = 1}
    BY DEF Init
  <2>3. writer \in WriterStates /\ torn \in BOOLEAN /\ overtake \in BOOLEAN
    BY Zenon DEF Init, WriterStates
  <2>4. QED BY <2>1, <2>2, <2>3 DEF TypeOK
<1>2. WholeMessages /\ CopyAhead /\ writer = "idle"
  BY DEF Init, WholeMessages, Visible, CopyAhead
<1>3. QED BY <1>1, <1>2 DEF BufferInv

-----------------------------------------------------------------------------
(* A reader changes nothing but its own locks. *)
LEMMA ReadsKeep ==
    ASSUME BufferInv, NEW r \in Readers, Reads(r)
    PROVE  BufferInv' /\ UNCHANGED <<read_id, buffer, writer, torn, applied, overtake>>
<1>1. UNCHANGED <<read_id, buffer, writer, torn, applied, overtake>>
  BY DEF Reads, Lock, Click, LockAgain, Unlock
<1>2. held' \in [Readers -> 0..2] /\ nesting' \subseteq {q \in Readers : held'[q] = 1}
  <2>1. held \in [Readers -> 0..2] /\ nesting \subseteq {q \in Readers : held[q] = 1}
    BY DEF BufferInv, TypeOK
  <2>2. CASE Lock(r)
    BY <2>1, <2>2 DEF Lock
  <2>3. CASE Click(r)
    BY <2>1, <2>3 DEF Click
  <2>4. CASE LockAgain(r)
    BY <2>1, <2>4 DEF LockAgain
  <2>5. CASE Unlock(r)
    BY <2>1, <2>5 DEF Unlock
  <2>6. QED BY <2>2, <2>3, <2>4, <2>5 DEF Reads
<1>3. QED
  BY <1>1, <1>2 DEF BufferInv, TypeOK, WholeMessages, Visible, CopyAhead, Copy

(* A step of the writer keeps the invariant. *)
LEMMA WritesKeep ==
    ASSUME BufferInv, Writes
    PROVE  BufferInv'
<1> DEFINE i == read_id
           j == Other(read_id)
<1>1. /\ i \in {0, 1} /\ j \in {0, 1} /\ i # j /\ Other(j) = i
      /\ buffer \in [{0, 1} -> Rooms]
      /\ applied \in Nat /\ applied <= MaxMessages /\ MaxMessages \in Nat
  BY BufferAssumption DEF BufferInv, TypeOK, Other
<1>2. CASE StartCopy
  BY <1>2 DEF StartCopy, BufferInv, TypeOK, WriterStates, WholeMessages, Visible, CopyAhead
<1>3. CASE FinishCopy
  <2>1. buffer'[i] = buffer[i] /\ buffer'[j] = buffer[i] /\ buffer' \in [{0, 1} -> Rooms]
    BY <1>1, <1>3 DEF FinishCopy
  <2>2. QED
    BY <1>1, <1>3, <2>1 DEF FinishCopy, BufferInv, TypeOK, WriterStates, WholeMessages,
       Visible, CopyAhead, Copy, Room
<1>4. CASE EditFirst
  <2>1. /\ buffer'[i] = buffer[i]
        /\ buffer'[j] = [buffer[j] EXCEPT !.first = @ + 1]
        /\ buffer' \in [{0, 1} -> Rooms]
    BY <1>1, <1>4 DEF EditFirst, Rooms
  <2>2. buffer[j] = Room(applied, applied) => buffer'[j] = Room(applied + 1, applied)
    BY <1>1, <2>1 DEF Room
  <2>3. QED
    BY <1>1, <1>4, <2>1, <2>2 DEF EditFirst, BufferInv, TypeOK, WriterStates,
       WholeMessages, Visible, CopyAhead, Copy
<1>5. CASE EditSecond
  <2>1. /\ buffer'[i] = buffer[i]
        /\ buffer'[j] = [buffer[j] EXCEPT !.second = @ + 1]
        /\ buffer' \in [{0, 1} -> Rooms]
    BY <1>1, <1>5 DEF EditSecond, Rooms
  <2>2. buffer[j] = Room(applied + 1, applied) => buffer'[j] = Room(applied + 1, applied + 1)
    BY <1>1, <2>1 DEF Room
  <2>3. QED
    BY <1>1, <1>5, <2>1, <2>2 DEF EditSecond, BufferInv, TypeOK, WriterStates,
       WholeMessages, Visible, CopyAhead, Copy
<1>6. CASE EditThrows
  BY <1>6 DEF EditThrows, BufferInv, TypeOK, WriterStates, WholeMessages
<1>7. CASE Flip
  <2>1. read_id' = j /\ buffer' = buffer /\ applied' = applied + 1 /\ writer' = "idle"
        /\ UNCHANGED <<held, nesting, torn, overtake>> /\ writer = "flipping"
    BY <1>7 DEF Flip
  <2>2. applied < MaxMessages /\ applied' \in 0..MaxMessages
    BY <1>1, <2>1 DEF BufferInv
  <2>3. TypeOK'
    BY <1>1, <2>1, <2>2 DEF BufferInv, TypeOK, WriterStates
  <2>4. ~ torn => buffer[j] = Room(applied + 1, applied + 1)
    BY <2>1 DEF BufferInv, CopyAhead, Copy
  <2>5. WholeMessages'
    BY <2>1, <2>4 DEF WholeMessages, Visible, Room
  <2>6. QED BY <2>1, <2>3, <2>5 DEF BufferInv, CopyAhead
<1>8. QED BY <1>2, <1>3, <1>4, <1>5, <1>6, <1>7 DEF Writes

(* The invariant holds in every state. *)
LEMMA BufferAlways == Spec => []BufferInv
<1>1. BufferInv /\ [Next]_vars => BufferInv'
  <2> SUFFICES ASSUME BufferInv, [Next]_vars PROVE BufferInv'
    OBVIOUS
  <2>1. CASE UNCHANGED vars
    BY <2>1 DEF vars, BufferInv, TypeOK, WholeMessages, Visible, CopyAhead, Copy
  <2>2. CASE Next
    BY <2>2, ReadsKeep, WritesKeep DEF Next
  <2>3. QED BY <2>1, <2>2
<1>2. QED BY <1>1, BufferInit, PTL DEF Spec

-----------------------------------------------------------------------------
(* The buffer keeps its types (lock.h:28-30). *)
THEOREM BufferTypes == Spec => []TypeOK
<1>1. BufferInv => TypeOK
  BY DEF BufferInv
<1>2. QED BY <1>1, BufferAlways, PTL

(* What is shown is every message that was flipped in, whole (lock.h:59-71). *)
THEOREM AlwaysWhole == Spec => []WholeMessages
<1>1. BufferInv => WholeMessages
  BY DEF BufferInv
<1>2. QED BY <1>1, BufferAlways, PTL

(* What a thread reads stands still while it holds the shared lock (lock.h:38-50). *)
THEOREM AlwaysStable == Spec => StableWhileHeld
<1> DEFINE Stable == \A r \in Readers : held[r] > 0 => Visible' = Visible
<1>1. ASSUME BufferInv, [Next]_vars PROVE [Stable]_vars
  <2>1. ASSUME NEW r \in Readers, Reads(r) PROVE Stable
    BY <1>1, <2>1, ReadsKeep DEF Visible
  <2>2. CASE Writes
    <3>1. CASE Flip
      BY <3>1 DEF Flip
    <3>2. CASE StartCopy \/ EditThrows
      BY <3>2 DEF StartCopy, EditThrows, Visible
    <3>3. CASE FinishCopy \/ EditFirst \/ EditSecond
      <4>1. read_id \in {0, 1} /\ Other(read_id) # read_id /\ buffer \in [{0, 1} -> Rooms]
        BY <1>1 DEF BufferInv, TypeOK, Other
      <4>2. read_id' = read_id /\ buffer'[read_id] = buffer[read_id]
        BY <3>3, <4>1 DEF FinishCopy, EditFirst, EditSecond
      <4>3. QED BY <4>2 DEF Visible
    <3>4. QED BY <2>2, <3>1, <3>2, <3>3 DEF Writes
  <2> HIDE DEF Stable
  <2>3. QED BY <1>1, <2>1, <2>2 DEF Next
<1>2. StableWhileHeld <=> [][Stable]_vars
  BY DEF StableWhileHeld
<1> HIDE DEF Stable
<1>3. QED BY <1>1, <1>2, BufferAlways, PTL DEF Spec

(* Two threads that wait for each other (lock.h:41, lock.h:70) wait for ever. *)
THEOREM BlockedForGood == Spec => [][SelfBlocked => SelfBlocked']_vars
<1>1. ASSUME BufferInv, [Next]_vars, SelfBlocked PROVE SelfBlocked'
  <2>1. CASE UNCHANGED vars
    BY <1>1, <2>1 DEF vars, SelfBlocked
  <2>2. ASSUME NEW r \in Readers, Reads(r) PROVE SelfBlocked'
    <3>1. writer = "flipping" /\ ~ overtake /\ nesting # {} /\ ~ Grantable
      BY <1>1 DEF SelfBlocked, Grantable
    <3>2. writer' = writer /\ overtake' = overtake
      BY <1>1, <2>2, ReadsKeep
    <3>3. nesting \subseteq nesting'
      BY <2>2, <3>1 DEF Reads, Lock, Click, LockAgain, Unlock
    <3>4. QED BY <3>1, <3>2, <3>3 DEF SelfBlocked
  <2>3. ~ Writes
    <3>1. PICK r \in nesting : TRUE
      BY <1>1 DEF SelfBlocked
    <3>2. r \in Readers /\ held[r] # 0
      BY <1>1, <3>1 DEF BufferInv, TypeOK
    <3>3. writer = "flipping"
      BY <1>1 DEF SelfBlocked
    <3>4. QED
      BY <3>2, <3>3 DEF Writes, StartCopy, FinishCopy, EditFirst, EditSecond, EditThrows, Flip
  <2>4. QED BY <1>1, <2>1, <2>2, <2>3 DEF Next
<1>2. BufferInv /\ [Next]_vars => [SelfBlocked => SelfBlocked']_vars
  BY <1>1
<1>3. QED BY <1>2, BufferAlways, PTL DEF Spec
=============================================================================
