--------------------------- MODULE ReadFirstBuffer ---------------------------
(* The double buffer between the client's two threads (frontend mixi/core/lock.h).
   The main thread reads the room for a whole frame under a shared lock; the network
   thread copies it, applies a message to the copy without any lock, and flips the
   two under the exclusive lock in the destructor of its RfbWriter.

   The room is two parts here, each counting the messages applied to it: a message
   changes both, one after the other.                                           *)
EXTENDS Integers

CONSTANTS
    Readers,     \* threads that read: the main thread
    MaxMessages  \* bound: messages applied

ASSUME BufferAssumption == MaxMessages \in Nat

VARIABLES
    read_id,  \* which of the two buffers is read
    buffer,   \* the two rooms
    writer,   \* where the network thread is
    held,     \* reader -> shared locks it holds
    nesting,  \* readers about to take a second one
    torn,     \* a message could not be decoded to its end
    applied,  \* messages flipped in so far
    overtake  \* a shared lock is granted although a writer is waiting

vars == <<read_id, buffer, writer, held, nesting, torn, applied, overtake>>

Rooms == [first : Nat, second : Nat]

(* idle; copying: holds a shared lock; editing, halfway: on the copy, without a
   lock; flipping: waits for the exclusive lock.                                *)
WriterStates == {"idle", "copying", "editing", "halfway", "flipping"}

TypeOK ==
    /\ read_id \in {0, 1}
    /\ buffer \in [{0, 1} -> Rooms]
    /\ writer \in WriterStates
    /\ held \in [Readers -> 0..2]
    /\ nesting \subseteq {r \in Readers : held[r] = 1}
    /\ torn \in BOOLEAN
    /\ applied \in 0..MaxMessages
    /\ overtake \in BOOLEAN

(* std::shared_mutex leaves it open whether readers overtake a waiting writer: some
   libraries let them, libc++, which the client is built with on a Mac, does not.  *)
Init ==
    /\ read_id = 0
    /\ buffer = [i \in {0, 1} |-> [first |-> 0, second |-> 0]]
    /\ writer = "idle"
    /\ held = [r \in Readers |-> 0]
    /\ nesting = {}
    /\ torn = FALSE
    /\ applied = 0
    /\ overtake \in BOOLEAN

Other(i) == 1 - i

Visible == buffer[read_id]

Copy == buffer[Other(read_id)]

-----------------------------------------------------------------------------
(* RfbReader *)

(* lock_shared: the exclusive lock is never held between steps. *)
Grantable == overtake \/ writer # "flipping"

Lock(r) ==
    /\ held[r] = 0
    /\ Grantable
    /\ held' = [held EXCEPT ![r] = 1]
    /\ UNCHANGED <<read_id, buffer, writer, nesting, torn, applied, overtake>>

(* A click on the board sends a stone, which looks at the room again while the
   window that was clicked on still reads it.                                   *)
Click(r) ==
    /\ held[r] = 1
    /\ r \notin nesting
    /\ nesting' = nesting \cup {r}
    /\ UNCHANGED <<read_id, buffer, writer, held, torn, applied, overtake>>

LockAgain(r) ==
    /\ r \in nesting
    /\ Grantable
    /\ held' = [held EXCEPT ![r] = @ + 1]
    /\ nesting' = nesting \ {r}
    /\ UNCHANGED <<read_id, buffer, writer, torn, applied, overtake>>

(* Slip: only the inner lock is given back. *)
Unlock_Inner(r) ==
    /\ held[r] > 1 /\ r \notin nesting
    /\ held' = [held EXCEPT ![r] = @ - 1]
    /\ UNCHANGED <<read_id, buffer, writer, nesting, torn, applied, overtake>>

(* Slip: a lock that was not taken is given back. *)
Unlock_Always(r) ==
    /\ held' = [held EXCEPT ![r] = @ - 1]
    /\ UNCHANGED <<read_id, buffer, writer, nesting, torn, applied, overtake>>

Unlock(r) ==
    /\ held[r] > 0 /\ r \notin nesting
    /\ held' = [held EXCEPT ![r] = @ - 1]
    /\ UNCHANGED <<read_id, buffer, writer, nesting, torn, applied, overtake>>

Reads(r) == Lock(r) \/ Click(r) \/ LockAgain(r) \/ Unlock(r)

-----------------------------------------------------------------------------
(* RfbWriter *)

(* Its own shared lock keeps nobody out: readers hold the same kind. *)
StartCopy ==
    /\ writer = "idle"
    /\ applied < MaxMessages
    /\ writer' = "copying"
    /\ UNCHANGED <<read_id, buffer, held, nesting, torn, applied, overtake>>

(* Slip: the copy is forgotten. *)
FinishCopy_Skipped ==
    /\ writer = "copying"
    /\ writer' = "editing"
    /\ UNCHANGED <<read_id, buffer, held, nesting, torn, applied, overtake>>

FinishCopy ==
    /\ writer = "copying"
    /\ buffer' = [buffer EXCEPT ![Other(read_id)] = buffer[read_id]]
    /\ writer' = "editing"
    /\ UNCHANGED <<read_id, held, nesting, torn, applied, overtake>>

EditFirst ==
    /\ writer = "editing"
    /\ buffer' = [buffer EXCEPT ![Other(read_id)].first = @ + 1]
    /\ writer' = "halfway"
    /\ UNCHANGED <<read_id, held, nesting, torn, applied, overtake>>

EditSecond ==
    /\ writer = "halfway"
    /\ buffer' = [buffer EXCEPT ![Other(read_id)].second = @ + 1]
    /\ writer' = "flipping"
    /\ UNCHANGED <<read_id, held, nesting, torn, applied, overtake>>

(* Decoding throws: the destructor flips all the same. *)
EditThrows ==
    /\ writer \in {"editing", "halfway"}
    /\ writer' = "flipping"
    /\ torn' = TRUE
    /\ UNCHANGED <<read_id, buffer, held, nesting, applied, overtake>>

(* Slip: the flip does not wait for the readers. *)
Flip_Shared ==
    /\ writer = "flipping"
    /\ read_id' = Other(read_id)
    /\ applied' = applied + 1
    /\ writer' = "idle"
    /\ UNCHANGED <<buffer, held, nesting, torn, overtake>>

(* lock, flip, unlock *)
Flip ==
    /\ writer = "flipping"
    /\ \A r \in Readers : held[r] = 0
    /\ read_id' = Other(read_id)
    /\ applied' = applied + 1
    /\ writer' = "idle"
    /\ UNCHANGED <<buffer, held, nesting, torn, overtake>>

-----------------------------------------------------------------------------
Writes ==
    \/ StartCopy
    \/ FinishCopy
    \/ EditFirst
    \/ EditSecond
    \/ EditThrows
    \/ Flip

Next ==
    \/ \E r \in Readers : Reads(r)
    \/ Writes

Spec == Init /\ [][Next]_vars

(* A frame ends, with however many clicks in it, and the network thread runs.  The
   lock may be taken for the next frame before a waiting writer gets it, but not every
   time.                                                                        *)
FairSpec ==
    /\ Spec
    /\ \A r \in Readers : WF_vars(LockAgain(r)) /\ WF_vars(Unlock(r))
                          /\ SF_vars(held[r] = 1 /\ Unlock(r))
    /\ WF_vars(StartCopy \/ FinishCopy \/ EditFirst \/ EditSecond)
    /\ SF_vars(Flip)
-----------------------------------------------------------------------------
(* Properties *)

(* Whoever looks sees whole messages, and all of them: the room shown has been
   through every message that was flipped in, none half applied and none lost, unless
   one could not be decoded.                                                    *)
WholeMessages == ~ torn => Visible = [first |-> applied, second |-> applied]

(* What a thread reads does not change while it reads, however long the frame and
   whatever the network thread does meanwhile.                                  *)
StableWhileHeld ==
    [][\A r \in Readers : held[r] > 0 => Visible' = Visible]_vars

(* The two threads wait for each other: one that reads asks for the lock it has once
   more, behind the writer, which waits for it to end.                          *)
SelfBlocked ==
    /\ writer = "flipping"
    /\ ~ overtake
    /\ nesting # {}

(* A message that was applied is shown: the flip comes to its turn.  Where a waiting
   writer keeps readers out, one thing stops it, and for good: a click, whose second
   shared lock (lock.h:41) was not granted yet when the network thread came to its
   exclusive one (lock.h:70).                                                   *)
FlippedIn == writer = "flipping" ~> (writer = "idle" \/ SelfBlocked)
=============================================================================
