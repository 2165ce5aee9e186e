---------------------------- MODULE DeviceMemory ----------------------------
(***************************************************************************)
(* Stream-ordered device memory: sys/src/platform/memory and the facade    *)
(* src/memory.  Host threads allocate buffers on a stream, share them as   *)
(* clones and views, queue work that uses them on any stream of the same   *)
(* context, and drop them.  The device runs every stream in FIFO order and *)
(* interleaves streams freely.  The last drop frees the allocation on its  *)
(* allocation stream, after waiting for the whole context when the buffer  *)
(* was ever used on another stream.                                        *)
(*                                                                         *)
(* A call that uses a buffer borrows a handle of it, so no drop of the     *)
(* last handle can fall between the parts of one call: calls are atomic    *)
(* here.  The drop itself is not: it blocks in the context synchronization *)
(* while other threads go on queueing work.                                *)
(***************************************************************************)
EXTENDS Naturals, Sequences

CONSTANTS
    Contexts,       \* CUDA contexts
    Streams,        \* CUDA streams
    Buffers,        \* identities of device allocations, each used once
    ContextOf,      \* the context of each stream
    ForeignStreams, \* streams on which foreign code queues work of its own
    NoStream,       \* the allocation stream of a buffer not yet allocated
    MaxHandles,     \* bound: handles (clones, views) of one allocation
    MaxQueue,       \* bound: operations queued on one stream by callers
    DriverFaults    \* whether driver calls other than an allocation may fail

ASSUME ContextsAssumption == ContextOf \in [Streams -> Contexts]
ASSUME ForeignAssumption  == ForeignStreams \subseteq Streams
ASSUME NoStreamAssumption == NoStream \notin Streams
ASSUME BoundsAssumption   == MaxHandles \in Nat \ {0} /\ MaxQueue \in Nat
ASSUME FaultsAssumption   == DriverFaults \in BOOLEAN

VARIABLES
    home,        \* allocation stream of each buffer
    phase,       \* where each allocation is in its life on the host
    handles,     \* live DeviceBuffer values (root or view) of each allocation
    crossStream, \* the flag shared by all views of an allocation
    exported,    \* <<buffer, stream>> pairs handed to foreign code
    queue,       \* work queued on each stream and not yet run
    awaiting,    \* what the synchronization of a draining drop still waits for
    resident,    \* state of the memory itself, as the device has run so far
    errorState,  \* the error a context holds for its next caller
    unsynced     \* history: cross-stream buffers freed without the wait

host   == <<home, phase, handles, crossStream, exported>>
device == <<queue, resident>>
vars   == <<home, phase, handles, crossStream, exported, queue, awaiting,
            resident, errorState, unsynced>>

Phases == {"unused", "held", "draining", "dropped", "leaked"}

Alloc(b) == [kind |-> "alloc", on |-> {b}]
Use(B)   == [kind |-> "use",   on |-> B]
Free(b)  == [kind |-> "free",  on |-> {b}]

Operation ==
    {Alloc(b) : b \in Buffers} \cup {Free(b) : b \in Buffers}
        \cup {Use(B) : B \in SUBSET Buffers}

SameContext(b, s) == ContextOf[home[b]] = ContextOf[s]

Held == {b \in Buffers : phase[b] = "held"}

HasRoom(s, n) == Len(queue[s]) + n <= MaxQueue

Enqueue(s, ops) == queue' = [queue EXCEPT ![s] = @ \o ops]

(* The wait of a drop is over when every operation that was queued on the  *)
(* streams of the context when the wait began has run.                     *)
Drained(b) == \A s \in Streams : awaiting[b][s] = 0

-----------------------------------------------------------------------------

Init ==
    /\ home        = [b \in Buffers |-> NoStream]
    /\ phase       = [b \in Buffers |-> "unused"]
    /\ handles     = [b \in Buffers |-> 0]
    /\ crossStream = [b \in Buffers |-> FALSE]
    /\ exported    = {}
    /\ queue       = [s \in Streams |-> <<>>]
    /\ awaiting    = [b \in Buffers |-> [s \in Streams |-> 0]]
    /\ resident    = [b \in Buffers |-> "absent"]
    /\ errorState  = [c \in Contexts |-> FALSE]
    /\ unsynced    = {}

(* MemoryPool::allocate.  A rejected allocation leaves no state behind.    *)
(* When only the zeroing fails the pointer has no owner yet and is lost.   *)
Allocate(b, s, zeroed) ==
    /\ phase[b] = "unused"
    /\ ~errorState[ContextOf[s]]
    /\ HasRoom(s, 2)
    /\ home' = [home EXCEPT ![b] = s]
    /\ \/ /\ phase'   = [phase EXCEPT ![b] = "held"]
          /\ handles' = [handles EXCEPT ![b] = 1]
          /\ Enqueue(s, IF zeroed THEN <<Alloc(b), Use({b})>> ELSE <<Alloc(b)>>)
       \/ /\ zeroed /\ DriverFaults
          /\ phase' = [phase EXCEPT ![b] = "leaked"]
          /\ UNCHANGED handles
          /\ Enqueue(s, <<Alloc(b)>>)
    /\ UNCHANGED <<crossStream, exported, awaiting, resident, errorState, unsynced>>

(* Clone, slice and reinterpret: one more DeviceBuffer that retains the    *)
(* root allocation, a view of a view included.                             *)
TakeView(b) ==
    /\ b \in Held
    /\ handles[b] < MaxHandles
    /\ handles' = [handles EXCEPT ![b] = @ + 1]
    /\ UNCHANGED <<home, phase, crossStream, exported, device, awaiting,
                   errorState, unsynced>>

(* A use on another stream that stores no flag (mutant).                   *)
MarkNothing(B, s) == UNCHANGED crossStream

(* The flags that ensure_stream and argument_pointers store for the        *)
(* buffers in B when they are used on s.                                   *)
MarkCrossStream(B, s) ==
    crossStream' = [b \in Buffers |-> crossStream[b] \/ (b \in B /\ home[b] # s)]

(* A call whose buffers belong to several contexts stops at the first      *)
(* mismatch, with the flags of the buffers before it already stored.       *)
StopAtMismatch(B, s) ==
    /\ \E b \in B : ~SameContext(b, s)
    /\ \E F \in SUBSET {b \in B : SameContext(b, s)} : MarkCrossStream(F, s)

(* Stream::copy_to_device, copy_to_host and copy_device_range: the checks, *)
(* then the copy; a rejected range or a failing driver call queues nothing.*)
(* Copies do not bind the context, so a recorded error does not stop them. *)
Copy(B, s) ==
    /\ B \subseteq Held /\ B # {}
    /\ \/ StopAtMismatch(B, s) /\ UNCHANGED queue
       \/ /\ \A b \in B : SameContext(b, s)
          /\ MarkCrossStream(B, s)
          /\ \/ HasRoom(s, 1) /\ Enqueue(s, <<Use(B)>>)
             \/ UNCHANGED queue
    /\ UNCHANGED <<home, phase, handles, exported, awaiting, resident,
                   errorState, unsynced>>

(* Kernel::launch: argument_pointers stores the flags, then binds the      *)
(* context, which takes a recorded error and returns it instead.           *)
Launch(B, s) ==
    /\ B \subseteq Held /\ B # {}
    /\ \/ StopAtMismatch(B, s) /\ UNCHANGED <<queue, errorState>>
       \/ /\ \A b \in B : SameContext(b, s)
          /\ MarkCrossStream(B, s)
          /\ \/ /\ errorState[ContextOf[s]]
                /\ errorState' = [errorState EXCEPT ![ContextOf[s]] = FALSE]
                /\ UNCHANGED queue
             \/ /\ ~errorState[ContextOf[s]]
                /\ HasRoom(s, 1)
                /\ Enqueue(s, <<Use(B)>>)
                /\ UNCHANGED errorState
    /\ UNCHANGED <<home, phase, handles, exported, awaiting, resident, unsynced>>

(* DeviceBuffer::raw_pointer_for: the address leaves the library for work  *)
(* that foreign code will queue on s.                                      *)
RawPointerFor(b, s) ==
    /\ b \in Held /\ s \in ForeignStreams /\ SameContext(b, s)
    /\ exported' = exported \cup {<<b, s>>}
    /\ MarkCrossStream({b}, s)
    /\ UNCHANGED <<home, phase, handles, device, awaiting, errorState, unsynced>>

(* Foreign code queues work on the stream it named, as often as it likes,  *)
(* while the buffer is alive.                                              *)
ForeignWork(b, s) ==
    /\ <<b, s>> \in exported
    /\ b \in Held
    /\ HasRoom(s, 1)
    /\ Enqueue(s, <<Use({b})>>)
    /\ UNCHANGED <<host, awaiting, resident, errorState, unsynced>>

-----------------------------------------------------------------------------

(* free_async on the allocation stream.  A refused free loses the memory.  *)
FreeQueued(b) ==
    /\ phase' = [phase EXCEPT ![b] = "dropped"]
    /\ Enqueue(home[b], <<Free(b)>>)

FreeRefused(b) ==
    /\ DriverFaults
    /\ phase' = [phase EXCEPT ![b] = "leaked"]
    /\ UNCHANGED queue

(* record_err keeps the error of a drop for the next call on the context.  *)
RecordError(b) == errorState' = [errorState EXCEPT ![ContextOf[home[b]]] = TRUE]

FreeAsync(b) ==
    \/ FreeQueued(b) /\ UNCHANGED errorState
    \/ FreeRefused(b) /\ RecordError(b)

(* Dropping a handle that is not the last.                                 *)
DropHandle(b) ==
    /\ b \in Held
    /\ handles[b] > 1
    /\ handles' = [handles EXCEPT ![b] = @ - 1]
    /\ UNCHANGED <<home, phase, crossStream, exported, device, awaiting,
                   errorState, unsynced>>

(* The drop of any handle frees the allocation (mutant).                   *)
DropLocalSharing(b) ==
    /\ b \in Held
    /\ ~crossStream[b]
    /\ handles' = [handles EXCEPT ![b] = @ - 1]
    /\ FreeAsync(b)
    /\ UNCHANGED <<home, crossStream, exported, awaiting, resident, unsynced>>

(* The last drop frees nothing (mutant).                                   *)
DropLocalKeeping(b) ==
    /\ b \in Held
    /\ handles[b] = 1
    /\ ~crossStream[b]
    /\ handles' = [handles EXCEPT ![b] = 0]
    /\ phase' = [phase EXCEPT ![b] = "dropped"]
    /\ UNCHANGED <<home, crossStream, exported, queue, awaiting, resident, errorState,
                   unsynced>>

(* DeviceBuffer::drop of the root, never used on another stream.           *)
DropLocal(b) ==
    /\ b \in Held
    /\ handles[b] = 1
    /\ ~crossStream[b]
    /\ handles' = [handles EXCEPT ![b] = 0]
    /\ FreeAsync(b)
    /\ UNCHANGED <<home, crossStream, exported, awaiting, resident, unsynced>>

(* The drop waits for the allocation stream only (mutant).                 *)
BeginDrainAtHome(b) ==
    /\ b \in Held
    /\ handles[b] = 1
    /\ crossStream[b]
    /\ ~errorState[ContextOf[home[b]]]
    /\ handles' = [handles EXCEPT ![b] = 0]
    /\ phase' = [phase EXCEPT ![b] = "draining"]
    /\ awaiting' = [awaiting EXCEPT ![b][home[b]] = Len(queue[home[b]])]
    /\ UNCHANGED <<home, crossStream, exported, device, errorState, unsynced>>

(* DeviceBuffer::drop of the root of a shared buffer enters the context    *)
(* synchronization, which waits for the work queued so far.                *)
BeginDrain(b) ==
    /\ b \in Held
    /\ handles[b] = 1
    /\ crossStream[b]
    /\ ~errorState[ContextOf[home[b]]]
    /\ handles' = [handles EXCEPT ![b] = 0]
    /\ phase' = [phase EXCEPT ![b] = "draining"]
    /\ awaiting' = [awaiting EXCEPT ![b] =
           [s \in Streams |-> IF SameContext(b, s) THEN Len(queue[s]) ELSE 0]]
    /\ UNCHANGED <<home, crossStream, exported, device, errorState, unsynced>>

(* The same drop when the context holds an error: bind_to_thread returns   *)
(* it, record_err stores it again, synchronize returns it before it waits, *)
(* and the buffer is freed all the same.                                   *)
DropUnderError(b) ==
    /\ b \in Held
    /\ handles[b] = 1
    /\ crossStream[b]
    /\ errorState[ContextOf[home[b]]]
    /\ handles' = [handles EXCEPT ![b] = 0]
    /\ FreeAsync(b)
    /\ unsynced' = unsynced \cup {b}
    /\ UNCHANGED <<home, crossStream, exported, awaiting, resident>>

(* The drop does not wait for the synchronization (mutant).                *)
FinishDrainAtOnce(b) ==
    /\ phase[b] = "draining"
    /\ FreeAsync(b)
    /\ UNCHANGED <<home, handles, crossStream, exported, awaiting, resident, unsynced>>

(* The synchronization returns and the drop frees the buffer.              *)
FinishDrain(b) ==
    /\ phase[b] = "draining"
    /\ Drained(b)
    /\ FreeAsync(b)
    /\ UNCHANGED <<home, handles, crossStream, exported, awaiting, resident, unsynced>>

(* The driver refuses the synchronization, as it does while a stream of    *)
(* the context is being captured; the error is recorded and the buffer     *)
(* freed all the same.                                                     *)
DrainFails(b) ==
    /\ DriverFaults
    /\ phase[b] = "draining"
    /\ RecordError(b)
    /\ FreeQueued(b) \/ FreeRefused(b)
    /\ unsynced' = unsynced \cup {b}
    /\ awaiting' = [awaiting EXCEPT ![b] = [s \in Streams |-> 0]]
    /\ UNCHANGED <<home, handles, crossStream, exported, resident>>

(* Any other call that binds the context (a synchronization, an event, an  *)
(* allocation) takes the recorded error and returns it.                    *)
ReportError(c) ==
    /\ errorState[c]
    /\ errorState' = [errorState EXCEPT ![c] = FALSE]
    /\ UNCHANGED <<host, device, awaiting, unsynced>>

(* The device runs the oldest operation of a stream.                       *)
StreamStep(s) ==
    /\ queue[s] # <<>>
    /\ queue' = [queue EXCEPT ![s] = Tail(@)]
    /\ awaiting' = [b \in Buffers |->
           [awaiting[b] EXCEPT ![s] = IF @ > 0 THEN @ - 1 ELSE 0]]
    /\ resident' = [b \in Buffers |->
           IF b \notin Head(queue[s]).on \/ Head(queue[s]).kind = "use"
           THEN resident[b]
           ELSE IF Head(queue[s]).kind = "alloc" THEN "live" ELSE "released"]
    /\ UNCHANGED <<host, errorState, unsynced>>

-----------------------------------------------------------------------------

Drop(b) ==
    \/ DropHandle(b) \/ DropLocal(b) \/ BeginDrain(b)
    \/ DropUnderError(b) \/ FinishDrain(b) \/ DrainFails(b)

Next ==
    \/ \E b \in Buffers, s \in Streams, zeroed \in BOOLEAN : Allocate(b, s, zeroed)
    \/ \E B \in SUBSET Buffers, s \in Streams : Copy(B, s) \/ Launch(B, s)
    \/ \E b \in Buffers, s \in Streams : RawPointerFor(b, s) \/ ForeignWork(b, s)
    \/ \E b \in Buffers : TakeView(b) \/ Drop(b)
    \/ \E c \in Contexts : ReportError(c)
    \/ \E s \in Streams : StreamStep(s)

Spec == Init /\ [][Next]_vars

(* The device runs what is queued, and a host thread inside a drop goes on *)
(* once the synchronization lets it.                                       *)
Fairness ==
    /\ \A s \in Streams : WF_vars(StreamStep(s))
    /\ \A b \in Buffers : WF_vars(FinishDrain(b))

FairSpec == Spec /\ Fairness

-----------------------------------------------------------------------------

(* Every variable has its type, handles and waits within their bounds.     *)
TypeOK ==
    /\ home \in [Buffers -> Streams \cup {NoStream}]
    /\ phase \in [Buffers -> Phases]
    /\ handles \in [Buffers -> 0..MaxHandles]
    /\ crossStream \in [Buffers -> BOOLEAN]
    /\ exported \in SUBSET (Buffers \X Streams)
    /\ queue \in [Streams -> Seq(Operation)]
    /\ awaiting \in [Buffers -> [Streams -> Nat]]
    /\ resident \in [Buffers -> {"absent", "live", "released"}]
    /\ errorState \in [Contexts -> BOOLEAN]
    /\ unsynced \in SUBSET Buffers

Pending(s) == 1..Len(queue[s])

UsedBy(b, s, i) == queue[s][i].kind = "use" /\ b \in queue[s][i].on

InUse(b) == \E s \in Streams : \E i \in Pending(s) : UsedBy(b, s, i)

(* Memory is given back to the pool only when no queued work of any stream *)
(* still uses it.  The exception is a shared buffer whose drop could not   *)
(* wait for the context.                                                   *)
NoUseAfterFree ==
    \A b \in Buffers \ unsynced : resident[b] = "released" => ~InUse(b)

(* What raw_pointer_for and the tests say of every drop: a buffer used on  *)
(* another stream is freed only after the work that uses it.               *)
DropWaitsForEveryUse == \A b \in Buffers : resident[b] = "released" => ~InUse(b)

(* An allocation is freed once: by the drop of its last handle, never      *)
(* while a view is alive, and never a second time.                         *)
FreedOnce ==
    \A b \in Buffers :
        /\ resident[b] = "released" => handles[b] = 0
        /\ \A s \in Streams : \A i \in Pending(s) : queue[s][i] = Free(b) =>
              /\ handles[b] = 0
              /\ resident[b] # "released"
              /\ \A t \in Streams : \A j \in Pending(t) :
                    queue[t][j] = Free(b) => t = s /\ j = i

(* A dropped allocation is eventually given back, however much other work  *)
(* the streams of its context receive while the drop waits.                *)
DroppedIsReclaimed ==
    \A b \in Buffers :
        phase[b] \in {"draining", "dropped"} ~> resident[b] = "released"

-----------------------------------------------------------------------------
(* The inductive invariant behind NoUseAfterFree.                          *)

(* Every queued operation mentions allocated buffers of the context of its *)
(* stream; only uses leave the allocation stream, and those are flagged.   *)
QueuedSoundly ==
    \A s \in Streams : \A i \in Pending(s) : \A b \in queue[s][i].on :
        /\ phase[b] # "unused"
        /\ home[b] \in Streams
        /\ SameContext(b, s)
        /\ s # home[b] => queue[s][i].kind = "use" /\ crossStream[b]

(* A free is queued by a finished drop, and nothing that mentions the      *)
(* buffer is behind it on its stream.                                      *)
FreeIsLast ==
    \A s \in Streams : \A i \in Pending(s) : \A b \in queue[s][i].on :
        queue[s][i].kind = "free" =>
            /\ phase[b] = "dropped"
            /\ \A j \in Pending(s) : j > i => b \notin queue[s][j].on

(* While a drop waits, the uses of its buffer are among the operations it  *)
(* waits for.                                                              *)
DrainCoversUses ==
    \A b \in Buffers : phase[b] = "draining" =>
        \A s \in Streams : \A i \in Pending(s) :
            UsedBy(b, s, i) => i <= awaiting[b][s]

(* After a drop that waited, or had nothing to wait for, no stream but the *)
(* allocation stream has work that uses the buffer.                        *)
DroppedIsLocal ==
    \A b \in Buffers \ unsynced : phase[b] = "dropped" =>
        \A s \in Streams \ {home[b]} : \A i \in Pending(s) : ~UsedBy(b, s, i)

ReleasedIsIdle ==
    \A b \in Buffers : resident[b] = "released" =>
        /\ phase[b] = "dropped"
        /\ \A i \in Pending(home[b]) : b \notin queue[home[b]][i].on

(* Foreign code holds addresses only for streams of the buffer's context,  *)
(* and for another stream than its own only with the flag stored.          *)
ExportedIsFlagged ==
    \A b \in Buffers, s \in Streams : <<b, s>> \in exported =>
        /\ phase[b] # "unused"
        /\ SameContext(b, s)
        /\ home[b] # s => crossStream[b]

(* A buffer has an allocation stream from its allocation on.               *)
HomeIsSet ==
    \A b \in Buffers : home[b] \in Streams <=> phase[b] # "unused"

(* The conjunction is inductive: every reachable state satisfies it, and   *)
(* it implies NoUseAfterFree.                                              *)
IInv ==
    /\ TypeOK
    /\ QueuedSoundly
    /\ FreeIsLast
    /\ DrainCoversUses
    /\ DroppedIsLocal
    /\ ReleasedIsIdle
    /\ ExportedIsFlagged
    /\ HomeIsSet

-----------------------------------------------------------------------------
(* The refinement of SafeReclaim.  An allocation is reclaimed when the     *)
(* device has run its free, and a stream uses what its queue mentions.     *)

LifeOf(b) ==
    IF resident[b] = "released" THEN "reclaimed"
    ELSE IF phase[b] = "unused" THEN "none"
    ELSE IF phase[b] = "held" THEN "owned" ELSE "abandoned"

Reclaiming == INSTANCE SafeReclaim WITH
    Workers <- Streams,
    life    <- [b \in Buffers |-> LifeOf(b)],
    inUse   <- {u \in Buffers \X Streams :
                    \E i \in Pending(u[2]) : UsedBy(u[1], u[2], i)}

(* Without driver faults device memory implements its promise.             *)
ReclaimsSafely == Reclaiming!AbstractSpec
=============================================================================
