--------------------------- MODULE PinnedTransfers ---------------------------
(***************************************************************************)
(* Page-locked host memory: PinnedBuffer of sys/src/platform/memory and    *)
(* the events of sys/src/platform/event.rs.  Every pinned buffer owns one  *)
(* CUDA event.  A transfer queues the copy and then records that event on  *)
(* the same stream; host access and the drop wait for the event, that is   *)
(* for its latest record only.  Callers order streams among themselves     *)
(* with events of their own.                                               *)
(*                                                                         *)
(* Transfers and host access borrow the buffer mutably, so the calls on    *)
(* one buffer exclude each other; the device runs on meanwhile.            *)
(***************************************************************************)
EXTENDS Naturals, Sequences

CONSTANTS
    Streams,     \* CUDA streams of one context
    Buffers,     \* pinned buffers, each with its own event
    Events,      \* events of the callers
    MaxRecords,  \* bound: how often one event is recorded
    MaxQueue,    \* bound: operations waiting on one stream
    DriverFaults \* whether recording or synchronizing an event may fail

ASSUME DistinctEvents   == Buffers \cap Events = {}
ASSUME BoundsAssumption == MaxRecords \in Nat /\ MaxQueue \in Nat
ASSUME FaultsAssumption == DriverFaults \in BOOLEAN

VARIABLES
    queue,    \* operations queued on each stream and not yet run
    recorded, \* how often each event was recorded; the last one counts
    access,   \* what the host does with each buffer
    behind,   \* history: transfers that the end of each stream is ordered behind
    carried,  \* history: transfers that the last record of an event is behind
    loose     \* history: buffers with a transfer its event does not stand for

vars == <<queue, recorded, access, behind, carried, loose>>

AllEvents == Buffers \cup Events

Transfer(p, n) == [kind |-> "copy",   on |-> p, mark |-> n]
Record(e, n)   == [kind |-> "record", on |-> e, mark |-> n]
Await(e, n)    == [kind |-> "wait",   on |-> e, mark |-> n]

Queued(op) == \E s \in Streams : \E i \in 1..Len(queue[s]) : queue[s][i] = op

(* A record is complete once its stream has run it; an event that was      *)
(* never recorded counts as complete.                                      *)
Completed(e, n) == ~Queued(Record(e, n))

PendingTransfers(p) ==
    {t \in {p} \X (1..(MaxRecords + 1)) : Queued(Transfer(t[1], t[2]))}

HasRoom(s, n) == Len(queue[s]) + n <= MaxQueue

Enqueue(s, ops) == queue' = [queue EXCEPT ![s] = @ \o ops]

-----------------------------------------------------------------------------

Init ==
    /\ queue    = [s \in Streams |-> <<>>]
    /\ recorded = [e \in AllEvents |-> 0]
    /\ access   = [p \in Buffers |-> "idle"]
    /\ behind   = [s \in Streams |-> {}]
    /\ carried  = [e \in AllEvents |-> {}]
    /\ loose    = {}

(* The event is recorded before the copy is queued (mutant).               *)
RecordFirst(p, n) == <<Record(p, n), Transfer(p, n)>>

(* Stream::copy_to_device and copy_to_host: the copy, then the record.     *)
CopyOps(p, n) == <<Transfer(p, n), Record(p, n)>>

(* The event stays as it was (mutant).                                     *)
CopyWithoutRecord(p, s, n) ==
    /\ Enqueue(s, <<Transfer(p, n)>>)
    /\ UNCHANGED <<recorded, carried, loose>>

CopyAndRecord(p, s, n) ==
    /\ Enqueue(s, CopyOps(p, n))
    /\ recorded' = [recorded EXCEPT ![p] = n]
    /\ carried' = [carried EXCEPT ![p] = behind'[s]]
    /\ loose' = IF PendingTransfers(p) \subseteq behind[s] THEN loose ELSE loose \cup {p}

(* The copy is queued but the record fails; the call returns the error.    *)
CopyUnrecorded(p, s, n) ==
    /\ DriverFaults
    /\ Enqueue(s, <<Transfer(p, n)>>)
    /\ loose' = loose \cup {p}
    /\ UNCHANGED <<recorded, carried>>

Copy(p, s) ==
    LET n == recorded[p] + 1 IN
    /\ access[p] = "idle"
    /\ recorded[p] < MaxRecords
    /\ HasRoom(s, 2)
    /\ behind' = [behind EXCEPT ![s] = @ \cup {<<p, n>>}]
    /\ CopyAndRecord(p, s, n) \/ CopyUnrecorded(p, s, n)
    /\ UNCHANGED access

(* Event::record by a caller.                                              *)
RecordEvent(e, s) ==
    /\ recorded[e] < MaxRecords
    /\ HasRoom(s, 1)
    /\ Enqueue(s, <<Record(e, recorded[e] + 1)>>)
    /\ recorded' = [recorded EXCEPT ![e] = @ + 1]
    /\ carried' = [carried EXCEPT ![e] = behind[s]]
    /\ UNCHANGED <<access, behind, loose>>

(* Stream::wait: the rest of the stream waits for the record that is the   *)
(* event's latest at the time of the call.                                 *)
StreamWait(s, e) ==
    /\ HasRoom(s, 1)
    /\ Enqueue(s, <<Await(e, recorded[e])>>)
    /\ behind' = [behind EXCEPT ![s] = @ \cup carried[e]]
    /\ UNCHANGED <<recorded, access, carried, loose>>

(* with_slice and with_mut_slice: wait for the event, run the closure.     *)
BeginAccess(p) ==
    /\ access[p] = "idle"
    /\ access' = [access EXCEPT ![p] = "waiting"]
    /\ UNCHANGED <<queue, recorded, behind, carried, loose>>

EnterAccess(p) ==
    /\ access[p] = "waiting"
    /\ Completed(p, recorded[p])
    /\ access' = [access EXCEPT ![p] = "inside"]
    /\ UNCHANGED <<queue, recorded, behind, carried, loose>>

AccessFails(p) ==
    /\ DriverFaults
    /\ access[p] = "waiting"
    /\ access' = [access EXCEPT ![p] = "idle"]
    /\ UNCHANGED <<queue, recorded, behind, carried, loose>>

LeaveAccess(p) ==
    /\ access[p] = "inside"
    /\ access' = [access EXCEPT ![p] = "idle"]
    /\ UNCHANGED <<queue, recorded, behind, carried, loose>>

(* PinnedBuffer::drop waits for the event and frees the memory, and frees  *)
(* it all the same when the wait fails.                                    *)
BeginDrop(p) ==
    /\ access[p] = "idle"
    /\ access' = [access EXCEPT ![p] = "dropping"]
    /\ UNCHANGED <<queue, recorded, behind, carried, loose>>

FinishDrop(p) ==
    /\ access[p] = "dropping"
    /\ access' = [access EXCEPT ![p] = "freed"]
    /\ \/ Completed(p, recorded[p]) /\ UNCHANGED loose
       \/ DriverFaults /\ loose' = loose \cup {p}
    /\ UNCHANGED <<queue, recorded, behind, carried>>

(* The device runs the oldest operation of a stream; a wait runs once its  *)
(* record has.                                                             *)
StreamStep(s) ==
    /\ queue[s] # <<>>
    /\ Head(queue[s]).kind = "wait" =>
           Completed(Head(queue[s]).on, Head(queue[s]).mark)
    /\ queue' = [queue EXCEPT ![s] = Tail(@)]
    /\ UNCHANGED <<recorded, access, behind, carried, loose>>

HostAccess(p) ==
    \/ BeginAccess(p) \/ EnterAccess(p) \/ AccessFails(p) \/ LeaveAccess(p)
    \/ BeginDrop(p) \/ FinishDrop(p)

Next ==
    \/ \E p \in Buffers : HostAccess(p) \/ \E s \in Streams : Copy(p, s)
    \/ \E e \in Events, s \in Streams : RecordEvent(e, s) \/ StreamWait(s, e)
    \/ \E s \in Streams : StreamStep(s)

Spec == Init /\ [][Next]_vars

-----------------------------------------------------------------------------

(* Every variable has its type.                                            *)
TypeOK ==
    /\ \A s \in Streams : \A i \in 1..Len(queue[s]) :
           /\ queue[s][i].kind \in {"copy", "record", "wait"}
           /\ queue[s][i].on \in AllEvents
           /\ queue[s][i].mark \in Nat
    /\ recorded \in [AllEvents -> Nat]
    /\ access \in [Buffers -> {"idle", "waiting", "inside", "dropping", "freed"}]
    /\ behind \in [Streams -> SUBSET (Buffers \X Nat)]
    /\ carried \in [AllEvents -> SUBSET (Buffers \X Nat)]
    /\ loose \in SUBSET Buffers

(* A pinned buffer's one event stands for all of its transfers, "alive     *)
(* through the recorded event": while any of them is queued, on whatever   *)
(* stream, the event's last record is queued too, unless a transfer was    *)
(* not recorded or not ordered behind the earlier ones.                    *)
EventCoversTransfers ==
    \A p \in Buffers \ loose :
        Completed(p, recorded[p]) => PendingTransfers(p) = {}

(* The host touches or frees a pinned buffer only when the device does not *)
(* transfer it, as long as every transfer was ordered behind the earlier   *)
(* ones, by its stream or through events, and was recorded.                *)
HostAccessIsExclusive ==
    \A p \in Buffers \ loose :
        access[p] \in {"inside", "freed"} => PendingTransfers(p) = {}

(* What copy_from_slice, with_bytes and to_vec say: access comes after the *)
(* prior transfers, whatever streams they were queued on.                  *)
AccessFollowsPriorTransfers ==
    \A p \in Buffers : access[p] = "inside" => PendingTransfers(p) = {}
=============================================================================
