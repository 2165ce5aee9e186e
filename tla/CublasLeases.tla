---------------------------- MODULE CublasLeases ----------------------------
(***************************************************************************)
(* Plans that multiply matrices through cuBLAS: sys/src/platform/vendor    *)
(* over sys/native/cublas*.  The plans of one stream share a native handle *)
(* (and, for cuBLASLt, a workspace) that the first of them creates and the *)
(* last one destroys.  Launches on a cuBLAS handle exclude each other;     *)
(* products of F32 switch the handle's math mode for their launch.         *)
(*                                                                         *)
(* A registry, with a mutex of its own, counts the leases: acquisition and *)
(* release are single steps.  A plan is used by one thread at a time, but  *)
(* plans of one stream may be used by several.  A call that is refused     *)
(* before it reaches the registry or the handle changes nothing.           *)
(***************************************************************************)
EXTENDS Naturals, Sequences, FiniteSets

CONSTANTS
    Contexts,    \* CUDA contexts
    Streams,     \* CUDA streams
    ContextOf,   \* the context of each stream
    Plans,       \* identities of plans, each created once
    Handles,     \* native handles; a destroyed one is used again
    Workspaces,  \* device workspaces of cuBLASLt handles
    None,        \* no handle, workspace, context, stream or plan
    MaxExecutes, \* bound: launches of each plan
    MaxQueue,    \* bound: products waiting on one stream
    Failures     \* whether native calls may fail

ASSUME LeaseConstants ==
    /\ ContextOf \in [Streams -> Contexts]
    /\ None \notin Contexts \cup Streams \cup Plans \cup Handles \cup Workspaces
    /\ MaxExecutes \in Nat /\ MaxQueue \in Nat
    /\ Failures \in BOOLEAN

ASSUME FinitelyManyPlans == IsFiniteSet(Plans)

VARIABLES
    entries,   \* the registry: a shared lease and its count under each key
    alive,     \* native handles that exist
    mode,      \* math mode of each handle
    launching, \* the plan that holds the launch mutex of each key
    phase,     \* where each plan is in its life or its call
    family,    \* lt or blas
    single,    \* whether the plan multiplies F32
    stream,    \* the stream of each plan
    lease,     \* what the plan leased
    saved,     \* the mode that with_math_mode found
    executes,  \* launches each plan started
    queue,     \* workspace operations queued on each stream and not yet run
    resident,  \* workspaces that exist on the device
    stuck      \* history: handles whose mode could not be restored

plan   == <<family, single, stream>>
device == <<queue, resident>>
vars   == <<entries, alive, mode, launching, phase, family, single, stream,
            lease, saved, executes, queue, resident, stuck>>

Families == {"lt", "blas"}
Keys     == Families \X Contexts \X Streams
Modes    == {"default", "tensor"}

Absent   == [handle |-> None, workspace |-> None, leases |-> 0]
NoLease  == [handle |-> None, workspace |-> None, context |-> None]

Op(kind, w) == [kind |-> kind, on |-> w]

(* Phases of a plan that holds a lease, and of one inside a launch.        *)
Launching == {"get", "set", "launch", "restore"}
Leasing   == {p \in Plans : phase[p] \in {"preparing", "ready", "locking"} \cup Launching}

Home(p) == ContextOf[stream[p]]
KeyOf(p) == <<family[p], lease[p].context, stream[p]>>

Go(p, next) == phase' = [phase EXCEPT ![p] = next]

Mentioned(w) == \E s \in Streams : \E i \in 1..Len(queue[s]) : queue[s][i].on = w

-----------------------------------------------------------------------------

Init ==
    /\ entries   = [k \in Keys |-> Absent]
    /\ alive     = {}
    /\ mode      = [h \in Handles |-> "tensor"]
    /\ launching = [k \in Keys |-> None]
    /\ phase     = [p \in Plans |-> "new"]
    /\ family    = [p \in Plans |-> "blas"]
    /\ single    = [p \in Plans |-> FALSE]
    /\ stream    = [p \in Plans |-> None]
    /\ lease     = [p \in Plans |-> NoLease]
    /\ saved     = [p \in Plans |-> "tensor"]
    /\ executes  = [p \in Plans |-> 0]
    /\ queue     = [s \in Streams |-> <<>>]
    /\ resident  = {}
    /\ stuck     = {}

(* A fresh handle: cuBLAS handles are put in tensor mode, cuBLASLt handles *)
(* come with a workspace that is allocated in the order of the stream.     *)
Create(k, s) ==
    \E h \in Handles \ alive :
        /\ alive' = alive \cup {h}
        /\ mode' = [mode EXCEPT ![h] = "tensor"]
        /\ stuck' = stuck \ {h}
        /\ IF k[1] = "lt"
           THEN \E w \in Workspaces \ resident :
                    /\ ~Mentioned(w)
                    /\ queue' = [queue EXCEPT ![s] = Append(@, Op("alloc", w))]
                    /\ entries' = [entries EXCEPT ![k] =
                           [handle |-> h, workspace |-> w, leases |-> 1]]
           ELSE /\ entries' = [entries EXCEPT ![k] =
                       [handle |-> h, workspace |-> None, leases |-> 1]]
                /\ UNCHANGED queue

(* A shared lease is counted twice (mutant).                               *)
ShareTwice(k) ==
    /\ entries' = [entries EXCEPT ![k].leases = @ + 2]
    /\ UNCHANGED <<alive, mode, stuck, queue>>

Share(k) ==
    /\ entries' = [entries EXCEPT ![k].leases = @ + 1]
    /\ UNCHANGED <<alive, mode, stuck, queue>>

(* acquire_lt and acquire_blas: the first lease of a key creates.          *)
Acquire(k, s) ==
    IF entries[k].leases = 0 THEN Create(k, s) ELSE Share(k)

(* create: the context is bound, so the key holds the stream's context. A  *)
(* failing acquisition takes back what it made.  A cuBLASLt plan goes on   *)
(* to prepare its descriptors; the lease it copies may be given back then. *)
CreatePlan(p, f, x, s) ==
    LET k == <<f, ContextOf[s], s>> IN
    /\ phase[p] = "new"
    /\ f = "lt" => ~x
    /\ family' = [family EXCEPT ![p] = f]
    /\ single' = [single EXCEPT ![p] = x]
    /\ stream' = [stream EXCEPT ![p] = s]
    /\ \/ /\ Acquire(k, s)
          /\ lease' = [lease EXCEPT ![p] =
                 [handle |-> entries'[k].handle, workspace |-> entries'[k].workspace,
                  context |-> ContextOf[s]]]
          /\ Go(p, IF f = "lt" THEN "preparing" ELSE "ready")
       \/ /\ Failures
          /\ Go(p, "gone")
          /\ UNCHANGED <<entries, alive, mode, stuck, lease, queue>>
    /\ UNCHANGED <<launching, saved, executes, resident>>

(* The context under which a release looks its entry up: whatever context  *)
(* the thread has (mutant).                                                *)
CurrentContext(p, current) == current

(* The context under which a release looks its entry up: the one the lease *)
(* was acquired in, since a drop goes on when it could not bind its own.   *)
ReleaseContext(p, current) == lease[p].context

(* The workspace is freed at once, ahead of the stream's work (mutant).    *)
DestroyAhead(k, s) ==
    /\ entries' = [entries EXCEPT ![k] = Absent]
    /\ alive' = alive \ {entries[k].handle}
    /\ IF k[1] = "lt"
       THEN queue' = [queue EXCEPT ![s] = <<Op("free", entries[k].workspace)>> \o @]
       ELSE UNCHANGED queue

(* The last lease destroys the handle and frees the workspace behind the   *)
(* work of the stream, or loses it when the free is refused.               *)
Destroy(k, s) ==
    /\ entries' = [entries EXCEPT ![k] = Absent]
    /\ alive' = alive \ {entries[k].handle}
    /\ IF k[1] = "lt"
       THEN \/ queue' = [queue EXCEPT ![s] = Append(@, Op("free", entries[k].workspace))]
            \/ Failures /\ UNCHANGED queue
       ELSE UNCHANGED queue

(* release_lt and release_blas.                                            *)
Release(p, current) ==
    LET k == <<family[p], ReleaseContext(p, current), stream[p]>> IN
    /\ CASE entries[k].leases = 0 -> UNCHANGED <<entries, alive, queue>>
         [] entries[k].leases = 1 -> Destroy(k, stream[p])
         [] OTHER -> /\ entries' = [entries EXCEPT ![k].leases = @ - 1]
                     /\ UNCHANGED <<alive, queue>>
    /\ lease' = [lease EXCEPT ![p] = NoLease]
    /\ Go(p, "gone")
    /\ UNCHANGED <<mode, launching, plan, saved, executes, resident, stuck>>

(* The rest of prepare: one of its steps fails and the plan is released,   *)
(* or the plan is ready.                                                   *)
Prepare(p) ==
    /\ phase[p] = "preparing"
    /\ \/ /\ Go(p, "ready")
          /\ UNCHANGED <<entries, alive, mode, launching, plan, lease, saved,
                         executes, device, stuck>>
       \/ Failures /\ Release(p, Home(p))

(* The drop of a plan.  Its thread may be left in another context.         *)
DropPlan(p, current) ==
    /\ phase[p] = "ready"
    /\ current = Home(p) \/ Failures
    /\ Release(p, current)

-----------------------------------------------------------------------------

(* cuBLASLt handles are reentrant: the product is queued with the leased   *)
(* workspace.                                                              *)
ExecuteLt(p) ==
    /\ phase[p] = "ready" /\ family[p] = "lt"
    /\ executes[p] < MaxExecutes
    /\ Len(queue[stream[p]]) < MaxQueue
    /\ executes' = [executes EXCEPT ![p] = @ + 1]
    /\ queue' = [queue EXCEPT ![stream[p]] = Append(@, Op("product", lease[p].workspace))]
    /\ UNCHANGED <<entries, alive, mode, launching, phase, plan, lease, saved,
                   resident, stuck>>

BeginExecute(p) ==
    /\ phase[p] = "ready" /\ family[p] = "blas"
    /\ executes[p] < MaxExecutes
    /\ executes' = [executes EXCEPT ![p] = @ + 1]
    /\ Go(p, "locking")
    /\ UNCHANGED <<entries, alive, mode, launching, plan, lease, saved, device, stuck>>

(* A BF16 product does not take the launch mutex (mutant).                 *)
LockSingle(p) ==
    /\ phase[p] = "locking"
    /\ single[p] => launching[KeyOf(p)] = None
    /\ launching' = IF single[p] THEN [launching EXCEPT ![KeyOf(p)] = p] ELSE launching
    /\ Go(p, IF single[p] THEN "get" ELSE "launch")
    /\ UNCHANGED <<entries, alive, mode, plan, lease, saved, executes, device, stuck>>

(* The launch mutex of the shared handle.                                  *)
LockLaunch(p) ==
    /\ phase[p] = "locking"
    /\ launching[KeyOf(p)] = None
    /\ launching' = [launching EXCEPT ![KeyOf(p)] = p]
    /\ Go(p, IF single[p] THEN "get" ELSE "launch")
    /\ UNCHANGED <<entries, alive, mode, plan, lease, saved, executes, device, stuck>>

(* The call returns and its guard goes out of scope.                       *)
Return(p) ==
    /\ Go(p, "ready")
    /\ launching' = [k \in Keys |-> IF launching[k] = p THEN None ELSE launching[k]]

GetMathMode(p) ==
    /\ phase[p] = "get"
    /\ \/ /\ saved' = [saved EXCEPT ![p] = mode[lease[p].handle]]
          /\ Go(p, "set")
          /\ UNCHANGED launching
       \/ Failures /\ Return(p) /\ UNCHANGED saved
    /\ UNCHANGED <<entries, alive, mode, plan, lease, executes, device, stuck>>

SetMathMode(p) ==
    /\ phase[p] = "set"
    /\ \/ /\ mode' = [mode EXCEPT ![lease[p].handle] = "default"]
          /\ Go(p, "launch")
          /\ UNCHANGED launching
       \/ Failures /\ Return(p) /\ UNCHANGED mode
    /\ UNCHANGED <<entries, alive, plan, lease, saved, executes, device, stuck>>

(* A launch that fails returns before the mode is restored (mutant).       *)
LaunchOrReturn(p) ==
    /\ phase[p] = "launch"
    /\ \/ single[p] /\ Go(p, "restore") /\ UNCHANGED launching
       \/ (~single[p] \/ Failures) /\ Return(p)
    /\ UNCHANGED <<entries, alive, mode, plan, lease, saved, executes, device, stuck>>

(* The product is launched, or refused; either way the mode is restored.   *)
Launch(p) ==
    /\ phase[p] = "launch"
    /\ IF single[p] THEN Go(p, "restore") /\ UNCHANGED launching ELSE Return(p)
    /\ UNCHANGED <<entries, alive, mode, plan, lease, saved, executes, device, stuck>>

(* An unrestored mode keeps the mutex (mutant).                            *)
RestoreLocked(p) ==
    /\ phase[p] = "restore"
    /\ \/ /\ mode' = [mode EXCEPT ![lease[p].handle] = saved[p]]
          /\ Return(p)
          /\ UNCHANGED stuck
       \/ /\ Failures
          /\ stuck' = stuck \cup {lease[p].handle}
          /\ Go(p, "ready")
          /\ UNCHANGED <<mode, launching>>
    /\ UNCHANGED <<entries, alive, plan, lease, saved, executes, device>>

RestoreMathMode(p) ==
    /\ phase[p] = "restore"
    /\ Return(p)
    /\ \/ /\ mode' = [mode EXCEPT ![lease[p].handle] = saved[p]]
          /\ UNCHANGED stuck
       \/ /\ Failures
          /\ stuck' = stuck \cup {lease[p].handle}
          /\ UNCHANGED mode
    /\ UNCHANGED <<entries, alive, plan, lease, saved, executes, device>>

(* The device runs the oldest operation of a stream.                       *)
StreamStep(s) ==
    /\ queue[s] # <<>>
    /\ queue' = [queue EXCEPT ![s] = Tail(@)]
    /\ LET op == Head(queue[s]) IN
       resident' = CASE op.kind = "alloc"   -> resident \cup {op.on}
                     [] op.kind = "free"    -> resident \ {op.on}
                     [] op.kind = "product" -> resident
    /\ UNCHANGED <<entries, alive, mode, launching, phase, plan, lease, saved,
                   executes, stuck>>

Execute(p) ==
    \/ GetMathMode(p) \/ SetMathMode(p) \/ Launch(p) \/ RestoreMathMode(p)

Next ==
    \/ \E p \in Plans :
        \/ \E f \in Families, x \in BOOLEAN, s \in Streams : CreatePlan(p, f, x, s)
        \/ \E c \in Contexts : DropPlan(p, c)
        \/ Prepare(p) \/ ExecuteLt(p) \/ BeginExecute(p) \/ LockLaunch(p) \/ Execute(p)
    \/ \E s \in Streams : StreamStep(s)

Spec == Init /\ [][Next]_vars

(* A thread inside an execute goes on, and takes the launch mutex once it  *)
(* stays free.  No fair mutex is assumed: executes are finitely many.      *)
Fairness == \A p \in Plans : WF_vars(Execute(p)) /\ WF_vars(LockLaunch(p))

FairSpec == Spec /\ Fairness

-----------------------------------------------------------------------------

(* Every variable has its type.                                            *)
TypeOK ==
    /\ entries \in [Keys -> [handle : Handles \cup {None},
                             workspace : Workspaces \cup {None},
                             leases : 0..Cardinality(Plans)]]
    /\ alive \in SUBSET Handles
    /\ mode \in [Handles -> Modes]
    /\ launching \in [Keys -> Plans \cup {None}]
    /\ phase \in [Plans -> {"new", "preparing", "ready", "locking", "gone"}
                               \cup Launching]
    /\ family \in [Plans -> Families]
    /\ single \in [Plans -> BOOLEAN]
    /\ stream \in [Plans -> Streams \cup {None}]
    /\ lease \in [Plans -> [handle : Handles \cup {None},
                            workspace : Workspaces \cup {None},
                            context : Contexts \cup {None}]]
    /\ saved \in [Plans -> Modes]
    /\ executes \in [Plans -> 0..MaxExecutes]
    /\ queue \in [Streams -> Seq([kind : {"alloc", "free", "product"},
                                  on : Workspaces])]
    /\ resident \in SUBSET Workspaces
    /\ stuck \in SUBSET Handles

(* A native handle exists exactly while a plan leases it, whatever creates *)
(* fail and in whatever order plans are dropped, and its plans are those   *)
(* of one family, context and stream.                                      *)
HandlesLiveWithLeases ==
    /\ alive = {lease[p].handle : p \in Leasing}
    /\ \A p, q \in Leasing :
           lease[p].handle = lease[q].handle <=> KeyOf(p) = KeyOf(q)

(* A cuBLAS handle is in one launch at a time, although the plans that     *)
(* share it are used by several threads.                                   *)
HandleIsExclusive ==
    \A p, q \in Plans :
        /\ p # q
        /\ phase[p] \in Launching /\ phase[q] \in Launching
        => lease[p].handle # lease[q].handle

(* F32 products are launched in default mode and BF16 products in tensor   *)
(* mode, also after launches and calls that failed, unless the handle      *)
(* refused to be put back.                                                 *)
LaunchesInItsMode ==
    \A p \in Plans : phase[p] = "launch" /\ lease[p].handle \notin stuck =>
        mode[lease[p].handle] = IF single[p] THEN "default" ELSE "tensor"

(* The device runs a product while its workspace exists, also when the     *)
(* last plan of the stream was dropped before.                             *)
WorkspaceOutlivesWork ==
    \A s \in Streams : queue[s] # <<>> /\ Head(queue[s]).kind = "product" =>
        Head(queue[s]).on \in resident

(* Every execute ends: no failure keeps the launch mutex.                  *)
ExecutesEnd == \A p \in Plans : phase[p] = "locking" ~> phase[p] = "ready"
=============================================================================
