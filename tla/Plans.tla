------------------------------- MODULE Plans --------------------------------
(***************************************************************************)
(* Matrix and attention plans, Marlin calls and MXFP8 kernels in use:      *)
(* src/cutlass, src/marlin and src/mxfp8 over sys/src/platform/cutlass,    *)
(* sys/src/platform/marlin and native/.  A host thread creates a plan with *)
(* native memory on a stream, calls it with operands that this module      *)
(* knows by their length and stream, and drops it.  Calls queue kernels;   *)
(* the device runs each stream's kernels in order, the kernel that sorts   *)
(* Marlin's rows step by step.                                             *)
(*                                                                         *)
(* Tensor Core projections of src/mxfp8/tensor_core.rs quantize into a     *)
(* scratch that several share, each under locks, by several threads.       *)
(***************************************************************************)
EXTENDS PlanShapes, MoeRoutes

CONSTANTS
    HostThreads,        \* threads of the host
    Own, Other,         \* two streams of the plans' context: the one that
                        \* plans are created on, and another
    Foreign,            \* a stream of another context
    Nobody,             \* holder of a free lock
    Worlds              \* what there is: shapes of slots, threads at work,
                        \* the calls at most (bound), whether slots are
                        \* projections with one scratch, and the experts
                        \* that rows select

ASSUME ThreeStreams    == Own # Other /\ Foreign \notin {Own, Other}
ASSUME NobodyAssumption == Nobody \notin HostThreads

(* What the native side of a kind of plan is like.  Every call checks its  *)
(* buffers; one that uses memory of a plan is of the plan's stream; and a  *)
(* product whose operands are in tables comes right after their setup.     *)
CheckNames  == {"stream", "context", "buffers", "sizes", "bind"}
KernelNames == {"setup", "gemm", "routes"}

CreationIsKnown(native) ==
    /\ native.creation \in Seq({"alloc", "init"})
    /\ native.binds \in BOOLEAN

CallIsKnown(native, order) ==
    LET kernels == native.kernels  Sets == "setup" \in Range(kernels) IN
    /\ kernels \in Seq(KernelNames) \ {<<>>}
    /\ order \in Seq(CheckNames)
    /\ native.errors \in {"peek", "get", "driver"}
    /\ native.partial \in BOOLEAN
    /\ "buffers" \in Range(order) /\ Range(order) \cap {"stream", "context"} # {}
    /\ native.creation # <<>> \/ Sets => "stream" \in Range(order)
    /\ Sets => \A i \in DOMAIN kernels :
                  kernels[i] = "gemm" => i > 1 /\ kernels[i - 1] = "setup"

ASSUME WorldsAreKnown ==
    \A w \in Worlds :
        /\ w.threads \subseteq HostThreads /\ w.calls \in Nat
        /\ w.shared \in BOOLEAN
        /\ \A slot \in DOMAIN w.shapes :
             LET shape == w.shapes[slot] IN
             /\ shape.spec \in BOOLEAN
             /\ shape.spec => CreationIsKnown(shape.native)
             /\ (shape.spec /\ shape.create) =>
                    CallIsKnown(shape.native, shape.execute.order)

(* Rows that select experts, of which there is one at least, by number.    *)
ASSUME RoutesAreKnown ==
    \A w \in Worlds :
        /\ w.routes.experts \in Nat \ {0} /\ w.routes.block \in Nat \ {0}
        /\ \A selected \in w.routes.selections :
             /\ IsFiniteSet(DOMAIN selected)
             /\ selected \in [0..(Cardinality(DOMAIN selected) - 1) -> Nat]

VARIABLES
    world,     \* one of Worlds
    plan,      \* slot -> "none", "ready", "failed" or "dropped"
    held,      \* slot -> allocations that its plan owns
    resident,  \* slot -> allocations that exist on the device
    queue,     \* stream -> kernels, allocations and frees in order
    tables,    \* slot -> calls whose operands its pointer tables name
    scratch,   \* call that the shared scratch holds the quantized input of
    pending,   \* thread -> whether a launch error waits for a reader
    calls,     \* calls begun, which number them
    strays,    \* calls that quantized on a stream not the plan's
    misread,   \* products of other calls' data: the product and those calls
    last,      \* the call of a plan that the latest step was, if it was:
               \* its operands and what became of it
    doing,     \* thread -> where it is in a projection
    locks      \* lock -> thread, of the scratch's two and of each plan

vars == <<world, plan, held, resident, queue, tables, scratch, pending, calls,
          strays, misread, last, doing, locks, routing>>

Streams == {Own, Other}
Slots   == DOMAIN world.shapes

(* Where a thread in a projection waits or works.                          *)
Phases  == {"quantized", "scales", "quantize", "plan", "execute"}
Locks   == {<<"quantized", 0>>, <<"scales", 0>>} \cup ({"plan"} \X Slots)

NoCall  == [slot |-> 0, stream |-> Own, given |-> <<>>, homes |-> <<>>,
            flagged |-> {}, refused |-> "none", launched |-> FALSE]
Nothing == [phase |-> "idle"]

Op(name, slot, call, needs) ==
    [name |-> name, slot |-> slot, call |-> call, needs |-> needs,
     whole |-> TRUE]

-----------------------------------------------------------------------------
(* Creation and drop.                                                      *)

(* The first n steps of a creation, as operations: every allocation of     *)
(* them is named by its number.                                            *)
Allocated(steps, n) == {i \in 1..n : steps[i] = "alloc"}

Prepared(slot, steps, n) ==
    [i \in 1..n |-> Op(steps[i], slot, 0,
                       IF steps[i] = "alloc" THEN {i} ELSE Allocated(steps, i))]

(* A creation that fails, and a drop, give allocations back (mutants: all  *)
(* but the last; all of them twice).                                       *)
ReleasedButLast(slot, pieces) ==
    IF Cardinality(pieces) < 2 THEN <<>>
    ELSE <<Op("free", slot, 0, pieces \ {Max(pieces)})>>

ReleasedTwice(slot, pieces) ==
    IF pieces = {} THEN <<>>
    ELSE <<Op("free", slot, 0, pieces), Op("free", slot, 0, pieces)>>

Released(slot, pieces) ==
    IF pieces = {} THEN <<>> ELSE <<Op("free", slot, 0, pieces)>>

Failed(slot, steps, n) ==
    /\ plan' = [plan EXCEPT ![slot] = "failed"]
    /\ queue' = [queue EXCEPT ![Own] =
           @ \o Prepared(slot, steps, n) \o Released(slot, Allocated(steps, n))]

(* A rejected shape changes nothing.  A creation that binds a context      *)
(* fails after any number of its steps: at the next, or at a check between *)
(* them.  An error that waits for a reader fails one that launches.        *)
Create(t, slot) ==
    LET shape == world.shapes[slot]
        steps == shape.native.creation
        Launched(n) == \E i \in 1..n : steps[i] = "init"
    IN
    /\ plan[slot] = "none" /\ shape.spec
    /\ \/ /\ shape.create /\ ~(pending[t] /\ Launched(Len(steps)))
          /\ plan' = [plan EXCEPT ![slot] = "ready"]
          /\ held' = [held EXCEPT ![slot] = Allocated(steps, Len(steps))]
          /\ queue' = [queue EXCEPT ![Own] =
                 @ \o Prepared(slot, steps, Len(steps))]
          /\ UNCHANGED pending
       \/ /\ ~shape.create
          /\ Failed(slot, <<>>, 0)
          /\ UNCHANGED <<held, pending>>
       \/ \E n \in 0..Len(steps) :
          LET launching == n < Len(steps) /\ steps[n + 1] = "init" IN
          /\ shape.create /\ shape.native.binds /\ ~(pending[t] /\ Launched(n))
          /\ Failed(slot, steps, IF launching /\ pending[t] THEN n + 1 ELSE n)
          /\ pending' = [pending EXCEPT ![t] = @ \/ launching]
          /\ UNCHANGED held
    /\ last' = NoCall
    /\ UNCHANGED <<world, resident, tables, scratch, calls, strays, misread,
                   doing, locks, routing>>

(* What plans own when one is gone (mutant: its own are not let go of).    *)
StillOwned(slot) == held

Emptied(slot) == [held EXCEPT ![slot] = {}]

(* Nobody is in a call of a plan that is dropped.  The bind may fail: its  *)
(* error is recorded, and the native plan destroyed all the same.          *)
Drop(slot) ==
    /\ plan[slot] = "ready"
    /\ \A t \in HostThreads : doing[t] # Nothing => doing[t].slot # slot
    /\ plan' = [plan EXCEPT ![slot] = "dropped"]
    /\ held' = Emptied(slot)
    /\ queue' = [queue EXCEPT ![Own] = @ \o Released(slot, held[slot])]
    /\ last' = NoCall
    /\ UNCHANGED <<world, resident, tables, scratch, pending, calls, strays,
                   misread, doing, locks, routing>>

-----------------------------------------------------------------------------
(* A call: its operands, the checks of both layers, and its kernels.       *)

(* The bytes of operands that suit the checks, in elements of the facade.  *)
Fitting(shape) ==
    [i \in DOMAIN shape.lengths |->
        LET facade == shape.lengths[i]  below == shape.sizes[i] IN
        IF i \in DOMAIN shape.execute.prepared THEN shape.execute.prepared[i]
        ELSE IF Over \in {facade.len, below.len} THEN 0
        ELSE facade.width * (IF facade.len > 0 THEN facade.len
                             ELSE DivCeil(below.len, facade.width))]

(* What callers pass: all that suits, or with one thing amiss.  Operands   *)
(* that an earlier call prepared have the length of that call.             *)
Input(given, homes, stream, bind) ==
    [given |-> given, homes |-> homes, stream |-> stream, bind |-> bind]

Inputs(shape) ==
    LET operands == DOMAIN shape.lengths
        given == Fitting(shape)
        homes == [i \in operands |-> Own]
        width(i) == shape.lengths[i].width
        measured == operands \ DOMAIN shape.execute.prepared
    IN {Input(given, homes, Own, bind) : bind \in BOOLEAN}
       \cup {Input(given, [i \in operands |-> Other], Own, TRUE)}
       \cup {Input(given, homes, s, TRUE) : s \in {Other, Foreign}}
       \cup {Input(given, [homes EXCEPT ![at[1]] = at[2]], Own, TRUE) :
                at \in operands \X {Other, Foreign}}
       \cup {Input([given EXCEPT ![i] = @ + width(i)], homes, Own, TRUE) :
                i \in measured}
       \cup {Input([given EXCEPT ![i] = @ - width(i)], homes, Own, TRUE) :
                i \in {j \in measured : given[j] > 0}}

(* The operands that the loop over buffers visits.                         *)
Visited(shape) == DOMAIN shape.lengths \ shape.execute.unseen

Passes(shape, c) ==
    [lengths |-> \A i \in DOMAIN c.given :
                    LET facade == shape.lengths[i] IN
                    Meets(facade, c.given[i] \div facade.width),
     stream  |-> c.stream = Own,
     context |-> c.stream # Foreign,
     buffers |-> \A i \in Visited(shape) : c.homes[i] # Foreign,
     sizes   |-> \A i \in DOMAIN c.given : Meets(shape.sizes[i], c.given[i]),
     bind    |-> c.bind,
     numbers |-> shape.execute.accepted]

(* The checks before one: the facade's lengths first, the numbers last.    *)
Checks(shape) == <<"lengths">> \o shape.execute.order \o <<"numbers">>

Refused(shape, c) ==
    LET order == Checks(shape)
        failing == {i \in DOMAIN order : ~Passes(shape, c)[order[i]]}
    IN IF failing = {} THEN "none" ELSE order[Min(failing)]

(* The loop marks a buffer of another stream of the context, and stops at  *)
(* one of another context (mutant: only the first is marked).              *)
ReachesBuffers(shape, c) ==
    LET order == Checks(shape) IN
    \A i \in DOMAIN order :
        (\A j \in 1..i : order[j] # "buffers") => Passes(shape, c)[order[i]]

FlaggedFirst(shape, c) ==
    {i \in Visited(shape) :
        /\ c.homes[i] \notin {c.stream, Foreign}
        /\ \A j \in Visited(shape) : j < i => c.homes[j] = c.stream
        /\ ReachesBuffers(shape, c)}

Flagged(shape, c) ==
    {i \in Visited(shape) :
        /\ c.homes[i] \notin {c.stream, Foreign}
        /\ \A j \in Visited(shape) : j < i => c.homes[j] # Foreign
        /\ ReachesBuffers(shape, c)}

(* What comes of launching kernels one after another: all of them without  *)
(* an error; up to one that fails; or the first, after which an error of   *)
(* an earlier launch is read.  A product's own check may take the error    *)
(* away that the peek after it would leave (mutant: an error of the setup  *)
(* is not read before the product).                                        *)
Remains(native, kernel, before) ==
    CASE native.errors = "driver" -> {before}
      [] native.errors = "get"    -> {FALSE}
      [] native.errors = "peek"   -> IF kernel = "setup" THEN {TRUE}
                                     ELSE BOOLEAN

OutcomesUnread(native, before) ==
    [ran : {native.kernels, <<Last(native.kernels)>>},
     pending : {before}]

Outcomes(native, before) ==
    LET kernels == native.kernels
        readable == before /\ native.errors # "driver"
    IN (IF readable
        THEN [ran : {<<kernels[1]>>},
              pending : Remains(native, kernels[1], before)]
        ELSE {[ran |-> kernels, pending |-> before]}
             \cup UNION {[ran : {SubSeq(kernels, 1, i - 1)},
                          pending : Remains(native, kernels[i], before)] :
                            i \in DOMAIN kernels})

(* The kernels of a call that ran, as operations on what the plan owns.    *)
Work(slot, call, ran, whole) ==
    [i \in DOMAIN ran |->
        [name |-> ran[i], slot |-> slot, call |-> call, needs |-> held[slot],
         whole |-> whole]]

(* A call of a plan.  Selected weights may be out of range.                *)
Call(t, slot) ==
    LET shape == world.shapes[slot]  native == shape.native IN
    /\ ~world.shared /\ plan[slot] = "ready" /\ calls < world.calls
    /\ calls' = calls + 1
    /\ \E c \in Inputs(shape) :
         LET refused == Refused(shape, c)
             record(launched) ==
                 [slot |-> slot, stream |-> c.stream, given |-> c.given,
                  homes |-> c.homes, flagged |-> Flagged(shape, c),
                  refused |-> refused, launched |-> launched]
         IN \/ /\ refused # "none"
               /\ last' = record(FALSE)
               /\ UNCHANGED <<queue, pending>>
            \/ /\ refused = "none"
               /\ \E result \in Outcomes(native, pending[t]),
                     whole \in {TRUE, ~native.partial} :
                    /\ queue' = [queue EXCEPT ![c.stream] =
                           @ \o Work(slot, calls + 1, result.ran, whole)]
                    /\ pending' = [pending EXCEPT ![t] = result.pending]
                    /\ last' = record(result.ran # <<>>)
    /\ UNCHANGED <<world, plan, held, resident, tables, scratch, strays,
                   misread, doing, locks, routing>>

-----------------------------------------------------------------------------
(* A projection: its lengths were checked; it locks the scratch's input,   *)
(* then its factors, quantizes into them on the stream of the call, locks  *)
(* its plan and calls it, and unlocks them all.  Other failures than the   *)
(* stream's are those of any call.                                         *)

Begin(t, slot) ==
    /\ world.shared /\ plan[slot] = "ready" /\ calls < world.calls
    /\ doing[t] = Nothing
    /\ calls' = calls + 1
    /\ \E s \in Streams :
         doing' = [doing EXCEPT ![t] =
             [phase |-> "quantized", slot |-> slot, call |-> calls',
              stream |-> s]]
    /\ last' = NoCall
    /\ UNCHANGED <<world, plan, held, resident, queue, tables, scratch,
                   pending, strays, misread, locks, routing>>

(* A lock, and the phase after it.                                         *)
Lock(t, phase, lock, next) ==
    /\ doing[t].phase = phase /\ locks[lock] = Nobody
    /\ locks' = [locks EXCEPT ![lock] = t]
    /\ doing' = [doing EXCEPT ![t].phase = next]
    /\ last' = NoCall
    /\ UNCHANGED <<world, plan, held, resident, queue, tables, scratch,
                   pending, calls, strays, misread, routing>>

LockInput(t)   == Lock(t, "quantized", <<"quantized", 0>>, "scales")
LockFactors(t) == Lock(t, "scales", <<"scales", 0>>, "quantize")
LockPlan(t)    ==
    doing[t] # Nothing /\ Lock(t, "plan", <<"plan", doing[t].slot>>, "execute")

(* Every guard is dropped when the call returns (mutant: a plan's is not). *)
ReturnedLocked(t) ==
    /\ doing' = [doing EXCEPT ![t] = Nothing]
    /\ locks' = [lock \in DOMAIN locks |->
                    IF locks[lock] = t /\ lock[1] # "plan" THEN Nobody
                    ELSE locks[lock]]

Returned(t) ==
    /\ doing' = [doing EXCEPT ![t] = Nothing]
    /\ locks' = [lock \in DOMAIN locks |->
                    IF locks[lock] = t THEN Nobody ELSE locks[lock]]

LaunchQuantize(t) ==
    /\ doing[t].phase = "quantize"
    /\ \/ /\ queue' = [queue EXCEPT ![doing[t].stream] =
                 Append(@, Op("quantize", doing[t].slot, doing[t].call, {}))]
          /\ strays' = IF doing[t].stream = Own THEN strays
                       ELSE strays \cup {doing[t].call}
          /\ doing' = [doing EXCEPT ![t].phase = "plan"]
          /\ UNCHANGED locks
       \/ Returned(t) /\ UNCHANGED <<queue, strays>>
    /\ last' = NoCall
    /\ UNCHANGED <<world, plan, held, resident, tables, scratch, pending,
                   calls, misread, routing>>

(* The plan refuses a stream that is not its own.                          *)
ExecutePlan(t) ==
    LET slot == doing[t].slot IN
    /\ doing[t].phase = "execute"
    /\ \/ /\ doing[t].stream # Own
          /\ UNCHANGED <<queue, pending>>
       \/ /\ doing[t].stream = Own
          /\ \E result \in Outcomes(world.shapes[slot].native, pending[t]) :
               /\ queue' = [queue EXCEPT ![Own] =
                      @ \o Work(slot, doing[t].call, result.ran, TRUE)]
               /\ pending' = [pending EXCEPT ![t] = result.pending]
    /\ Returned(t)
    /\ last' = NoCall
    /\ UNCHANGED <<world, plan, held, resident, tables, scratch, calls,
                   strays, misread, routing>>

ProjectionStep(t) ==
    \/ LockInput(t) \/ LockFactors(t) \/ LaunchQuantize(t)
    \/ LockPlan(t) \/ ExecutePlan(t)

-----------------------------------------------------------------------------
(* The device.                                                             *)

(* A product takes its operands from the tables that its setup wrote, and  *)
(* from the scratch if it is a projection's.                               *)
Reads(op) ==
    (IF "setup" \in Range(world.shapes[op.slot].native.kernels)
     THEN tables[op.slot] ELSE {op.call})
    \cup (IF world.shared THEN {scratch} ELSE {op.call})

Strange(op) == Reads(op) \ {op.call}

Run(s) ==
    LET op == Head(queue[s]) IN
    /\ queue[s] # <<>> /\ op.name # "routes"
    /\ queue' = [queue EXCEPT ![s] = Tail(@)]
    /\ resident' = CASE op.name = "alloc" ->
                          [resident EXCEPT ![op.slot] = @ \cup op.needs]
                     [] op.name = "free" ->
                          [resident EXCEPT ![op.slot] = @ \ op.needs]
                     [] OTHER -> resident
    /\ tables' = CASE op.name = "init"  -> [tables EXCEPT ![op.slot] = {}]
                   [] op.name = "setup" ->
                        [tables EXCEPT ![op.slot] =
                            IF op.whole THEN {op.call} ELSE @ \cup {op.call}]
                   [] OTHER -> tables
    /\ scratch' = IF op.name = "quantize" THEN op.call ELSE scratch
    /\ misread' = IF op.name = "gemm" /\ Strange(op) # {}
                  THEN misread \cup {[reader |-> op.call, whole |-> op.whole,
                                      read |-> Strange(op)]}
                  ELSE misread
    /\ last' = NoCall
    /\ UNCHANGED <<world, plan, held, pending, calls, strays, doing, locks,
                   routing>>

(* The kernel that sorts rows takes its steps before those behind it.      *)
StartRoutes(s) ==
    /\ queue[s] # <<>> /\ Head(queue[s]).name = "routes"
    /\ \E selected \in world.routes.selections :
         BeginRoutes(selected, world.routes.experts, world.routes.block)
    /\ last' = NoCall
    /\ UNCHANGED <<world, plan, held, resident, queue, tables, scratch,
                   pending, calls, strays, misread, doing, locks>>

StepRoutes ==
    /\ RouteStep
    /\ last' = NoCall
    /\ UNCHANGED <<world, plan, held, resident, queue, tables, scratch,
                   pending, calls, strays, misread, doing, locks>>

FinishRoutes(s) ==
    /\ queue[s] # <<>> /\ Head(queue[s]).name = "routes"
    /\ EndRoutes
    /\ queue' = [queue EXCEPT ![s] = Tail(@)]
    /\ last' = NoCall
    /\ UNCHANGED <<world, plan, held, resident, tables, scratch, pending,
                   calls, strays, misread, doing, locks>>

-----------------------------------------------------------------------------
Init ==
    /\ world \in Worlds
    /\ plan = [slot \in Slots |-> "none"]
    /\ held = [slot \in Slots |-> {}]
    /\ resident = [slot \in Slots |-> {}]
    /\ queue = [s \in Streams |-> <<>>]
    /\ tables = [slot \in Slots |-> {}]
    /\ scratch = 0
    /\ \E waits \in BOOLEAN : pending = [t \in HostThreads |-> waits]
    /\ calls = 0
    /\ strays = {}
    /\ misread = {}
    /\ last = NoCall
    /\ doing = [t \in HostThreads |-> Nothing]
    /\ locks = [lock \in Locks |-> Nobody]
    /\ routing = Idle

Next ==
    \/ \E t \in world.threads, slot \in Slots :
         Create(t, slot) \/ Call(t, slot) \/ Begin(t, slot)
    \/ \E slot \in Slots : Drop(slot)
    \/ \E t \in world.threads : ProjectionStep(t)
    \/ \E s \in Streams : Run(s) \/ StartRoutes(s) \/ FinishRoutes(s)
    \/ StepRoutes

Spec == Init /\ [][Next]_vars

(* A thread in a call goes on, and a free lock is taken in the end: the    *)
(* calls before it are a bounded number.                                   *)
FairSpec == Spec /\ \A t \in HostThreads : WF_vars(ProjectionStep(t))

-----------------------------------------------------------------------------
(* Types: plans own what they allocated only while they are ready.         *)
TypeOK ==
    /\ plan \in [Slots -> {"none", "ready", "failed", "dropped"}]
    /\ \A slot \in Slots : plan[slot] # "ready" => held[slot] = {}
    /\ pending \in [HostThreads -> BOOLEAN]
    /\ calls \in 0..world.calls /\ scratch \in 0..calls
    /\ strays \subseteq 1..calls
    /\ \A slot \in Slots : tables[slot] \subseteq 1..calls
    /\ \A t \in HostThreads : doing[t].phase \in Phases \cup {"idle"}
    /\ locks \in [Locks -> HostThreads \cup {Nobody}]
    /\ last.refused \in {"none", "lengths", "stream", "context", "buffers",
                         "sizes", "bind", "numbers"}
    /\ routing.phase \in {"idle", "count", "place", "done"}

(* A kernel that the checks let through stays inside the buffers of the    *)
(* call: what it touches of each operand is no more than its length, for   *)
(* every kind, shape and length offered.  Excepted are the operands left   *)
(* astray, which no check keeps a kernel inside: those whose index does    *)
(* not fit a signed word of 32 bits, and those of paged attention with a   *)
(* row for each token where the kernel counts more rows than tokens.       *)
LaunchFits ==
    last.launched =>
        LET touches == world.shapes[last.slot].execute.touches IN
        /\ DOMAIN touches = DOMAIN last.given
        /\ \A i \in DOMAIN touches :
              touches[i] # Astray => touches[i] <= last.given[i]

(* What the facade checks it checks as the layer below does: a size that   *)
(* is refused there is of an operand that the facade leaves to that layer. *)
LayersAgree ==
    last.refused = "sizes" =>
        LET shape == world.shapes[last.slot] IN
        \E i \in DOMAIN last.given :
            /\ shape.lengths[i] = Some(shape.lengths[i].width)
            /\ ~Meets(shape.sizes[i], last.given[i])

(* A queued kernel's operands of another stream were marked, so that their *)
(* drop waits for it: all but those that no check sees.                    *)
BuffersAreFlagged ==
    last.launched =>
        \A i \in DOMAIN last.homes \ world.shapes[last.slot].execute.unseen :
            last.homes[i] # last.stream =>
                last.homes[i] # Foreign /\ i \in last.flagged

(* What a kernel or a free is queued for exists when the device gets to    *)
(* it, whenever the plan was dropped and whatever a creation failed at.    *)
WorkUsesLiveMemory ==
    \A s \in Streams :
        (queue[s] # <<>> /\ Head(queue[s]).name # "alloc") =>
            Head(queue[s]).needs \subseteq resident[Head(queue[s]).slot]

(* Once the queues are empty, just what ready plans own exists.            *)
NothingIsLeaked ==
    (\A s \in Streams : queue[s] = <<>>) => resident = held

(* A product reads the operands of its own call, not those that another    *)
(* call's setup or quantization left: neither after errors half way, nor   *)
(* when several threads share a scratch.  Two cases are excepted: a call   *)
(* that selects a weight out of range, whose setup leaves that group as it *)
(* was, and what calls left that are on a stream not the plan's, which     *)
(* quantize before the plan refuses them.                                  *)
WorkReadsItsOwnCall ==
    \A m \in misread : m.whole => m.read \subseteq strays

(* A thread that calls a projection gets out of it again.                  *)
ProjectionsEnd ==
    \A t \in HostThreads : doing[t] # Nothing ~> doing[t] = Nothing
=============================================================================
