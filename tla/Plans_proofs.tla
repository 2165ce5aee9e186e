---------------------------- MODULE Plans_proofs ----------------------------
(* Theorems about Plans, for every world of plans that are created, called *)
(* and dropped.                                                            *)
EXTENDS Plans, SequenceTheorems, WellFoundedInduction, TLAPS

OpNames   == {"alloc", "init", "free", "setup", "gemm", "routes", "quantize"}
Operation == [name : OpNames, slot : Slots, call : Nat, needs : SUBSET Nat,
              whole : BOOLEAN]

(* A thread in a projection.                                               *)
Projecting == [phase : Phases, slot : Slots, call : Nat, stream : Streams]

At(s) == 1..Len(queue[s])

Types ==
    /\ world \in Worlds
    /\ plan \in [Slots -> {"none", "ready", "failed", "dropped"}]
    /\ held \in [Slots -> SUBSET Nat]
    /\ resident \in [Slots -> SUBSET Nat]
    /\ queue \in [Streams -> Seq(Operation)]
    /\ tables \in [Slots -> SUBSET Nat]
    /\ pending \in [HostThreads -> BOOLEAN]
    /\ calls \in 0..world.calls /\ scratch \in 0..calls /\ strays \subseteq 1..calls
    /\ doing \in [HostThreads -> Projecting \cup {Nothing}]
    /\ locks \in [Locks -> HostThreads \cup {Nobody}]
    /\ last.refused \in {"none", "lengths", "numbers"} \cup CheckNames
    /\ "phase" \in DOMAIN routing
    /\ routing.phase \in {"idle", "count", "place", "done"}

(* The shape of a plan, and whether its calls set tables by a kernel.      *)
Shape(slot) == world.shapes[slot]
Sets(slot)  == "setup" \in Range(Shape(slot).native.kernels)

(* What is in use was created by a facade and a native side that agreed.   *)
ReadyIsCreated ==
    \A slot \in Slots : plan[slot] = "ready" => Shape(slot).spec /\ Shape(slot).create

(* Calls are numbered as they begin.                                       *)
CallsAreNumbered ==
    /\ \A s \in Streams : \A i \in At(s) :
         LET op == queue[s][i] IN
         /\ op.call <= calls
         /\ op.name \in {"setup", "gemm", "quantize"} => op.call > 0
    /\ \A slot \in Slots : tables[slot] \subseteq 1..calls
    /\ \A t \in HostThreads : doing[t] # Nothing => doing[t].call \in 1..calls

(* On another stream than the plans' there is no work on a plan's memory,  *)
(* and of projections there is just the quantization of strays.            *)
OthersNeedNothing ==
    \A i \in At(Other) :
        LET op == queue[Other][i] IN
        /\ op.needs = {} /\ op.name \in {"gemm", "routes", "quantize"}
        /\ op.name = "gemm" => ~Sets(op.slot) /\ ~world.shared
        /\ op.name = "quantize" => op.call \in strays

-----------------------------------------------------------------------------
Allocates(op, slot, p) == op.name = "alloc" /\ op.slot = slot /\ p \in op.needs
Frees(op, slot, p)     == op.name = "free" /\ op.slot = slot /\ p \in op.needs

(* An allocation exists, or will by the n-th operation queued.             *)
Provided(slot, p, n) ==
    p \in resident[slot] \/ \E j \in 1..n : Allocates(queue[Own][j], slot, p)

(* A plan that was not created has no memory and no work.                  *)
NoneHasNothing ==
    \A slot \in Slots : plan[slot] = "none" =>
        /\ held[slot] = {} /\ resident[slot] = {}
        /\ \A i \in At(Own) : queue[Own][i].slot # slot

(* Nothing that needs an allocation is behind its free.                    *)
FreesAreLast ==
    \A i, j \in At(Own) :
        (i < j /\ queue[Own][i].name = "free" /\ queue[Own][i].slot = queue[Own][j].slot)
            => queue[Own][i].needs \cap queue[Own][j].needs = {}

(* What an operation needs was allocated before it.                        *)
NeedsAreProvided ==
    \A i \in At(Own) : queue[Own][i].name # "alloc" =>
        \A p \in queue[Own][i].needs : Provided(queue[Own][i].slot, p, i - 1)

(* Once all that is queued has run, just what plans own exists.            *)
HeldIsProvided ==
    \A slot \in Slots : \A p \in held[slot] :
        /\ Provided(slot, p, Len(queue[Own]))
        /\ \A i \in At(Own) : ~Frees(queue[Own][i], slot, p)

OthersAreFreed ==
    \A slot \in Slots : \A p \in Nat \ held[slot] :
        Provided(slot, p, Len(queue[Own]))
            => \E i \in At(Own) : Frees(queue[Own][i], slot, p)

OnlyReadyHold ==
    \A slot \in Slots : held[slot] # {} =>
        plan[slot] = "ready" /\ Shape(slot).native.creation # <<>>

MemoryInv == /\ NoneHasNothing /\ OnlyReadyHold /\ FreesAreLast /\ NeedsAreProvided
             /\ HeldIsProvided /\ OthersAreFreed

-----------------------------------------------------------------------------
(* The tables of a product are those that its setup wrote, just before it. *)
TablesAreSet ==
    \A i \in At(Own) :
        LET op == queue[Own][i]  before == queue[Own][i - 1] IN
        (op.name = "gemm" /\ op.whole /\ Sets(op.slot)) =>
            IF i = 1 THEN tables[op.slot] = {op.call}
            ELSE /\ before.name = "setup" /\ before.whole
                 /\ before.slot = op.slot /\ before.call = op.call

(* When the n-th operation has run, the scratch has the input of this call *)
(* or of a stray.                                                          *)
Ours(call) == {call} \cup strays

Loaded(call, n) ==
    \E j \in 0..n :
        /\ IF j = 0 THEN scratch \in Ours(call)
           ELSE queue[Own][j].name = "quantize" /\ queue[Own][j].call \in Ours(call)
        /\ \A k \in (j + 1)..n :
             queue[Own][k].name = "quantize" => queue[Own][k].call \in Ours(call)

ProductsAreLoaded ==
    world.shared => \A i \in At(Own) :
        queue[Own][i].name = "gemm" => Loaded(queue[Own][i].call, i - 1)

(* A projection between its quantization and its product has its input     *)
(* there, because it holds the lock of the scratch.                        *)
ProjectionsAreLoaded ==
    \A t \in HostThreads :
        (doing[t].phase \in {"plan", "execute"} /\ doing[t].stream = Own)
            => Loaded(doing[t].call, Len(queue[Own]))

ScratchIsLocked ==
    \A t \in HostThreads :
        doing[t].phase \in Phases \ {"quantized"} => locks[<<"quantized", 0>>] = t

ProjectionsAreReady ==
    \A t \in HostThreads : doing[t] # Nothing =>
        world.shared /\ plan[doing[t].slot] = "ready"

ReadInv == /\ TablesAreSet /\ ProductsAreLoaded /\ ProjectionsAreLoaded
           /\ ScratchIsLocked /\ WorkReadsItsOwnCall

BaseInv == /\ Types /\ ReadyIsCreated /\ CallsAreNumbered /\ OthersNeedNothing
           /\ ProjectionsAreReady /\ BuffersAreFlagged

IInv == BaseInv /\ MemoryInv /\ ReadInv


-----------------------------------------------------------------------------
(* Operations of creations, drops and calls.                               *)

(* The known worlds, of this one.                                          *)
LEMMA KnownWorld ==
    ASSUME Types
    PROVE  /\ world.threads \subseteq HostThreads
           /\ world.calls \in Nat /\ world.shared \in BOOLEAN
           /\ \A slot \in Slots :
                /\ Shape(slot).spec \in BOOLEAN
                /\ Shape(slot).spec => CreationIsKnown(Shape(slot).native)
                /\ (Shape(slot).spec /\ Shape(slot).create) =>
                      CallIsKnown(Shape(slot).native, Shape(slot).execute.order)
BY WorldsAreKnown DEF Types, Slots, Shape

(* The parts of an operation.                                              *)
LEMMA OpParts ==
    ASSUME NEW name, NEW slot, NEW call, NEW needs
    PROVE  /\ Op(name, slot, call, needs).name = name
           /\ Op(name, slot, call, needs).slot = slot
           /\ Op(name, slot, call, needs).call = call
           /\ Op(name, slot, call, needs).needs = needs
BY DEF Op

(* The steps of a creation are operations on what it allocated.            *)
LEMMA PreparedIsKnown ==
    ASSUME NEW slot \in Slots, NEW steps \in Seq({"alloc", "init"}),
           NEW n \in 0..Len(steps)
    PROVE  /\ Prepared(slot, steps, n) \in Seq(Operation)
           /\ Len(Prepared(slot, steps, n)) = n
           /\ \A i \in 1..n :
                LET op == Prepared(slot, steps, n)[i] IN
                /\ op.name = steps[i] /\ op.slot = slot /\ op.call = 0
                /\ op.needs = IF steps[i] = "alloc" THEN {i} ELSE Allocated(steps, i)
           /\ Allocated(steps, n) \in SUBSET Nat
<1>1. \A i \in 1..n : steps[i] \in {"alloc", "init"}
  OBVIOUS
<1>2. \A i \in 1..n : Allocated(steps, i) \in SUBSET Nat
  BY DEF Allocated
<1>3. \A i \in 1..n :
        Op(steps[i], slot, 0, IF steps[i] = "alloc" THEN {i} ELSE Allocated(steps, i))
            \in Operation
  BY <1>1, <1>2 DEF Op, Operation, OpNames
<1>4. Prepared(slot, steps, n) \in [1..n -> Operation]
  BY <1>3 DEF Prepared
<1>5. Prepared(slot, steps, n) \in Seq(Operation) /\ Len(Prepared(slot, steps, n)) = n
  BY <1>4
<1>6. \A i \in 1..n : Prepared(slot, steps, n)[i] =
        Op(steps[i], slot, 0, IF steps[i] = "alloc" THEN {i} ELSE Allocated(steps, i))
  BY DEF Prepared
<1>7. ASSUME NEW i \in 1..n
      PROVE  LET op == Prepared(slot, steps, n)[i] IN
             /\ op.name = steps[i] /\ op.slot = slot /\ op.call = 0
             /\ op.needs = IF steps[i] = "alloc" THEN {i} ELSE Allocated(steps, i)
  <2>. DEFINE x == IF steps[i] = "alloc" THEN {i} ELSE Allocated(steps, i)
  <2>1. Prepared(slot, steps, n)[i] = Op(steps[i], slot, 0, x)
    BY <1>6
  <2>. HIDE DEF x
  <2>2. LET op == Prepared(slot, steps, n)[i] IN
        /\ op.name = steps[i] /\ op.slot = slot /\ op.call = 0 /\ op.needs = x
    BY <2>1, OpParts, SMT
  <2>. QED  BY <2>2 DEF x
<1>8. Allocated(steps, n) \in SUBSET Nat
  BY DEF Allocated
<1>. QED  BY <1>5, <1>7, <1>8

(* What is given back is given back by one operation.                      *)
LEMMA ReleasedIsKnown ==
    ASSUME NEW slot \in Slots, NEW pieces \in SUBSET Nat
    PROVE  /\ Released(slot, pieces) \in Seq(Operation)
           /\ Len(Released(slot, pieces)) = IF pieces = {} THEN 0 ELSE 1
           /\ pieces # {} =>
                LET op == Released(slot, pieces)[1] IN
                /\ op.name = "free" /\ op.slot = slot /\ op.call = 0
                /\ op.needs = pieces
<1>1. Op("free", slot, 0, pieces) \in Operation
  BY DEF Op, Operation, OpNames
<1>2. CASE pieces = {}
  BY <1>2 DEF Released
<1>3. CASE pieces # {}
  <2>1. Released(slot, pieces) = <<Op("free", slot, 0, pieces)>>
    BY <1>3 DEF Released
  <2>2. Released(slot, pieces)[1] = Op("free", slot, 0, pieces)
    BY <2>1
  <2>3. Released(slot, pieces) \in Seq(Operation) /\ Len(Released(slot, pieces)) = 1
    BY <1>1, <2>1
  <2>4. LET op == Released(slot, pieces)[1] IN
        /\ op.name = "free" /\ op.slot = slot /\ op.call = 0 /\ op.needs = pieces
    BY <2>2, OpParts, SMT
  <2>. QED  BY <1>3, <2>3, <2>4
<1>. QED  BY <1>2, <1>3

(* A call's kernels are operations on what its plan owns.                  *)
LEMMA WorkIsKnown ==
    ASSUME Types, NEW slot \in Slots, NEW call \in Nat, NEW whole \in BOOLEAN,
           NEW ran \in Seq(KernelNames)
    PROVE  /\ Work(slot, call, ran, whole) \in Seq(Operation)
           /\ Len(Work(slot, call, ran, whole)) = Len(ran)
           /\ \A i \in 1..Len(ran) :
                LET op == Work(slot, call, ran, whole)[i] IN
                /\ op.name = ran[i] /\ op.slot = slot /\ op.call = call
                /\ op.needs = held[slot] /\ op.whole = whole
<1>1. \A i \in 1..Len(ran) :
        [name |-> ran[i], slot |-> slot, call |-> call, needs |-> held[slot],
         whole |-> whole] \in Operation
  BY DEF Types, Operation, OpNames, KernelNames
<1>2. Work(slot, call, ran, whole) \in [1..Len(ran) -> Operation]
  BY <1>1 DEF Work
<1>. QED  BY <1>2 DEF Work

(* What ran of a call are its first kernels; a product among them has its  *)
(* setup before it.                                                        *)
LEMMA OutcomesAreRuns ==
    ASSUME NEW native, NEW order, CallIsKnown(native, order), NEW before \in BOOLEAN,
           NEW result \in Outcomes(native, before)
    PROVE  /\ result.ran \in Seq(KernelNames)
           /\ result.pending \in BOOLEAN
           /\ \A i \in 1..Len(result.ran) : result.ran[i] \in Range(native.kernels)
           /\ "setup" \in Range(native.kernels) =>
                \A i \in 1..Len(result.ran) :
                  result.ran[i] = "gemm" => i > 1 /\ result.ran[i - 1] = "setup"
<1>. DEFINE kernels == native.kernels
<1>1. /\ kernels \in Seq(KernelNames) /\ kernels # <<>> /\ Len(kernels) \in Nat \ {0}
      /\ DOMAIN kernels = 1..Len(kernels)
      /\ native.errors \in {"peek", "get", "driver"}
      /\ "setup" \in Range(kernels) => \A i \in 1..Len(kernels) :
              kernels[i] = "gemm" => i > 1 /\ kernels[i - 1] = "setup"
  <2>1. kernels \in Seq(KernelNames) /\ kernels # <<>>
    BY DEF CallIsKnown
  <2>2. Len(kernels) \in Nat \ {0} /\ DOMAIN kernels = 1..Len(kernels)
    BY <2>1
  <2>. QED  BY <2>1, <2>2 DEF CallIsKnown
<1>2. \A i \in 1..Len(kernels) : kernels[i] \in KernelNames /\ kernels[i] \in Range(kernels)
  BY <1>1 DEF Range
<1>3. \A kernel : Remains(native, kernel, before) \subseteq BOOLEAN
  BY <1>1 DEF Remains
<1>4. CASE result.ran = kernels /\ result.pending = before
  BY <1>1, <1>2, <1>4
<1>5. CASE result.ran = <<kernels[1]>> /\ result.pending \in Remains(native, kernels[1], before)
  BY <1>1, <1>2, <1>3, <1>5
<1>6. ASSUME NEW i \in 1..Len(kernels), result.ran = SubSeq(kernels, 1, i - 1),
             result.pending \in Remains(native, kernels[i], before)
      PROVE  /\ result.ran \in Seq(KernelNames) /\ result.pending \in BOOLEAN
             /\ Len(result.ran) = i - 1
             /\ \A j \in 1..(i - 1) : result.ran[j] = kernels[j]
  <2>1. \A j \in 1..(i - 1) : kernels[j] \in KernelNames
    BY <1>1, <1>2
  <2>. QED  BY <1>1, <1>3, <1>6, <2>1, SubSeqProperties
<1>7. ASSUME NEW i \in 1..Len(kernels), result.ran = SubSeq(kernels, 1, i - 1),
             result.pending \in Remains(native, kernels[i], before)
      PROVE  /\ \A j \in 1..Len(result.ran) : result.ran[j] \in Range(kernels)
             /\ "setup" \in Range(kernels) => \A j \in 1..Len(result.ran) :
                  result.ran[j] = "gemm" => j > 1 /\ result.ran[j - 1] = "setup"
  BY <1>1, <1>2, <1>6, <1>7
<1>8. \/ result.ran = kernels /\ result.pending = before
      \/ result.ran = <<kernels[1]>> /\ result.pending \in Remains(native, kernels[1], before)
      \/ \E i \in 1..Len(kernels) :
            /\ result.ran = SubSeq(kernels, 1, i - 1)
            /\ result.pending \in Remains(native, kernels[i], before)
  <2>1. CASE before /\ native.errors # "driver"
    BY <2>1, Zenon DEF Outcomes
  <2>2. CASE ~(before /\ native.errors # "driver")
    <3>1. result \in {[ran |-> kernels, pending |-> before]}
            \cup UNION {[ran : {SubSeq(kernels, 1, i - 1)},
                         pending : Remains(native, kernels[i], before)] :
                            i \in DOMAIN kernels}
      BY <2>2, Zenon DEF Outcomes
    <3>2. CASE result = [ran |-> kernels, pending |-> before]
      BY <3>2
    <3>3. CASE result # [ran |-> kernels, pending |-> before]
      <4>1. PICK i \in DOMAIN kernels :
              result \in [ran : {SubSeq(kernels, 1, i - 1)},
                          pending : Remains(native, kernels[i], before)]
        BY <3>1, <3>3, Zenon
      <4>. QED  BY <1>1, <4>1
    <3>. QED  BY <3>2, <3>3
  <2>. QED  BY <2>1, <2>2
<1>. QED  BY <1>4, <1>5, <1>6, <1>7, <1>8

-----------------------------------------------------------------------------
(* How queues change.                                                      *)

(* Operations joined a queue behind the others.                            *)
Grown(s, ops) ==
    /\ queue' \in [Streams -> Seq(Operation)]
    /\ Len(queue'[s]) = Len(queue[s]) + Len(ops)
    /\ \A i \in At(s) : queue'[s][i] = queue[s][i]
    /\ \A i \in 1..Len(ops) : queue'[s][Len(queue[s]) + i] = ops[i]
    /\ \A r \in Streams \ {s} : queue'[r] = queue[r]

(* The first operation left a queue.                                       *)
Advanced(s) ==
    /\ queue' \in [Streams -> Seq(Operation)]
    /\ Len(queue[s]) \in Nat \ {0} /\ Len(queue'[s]) = Len(queue[s]) - 1
    /\ \A i \in 1..(Len(queue[s]) - 1) : queue'[s][i] = queue[s][i + 1]
    /\ \A r \in Streams \ {s} : queue'[r] = queue[r]
    /\ Head(queue[s]) = queue[s][1] /\ queue[s][1] \in Operation

(* Appending operations to a stream's queue.                               *)
LEMMA QueueGrows ==
    ASSUME Types, NEW s \in Streams, NEW ops \in Seq(Operation),
           queue' = [queue EXCEPT ![s] = @ \o ops]
    PROVE  Grown(s, ops)
<1>1. queue \in [Streams -> Seq(Operation)] /\ queue[s] \in Seq(Operation)
  BY DEF Types
<1>2. queue'[s] = queue[s] \o ops /\ \A r \in Streams \ {s} : queue'[r] = queue[r]
  BY <1>1
<1>3. /\ queue[s] \o ops \in Seq(Operation)
      /\ Len(queue[s] \o ops) = Len(queue[s]) + Len(ops)
      /\ \A i \in 1..(Len(queue[s]) + Len(ops)) : (queue[s] \o ops)[i] =
             IF i <= Len(queue[s]) THEN queue[s][i] ELSE ops[i - Len(queue[s])]
  BY <1>1, ConcatProperties
<1>4. Len(queue[s]) \in Nat /\ Len(ops) \in Nat
  BY <1>1
<1>5. queue' \in [Streams -> Seq(Operation)]
  BY <1>1, <1>3
<1>6. \A i \in At(s) : queue'[s][i] = queue[s][i]
  BY <1>2, <1>3, <1>4 DEF At
<1>7. \A i \in 1..Len(ops) : queue'[s][Len(queue[s]) + i] = ops[i]
  BY <1>2, <1>3, <1>4
<1>. QED  BY <1>2, <1>3, <1>5, <1>6, <1>7 DEF Grown

(* Taking the head of a stream's queue.                                    *)
LEMMA QueueAdvances ==
    ASSUME Types, NEW s \in Streams, queue[s] # <<>>,
           queue' = [queue EXCEPT ![s] = Tail(@)]
    PROVE  Advanced(s)
<1>1. queue \in [Streams -> Seq(Operation)] /\ queue[s] \in Seq(Operation)
  BY DEF Types
<1>2. queue'[s] = Tail(queue[s]) /\ \A r \in Streams \ {s} : queue'[r] = queue[r]
  BY <1>1
<1>3. /\ Tail(queue[s]) \in Seq(Operation) /\ Head(queue[s]) = queue[s][1]
      /\ Len(queue[s]) \in Nat \ {0} /\ Len(Tail(queue[s])) = Len(queue[s]) - 1
      /\ \A i \in 1..Len(Tail(queue[s])) : Tail(queue[s])[i] = queue[s][i + 1]
      /\ queue[s][1] \in Operation
  BY <1>1
<1>. QED  BY <1>1, <1>2, <1>3 DEF Advanced

(* The places of a grown queue are old or new.                             *)
LEMMA GrownPlaces ==
    ASSUME Types, NEW s \in Streams, NEW ops \in Seq(Operation), Grown(s, ops),
           NEW i \in At(s)'
    PROVE  \/ i \in At(s) /\ queue'[s][i] = queue[s][i]
           \/ \E k \in 1..Len(ops) :
                 i = Len(queue[s]) + k /\ queue'[s][i] = ops[k]
<1>1. Len(queue[s]) \in Nat /\ Len(ops) \in Nat /\ i \in 1..(Len(queue[s]) + Len(ops))
  BY DEF Types, Grown, At
<1>2. CASE i <= Len(queue[s])
  BY <1>1, <1>2 DEF Grown, At
<1>3. CASE i > Len(queue[s])
  <2>1. i - Len(queue[s]) \in 1..Len(ops) /\ i = Len(queue[s]) + (i - Len(queue[s]))
    BY <1>1, <1>3
  <2>. QED  BY <2>1 DEF Grown
<1>. QED  BY <1>1, <1>2, <1>3

-----------------------------------------------------------------------------
(* What actions do, by cases.                                              *)

(* A creation comes to an end after some of its steps.                     *)
Succeeded(slot, steps, n) ==
    /\ plan' = [plan EXCEPT ![slot] = "ready"]
    /\ held' = [held EXCEPT ![slot] = Allocated(steps, n)]
    /\ queue' = [queue EXCEPT ![Own] = @ \o Prepared(slot, steps, n)]

(* A creation ends ready, with all its steps, or failed, after some.       *)
LEMMA CreateCases ==
    ASSUME Types, NEW t \in HostThreads, NEW slot \in Slots, Create(t, slot)
    PROVE  /\ plan[slot] = "none" /\ Shape(slot).spec
           /\ pending' \in [HostThreads -> BOOLEAN]
           /\ last' = NoCall
           /\ UNCHANGED <<world, resident, tables, scratch, calls, strays,
                          misread, doing, locks, routing>>
           /\ \E steps \in Seq({"alloc", "init"}) : \E n \in 0..Len(steps) :
                \/ /\ Succeeded(slot, steps, n)
                   /\ Shape(slot).create
                   /\ steps = Shape(slot).native.creation
                \/ Failed(slot, steps, n) /\ UNCHANGED held
<1>. DEFINE steps == Shape(slot).native.creation
<1>1. /\ plan[slot] = "none" /\ Shape(slot).spec /\ last' = NoCall
      /\ UNCHANGED <<world, resident, tables, scratch, calls, strays,
                     misread, doing, locks, routing>>
  BY DEF Create, Shape
<1>2. steps \in Seq({"alloc", "init"}) /\ Len(steps) \in Nat
  <2>1. CreationIsKnown(Shape(slot).native)
    BY <1>1, KnownWorld
  <2>. QED  BY <2>1 DEF CreationIsKnown
<1>3. pending \in [HostThreads -> BOOLEAN]
  BY DEF Types
<1>4. CASE /\ Shape(slot).create /\ pending' = pending
           /\ Succeeded(slot, steps, Len(steps))
  BY <1>1, <1>2, <1>3, <1>4
<1>5. CASE Failed(slot, <<>>, 0) /\ UNCHANGED <<held, pending>>
  <2>1. <<>> \in Seq({"alloc", "init"}) /\ 0 \in 0..Len(<<>>)
    OBVIOUS
  <2>. QED  BY <1>1, <1>3, <1>5, <2>1
<1>6. ASSUME NEW n \in 0..Len(steps), NEW launching \in BOOLEAN,
             launching => n < Len(steps),
             Failed(slot, steps, IF launching /\ pending[t] THEN n + 1 ELSE n),
             pending' = [pending EXCEPT ![t] = @ \/ launching],
             UNCHANGED held
      PROVE  /\ pending' \in [HostThreads -> BOOLEAN]
             /\ \E m \in 0..Len(steps) : Failed(slot, steps, m) /\ UNCHANGED held
  <2>1. (IF launching /\ pending[t] THEN n + 1 ELSE n) \in 0..Len(steps)
    BY <1>2, <1>6
  <2>2. (pending[t] \/ launching) \in BOOLEAN
    OBVIOUS
  <2>3. pending' \in [HostThreads -> BOOLEAN]
    BY <1>3, <1>6, <2>2
  <2>. QED  BY <1>6, <2>1, <2>3
<1>7. \/ /\ Shape(slot).create /\ pending' = pending
         /\ Succeeded(slot, steps, Len(steps))
      \/ Failed(slot, <<>>, 0) /\ UNCHANGED <<held, pending>>
      \/ \E n \in 0..Len(steps) :
           LET launching == n < Len(steps) /\ steps[n + 1] = "init" IN
           /\ Failed(slot, steps, IF launching /\ pending[t] THEN n + 1 ELSE n)
           /\ pending' = [pending EXCEPT ![t] = @ \/ launching]
           /\ UNCHANGED held
  BY Zenon DEF Create, Shape, Succeeded
<1>8. CASE \E n \in 0..Len(steps) :
           LET launching == n < Len(steps) /\ steps[n + 1] = "init" IN
           /\ Failed(slot, steps, IF launching /\ pending[t] THEN n + 1 ELSE n)
           /\ pending' = [pending EXCEPT ![t] = @ \/ launching]
           /\ UNCHANGED held
  <2>1. PICK n \in 0..Len(steps) :
           LET launching == n < Len(steps) /\ steps[n + 1] = "init" IN
           /\ Failed(slot, steps, IF launching /\ pending[t] THEN n + 1 ELSE n)
           /\ pending' = [pending EXCEPT ![t] = @ \/ launching]
           /\ UNCHANGED held
    BY <1>8
  <2>. DEFINE launching == n < Len(steps) /\ steps[n + 1] = "init"
  <2>2. launching \in BOOLEAN /\ (launching => n < Len(steps))
    OBVIOUS
  <2>3. /\ Failed(slot, steps, IF launching /\ pending[t] THEN n + 1 ELSE n)
        /\ pending' = [pending EXCEPT ![t] = @ \/ launching]
        /\ UNCHANGED held
    BY <2>1, Zenon
  <2>4. /\ pending' \in [HostThreads -> BOOLEAN]
        /\ \E m \in 0..Len(steps) : Failed(slot, steps, m) /\ UNCHANGED held
    BY <1>6, <2>2, <2>3
  <2>. QED  BY <1>1, <1>2, <2>4
<1>. QED  BY <1>4, <1>5, <1>7, <1>8

(* What a call that is let through leaves in the queues.                   *)
Launches(slot, call, s, ran, whole) ==
    /\ queue' = [queue EXCEPT ![s] = @ \o Work(slot, call, ran, whole)]
    /\ Sets(slot) => \A i \in 1..Len(ran) :
                       ran[i] = "gemm" => i > 1 /\ ran[i - 1] = "setup"
    /\ \A i \in 1..Len(ran) : ran[i] \in Range(Shape(slot).native.kernels)

(* Any numbers have a least one.                                           *)
LEMMA LeastElement ==
    ASSUME NEW S \in SUBSET Nat, S # {}
    PROVE  \E m \in S : \A k \in S : m <= k
<1>. DEFINE R == OpToRel(<, Nat)
<1>1. IsWellFoundedOn(R, Nat)
  BY NatLessThanWellFounded, Zenon
<1>2. \A k, m \in Nat : k < m => <<k, m>> \in R
  BY Zenon DEF OpToRel
<1>. HIDE DEF R
<1>3. \E m \in S : \A k \in S : ~ (<<k, m>> \in R)
  BY <1>1, WFMin, Zenon
<1>4. \E m \in S : \A k \in S : ~(k < m)
  <2>1. \A k, m \in S : k < m => <<k, m>> \in R
    BY <1>2, Zenon
  <2>. QED  BY <2>1, <1>3, Zenon
<1>. QED  BY <1>4

(* The first check that fails refuses a call.                              *)
LEMMA RefusedIsNamed ==
    ASSUME NEW shape, NEW c, shape.execute.order \in Seq(CheckNames)
    PROVE  /\ Refused(shape, c) \in {"none", "lengths", "numbers"} \cup CheckNames
           /\ Refused(shape, c) = "none" => \A i \in DOMAIN Checks(shape) :
                Passes(shape, c)[Checks(shape)[i]]
<1>. DEFINE order == Checks(shape)
            failing == {i \in DOMAIN order : ~Passes(shape, c)[order[i]]}
<1>1. order \in Seq({"lengths", "numbers"} \cup CheckNames)
  BY DEF Checks
<1>2. \A i \in DOMAIN order : order[i] # "none"
  BY <1>1 DEF CheckNames
<1>3. ASSUME failing # {}
      PROVE  /\ Refused(shape, c) \in {"lengths", "numbers"} \cup CheckNames
             /\ Refused(shape, c) # "none"
  <2>1. failing \in SUBSET Nat
    BY <1>1
  <2>2. PICK m \in failing : \A k \in failing : m <= k
    BY <1>3, <2>1, LeastElement
  <2>3. Min(failing) \in failing
    BY <2>2 DEF Min
  <2>4. Refused(shape, c) = order[Min(failing)]
    BY <1>3 DEF Refused
  <2>. QED  BY <1>1, <1>2, <2>3, <2>4
<1>4. ASSUME failing = {}  PROVE Refused(shape, c) = "none"
  BY <1>4 DEF Refused
<1>. QED  BY <1>3, <1>4

(* What callers pass.                                                      *)
LEMMA InputsAreKnown ==
    ASSUME NEW shape, NEW c \in Inputs(shape)
    PROVE  DOMAIN c.homes = DOMAIN shape.lengths /\ c.stream \in {Own, Other, Foreign}
<1>. DEFINE operands == DOMAIN shape.lengths
            homes == [i \in operands |-> Own]
<1>1. PICK given, h, s, bind :
        /\ c = Input(given, h, s, bind)
        /\ s \in {Own, Other, Foreign}
        /\ \/ h = homes \/ h = [i \in operands |-> Other]
           \/ \E at \in operands \X {Other, Foreign} :
                 h = [homes EXCEPT ![at[1]] = at[2]]
  <2>. DEFINE given == Fitting(shape)
              width(i) == shape.lengths[i].width
              measured == operands \ DOMAIN shape.execute.prepared
  <2>1. \/ c \in {Input(given, homes, Own, bind) : bind \in BOOLEAN}
        \/ c \in {Input(given, [i \in operands |-> Other], Own, TRUE)}
        \/ c \in {Input(given, homes, s, TRUE) : s \in {Other, Foreign}}
        \/ c \in {Input(given, [homes EXCEPT ![at[1]] = at[2]], Own, TRUE) :
                     at \in operands \X {Other, Foreign}}
        \/ c \in {Input([given EXCEPT ![i] = @ + width(i)], homes, Own, TRUE) :
                     i \in measured}
        \/ c \in {Input([given EXCEPT ![i] = @ - width(i)], homes, Own, TRUE) :
                     i \in {j \in measured : given[j] > 0}}
    BY Zenon DEF Inputs
  <2>2. CASE \E g, bind : c = Input(g, homes, Own, bind)
    BY <2>2, Zenon
  <2>3. CASE c = Input(given, [i \in operands |-> Other], Own, TRUE)
    BY <2>3, Zenon
  <2>4. CASE \E s \in {Other, Foreign} : c = Input(given, homes, s, TRUE)
    BY <2>4, Zenon
  <2>5. CASE \E at \in operands \X {Other, Foreign} :
               c = Input(given, [homes EXCEPT ![at[1]] = at[2]], Own, TRUE)
    BY <2>5, Zenon
  <2>6. \/ \E g, bind : c = Input(g, homes, Own, bind)
        \/ c = Input(given, [i \in operands |-> Other], Own, TRUE)
        \/ \E s \in {Other, Foreign} : c = Input(given, homes, s, TRUE)
        \/ \E at \in operands \X {Other, Foreign} :
               c = Input(given, [homes EXCEPT ![at[1]] = at[2]], Own, TRUE)
    BY <2>1, Zenon
  <2>. QED  BY <2>2, <2>3, <2>4, <2>5, <2>6
<1>2. DOMAIN h = operands
  BY <1>1
<1>. QED  BY <1>1, <1>2 DEF Input

(* Every check of a call that is let through passed.                       *)
LEMMA LetThrough ==
    ASSUME NEW native, NEW shape, NEW c, CallIsKnown(native, shape.execute.order),
           c \in Inputs(shape), Refused(shape, c) = "none"
    PROVE  /\ \A check \in Range(shape.execute.order) : Passes(shape, c)[check]
           /\ c.stream \in Streams
           /\ "stream" \in Range(shape.execute.order) => c.stream = Own
           /\ \A i \in DOMAIN c.homes \ shape.execute.unseen :
                c.homes[i] # c.stream =>
                    c.homes[i] # Foreign /\ i \in Flagged(shape, c)
<1>. DEFINE order == shape.execute.order
<1>1. order \in Seq(CheckNames) /\ "buffers" \in Range(order)
      /\ Range(order) \cap {"stream", "context"} # {}
  BY DEF CallIsKnown
<1>2. \A i \in DOMAIN Checks(shape) : Passes(shape, c)[Checks(shape)[i]]
  BY <1>1, RefusedIsNamed
<1>3. \A i \in 1..Len(order) : i + 1 \in DOMAIN Checks(shape) /\ Checks(shape)[i + 1] = order[i]
  <2>1. <<"lengths">> \in Seq({"lengths", "numbers"} \cup CheckNames)
        /\ <<"numbers">> \in Seq({"lengths", "numbers"} \cup CheckNames)
        /\ order \in Seq({"lengths", "numbers"} \cup CheckNames)
    BY <1>1
  <2>2. (<<"lengths">> \o order) \in Seq({"lengths", "numbers"} \cup CheckNames)
        /\ Len(<<"lengths">> \o order) = Len(order) + 1
        /\ \A i \in 1..Len(order) : (<<"lengths">> \o order)[i + 1] = order[i]
    BY <2>1, ConcatProperties
  <2>3. DOMAIN Checks(shape) = 1..(Len(order) + 2)
        /\ \A i \in 1..(Len(order) + 1) : Checks(shape)[i] = (<<"lengths">> \o order)[i]
    BY <2>1, <2>2, ConcatProperties DEF Checks
  <2>. QED  BY <1>1, <2>2, <2>3
<1>4. \A check \in Range(order) : Passes(shape, c)[check]
  BY <1>1, <1>2, <1>3 DEF Range
<1>5. /\ Passes(shape, c)["stream"] <=> c.stream = Own
      /\ Passes(shape, c)["context"] <=> c.stream # Foreign
      /\ Passes(shape, c)["buffers"] <=> \A i \in Visited(shape) : c.homes[i] # Foreign
  BY DEF Passes
<1>6. c.stream \in Streams /\ ("stream" \in Range(order) => c.stream = Own)
  BY <1>1, <1>4, <1>5, InputsAreKnown, ThreeStreams DEF Streams
<1>7. ASSUME NEW i \in DOMAIN c.homes \ shape.execute.unseen, c.homes[i] # c.stream
      PROVE  c.homes[i] # Foreign /\ i \in Flagged(shape, c)
  <2>1. i \in Visited(shape) /\ \A j \in Visited(shape) : c.homes[j] # Foreign
    BY <1>1, <1>4, <1>5, InputsAreKnown DEF Visited
  <2>2. ReachesBuffers(shape, c)
    BY <1>2 DEF ReachesBuffers
  <2>. QED  BY <1>7, <2>1, <2>2 DEF Flagged
<1>. QED  BY <1>4, <1>6, <1>7

(* A call refuses, or launches on the plan's stream what uses its memory.  *)
LEMMA CallCases ==
    ASSUME Types, ReadyIsCreated, OnlyReadyHold, NEW t \in HostThreads,
           NEW slot \in Slots, Call(t, slot)
    PROVE  /\ ~world.shared /\ plan[slot] = "ready"
           /\ calls < world.calls /\ calls' = calls + 1
           /\ UNCHANGED <<world, plan, held, resident, tables, scratch, strays,
                          misread, doing, locks, routing>>
           /\ pending' \in [HostThreads -> BOOLEAN]
           /\ last'.refused \in {"none", "lengths", "numbers"} \cup CheckNames
           /\ BuffersAreFlagged'
           /\ \/ UNCHANGED queue
              \/ \E s \in Streams, ran \in Seq(KernelNames), whole \in BOOLEAN :
                   /\ Launches(slot, calls + 1, s, ran, whole)
                   /\ (held[slot] # {} \/ Sets(slot)) => s = Own
<1>. DEFINE shape == Shape(slot)
            native == shape.native
            record(c, launched) ==
                [slot |-> slot, stream |-> c.stream, given |-> c.given,
                 homes |-> c.homes, flagged |-> Flagged(shape, c),
                 refused |-> Refused(shape, c), launched |-> launched]
<1>1. /\ ~world.shared /\ plan[slot] = "ready"
      /\ calls < world.calls /\ calls' = calls + 1
      /\ UNCHANGED <<world, plan, held, resident, tables, scratch, strays,
                     misread, doing, locks, routing>>
  BY DEF Call
<1>2. CallIsKnown(native, shape.execute.order)
  BY <1>1, KnownWorld DEF ReadyIsCreated
<1>3. shape.execute.order \in Seq(CheckNames)
  BY <1>2 DEF CallIsKnown
<1>4. pending \in [HostThreads -> BOOLEAN]
  BY DEF Types
<1>5. PICK c \in Inputs(shape) :
        \/ /\ Refused(shape, c) # "none" /\ last' = record(c, FALSE)
           /\ UNCHANGED <<queue, pending>>
        \/ /\ Refused(shape, c) = "none"
           /\ \E result \in Outcomes(native, pending[t]),
                 whole \in {TRUE, ~native.partial} :
                /\ queue' = [queue EXCEPT ![c.stream] =
                       @ \o Work(slot, calls + 1, result.ran, whole)]
                /\ pending' = [pending EXCEPT ![t] = result.pending]
                /\ last' = record(c, result.ran # <<>>)
  BY Zenon DEF Call, Shape
<1>6. CASE Refused(shape, c) # "none"
  <2>1. last' = record(c, FALSE) /\ UNCHANGED <<queue, pending>>
    BY <1>5, <1>6
  <2>2. last'.refused = Refused(shape, c) /\ last'.launched = FALSE
    BY <2>1
  <2>3. last'.refused \in {"none", "lengths", "numbers"} \cup CheckNames
    BY <1>3, <2>2, RefusedIsNamed
  <2>4. BuffersAreFlagged'
    BY <2>2 DEF BuffersAreFlagged
  <2>. QED  BY <1>1, <1>4, <2>1, <2>3, <2>4
<1>7. CASE Refused(shape, c) = "none"
  <2>1. PICK result \in Outcomes(native, pending[t]), whole \in {TRUE, ~native.partial} :
          /\ queue' = [queue EXCEPT ![c.stream] =
                 @ \o Work(slot, calls + 1, result.ran, whole)]
          /\ pending' = [pending EXCEPT ![t] = result.pending]
          /\ last' = record(c, result.ran # <<>>)
    BY <1>5, <1>7
  <2>2. /\ result.ran \in Seq(KernelNames) /\ result.pending \in BOOLEAN
        /\ \A i \in 1..Len(result.ran) : result.ran[i] \in Range(native.kernels)
        /\ Sets(slot) => \A i \in 1..Len(result.ran) :
             result.ran[i] = "gemm" => i > 1 /\ result.ran[i - 1] = "setup"
    BY <1>2, <1>4, OutcomesAreRuns DEF Sets
  <2>3. whole \in BOOLEAN
    BY <1>2 DEF CallIsKnown
  <2>4. /\ \A check \in Range(shape.execute.order) : Passes(shape, c)[check]
        /\ c.stream \in Streams
        /\ "stream" \in Range(shape.execute.order) => c.stream = Own
        /\ \A i \in DOMAIN c.homes \ shape.execute.unseen :
             c.homes[i] # c.stream =>
                 c.homes[i] # Foreign /\ i \in Flagged(shape, c)
    BY <1>2, <1>7, LetThrough
  <2>5. (held[slot] # {} \/ Sets(slot)) => c.stream = Own
    BY <1>2, <2>4 DEF OnlyReadyHold, CallIsKnown, Sets
  <2>6. Launches(slot, calls + 1, c.stream, result.ran, whole)
    BY <2>1, <2>2 DEF Launches
  <2>7. pending' \in [HostThreads -> BOOLEAN]
    BY <1>4, <2>1, <2>2
  <2>8. /\ last'.refused = "none" /\ last'.slot = slot /\ last'.stream = c.stream
        /\ last'.homes = c.homes /\ last'.flagged = Flagged(shape, c)
    BY <1>7, <2>1
  <2>9. BuffersAreFlagged'
    BY <1>1, <2>4, <2>8 DEF BuffersAreFlagged, Shape
  <2>. QED  BY <1>1, <2>2, <2>3, <2>4, <2>5, <2>6, <2>7, <2>8, <2>9
<1>. QED  BY <1>5, <1>6, <1>7

(* A projection is refused, or launches its product behind its input.      *)
LEMMA ExecuteCases ==
    ASSUME Types, ReadyIsCreated, ProjectionsAreReady, NEW t \in HostThreads,
           ExecutePlan(t)
    PROVE  /\ doing[t] \in Projecting /\ doing[t].phase = "execute"
           /\ Returned(t) /\ last' = NoCall
           /\ UNCHANGED <<world, plan, held, resident, tables, scratch, calls,
                          strays, misread, routing>>
           /\ pending' \in [HostThreads -> BOOLEAN]
           /\ \/ UNCHANGED queue
              \/ \E ran \in Seq(KernelNames) :
                   /\ doing[t].stream = Own
                   /\ Launches(doing[t].slot, doing[t].call, Own, ran, TRUE)
<1>. DEFINE slot == doing[t].slot
            native == Shape(slot).native
<1>1. /\ doing[t].phase = "execute" /\ Returned(t) /\ last' = NoCall
      /\ UNCHANGED <<world, plan, held, resident, tables, scratch, calls,
                     strays, misread, routing>>
  BY DEF ExecutePlan
<1>2. doing[t] \in Projecting /\ doing[t] # Nothing
  BY <1>1 DEF Types, Nothing
<1>3. slot \in Slots /\ plan[slot] = "ready"
  BY <1>2 DEF ProjectionsAreReady, Projecting
<1>4. CallIsKnown(native, Shape(slot).execute.order)
  BY <1>3, KnownWorld DEF ReadyIsCreated
<1>5. pending \in [HostThreads -> BOOLEAN]
  BY DEF Types
<1>6. CASE UNCHANGED <<queue, pending>>
  BY <1>1, <1>2, <1>5, <1>6
<1>7. CASE doing[t].stream = Own /\ \E result \in Outcomes(native, pending[t]) :
             /\ queue' = [queue EXCEPT ![Own] =
                    @ \o Work(slot, doing[t].call, result.ran, TRUE)]
             /\ pending' = [pending EXCEPT ![t] = result.pending]
  <2>1. PICK result \in Outcomes(native, pending[t]) :
             /\ queue' = [queue EXCEPT ![Own] =
                    @ \o Work(slot, doing[t].call, result.ran, TRUE)]
             /\ pending' = [pending EXCEPT ![t] = result.pending]
    BY <1>7
  <2>2. /\ result.ran \in Seq(KernelNames) /\ result.pending \in BOOLEAN
        /\ \A i \in 1..Len(result.ran) : result.ran[i] \in Range(native.kernels)
        /\ Sets(slot) => \A i \in 1..Len(result.ran) :
             result.ran[i] = "gemm" => i > 1 /\ result.ran[i - 1] = "setup"
    BY <1>4, <1>5, OutcomesAreRuns DEF Sets
  <2>3. Launches(slot, doing[t].call, Own, result.ran, TRUE)
    BY <2>1, <2>2 DEF Launches
  <2>4. pending' \in [HostThreads -> BOOLEAN]
    BY <1>5, <2>1, <2>2
  <2>. QED  BY <1>1, <1>2, <1>7, <2>2, <2>3, <2>4
<1>. QED  BY <1>6, <1>7, Zenon DEF ExecutePlan, Shape

-----------------------------------------------------------------------------
(* Types.                                                                  *)

(* A thread in a phase of a projection knows which.                        *)
LEMMA InPhase ==
    ASSUME Types, NEW t \in HostThreads
    PROVE  /\ doing[t].phase \in Phases => doing[t] \in Projecting
           /\ doing[t] # Nothing => doing[t] \in Projecting
           /\ doing[t] \in Projecting => doing[t] # Nothing
BY DEF Types, Projecting, Nothing, Phases

(* A phase follows a lock.                                                 *)
LEMMA LockCases ==
    ASSUME Types, NEW t \in HostThreads,
           LockInput(t) \/ LockFactors(t) \/ LockPlan(t)
    PROVE  \E phase \in {"quantized", "scales", "plan"}, next \in Phases,
              lock \in Locks :
               /\ Lock(t, phase, lock, next)
               /\ phase = "quantized" <=> lock = <<"quantized", 0>>
               /\ phase = "plan" <=> next = "execute"
               /\ next # "plan"
<1>1. CASE LockInput(t)
  BY <1>1 DEF LockInput, Phases, Locks
<1>2. CASE LockFactors(t)
  BY <1>2 DEF LockFactors, Phases, Locks
<1>3. CASE LockPlan(t)
  <2>1. doing[t].slot \in Slots
    BY <1>3, InPhase DEF LockPlan, Projecting
  <2>. QED  BY <1>3, <2>1 DEF LockPlan, Phases, Locks
<1>. QED  BY <1>1, <1>2, <1>3

(* Nothing that a projection does moves it to another plan or call.        *)
LEMMA LockKeeps ==
    ASSUME Types, NEW t \in HostThreads, NEW phase \in Phases, NEW next \in Phases,
           NEW lock, Lock(t, phase, lock, next)
    PROVE  /\ doing[t] \in Projecting /\ doing[t].phase = phase
           /\ doing' \in [HostThreads -> Projecting \cup {Nothing}]
           /\ doing'[t] \in Projecting /\ doing'[t].phase = next
           /\ doing'[t].slot = doing[t].slot /\ doing'[t].call = doing[t].call
           /\ doing'[t].stream = doing[t].stream
           /\ \A u \in HostThreads \ {t} : doing'[u] = doing[u]
           /\ locks[lock] = Nobody /\ locks' \in [Locks -> HostThreads \cup {Nobody}]
           /\ locks' = [locks EXCEPT ![lock] = t]
           /\ last' = NoCall
           /\ UNCHANGED <<world, plan, held, resident, queue, tables, scratch,
                          pending, calls, strays, misread, routing>>
<1>1. doing[t].phase = phase /\ doing[t] \in Projecting
  BY InPhase DEF Lock
<1>2. /\ doing \in [HostThreads -> Projecting \cup {Nothing}]
      /\ locks \in [Locks -> HostThreads \cup {Nobody}]
  BY DEF Types
<1>3. doing' = [doing EXCEPT ![t].phase = next]
  BY DEF Lock
<1>4. PICK d : d = [doing[t] EXCEPT !.phase = next]
  OBVIOUS
<1>5. /\ d \in Projecting /\ d.phase = next /\ d.slot = doing[t].slot
      /\ d.call = doing[t].call /\ d.stream = doing[t].stream
  BY <1>1, <1>4 DEF Projecting
<1>6. doing' = [doing EXCEPT ![t] = d]
  BY <1>3, <1>4
<1>7. /\ doing' \in [HostThreads -> Projecting \cup {Nothing}]
      /\ doing'[t] = d /\ \A u \in HostThreads \ {t} : doing'[u] = doing[u]
  BY <1>2, <1>5, <1>6
<1>8. /\ locks[lock] = Nobody /\ locks' = [locks EXCEPT ![lock] = t] /\ last' = NoCall
      /\ UNCHANGED <<world, plan, held, resident, queue, tables, scratch,
                     pending, calls, strays, misread, routing>>
  BY DEF Lock
<1>9. locks' \in [Locks -> HostThreads \cup {Nobody}]
  BY <1>2, <1>8
<1>. QED  BY <1>1, <1>5, <1>7, <1>8, <1>9

(* A return lets go of everything.                                         *)
LEMMA ReturnKeeps ==
    ASSUME Types, NEW t \in HostThreads, Returned(t)
    PROVE  /\ doing' \in [HostThreads -> Projecting \cup {Nothing}]
           /\ doing'[t] = Nothing /\ \A u \in HostThreads \ {t} : doing'[u] = doing[u]
           /\ locks' \in [Locks -> HostThreads \cup {Nobody}]
           /\ \A lock \in Locks : locks[lock] # t => locks'[lock] = locks[lock]
BY DEF Types, Returned

(* A quantization is queued, or fails.                                     *)
LEMMA QuantizeCases ==
    ASSUME Types, CallsAreNumbered, NEW t \in HostThreads, LaunchQuantize(t)
    PROVE  LET d == doing[t]  op == Op("quantize", d.slot, d.call, {}) IN
           /\ d \in Projecting /\ d.phase = "quantize" /\ last' = NoCall
           /\ UNCHANGED <<world, plan, held, resident, tables, scratch, pending,
                          calls, misread, routing>>
           /\ doing' \in [HostThreads -> Projecting \cup {Nothing}]
           /\ \A u \in HostThreads \ {t} : doing'[u] = doing[u]
           /\ locks' \in [Locks -> HostThreads \cup {Nobody}]
           /\ strays' \subseteq 1..calls /\ strays \subseteq strays'
           /\ d.call \in 1..calls /\ <<op>> \in Seq(Operation)
           /\ \/ /\ Grown(d.stream, <<op>>) /\ UNCHANGED locks
                 /\ strays' = IF d.stream = Own THEN strays ELSE strays \cup {d.call}
                 /\ doing'[t] \in Projecting /\ doing'[t].phase = "plan"
                 /\ doing'[t].slot = d.slot /\ doing'[t].call = d.call
                 /\ doing'[t].stream = d.stream
              \/ Returned(t) /\ UNCHANGED <<queue, strays>>
<1>. DEFINE d  == doing[t]
            op == Op("quantize", d.slot, d.call, {})
<1>1. /\ d \in Projecting /\ d.phase = "quantize" /\ last' = NoCall
      /\ UNCHANGED <<world, plan, held, resident, tables, scratch, pending,
                     calls, misread, routing>>
  BY InPhase DEF LaunchQuantize, Phases
<1>2. d.call \in 1..calls /\ d.slot \in Slots /\ d.stream \in Streams
  BY <1>1, InPhase DEF CallsAreNumbered, Projecting
<1>3. op \in Operation
  BY <1>2 DEF Op, Operation, OpNames, Types
<1>4. /\ doing \in [HostThreads -> Projecting \cup {Nothing}]
      /\ locks \in [Locks -> HostThreads \cup {Nobody}]
      /\ strays \subseteq 1..calls
      /\ queue \in [Streams -> Seq(Operation)]
  BY DEF Types
<1>5. CASE Returned(t) /\ UNCHANGED <<queue, strays>>
  BY <1>1, <1>2, <1>3, <1>4, <1>5, ReturnKeeps
<1>6. CASE /\ queue' = [queue EXCEPT ![d.stream] = Append(@, op)]
           /\ strays' = IF d.stream = Own THEN strays ELSE strays \cup {d.call}
           /\ doing' = [doing EXCEPT ![t].phase = "plan"]
           /\ UNCHANGED locks
  <2>1. queue[d.stream] \in Seq(Operation)
    BY <1>2, <1>4
  <2>2. Append(queue[d.stream], op) = queue[d.stream] \o <<op>>
    BY <1>3, <2>1, AppendIsConcat
  <2>3. queue' = [queue EXCEPT ![d.stream] = @ \o <<op>>]
    BY <1>6, <2>2, Zenon
  <2>4. <<op>> \in Seq(Operation)
    BY <1>3
  <2>5. Grown(d.stream, <<op>>)
    BY <1>2, <2>3, <2>4, QueueGrows
  <2>6. PICK e : e = [d EXCEPT !.phase = "plan"]
    OBVIOUS
  <2>7. /\ e \in Projecting /\ e.phase = "plan" /\ e.slot = d.slot
        /\ e.call = d.call /\ e.stream = d.stream
    BY <1>1, <2>6 DEF Projecting, Phases
  <2>8. doing' = [doing EXCEPT ![t] = e]
    BY <1>6, <2>6
  <2>9. /\ doing' \in [HostThreads -> Projecting \cup {Nothing}]
        /\ doing'[t] = e /\ \A u \in HostThreads \ {t} : doing'[u] = doing[u]
    BY <1>4, <2>7, <2>8
  <2>10. strays' \subseteq 1..calls /\ strays \subseteq strays'
    BY <1>2, <1>4, <1>6
  <2>. QED  BY <1>1, <1>2, <1>4, <1>6, <2>4, <2>5, <2>7, <2>9, <2>10
<1>. QED  BY <1>5, <1>6, Zenon DEF LaunchQuantize

(* What the device does with the first operation of a stream.              *)
LEMMA RunCases ==
    ASSUME Types, CallsAreNumbered, NEW s \in Streams, Run(s)
    PROVE  LET op == queue[s][1] IN
           /\ Advanced(s) /\ op \in Operation /\ 1 \in At(s) /\ last' = NoCall
           /\ UNCHANGED <<world, plan, held, pending, calls, strays, doing, locks,
                          routing>>
           /\ resident' \in [Slots -> SUBSET Nat]
           /\ \A slot \in Slots, p \in Nat :
                p \in resident'[slot] <=>
                    \/ p \in resident[slot] /\ ~Frees(op, slot, p)
                    \/ Allocates(op, slot, p)
           /\ tables' \in [Slots -> SUBSET Nat]
           /\ \A slot \in Slots :
                /\ tables'[slot] \subseteq 1..calls
                /\ slot # op.slot \/ op.name \notin {"init", "setup"}
                       => tables'[slot] = tables[slot]
           /\ op.name = "setup" /\ op.whole => tables'[op.slot] = {op.call}
           /\ scratch' = IF op.name = "quantize" THEN op.call ELSE scratch
           /\ scratch' \in 0..calls
           /\ misread' = IF op.name = "gemm" /\ Strange(op) # {}
                         THEN misread \cup {[reader |-> op.call, whole |-> op.whole,
                                             read |-> Strange(op)]}
                         ELSE misread
<1>. DEFINE op == queue[s][1]
<1>1. /\ queue[s] # <<>> /\ queue' = [queue EXCEPT ![s] = Tail(@)] /\ last' = NoCall
      /\ UNCHANGED <<world, plan, held, pending, calls, strays, doing, locks,
                     routing>>
  BY DEF Run
<1>2. Advanced(s) /\ op \in Operation /\ Head(queue[s]) = op /\ 1 \in At(s)
  <2>1. Advanced(s)
    BY <1>1, QueueAdvances
  <2>. QED  BY <2>1 DEF Advanced, At
<1>3. /\ op.slot \in Slots /\ op.needs \in SUBSET Nat /\ op.call \in 0..calls
      /\ op.name = "setup" => op.call \in 1..calls
  BY <1>2 DEF Operation, CallsAreNumbered, Types
<1>4. /\ resident' = CASE op.name = "alloc" ->
                            [resident EXCEPT ![op.slot] = @ \cup op.needs]
                       [] op.name = "free" ->
                            [resident EXCEPT ![op.slot] = @ \ op.needs]
                       [] OTHER -> resident
      /\ tables' = CASE op.name = "init"  -> [tables EXCEPT ![op.slot] = {}]
                     [] op.name = "setup" ->
                          [tables EXCEPT ![op.slot] =
                              IF op.whole THEN {op.call} ELSE @ \cup {op.call}]
                     [] OTHER -> tables
      /\ scratch' = IF op.name = "quantize" THEN op.call ELSE scratch
      /\ misread' = IF op.name = "gemm" /\ Strange(op) # {}
                    THEN misread \cup {[reader |-> op.call, whole |-> op.whole,
                                        read |-> Strange(op)]}
                    ELSE misread
  BY <1>2, Zenon DEF Run
<1>5. /\ resident \in [Slots -> SUBSET Nat] /\ tables \in [Slots -> SUBSET Nat]
      /\ scratch \in 0..calls /\ \A slot \in Slots : tables[slot] \subseteq 1..calls
  BY DEF Types, CallsAreNumbered
<1>6. /\ resident' \in [Slots -> SUBSET Nat]
      /\ \A slot \in Slots, p \in Nat :
           p \in resident'[slot] <=>
               \/ p \in resident[slot] /\ ~Frees(op, slot, p)
               \/ Allocates(op, slot, p)
  <2>1. CASE op.name = "alloc"
    <3>1. resident' = [resident EXCEPT ![op.slot] = @ \cup op.needs]
      BY <1>4, <2>1
    <3>. QED  BY <1>3, <1>5, <2>1, <3>1 DEF Frees, Allocates
  <2>2. CASE op.name = "free"
    <3>1. resident' = [resident EXCEPT ![op.slot] = @ \ op.needs]
      BY <1>4, <2>2
    <3>. QED  BY <1>3, <1>5, <2>2, <3>1 DEF Frees, Allocates
  <2>3. CASE op.name \notin {"alloc", "free"}
    <3>1. resident' = resident
      BY <1>4, <2>3
    <3>. QED  BY <1>5, <2>3, <3>1 DEF Frees, Allocates
  <2>. QED  BY <2>1, <2>2, <2>3
<1>7. /\ tables' \in [Slots -> SUBSET Nat]
      /\ \A slot \in Slots :
           /\ tables'[slot] \subseteq 1..calls
           /\ slot # op.slot \/ op.name \notin {"init", "setup"}
                  => tables'[slot] = tables[slot]
      /\ op.name = "setup" /\ op.whole => tables'[op.slot] = {op.call}
  <2>1. CASE op.name = "init"
    <3>1. tables' = [tables EXCEPT ![op.slot] = {}]
      BY <1>4, <2>1
    <3>. QED  BY <1>3, <1>5, <2>1, <3>1
  <2>2. CASE op.name = "setup"
    <3>1. tables' = [tables EXCEPT ![op.slot] =
                        IF op.whole THEN {op.call} ELSE @ \cup {op.call}]
      BY <1>4, <2>2
    <3>2. op.call \in 1..calls /\ 1..calls \subseteq Nat
      BY <1>3, <2>2, KnownWorld DEF Types
    <3>. QED  BY <1>3, <1>5, <2>2, <3>1, <3>2
  <2>3. CASE op.name \notin {"init", "setup"}
    <3>1. tables' = tables
      BY <1>4, <2>3
    <3>. QED  BY <1>5, <2>3, <3>1
  <2>. QED  BY <2>1, <2>2, <2>3
<1>8. scratch' \in 0..calls
  BY <1>3, <1>4, <1>5
<1>. QED  BY <1>1, <1>2, <1>4, <1>6, <1>7, <1>8

(* The kernel that sorts rows is by itself.                                *)
LEMMA RouteCases ==
    ASSUME Types, CallsAreNumbered,
           StepRoutes \/ \E s \in Streams : StartRoutes(s) \/ FinishRoutes(s)
    PROVE  /\ last' = NoCall
           /\ UNCHANGED <<world, plan, held, resident, tables, scratch, pending,
                          calls, strays, misread, doing, locks>>
           /\ "phase" \in DOMAIN routing'
           /\ routing'.phase \in {"idle", "count", "place", "done"}
           /\ \/ UNCHANGED queue
              \/ \E s \in Streams :
                   Advanced(s) /\ 1 \in At(s) /\ queue[s][1].name = "routes"
<1>1. ASSUME NEW s \in Streams, StartRoutes(s)
      PROVE  /\ "phase" \in DOMAIN routing' /\ routing'.phase = "count"
             /\ UNCHANGED queue
  BY <1>1 DEF StartRoutes, BeginRoutes
<1>2. ASSUME RouteStep
      PROVE  /\ "phase" \in DOMAIN routing'
             /\ routing'.phase \in {"idle", "count", "place", "done"}
  <2>1. /\ "phase" \in DOMAIN routing
        /\ routing.phase \in {"idle", "count", "place", "done"}
    BY DEF Types
  <2>2. ASSUME NEW e \in RoutedExperts, ZeroCount(e)
        PROVE  "phase" \in DOMAIN routing' /\ routing'.phase = routing.phase
    BY <2>1, <2>2 DEF ZeroCount
  <2>3. ASSUME NEW row \in Routed, CountRow(row)
        PROVE  "phase" \in DOMAIN routing' /\ routing'.phase = routing.phase
    BY <2>1, <2>3 DEF CountRow
  <2>4. ASSUME PlaceBlocks
        PROVE  "phase" \in DOMAIN routing' /\ routing'.phase = "place"
    BY <2>1, <2>4 DEF PlaceBlocks
  <2>5. ASSUME NEW row \in Routed, PlaceRow(row)
        PROVE  "phase" \in DOMAIN routing' /\ routing'.phase = routing.phase
    BY <2>1, <2>5 DEF PlaceRow
  <2>6. ASSUME SortRows
        PROVE  "phase" \in DOMAIN routing' /\ routing'.phase = "done"
    BY <2>1, <2>6 DEF SortRows
  <2>. QED  BY <1>2, <2>1, <2>2, <2>3, <2>4, <2>5, <2>6 DEF RouteStep
<1>3. ASSUME StepRoutes
      PROVE  /\ "phase" \in DOMAIN routing'
             /\ routing'.phase \in {"idle", "count", "place", "done"}
             /\ UNCHANGED queue
  BY <1>2, <1>3 DEF StepRoutes
<1>4. ASSUME NEW s \in Streams, FinishRoutes(s)
      PROVE  /\ "phase" \in DOMAIN routing' /\ routing'.phase = "idle"
             /\ Advanced(s) /\ 1 \in At(s) /\ queue[s][1].name = "routes"
  <2>1. Advanced(s) /\ Head(queue[s]).name = "routes"
    BY <1>4, QueueAdvances DEF FinishRoutes
  <2>2. 1 \in At(s) /\ queue[s][1].name = "routes"
    BY <2>1 DEF Advanced, At
  <2>. QED  BY <1>4, <2>1, <2>2 DEF FinishRoutes, EndRoutes, Idle
<1>5. /\ last' = NoCall
      /\ UNCHANGED <<world, plan, held, resident, tables, scratch, pending,
                     calls, strays, misread, doing, locks>>
  BY DEF StepRoutes, StartRoutes, FinishRoutes
<1>. QED  BY <1>1, <1>3, <1>4, <1>5

(* A creation that fails queues a free behind its steps.                   *)
FailedOps(slot, steps, n) ==
    Prepared(slot, steps, n) \o Released(slot, Allocated(steps, n))

(* The steps of a creation that failed, then the free of what they made.   *)
LEMMA FailedIsKnown ==
    ASSUME NEW slot \in Slots, NEW steps \in Seq({"alloc", "init"}),
           NEW n \in 0..Len(steps)
    PROVE  LET ops == FailedOps(slot, steps, n)  pieces == Allocated(steps, n) IN
           /\ ops \in Seq(Operation)
           /\ Len(ops) = IF pieces = {} THEN n ELSE n + 1
           /\ \A i \in 1..n : ops[i] = Prepared(slot, steps, n)[i]
           /\ pieces # {} => /\ ops[n + 1].name = "free" /\ ops[n + 1].slot = slot
                             /\ ops[n + 1].call = 0 /\ ops[n + 1].needs = pieces
<1>. DEFINE P == Prepared(slot, steps, n)
            pieces == Allocated(steps, n)
            R == Released(slot, pieces)
<1>1. P \in Seq(Operation) /\ Len(P) = n /\ pieces \in SUBSET Nat
  BY PreparedIsKnown
<1>2. /\ R \in Seq(Operation) /\ Len(R) = IF pieces = {} THEN 0 ELSE 1
      /\ pieces # {} => /\ R[1].name = "free" /\ R[1].slot = slot
                        /\ R[1].call = 0 /\ R[1].needs = pieces
  BY <1>1, ReleasedIsKnown
<1>. HIDE DEF P, R, pieces
<1>3. /\ P \o R \in Seq(Operation) /\ Len(P \o R) = n + Len(R)
      /\ \A i \in 1..(n + Len(R)) : (P \o R)[i] = IF i <= n THEN P[i] ELSE R[i - n]
  BY <1>1, <1>2, ConcatProperties
<1>4. n \in Nat
  OBVIOUS
<1>5. pieces # {} => (P \o R)[n + 1] = R[1]
  BY <1>2, <1>3, <1>4
<1>6. \A i \in 1..n : (P \o R)[i] = P[i]
  BY <1>2, <1>3, <1>4
<1>7. /\ P \o R \in Seq(Operation)
      /\ Len(P \o R) = IF pieces = {} THEN n ELSE n + 1
      /\ \A i \in 1..n : (P \o R)[i] = P[i]
      /\ pieces # {} => /\ (P \o R)[n + 1].name = "free" /\ (P \o R)[n + 1].slot = slot
                        /\ (P \o R)[n + 1].call = 0 /\ (P \o R)[n + 1].needs = pieces
  BY <1>2, <1>3, <1>4, <1>5, <1>6
<1>. QED  BY <1>7 DEF FailedOps, P, R, pieces

(* Queues join in any grouping.                                            *)
LEMMA JoinsAssociate ==
    \A q, r, s \in Seq(Operation) : (q \o r) \o s = q \o (r \o s)
BY ConcatAssociative

(* A creation that fails queues those.                                     *)
LEMMA FailureGrows ==
    ASSUME Types, NEW slot \in Slots, NEW steps \in Seq({"alloc", "init"}),
           NEW n \in 0..Len(steps), Failed(slot, steps, n)
    PROVE  Grown(Own, FailedOps(slot, steps, n))
<1>. DEFINE P == Prepared(slot, steps, n)
            R == Released(slot, Allocated(steps, n))
<1>1. P \in Seq(Operation) /\ R \in Seq(Operation)
  BY PreparedIsKnown, ReleasedIsKnown
<1>2. queue' = [queue EXCEPT ![Own] = @ \o P \o R]
  BY DEF Failed
<1>. HIDE DEF P, R
<1>3. Own \in Streams /\ queue[Own] \in Seq(Operation)
  BY DEF Types, Streams
<1>4. queue[Own] \o P \o R = queue[Own] \o (P \o R) /\ P \o R \in Seq(Operation)
  <2>1. queue[Own] \o P \o R = queue[Own] \o (P \o R)
    BY <1>1, <1>3, JoinsAssociate
  <2>2. P \o R \in Seq(Operation)
    BY <1>1, ConcatProperties, Zenon
  <2>. QED  BY <2>1, <2>2
<1>5. queue' = [queue EXCEPT ![Own] = @ \o (P \o R)]
  BY <1>2, <1>4, Zenon
<1>6. Grown(Own, P \o R)
  BY <1>3, <1>4, <1>5, QueueGrows
<1>. QED  BY <1>6 DEF FailedOps, P, R

(* What a creation leaves in the queue, and in the books.                  *)
CreatedOps(slot, steps, n, ops) ==
    /\ ops \in Seq(Operation) /\ Grown(Own, ops) /\ n <= Len(ops)
    /\ \A i \in 1..n :
         /\ ops[i].name = steps[i] /\ ops[i].slot = slot /\ ops[i].call = 0
         /\ ops[i].needs = IF steps[i] = "alloc" THEN {i} ELSE Allocated(steps, i)

(* What each end of a creation queues and books.                           *)
LEMMA CreatedCases ==
    ASSUME Types, NEW t \in HostThreads, NEW slot \in Slots, Create(t, slot)
    PROVE  \E steps \in Seq({"alloc", "init"}), ops \in Seq(Operation) :
           \E n \in 0..Len(steps) :
              /\ CreatedOps(slot, steps, n, ops)
              /\ \/ /\ plan' = [plan EXCEPT ![slot] = "ready"]
                    /\ held' = [held EXCEPT ![slot] = Allocated(steps, n)]
                    /\ Len(ops) = n
                    /\ Shape(slot).create
                    /\ steps = Shape(slot).native.creation
                 \/ /\ plan' = [plan EXCEPT ![slot] = "failed"]
                    /\ held' = held
                    /\ Len(ops) = IF Allocated(steps, n) = {} THEN n ELSE n + 1
                    /\ Allocated(steps, n) # {} =>
                          /\ ops[n + 1].name = "free" /\ ops[n + 1].slot = slot
                          /\ ops[n + 1].call = 0
                          /\ ops[n + 1].needs = Allocated(steps, n)
<1>1. PICK steps \in Seq({"alloc", "init"}) : \E n \in 0..Len(steps) :
        \/ /\ Succeeded(slot, steps, n)
           /\ Shape(slot).create
           /\ steps = Shape(slot).native.creation
        \/ Failed(slot, steps, n) /\ UNCHANGED held
  BY CreateCases
<1>2. PICK n \in 0..Len(steps) :
        \/ /\ Succeeded(slot, steps, n)
           /\ Shape(slot).create
           /\ steps = Shape(slot).native.creation
        \/ Failed(slot, steps, n) /\ UNCHANGED held
  BY <1>1
<1>. DEFINE P == Prepared(slot, steps, n)
<1>3. /\ n \in Nat /\ P \in Seq(Operation) /\ Len(P) = n
      /\ \A i \in 1..n :
           /\ P[i].name = steps[i] /\ P[i].slot = slot /\ P[i].call = 0
           /\ P[i].needs = IF steps[i] = "alloc" THEN {i} ELSE Allocated(steps, i)
  <2>1. n \in Nat
    OBVIOUS
  <2>. QED  BY <2>1, PreparedIsKnown, Zenon
<1>4. CASE Succeeded(slot, steps, n) /\ Shape(slot).create
           /\ steps = Shape(slot).native.creation
  <2>1. Own \in Streams /\ queue' = [queue EXCEPT ![Own] = @ \o P]
    BY <1>4 DEF Succeeded, Streams
  <2>. HIDE DEF P
  <2>2. Grown(Own, P)
    BY <1>3, <2>1, QueueGrows
  <2>3. CreatedOps(slot, steps, n, P)
    <3>1. n <= Len(P)
      BY <1>3
    <3>. QED  BY <1>3, <2>2, <3>1, Zenon DEF CreatedOps
  <2>. QED  BY <1>3, <1>4, <2>3 DEF Succeeded
<1>5. CASE Failed(slot, steps, n) /\ UNCHANGED held
  <2>. DEFINE ops == FailedOps(slot, steps, n)
  <2>1. /\ ops \in Seq(Operation)
        /\ Len(ops) = IF Allocated(steps, n) = {} THEN n ELSE n + 1
        /\ \A i \in 1..n : ops[i] = P[i]
        /\ Allocated(steps, n) # {} =>
              /\ ops[n + 1].name = "free" /\ ops[n + 1].slot = slot
              /\ ops[n + 1].call = 0 /\ ops[n + 1].needs = Allocated(steps, n)
    BY FailedIsKnown
  <2>2. Grown(Own, ops)
    BY <1>5, FailureGrows
  <2>4. plan' = [plan EXCEPT ![slot] = "failed"] /\ held' = held
    BY <1>5 DEF Failed
  <2>. HIDE DEF P, ops
  <2>3. CreatedOps(slot, steps, n, ops)
    <3>1. n <= Len(ops)
      BY <1>3, <2>1
    <3>2. \A i \in 1..n : ops[i] = P[i]
      BY <2>1
    <3>. QED  BY <1>3, <2>1, <2>2, <3>1, <3>2, Zenon DEF CreatedOps
  <2>. QED  BY <2>1, <2>3, <2>4
<1>. QED  BY <1>2, <1>4, <1>5

-----------------------------------------------------------------------------
(* What every step keeps.                                                  *)

(* A world has the same plans in every state.                              *)
LEMMA SameWorld ==
    ASSUME world' = world
    PROVE  /\ Slots' = Slots /\ Operation' = Operation /\ Projecting' = Projecting
           /\ Locks' = Locks
           /\ \A slot : Shape(slot)' = Shape(slot) /\ (Sets(slot)' <=> Sets(slot))
BY DEF Slots, Operation, Projecting, Locks, Shape, Sets

(* Operations that join keep the numbers of calls.                         *)
LEMMA NumbersGrow ==
    ASSUME Types, CallsAreNumbered, NEW s \in Streams, NEW ops \in Seq(Operation),
           Grown(s, ops), world' = world, tables' = tables,
           calls' \in Nat, calls <= calls',
           \A i \in 1..Len(ops) :
               /\ ops[i].call <= calls'
               /\ ops[i].name \in {"setup", "gemm", "quantize"} => ops[i].call > 0,
           \A t \in HostThreads : doing'[t] # Nothing => doing'[t].call \in 1..calls'
    PROVE  CallsAreNumbered'
<1>1. calls \in Nat
  BY KnownWorld DEF Types
<1>2. ASSUME NEW r \in Streams, NEW i \in At(r)'
      PROVE  /\ queue'[r][i].call <= calls'
             /\ queue'[r][i].name \in {"setup", "gemm", "quantize"}
                    => queue'[r][i].call > 0
  <2>1. CASE r # s
    <3>1. queue'[r] = queue[r] /\ i \in At(r)
      BY <2>1 DEF Grown, At
    <3>2. queue[r][i].call <= calls /\ queue[r][i] \in Operation
      BY <3>1 DEF CallsAreNumbered, Types, At
    <3>3. queue[r][i].call <= calls'
      BY <1>1, <3>2 DEF Operation
    <3>. QED  BY <3>1, <3>3 DEF CallsAreNumbered
  <2>2. CASE r = s
    <3>1. CASE i \in At(s) /\ queue'[s][i] = queue[s][i]
      <4>1. queue[s][i].call <= calls /\ queue[s][i] \in Operation
        BY <3>1 DEF CallsAreNumbered, Types, At
      <4>2. queue[s][i].call <= calls'
        BY <1>1, <4>1 DEF Operation
      <4>. QED  BY <2>2, <3>1, <4>2 DEF CallsAreNumbered
    <3>2. CASE \E k \in 1..Len(ops) : queue'[s][i] = ops[k]
      BY <2>2, <3>2
    <3>. QED  BY <2>2, <3>1, <3>2, GrownPlaces
  <2>. QED  BY <2>1, <2>2
<1>3. \A slot \in Slots' : tables'[slot] \subseteq 1..calls'
  BY <1>1, SameWorld DEF CallsAreNumbered
<1>. QED  BY <1>2, <1>3 DEF CallsAreNumbered

(* Operations that join keep other streams free of a plan's memory.        *)
LEMMA OthersGrow ==
    ASSUME Types, OthersNeedNothing, NEW s \in Streams, NEW ops \in Seq(Operation),
           Grown(s, ops), world' = world, strays \subseteq strays',
           s = Other => \A i \in 1..Len(ops) :
               /\ ops[i].needs = {} /\ ops[i].name \in {"gemm", "routes", "quantize"}
               /\ ops[i].name = "gemm" => ~Sets(ops[i].slot) /\ ~world.shared
               /\ ops[i].name = "quantize" => ops[i].call \in strays'
    PROVE  OthersNeedNothing'
<1>. Other \in Streams
  BY DEF Streams
<1>1. ASSUME NEW i \in At(Other)'
      PROVE  \/ i \in At(Other) /\ queue'[Other][i] = queue[Other][i]
             \/ s = Other /\ \E k \in 1..Len(ops) : queue'[Other][i] = ops[k]
  <2>1. CASE s # Other
    BY <1>1, <2>1 DEF Grown, At
  <2>2. CASE s = Other
    BY <1>1, <2>2, GrownPlaces
  <2>. QED  BY <2>1, <2>2
<1>2. ASSUME NEW i \in At(Other)', i \in At(Other), queue'[Other][i] = queue[Other][i]
      PROVE  LET op == queue'[Other][i] IN
             /\ op.needs = {} /\ op.name \in {"gemm", "routes", "quantize"}
             /\ op.name = "gemm" => ~Sets(op.slot) /\ ~world.shared
             /\ op.name = "quantize" => op.call \in strays'
  BY <1>2 DEF OthersNeedNothing
<1>3. ASSUME NEW i \in At(Other)', s = Other,
             \E k \in 1..Len(ops) : queue'[Other][i] = ops[k]
      PROVE  LET op == queue'[Other][i] IN
             /\ op.needs = {} /\ op.name \in {"gemm", "routes", "quantize"}
             /\ op.name = "gemm" => ~Sets(op.slot) /\ ~world.shared
             /\ op.name = "quantize" => op.call \in strays'
  BY <1>3
<1>4. ASSUME NEW i \in At(Other)'
      PROVE  LET op == queue'[Other][i] IN
             /\ op.needs = {} /\ op.name \in {"gemm", "routes", "quantize"}
             /\ op.name = "gemm" => ~Sets(op.slot) /\ ~world.shared
             /\ op.name = "quantize" => op.call \in strays'
  BY <1>1, <1>2, <1>3, Zenon
<1>. QED  BY <1>4 DEF OthersNeedNothing, Sets, Shape

(* An operation that leaves keeps both.                                    *)
LEMMA BooksAdvance ==
    ASSUME Types, CallsAreNumbered, OthersNeedNothing, NEW s \in Streams, Advanced(s),
           UNCHANGED <<world, calls, strays, doing>>,
           \A slot \in Slots : tables'[slot] \subseteq 1..calls
    PROVE  CallsAreNumbered' /\ OthersNeedNothing'
<1>1. ASSUME NEW r \in Streams, NEW i \in At(r)'
      PROVE  \E j \in At(r) : queue'[r][i] = queue[r][j]
  <2>1. CASE r # s
    BY <2>1 DEF Advanced, At
  <2>2. CASE r = s
    <3>1. i \in 1..(Len(queue[s]) - 1) /\ Len(queue[s]) \in Nat
      BY <2>2 DEF Advanced, At
    <3>2. i + 1 \in At(s) /\ queue'[s][i] = queue[s][i + 1]
      BY <3>1 DEF Advanced, At
    <3>. QED  BY <2>2, <3>2
  <2>. QED  BY <2>1, <2>2
<1>2. CallsAreNumbered'
  BY <1>1, SameWorld DEF CallsAreNumbered
<1>3. ASSUME NEW i \in At(Other)'
      PROVE  LET op == queue'[Other][i] IN
             /\ op.needs = {} /\ op.name \in {"gemm", "routes", "quantize"}
             /\ op.name = "gemm" => ~Sets(op.slot) /\ ~world.shared
             /\ op.name = "quantize" => op.call \in strays'
  <2>1. PICK j \in At(Other) : queue'[Other][i] = queue[Other][j]
    BY <1>1 DEF Streams
  <2>. QED  BY <2>1 DEF OthersNeedNothing
<1>4. OthersNeedNothing'
  BY <1>3 DEF OthersNeedNothing, Sets, Shape
<1>. QED  BY <1>2, <1>4


(* Types, in a world that stays.                                           *)
LEMMA TypesPersist ==
    ASSUME Types, world' = world,
           plan' \in [Slots -> {"none", "ready", "failed", "dropped"}],
           held' \in [Slots -> SUBSET Nat], resident' \in [Slots -> SUBSET Nat],
           queue' \in [Streams -> Seq(Operation)], tables' \in [Slots -> SUBSET Nat],
           pending' \in [HostThreads -> BOOLEAN], calls' \in 0..world.calls,
           scratch' \in 0..calls', strays' \subseteq 1..calls',
           doing' \in [HostThreads -> Projecting \cup {Nothing}],
           locks' \in [Locks -> HostThreads \cup {Nobody}],
           last'.refused \in {"none", "lengths", "numbers"} \cup CheckNames,
           "phase" \in DOMAIN routing',
           routing'.phase \in {"idle", "count", "place", "done"}
    PROVE  Types'
<1>1. Slots' = Slots /\ Operation' = Operation /\ Projecting' = Projecting /\ Locks' = Locks
  BY SameWorld
<1>2. world' \in Worlds
  BY DEF Types
<1>3. /\ plan' \in [Slots' -> {"none", "ready", "failed", "dropped"}]
      /\ held' \in [Slots' -> SUBSET Nat] /\ resident' \in [Slots' -> SUBSET Nat]
      /\ tables' \in [Slots' -> SUBSET Nat]
      /\ queue' \in [Streams -> Seq(Operation')]
      /\ doing' \in [HostThreads -> Projecting' \cup {Nothing}]
      /\ locks' \in [Locks' -> HostThreads \cup {Nobody}]
      /\ calls' \in 0..world'.calls
  BY <1>1
<1>. QED  BY <1>2, <1>3, Zenon DEF Types, Streams, Nothing

(* No call, no operands.                                                   *)
LEMMA NoCallIsFlagged ==
    ASSUME last' = NoCall
    PROVE  /\ BuffersAreFlagged'
           /\ last'.refused \in {"none", "lengths", "numbers"} \cup CheckNames
BY DEF NoCall, BuffersAreFlagged

(* Plans that become ready are created, and those in use stay ready.       *)
LEMMA ReadyPersists ==
    ASSUME ReadyIsCreated, ProjectionsAreReady, Types, world' = world,
           \A slot \in Slots : plan'[slot] = "ready" =>
               plan[slot] = "ready" \/ (Shape(slot).spec /\ Shape(slot).create),
           \A t \in HostThreads : doing'[t] # Nothing =>
               world.shared /\ doing'[t].slot \in Slots /\ plan'[doing'[t].slot] = "ready"
    PROVE  ReadyIsCreated' /\ ProjectionsAreReady'
BY DEF ReadyIsCreated, ProjectionsAreReady, Shape, Slots

(* Operations that no call is behind join the plans' stream.               *)
LEMMA UncalledGrow ==
    ASSUME Types, CallsAreNumbered, OthersNeedNothing, NEW ops \in Seq(Operation),
           Grown(Own, ops), UNCHANGED <<world, tables, calls, strays, doing>>,
           \A i \in 1..Len(ops) : /\ ops[i].call = 0
                                  /\ ops[i].name \in {"alloc", "init", "free"}
    PROVE  CallsAreNumbered' /\ OthersNeedNothing'
<1>1. calls' \in Nat /\ calls <= calls' /\ Own \in Streams /\ Own # Other
  BY KnownWorld, ThreeStreams DEF Types, Streams
<1>2. \A i \in 1..Len(ops) :
        /\ ops[i].call <= calls'
        /\ ops[i].name \in {"setup", "gemm", "quantize"} => ops[i].call > 0
  BY <1>1
<1>3. \A t \in HostThreads : doing'[t] # Nothing => doing'[t].call \in 1..calls'
  BY DEF CallsAreNumbered
<1>4. CallsAreNumbered'
  BY <1>1, <1>2, <1>3, NumbersGrow
<1>5. OthersNeedNothing'
  BY <1>1, OthersGrow
<1>. QED  BY <1>4, <1>5

(* All that a creation queues is of its plan, and of no call.              *)
LEMMA CreatedIsUncalled ==
    ASSUME NEW slot \in Slots, NEW steps \in Seq({"alloc", "init"}),
           NEW ops \in Seq(Operation), NEW n \in 0..Len(steps),
           CreatedOps(slot, steps, n, ops),
           Len(ops) # n => /\ Len(ops) = n + 1
                           /\ ops[n + 1].name = "free" /\ ops[n + 1].slot = slot
                           /\ ops[n + 1].call = 0
    PROVE  \A i \in 1..Len(ops) : /\ ops[i].call = 0 /\ ops[i].slot = slot
                                  /\ ops[i].name \in {"alloc", "init", "free"}
<1>1. ASSUME NEW i \in 1..n
      PROVE  ops[i].call = 0 /\ ops[i].slot = slot /\ ops[i].name \in {"alloc", "init"}
  <2>1. steps[i] \in {"alloc", "init"}
    BY <1>1
  <2>2. ops[i].name = steps[i] /\ ops[i].slot = slot /\ ops[i].call = 0
    BY <1>1, Zenon DEF CreatedOps
  <2>. QED  BY <2>1, <2>2
<1>2. \A i \in 1..Len(ops) : i \in 1..n \/ (i = n + 1 /\ Len(ops) # n)
  BY DEF CreatedOps
<1>. QED  BY <1>1, <1>2

(* A creation queues nothing of a call, and makes ready what it created.   *)
LEMMA CreateKeepsBase ==
    ASSUME BaseInv, NEW t \in HostThreads, NEW slot \in Slots, Create(t, slot)
    PROVE  /\ BaseInv'
           /\ UNCHANGED <<world, tables, scratch, misread, strays, doing, locks>>
           /\ \E ops \in Seq(Operation) :
                /\ Grown(Own, ops)
                /\ \A i \in 1..Len(ops) : ops[i].name \in {"alloc", "init", "free"}
<1>. USE DEF BaseInv
<1>1. PICK steps \in Seq({"alloc", "init"}), ops \in Seq(Operation) :
           \E n \in 0..Len(steps) :
              /\ CreatedOps(slot, steps, n, ops)
              /\ \/ /\ plan' = [plan EXCEPT ![slot] = "ready"]
                    /\ held' = [held EXCEPT ![slot] = Allocated(steps, n)]
                    /\ Len(ops) = n
                    /\ Shape(slot).create
                    /\ steps = Shape(slot).native.creation
                 \/ /\ plan' = [plan EXCEPT ![slot] = "failed"]
                    /\ held' = held
                    /\ Len(ops) = IF Allocated(steps, n) = {} THEN n ELSE n + 1
                    /\ Allocated(steps, n) # {} =>
                          /\ ops[n + 1].name = "free" /\ ops[n + 1].slot = slot
                          /\ ops[n + 1].call = 0
                          /\ ops[n + 1].needs = Allocated(steps, n)
  BY CreatedCases
<1>2. PICK n \in 0..Len(steps) :
              /\ CreatedOps(slot, steps, n, ops)
              /\ \/ /\ plan' = [plan EXCEPT ![slot] = "ready"]
                    /\ held' = [held EXCEPT ![slot] = Allocated(steps, n)]
                    /\ Len(ops) = n
                    /\ Shape(slot).create
                 \/ /\ plan' = [plan EXCEPT ![slot] = "failed"]
                    /\ held' = held
                    /\ Len(ops) # n =>
                          /\ Len(ops) = n + 1
                          /\ ops[n + 1].name = "free" /\ ops[n + 1].slot = slot
                          /\ ops[n + 1].call = 0
  BY <1>1
<1>3. /\ plan[slot] = "none" /\ Shape(slot).spec
      /\ pending' \in [HostThreads -> BOOLEAN] /\ last' = NoCall
      /\ UNCHANGED <<world, resident, tables, scratch, calls, strays,
                     misread, doing, locks, routing>>
  BY CreateCases
<1>4. Grown(Own, ops) /\ queue' \in [Streams -> Seq(Operation)]
  BY <1>2 DEF CreatedOps, Grown
<1>5. \A i \in 1..Len(ops) : /\ ops[i].call = 0
                             /\ ops[i].name \in {"alloc", "init", "free"}
  BY <1>2, CreatedIsUncalled
<1>6. CallsAreNumbered' /\ OthersNeedNothing'
  BY <1>3, <1>4, <1>5, UncalledGrow
<1>7. /\ plan' \in [Slots -> {"none", "ready", "failed", "dropped"}]
      /\ held' \in [Slots -> SUBSET Nat]
  <2>1. Allocated(steps, n) \in SUBSET Nat
    BY PreparedIsKnown
  <2>. QED  BY <1>2, <2>1 DEF Types
<1>8. Types'
  <2>1. last'.refused \in {"none", "lengths", "numbers"} \cup CheckNames
    BY <1>3, NoCallIsFlagged
  <2>2. /\ resident' \in [Slots -> SUBSET Nat] /\ tables' \in [Slots -> SUBSET Nat]
        /\ calls' \in 0..world.calls /\ scratch' \in 0..calls' /\ strays' \subseteq 1..calls'
        /\ doing' \in [HostThreads -> Projecting \cup {Nothing}]
        /\ locks' \in [Locks -> HostThreads \cup {Nobody}]
        /\ "phase" \in DOMAIN routing'
        /\ routing'.phase \in {"idle", "count", "place", "done"}
    BY <1>3 DEF Types
  <2>. QED  BY <1>3, <1>4, <1>7, <2>1, <2>2, TypesPersist
<1>9. ReadyIsCreated' /\ ProjectionsAreReady'
  <2>1. \A x \in Slots : plan'[x] = "ready" =>
            plan[x] = "ready" \/ (Shape(x).spec /\ Shape(x).create)
    BY <1>2, <1>3 DEF Types
  <2>2. ASSUME NEW u \in HostThreads, doing'[u] # Nothing
        PROVE  world.shared /\ doing'[u].slot \in Slots /\ plan'[doing'[u].slot] = "ready"
    <3>1. doing[u] # Nothing /\ doing[u] \in Projecting
      BY <1>3, <2>2, InPhase
    <3>2. world.shared /\ doing[u].slot \in Slots /\ plan[doing[u].slot] = "ready"
      BY <3>1 DEF ProjectionsAreReady, Projecting
    <3>. QED  BY <1>2, <1>3, <3>2 DEF Types
  <2>. QED  BY <1>3, <2>1, <2>2, ReadyPersists
<1>10. BuffersAreFlagged'
  BY <1>3, NoCallIsFlagged
<1>. QED  BY <1>3, <1>4, <1>5, <1>6, <1>8, <1>9, <1>10


(* A drop queues at most a free, and takes a plan that nobody is in.       *)
LEMMA DropKeepsBase ==
    ASSUME BaseInv, NEW slot \in Slots, Drop(slot)
    PROVE  BaseInv' /\ Grown(Own, Released(slot, held[slot]))
<1>. USE DEF BaseInv
<1>. DEFINE ops == Released(slot, held[slot])
<1>1. /\ plan[slot] = "ready" /\ last' = NoCall
      /\ \A t \in HostThreads : doing[t] # Nothing => doing[t].slot # slot
      /\ plan' = [plan EXCEPT ![slot] = "dropped"]
      /\ held' = [held EXCEPT ![slot] = {}]
      /\ queue' = [queue EXCEPT ![Own] = @ \o ops]
      /\ UNCHANGED <<world, resident, tables, scratch, pending, calls, strays,
                     misread, doing, locks, routing>>
  BY DEF Drop, Emptied
<1>2. held[slot] \in SUBSET Nat /\ Own \in Streams
  BY DEF Types, Streams
<1>3. /\ ops \in Seq(Operation)
      /\ \A i \in 1..Len(ops) : /\ ops[i].call = 0
                                /\ ops[i].name \in {"alloc", "init", "free"}
  BY <1>2, ReleasedIsKnown
<1>. HIDE DEF ops
<1>4. Grown(Own, ops)
  BY <1>1, <1>2, <1>3, QueueGrows
<1>5. queue' \in [Streams -> Seq(Operation)]
  BY <1>4 DEF Grown
<1>6. CallsAreNumbered' /\ OthersNeedNothing'
  BY <1>1, <1>3, <1>4, UncalledGrow
<1>7. Types'
  <2>1. last'.refused \in {"none", "lengths", "numbers"} \cup CheckNames
    BY <1>1, NoCallIsFlagged
  <2>2. /\ plan' \in [Slots -> {"none", "ready", "failed", "dropped"}]
        /\ held' \in [Slots -> SUBSET Nat]
    BY <1>1 DEF Types
  <2>3. /\ resident' \in [Slots -> SUBSET Nat] /\ tables' \in [Slots -> SUBSET Nat]
        /\ pending' \in [HostThreads -> BOOLEAN]
        /\ calls' \in 0..world.calls /\ scratch' \in 0..calls' /\ strays' \subseteq 1..calls'
        /\ doing' \in [HostThreads -> Projecting \cup {Nothing}]
        /\ locks' \in [Locks -> HostThreads \cup {Nobody}]
        /\ "phase" \in DOMAIN routing'
        /\ routing'.phase \in {"idle", "count", "place", "done"}
    BY <1>1 DEF Types
  <2>. QED  BY <1>1, <1>5, <2>1, <2>2, <2>3, TypesPersist
<1>8. ReadyIsCreated' /\ ProjectionsAreReady'
  <2>1. \A x \in Slots : plan'[x] = "ready" => plan[x] = "ready"
    BY <1>1 DEF Types
  <2>2. ASSUME NEW u \in HostThreads, doing'[u] # Nothing
        PROVE  world.shared /\ doing'[u].slot \in Slots /\ plan'[doing'[u].slot] = "ready"
    <3>1. doing[u] # Nothing /\ doing[u] \in Projecting
      BY <1>1, <2>2, InPhase
    <3>2. /\ world.shared /\ doing[u].slot \in Slots /\ plan[doing[u].slot] = "ready"
          /\ doing[u].slot # slot
      BY <1>1, <3>1 DEF ProjectionsAreReady, Projecting
    <3>. QED  BY <1>1, <3>2 DEF Types
  <2>. QED  BY <1>1, <2>1, <2>2, ReadyPersists
<1>9. BuffersAreFlagged'
  BY <1>1, NoCallIsFlagged
<1>. QED  BY <1>4, <1>6, <1>7, <1>8, <1>9 DEF ops

(* What a call launches is work of its plan, on what the plan owns.        *)
Working(slot, call, s, ops) ==
    /\ ops \in Seq(Operation) /\ Grown(s, ops)
    /\ \A i \in 1..Len(ops) :
         /\ ops[i].name \in Range(Shape(slot).native.kernels)
         /\ ops[i].name \in KernelNames /\ ops[i].slot = slot /\ ops[i].call = call
         /\ ops[i].needs = held[slot]
         /\ ops[i].whole = ops[1].whole
         /\ (Sets(slot) /\ ops[i].name = "gemm") => i > 1 /\ ops[i - 1].name = "setup"

(* The kernels of a call, as operations.                                   *)
LEMMA LaunchesWork ==
    ASSUME Types, NEW slot \in Slots, NEW call \in Nat, NEW s \in Streams,
           NEW ran \in Seq(KernelNames), NEW whole \in BOOLEAN,
           Launches(slot, call, s, ran, whole)
    PROVE  Working(slot, call, s, Work(slot, call, ran, whole))
<1>. DEFINE ops == Work(slot, call, ran, whole)
<1>1. /\ ops \in Seq(Operation) /\ Len(ops) = Len(ran)
      /\ \A i \in 1..Len(ran) :
           /\ ops[i].name = ran[i] /\ ops[i].slot = slot /\ ops[i].call = call
           /\ ops[i].needs = held[slot] /\ ops[i].whole = whole
  BY WorkIsKnown
<1>2. /\ queue' = [queue EXCEPT ![s] = @ \o ops]
      /\ Sets(slot) => \A i \in 1..Len(ran) :
                         ran[i] = "gemm" => i > 1 /\ ran[i - 1] = "setup"
      /\ \A i \in 1..Len(ran) : ran[i] \in Range(Shape(slot).native.kernels)
  BY DEF Launches
<1>. HIDE DEF ops
<1>3. Grown(s, ops)
  BY <1>1, <1>2, QueueGrows
<1>4. ASSUME NEW i \in 1..Len(ops)
      PROVE  /\ ops[i].name \in Range(Shape(slot).native.kernels)
             /\ ops[i].name \in KernelNames /\ ops[i].slot = slot /\ ops[i].call = call
             /\ ops[i].needs = held[slot]
             /\ ops[i].whole = ops[1].whole
             /\ (Sets(slot) /\ ops[i].name = "gemm") => i > 1 /\ ops[i - 1].name = "setup"
  <2>1. i \in 1..Len(ran) /\ 1 \in 1..Len(ran) /\ (i > 1 => i - 1 \in 1..Len(ran))
    BY <1>1
  <2>2. ran[i] \in KernelNames
    BY <2>1
  <2>. QED  BY <1>1, <1>2, <2>1, <2>2
<1>5. Working(slot, call, s, ops)
  BY <1>1, <1>3, <1>4, Zenon DEF Working
<1>. QED  BY <1>5 DEF ops

(* A call is numbered next, and queues work of its plan on its stream.     *)
LEMMA CallKeepsBase ==
    ASSUME BaseInv, OnlyReadyHold, NEW t \in HostThreads, NEW slot \in Slots,
           Call(t, slot)
    PROVE  /\ BaseInv'
           /\ ~world.shared /\ plan[slot] = "ready"
           /\ UNCHANGED <<world, plan, held, resident, tables, scratch, strays,
                          misread, doing, locks, routing>>
           /\ \/ UNCHANGED queue
              \/ \E s \in Streams, ops \in Seq(Operation) :
                   /\ Working(slot, calls + 1, s, ops)
                   /\ (held[slot] # {} \/ Sets(slot)) => s = Own
<1>. USE DEF BaseInv
<1>1. /\ ~world.shared /\ plan[slot] = "ready"
      /\ calls < world.calls /\ calls' = calls + 1
      /\ UNCHANGED <<world, plan, held, resident, tables, scratch, strays,
                     misread, doing, locks, routing>>
      /\ pending' \in [HostThreads -> BOOLEAN]
      /\ last'.refused \in {"none", "lengths", "numbers"} \cup CheckNames
      /\ BuffersAreFlagged'
      /\ \/ UNCHANGED queue
         \/ \E s \in Streams, ran \in Seq(KernelNames), whole \in BOOLEAN :
              /\ Launches(slot, calls + 1, s, ran, whole)
              /\ (held[slot] # {} \/ Sets(slot)) => s = Own
  BY CallCases
<1>2. calls \in Nat /\ world.calls \in Nat
  BY KnownWorld DEF Types
<1>3. \A u \in HostThreads : doing'[u] = Nothing
  BY <1>1 DEF ProjectionsAreReady
<1>4. \E s \in Streams, ops \in Seq(Operation) :
           /\ UNCHANGED queue \/ Working(slot, calls + 1, s, ops)
           /\ Grown(s, ops)
           /\ ops # <<>> => Working(slot, calls + 1, s, ops)
           /\ (held[slot] # {} \/ Sets(slot)) => s = Own
  <2>1. CASE UNCHANGED queue
    <3>1. <<>> \in Seq(Operation) /\ Own \in Streams /\ Grown(Own, <<>>)
      BY <2>1 DEF Grown, Streams, Types, At
    <3>. QED  BY <2>1, <3>1
  <2>2. CASE \E s \in Streams, ran \in Seq(KernelNames), whole \in BOOLEAN :
              /\ Launches(slot, calls + 1, s, ran, whole)
              /\ (held[slot] # {} \/ Sets(slot)) => s = Own
    <3>1. PICK s \in Streams, ran \in Seq(KernelNames), whole \in BOOLEAN :
              /\ Launches(slot, calls + 1, s, ran, whole)
              /\ (held[slot] # {} \/ Sets(slot)) => s = Own
      BY <2>2
    <3>2. calls + 1 \in Nat
      BY <1>2
    <3>3. Working(slot, calls + 1, s, Work(slot, calls + 1, ran, whole))
      BY <3>1, <3>2, LaunchesWork
    <3>. DEFINE ops == Work(slot, calls + 1, ran, whole)
    <3>. HIDE DEF ops
    <3>4. Working(slot, calls + 1, s, ops)
      BY <3>3 DEF ops
    <3>5. ops \in Seq(Operation) /\ Grown(s, ops)
      BY <3>4 DEF Working
    <3>. QED  BY <3>1, <3>4, <3>5
  <2>. QED  BY <1>1, <2>1, <2>2
<1>5. PICK s \in Streams, ops \in Seq(Operation) :
           /\ UNCHANGED queue \/ Working(slot, calls + 1, s, ops)
           /\ Grown(s, ops)
           /\ ops # <<>> => Working(slot, calls + 1, s, ops)
           /\ (held[slot] # {} \/ Sets(slot)) => s = Own
  BY <1>4
<1>6. \A i \in 1..Len(ops) :
        /\ ops[i].call = calls + 1 /\ ops[i].slot = slot /\ ops[i].needs = held[slot]
        /\ ops[i].name \in KernelNames
  <2>1. CASE ops = <<>>
    BY <2>1
  <2>2. CASE ops # <<>>
    BY <1>5, <2>2, Zenon DEF Working
  <2>. QED  BY <2>1, <2>2
<1>7. CallsAreNumbered'
  <2>1. calls' \in Nat /\ calls <= calls' /\ calls' = calls + 1 /\ calls' > 0
    BY <1>1, <1>2
  <2>2. \A i \in 1..Len(ops) : /\ ops[i].call <= calls'
                               /\ ops[i].name \in {"setup", "gemm", "quantize"}
                                      => ops[i].call > 0
    BY <1>6, <2>1
  <2>. QED  BY <1>1, <1>3, <1>5, <2>1, <2>2, NumbersGrow
<1>8. OthersNeedNothing'
  <2>1. ASSUME s = Other, NEW i \in 1..Len(ops)
        PROVE  /\ ops[i].needs = {} /\ ops[i].name \in {"gemm", "routes", "quantize"}
               /\ ops[i].name = "gemm" => ~Sets(ops[i].slot) /\ ~world.shared
               /\ ops[i].name = "quantize" => ops[i].call \in strays'
    <3>1. held[slot] = {} /\ ~Sets(slot)
      BY <1>5, <2>1, ThreeStreams
    <3>2. ops[i].name # "setup"
      <4>1. ops # <<>>
        BY <2>1
      <4>2. ops[i].name \in Range(Shape(slot).native.kernels)
        BY <1>5, <2>1, <4>1, Zenon DEF Working
      <4>. QED  BY <3>1, <4>2 DEF Sets
    <3>. QED  BY <1>1, <1>6, <2>1, <3>1, <3>2 DEF KernelNames
  <2>. QED  BY <1>1, <1>5, <2>1, OthersGrow
<1>9. Types'
  <2>1. queue' \in [Streams -> Seq(Operation)]
    BY <1>5 DEF Grown
  <2>2. calls' \in 0..world.calls /\ scratch' \in 0..calls' /\ strays' \subseteq 1..calls'
    BY <1>1, <1>2 DEF Types
  <2>3. /\ plan' \in [Slots -> {"none", "ready", "failed", "dropped"}]
        /\ held' \in [Slots -> SUBSET Nat]
        /\ resident' \in [Slots -> SUBSET Nat] /\ tables' \in [Slots -> SUBSET Nat]
        /\ doing' \in [HostThreads -> Projecting \cup {Nothing}]
        /\ locks' \in [Locks -> HostThreads \cup {Nobody}]
        /\ "phase" \in DOMAIN routing'
        /\ routing'.phase \in {"idle", "count", "place", "done"}
    BY <1>1 DEF Types
  <2>. QED  BY <1>1, <2>1, <2>2, <2>3, TypesPersist
<1>10. ReadyIsCreated' /\ ProjectionsAreReady'
  BY <1>1, <1>3, ReadyPersists
<1>11. \/ UNCHANGED queue
       \/ \E r \in Streams, work \in Seq(Operation) :
            /\ Working(slot, calls + 1, r, work)
            /\ (held[slot] # {} \/ Sets(slot)) => r = Own
  BY <1>5
<1>. QED  BY <1>1, <1>7, <1>8, <1>9, <1>10, <1>11


(* A queue that stays as it is has grown by nothing.                       *)
LEMMA NothingGrows ==
    ASSUME Types, UNCHANGED queue
    PROVE  Own \in Streams /\ \E none \in Seq(Operation) : 1..Len(none) = {} /\ Grown(Own, none)
<1>1. <<>> \in Seq(Operation) /\ 1..Len(<<>>) = {} /\ Own \in Streams /\ Grown(Own, <<>>)
  BY DEF Grown, Streams, Types, At
<1>. QED  BY <1>1

(* A projection begins with the next number.                               *)
LEMMA BeginKeepsBase ==
    ASSUME BaseInv, NEW t \in HostThreads, NEW slot \in Slots, Begin(t, slot)
    PROVE  /\ BaseInv'
           /\ doing'[t].phase = "quantized"
           /\ \A u \in HostThreads \ {t} : doing'[u] = doing[u]
<1>. USE DEF BaseInv
<1>1. PICK s \in Streams : doing' = [doing EXCEPT ![t] =
          [phase |-> "quantized", slot |-> slot, call |-> calls', stream |-> s]]
  BY DEF Begin
<1>2. /\ world.shared /\ plan[slot] = "ready" /\ calls < world.calls
      /\ calls' = calls + 1 /\ last' = NoCall
      /\ UNCHANGED <<world, plan, held, resident, queue, tables, scratch,
                     pending, strays, misread, locks, routing>>
  BY DEF Begin
<1>3. calls \in Nat /\ world.calls \in Nat /\ calls' \in Nat /\ calls <= calls'
      /\ calls' \in 1..calls'
  BY <1>2, KnownWorld DEF Types
<1>. DEFINE d == [phase |-> "quantized", slot |-> slot, call |-> calls', stream |-> s]
<1>4. d \in Projecting /\ d.call = calls' /\ d.slot = slot /\ d.phase = "quantized"
  BY <1>3 DEF Projecting, Phases
<1>5. doing' = [doing EXCEPT ![t] = d]
  BY <1>1
<1>. HIDE DEF d
<1>6. /\ doing' \in [HostThreads -> Projecting \cup {Nothing}] /\ doing'[t] = d
      /\ \A u \in HostThreads \ {t} : doing'[u] = doing[u]
  BY <1>4, <1>5 DEF Types
<1>7. PICK none \in Seq(Operation) : Own \in Streams /\ 1..Len(none) = {} /\ Grown(Own, none)
  BY <1>2, NothingGrows
<1>8. CallsAreNumbered'
  <2>1. \A u \in HostThreads : doing'[u] # Nothing => doing'[u].call \in 1..calls'
    BY <1>2, <1>3, <1>4, <1>6 DEF CallsAreNumbered
  <2>. QED  BY <1>2, <1>3, <1>7, <2>1, NumbersGrow
<1>9. OthersNeedNothing'
  BY <1>2, <1>7, OthersGrow
<1>10. Types'
  <2>1. last'.refused \in {"none", "lengths", "numbers"} \cup CheckNames
    BY <1>2, NoCallIsFlagged
  <2>2. calls' \in 0..world.calls /\ scratch' \in 0..calls' /\ strays' \subseteq 1..calls'
    BY <1>2, <1>3 DEF Types
  <2>3. /\ plan' \in [Slots -> {"none", "ready", "failed", "dropped"}]
        /\ held' \in [Slots -> SUBSET Nat] /\ queue' \in [Streams -> Seq(Operation)]
        /\ resident' \in [Slots -> SUBSET Nat] /\ tables' \in [Slots -> SUBSET Nat]
        /\ pending' \in [HostThreads -> BOOLEAN]
        /\ locks' \in [Locks -> HostThreads \cup {Nobody}]
        /\ "phase" \in DOMAIN routing'
        /\ routing'.phase \in {"idle", "count", "place", "done"}
    BY <1>2 DEF Types
  <2>. QED  BY <1>2, <1>6, <2>1, <2>2, <2>3, TypesPersist
<1>11. ReadyIsCreated' /\ ProjectionsAreReady'
  <2>1. ASSUME NEW u \in HostThreads, doing'[u] # Nothing
        PROVE  world.shared /\ doing'[u].slot \in Slots /\ plan'[doing'[u].slot] = "ready"
    <3>1. CASE u = t
      BY <1>2, <1>4, <1>6, <3>1
    <3>2. CASE u # t
      BY <1>2, <1>6, <2>1, <3>2, InPhase DEF ProjectionsAreReady, Projecting
    <3>. QED  BY <3>1, <3>2
  <2>. QED  BY <1>2, <2>1, ReadyPersists
<1>. QED  BY <1>2, <1>4, <1>6, <1>8, <1>9, <1>10, <1>11, NoCallIsFlagged

(* A projection that goes on, or returns, is of the same plan and call.    *)
LEMMA ProjectionsKeepOn ==
    ASSUME BaseInv, NEW t \in HostThreads, UNCHANGED <<world, plan, calls>>,
           \/ doing'[t] = Nothing
           \/ /\ doing[t] # Nothing /\ doing'[t].slot = doing[t].slot
              /\ doing'[t].call = doing[t].call,
           \A u \in HostThreads \ {t} : doing'[u] = doing[u]
    PROVE  /\ ReadyIsCreated' /\ ProjectionsAreReady'
           /\ \A u \in HostThreads : doing'[u] # Nothing => doing'[u].call \in 1..calls'
<1>. USE DEF BaseInv
<1>1. ASSUME NEW u \in HostThreads, doing'[u] # Nothing
      PROVE  /\ doing[u] # Nothing /\ doing'[u].slot = doing[u].slot
             /\ doing'[u].call = doing[u].call
  BY <1>1
<1>2. ASSUME NEW u \in HostThreads, doing'[u] # Nothing
      PROVE  world.shared /\ doing'[u].slot \in Slots /\ plan'[doing'[u].slot] = "ready"
  <2>1. doing[u] # Nothing /\ doing[u] \in Projecting
    BY <1>1, <1>2, InPhase
  <2>. QED  BY <1>1, <1>2, <2>1 DEF ProjectionsAreReady, Projecting
<1>3. ReadyIsCreated' /\ ProjectionsAreReady'
  BY <1>2, ReadyPersists
<1>. QED  BY <1>1, <1>3 DEF CallsAreNumbered

(* A lock changes nothing but the phase of its thread.                     *)
LEMMA LockKeepsBase ==
    ASSUME BaseInv, NEW t \in HostThreads, NEW phase \in Phases, NEW next \in Phases,
           NEW lock, Lock(t, phase, lock, next)
    PROVE  BaseInv'
<1>. USE DEF BaseInv
<1>1. /\ doing[t] \in Projecting /\ doing[t].phase = phase
      /\ doing' \in [HostThreads -> Projecting \cup {Nothing}]
      /\ doing'[t] \in Projecting /\ doing'[t].phase = next
      /\ doing'[t].slot = doing[t].slot /\ doing'[t].call = doing[t].call
      /\ \A u \in HostThreads \ {t} : doing'[u] = doing[u]
      /\ locks' \in [Locks -> HostThreads \cup {Nobody}]
      /\ last' = NoCall
      /\ UNCHANGED <<world, plan, held, resident, queue, tables, scratch,
                     pending, calls, strays, misread, routing>>
  BY LockKeeps
<1>2. /\ ReadyIsCreated' /\ ProjectionsAreReady'
      /\ \A u \in HostThreads : doing'[u] # Nothing => doing'[u].call \in 1..calls'
  BY <1>1, InPhase, ProjectionsKeepOn
<1>3. PICK none \in Seq(Operation) : Own \in Streams /\ 1..Len(none) = {} /\ Grown(Own, none)
  BY <1>1, NothingGrows
<1>4. CallsAreNumbered' /\ OthersNeedNothing'
  <2>1. calls' \in Nat /\ calls <= calls'
    BY <1>1, KnownWorld DEF Types
  <2>. QED  BY <1>1, <1>2, <1>3, <2>1, NumbersGrow, OthersGrow, ThreeStreams
<1>5. Types'
  <2>1. last'.refused \in {"none", "lengths", "numbers"} \cup CheckNames
    BY <1>1, NoCallIsFlagged
  <2>2. /\ plan' \in [Slots -> {"none", "ready", "failed", "dropped"}]
        /\ calls' \in 0..world.calls /\ scratch' \in 0..calls' /\ strays' \subseteq 1..calls'
        /\ held' \in [Slots -> SUBSET Nat] /\ queue' \in [Streams -> Seq(Operation)]
        /\ resident' \in [Slots -> SUBSET Nat] /\ tables' \in [Slots -> SUBSET Nat]
        /\ pending' \in [HostThreads -> BOOLEAN]
        /\ "phase" \in DOMAIN routing'
        /\ routing'.phase \in {"idle", "count", "place", "done"}
    BY <1>1 DEF Types
  <2>. QED  BY <1>1, <2>1, <2>2, TypesPersist
<1>. QED  BY <1>1, <1>2, <1>4, <1>5, NoCallIsFlagged

(* A quantization is of its projection's call, a stray on the other stream.*)
LEMMA QuantizeKeepsBase ==
    ASSUME BaseInv, NEW t \in HostThreads, LaunchQuantize(t)
    PROVE  BaseInv'
<1>. USE DEF BaseInv
<1>. DEFINE d == doing[t]
            op == Op("quantize", d.slot, d.call, {})
<1>1. /\ d \in Projecting /\ d.phase = "quantize" /\ last' = NoCall
      /\ UNCHANGED <<world, plan, held, resident, tables, scratch, pending,
                     calls, misread, routing>>
      /\ doing' \in [HostThreads -> Projecting \cup {Nothing}]
      /\ \A u \in HostThreads \ {t} : doing'[u] = doing[u]
      /\ locks' \in [Locks -> HostThreads \cup {Nobody}]
      /\ strays' \subseteq 1..calls /\ strays \subseteq strays'
      /\ d.call \in 1..calls /\ <<op>> \in Seq(Operation)
      /\ \/ /\ Grown(d.stream, <<op>>) /\ UNCHANGED locks
            /\ strays' = IF d.stream = Own THEN strays ELSE strays \cup {d.call}
            /\ doing'[t] \in Projecting /\ doing'[t].phase = "plan"
            /\ doing'[t].slot = d.slot /\ doing'[t].call = d.call
            /\ doing'[t].stream = d.stream
         \/ Returned(t) /\ UNCHANGED <<queue, strays>>
  BY QuantizeCases
<1>2. op.name = "quantize" /\ op.call = d.call /\ op.needs = {} /\ op.slot = d.slot
  BY OpParts
<1>3. d # Nothing /\ d.stream \in Streams
  BY <1>1, InPhase DEF Projecting
<1>. HIDE DEF op
<1>4. /\ ReadyIsCreated' /\ ProjectionsAreReady'
      /\ \A u \in HostThreads : doing'[u] # Nothing => doing'[u].call \in 1..calls'
  <2>1. \/ doing'[t] = Nothing
        \/ /\ doing[t] # Nothing /\ doing'[t].slot = doing[t].slot
           /\ doing'[t].call = doing[t].call
    BY <1>1, <1>3, ReturnKeeps
  <2>. QED  BY <1>1, <2>1, ProjectionsKeepOn
<1>5. \E s \in Streams, ops \in Seq(Operation) :
        /\ Grown(s, ops)
        /\ \A i \in 1..Len(ops) :
             /\ ops[i].name = "quantize" /\ ops[i].call = d.call /\ ops[i].needs = {}
             /\ s = Other => d.call \in strays'
  <2>1. CASE Grown(d.stream, <<op>>)
             /\ strays' = IF d.stream = Own THEN strays ELSE strays \cup {d.call}
    <3>. DEFINE one == <<op>>
    <3>1. Len(one) = 1 /\ one[1] = op
      OBVIOUS
    <3>2. one \in Seq(Operation) /\ Grown(d.stream, one)
      BY <1>1, <2>1
    <3>. HIDE DEF one
    <3>3. d.stream = Other => d.call \in strays'
      BY <2>1, ThreeStreams
    <3>4. \A i \in 1..Len(one) :
             /\ one[i].name = "quantize" /\ one[i].call = d.call
             /\ one[i].needs = {}
             /\ d.stream = Other => d.call \in strays'
      BY <1>2, <3>1, <3>3
    <3>. QED  BY <1>3, <3>2, <3>4
  <2>2. CASE UNCHANGED queue
    <3>1. PICK none \in Seq(Operation) :
             Own \in Streams /\ 1..Len(none) = {} /\ Grown(Own, none)
      BY <2>2, NothingGrows
    <3>. QED  BY <3>1
  <2>. QED  BY <1>1, <2>1, <2>2
<1>6. PICK s \in Streams, ops \in Seq(Operation) :
        /\ Grown(s, ops)
        /\ \A i \in 1..Len(ops) :
             /\ ops[i].name = "quantize" /\ ops[i].call = d.call /\ ops[i].needs = {}
             /\ s = Other => d.call \in strays'
  BY <1>5
<1>7. calls' \in Nat /\ calls <= calls' /\ d.call <= calls' /\ d.call > 0
  BY <1>1, KnownWorld DEF Types
<1>8. CallsAreNumbered'
  <2>1. \A i \in 1..Len(ops) : /\ ops[i].call <= calls'
                               /\ ops[i].name \in {"setup", "gemm", "quantize"}
                                      => ops[i].call > 0
    BY <1>6, <1>7
  <2>. QED  BY <1>1, <1>4, <1>6, <1>7, <2>1, NumbersGrow
<1>9. OthersNeedNothing'
  <2>1. s = Other => \A i \in 1..Len(ops) :
               /\ ops[i].needs = {} /\ ops[i].name \in {"gemm", "routes", "quantize"}
               /\ ops[i].name = "gemm" => ~Sets(ops[i].slot) /\ ~world.shared
               /\ ops[i].name = "quantize" => ops[i].call \in strays'
    BY <1>6
  <2>. QED  BY <1>1, <1>6, <2>1, OthersGrow
<1>10. Types'
  <2>1. last'.refused \in {"none", "lengths", "numbers"} \cup CheckNames
    BY <1>1, NoCallIsFlagged
  <2>2. /\ plan' \in [Slots -> {"none", "ready", "failed", "dropped"}]
        /\ calls' \in 0..world.calls /\ scratch' \in 0..calls' /\ strays' \subseteq 1..calls'
        /\ held' \in [Slots -> SUBSET Nat] /\ queue' \in [Streams -> Seq(Operation)]
        /\ resident' \in [Slots -> SUBSET Nat] /\ tables' \in [Slots -> SUBSET Nat]
        /\ pending' \in [HostThreads -> BOOLEAN]
        /\ "phase" \in DOMAIN routing'
        /\ routing'.phase \in {"idle", "count", "place", "done"}
    BY <1>1, <1>6 DEF Types, Grown
  <2>. QED  BY <1>1, <2>1, <2>2, TypesPersist
<1>. QED  BY <1>1, <1>4, <1>8, <1>9, <1>10, NoCallIsFlagged


(* A projection's product is of its call, on the plans' stream.            *)
LEMMA ExecuteKeepsBase ==
    ASSUME BaseInv, NEW t \in HostThreads, ExecutePlan(t)
    PROVE  /\ BaseInv'
           /\ doing[t] \in Projecting /\ doing[t].phase = "execute" /\ Returned(t)
           /\ plan[doing[t].slot] = "ready" /\ world.shared
           /\ UNCHANGED <<world, plan, held, resident, tables, scratch, calls,
                          strays, misread, routing>>
           /\ \/ UNCHANGED queue
              \/ \E ops \in Seq(Operation) :
                   /\ doing[t].stream = Own
                   /\ Working(doing[t].slot, doing[t].call, Own, ops)
<1>. USE DEF BaseInv
<1>. DEFINE d == doing[t]
<1>1. /\ d \in Projecting /\ d.phase = "execute" /\ Returned(t) /\ last' = NoCall
      /\ UNCHANGED <<world, plan, held, resident, tables, scratch, calls,
                     strays, misread, routing>>
      /\ pending' \in [HostThreads -> BOOLEAN]
      /\ \/ UNCHANGED queue
         \/ \E ran \in Seq(KernelNames) :
              d.stream = Own /\ Launches(d.slot, d.call, Own, ran, TRUE)
  BY ExecuteCases
<1>2. /\ d # Nothing /\ d.slot \in Slots /\ d.call \in 1..calls /\ d.call \in Nat
      /\ plan[d.slot] = "ready" /\ world.shared
  BY <1>1, InPhase DEF Projecting, ProjectionsAreReady, CallsAreNumbered
<1>3. /\ doing' \in [HostThreads -> Projecting \cup {Nothing}]
      /\ doing'[t] = Nothing /\ \A u \in HostThreads \ {t} : doing'[u] = doing[u]
      /\ locks' \in [Locks -> HostThreads \cup {Nobody}]
  BY <1>1, ReturnKeeps
<1>4. \/ UNCHANGED queue
      \/ \E ops \in Seq(Operation) : d.stream = Own /\ Working(d.slot, d.call, Own, ops)
  <2>1. ASSUME NEW ran \in Seq(KernelNames), d.stream = Own,
               Launches(d.slot, d.call, Own, ran, TRUE)
        PROVE  \E ops \in Seq(Operation) : Working(d.slot, d.call, Own, ops)
    <3>1. Working(d.slot, d.call, Own, Work(d.slot, d.call, ran, TRUE))
      BY <1>2, <2>1, LaunchesWork DEF Streams
    <3>. DEFINE ops == Work(d.slot, d.call, ran, TRUE)
    <3>. HIDE DEF ops
    <3>2. Working(d.slot, d.call, Own, ops)
      BY <3>1 DEF ops
    <3>3. ops \in Seq(Operation)
      BY <3>2 DEF Working
    <3>. QED  BY <3>2, <3>3
  <2>. QED  BY <1>1, <2>1
<1>5. \E ops \in Seq(Operation) :
        /\ Grown(Own, ops)
        /\ \A i \in 1..Len(ops) : ops[i].call = d.call
  <2>1. CASE UNCHANGED queue
    BY <2>1, NothingGrows
  <2>2. ASSUME NEW ops \in Seq(Operation), Working(d.slot, d.call, Own, ops)
        PROVE  Grown(Own, ops) /\ \A i \in 1..Len(ops) : ops[i].call = d.call
    BY <2>2, Zenon DEF Working
  <2>. QED  BY <1>4, <2>1, <2>2
<1>6. PICK ops \in Seq(Operation) :
        /\ Grown(Own, ops)
        /\ \A i \in 1..Len(ops) : ops[i].call = d.call
  BY <1>5
<1>7. ReadyIsCreated' /\ ProjectionsAreReady'
      /\ \A u \in HostThreads : doing'[u] # Nothing => doing'[u].call \in 1..calls'
  BY <1>1, <1>3, ProjectionsKeepOn
<1>8. CallsAreNumbered'
  <2>1. calls' \in Nat /\ calls <= calls' /\ d.call <= calls' /\ d.call > 0 /\ Own \in Streams
    BY <1>1, <1>2, KnownWorld DEF Types, Streams
  <2>2. \A i \in 1..Len(ops) : /\ ops[i].call <= calls'
                               /\ ops[i].name \in {"setup", "gemm", "quantize"}
                                      => ops[i].call > 0
    BY <1>6, <2>1
  <2>. QED  BY <1>1, <1>6, <1>7, <2>1, <2>2, NumbersGrow
<1>9. OthersNeedNothing'
  BY <1>1, <1>6, OthersGrow, ThreeStreams DEF Streams
<1>10. Types'
  <2>1. last'.refused \in {"none", "lengths", "numbers"} \cup CheckNames
    BY <1>1, NoCallIsFlagged
  <2>2. /\ plan' \in [Slots -> {"none", "ready", "failed", "dropped"}]
        /\ calls' \in 0..world.calls /\ scratch' \in 0..calls' /\ strays' \subseteq 1..calls'
        /\ held' \in [Slots -> SUBSET Nat] /\ queue' \in [Streams -> Seq(Operation)]
        /\ resident' \in [Slots -> SUBSET Nat] /\ tables' \in [Slots -> SUBSET Nat]
        /\ "phase" \in DOMAIN routing'
        /\ routing'.phase \in {"idle", "count", "place", "done"}
    BY <1>1, <1>6 DEF Types, Grown
  <2>. QED  BY <1>1, <1>3, <2>1, <2>2, TypesPersist
<1>. QED  BY <1>1, <1>2, <1>4, <1>7, <1>8, <1>9, <1>10, NoCallIsFlagged

(* The device changes memory, tables and scratch of known plans.           *)
LEMMA RunKeepsBase ==
    ASSUME BaseInv, NEW s \in Streams, Run(s)
    PROVE  BaseInv'
<1>. USE DEF BaseInv
<1>. DEFINE op == queue[s][1]
<1>1. /\ Advanced(s) /\ last' = NoCall
      /\ UNCHANGED <<world, plan, held, pending, calls, strays, doing, locks,
                     routing>>
      /\ resident' \in [Slots -> SUBSET Nat]
      /\ tables' \in [Slots -> SUBSET Nat]
      /\ \A slot \in Slots : tables'[slot] \subseteq 1..calls
      /\ scratch' \in 0..calls
  BY RunCases
<1>2. CallsAreNumbered' /\ OthersNeedNothing'
  BY <1>1, BooksAdvance
<1>3. ReadyIsCreated' /\ ProjectionsAreReady'
  <2>1. \A u \in HostThreads : doing'[u] # Nothing =>
            world.shared /\ doing'[u].slot \in Slots /\ plan'[doing'[u].slot] = "ready"
    BY <1>1, InPhase DEF ProjectionsAreReady, Projecting
  <2>. QED  BY <1>1, <2>1, ReadyPersists
<1>4. Types'
  <2>1. last'.refused \in {"none", "lengths", "numbers"} \cup CheckNames
    BY <1>1, NoCallIsFlagged
  <2>2. /\ plan' \in [Slots -> {"none", "ready", "failed", "dropped"}]
        /\ calls' \in 0..world.calls /\ scratch' \in 0..calls' /\ strays' \subseteq 1..calls'
        /\ held' \in [Slots -> SUBSET Nat] /\ queue' \in [Streams -> Seq(Operation)]
        /\ pending' \in [HostThreads -> BOOLEAN]
        /\ doing' \in [HostThreads -> Projecting \cup {Nothing}]
        /\ locks' \in [Locks -> HostThreads \cup {Nobody}]
        /\ "phase" \in DOMAIN routing'
        /\ routing'.phase \in {"idle", "count", "place", "done"}
    BY <1>1 DEF Types, Advanced
  <2>. QED  BY <1>1, <2>1, <2>2, TypesPersist
<1>. QED  BY <1>1, <1>2, <1>3, <1>4, NoCallIsFlagged

(* Sorting rows changes nothing that calls know of.                        *)
LEMMA RoutesKeepBase ==
    ASSUME BaseInv, StepRoutes \/ \E s \in Streams : StartRoutes(s) \/ FinishRoutes(s)
    PROVE  BaseInv'
<1>. USE DEF BaseInv
<1>1. /\ last' = NoCall
      /\ UNCHANGED <<world, plan, held, resident, tables, scratch, pending,
                     calls, strays, misread, doing, locks>>
      /\ "phase" \in DOMAIN routing'
      /\ routing'.phase \in {"idle", "count", "place", "done"}
      /\ \/ UNCHANGED queue
         \/ \E s \in Streams : Advanced(s)
  BY RouteCases
<1>2. CallsAreNumbered' /\ OthersNeedNothing'
  <2>1. \A slot \in Slots : tables'[slot] \subseteq 1..calls
    BY <1>1 DEF CallsAreNumbered
  <2>2. CASE UNCHANGED queue
    <3>1. PICK none \in Seq(Operation) :
             Own \in Streams /\ 1..Len(none) = {} /\ Grown(Own, none)
      BY <2>2, NothingGrows
    <3>. QED  BY <1>1, <3>1, UncalledGrow
  <2>3. CASE \E s \in Streams : Advanced(s)
    BY <1>1, <2>1, <2>3, BooksAdvance
  <2>. QED  BY <1>1, <2>2, <2>3
<1>3. ReadyIsCreated' /\ ProjectionsAreReady'
  <2>1. \A u \in HostThreads : doing'[u] # Nothing =>
            world.shared /\ doing'[u].slot \in Slots /\ plan'[doing'[u].slot] = "ready"
    BY <1>1, InPhase DEF ProjectionsAreReady, Projecting
  <2>. QED  BY <1>1, <2>1, ReadyPersists
<1>4. Types'
  <2>1. last'.refused \in {"none", "lengths", "numbers"} \cup CheckNames
    BY <1>1, NoCallIsFlagged
  <2>2. /\ plan' \in [Slots -> {"none", "ready", "failed", "dropped"}]
        /\ calls' \in 0..world.calls /\ scratch' \in 0..calls' /\ strays' \subseteq 1..calls'
        /\ held' \in [Slots -> SUBSET Nat] /\ queue' \in [Streams -> Seq(Operation)]
        /\ resident' \in [Slots -> SUBSET Nat] /\ tables' \in [Slots -> SUBSET Nat]
        /\ pending' \in [HostThreads -> BOOLEAN]
        /\ doing' \in [HostThreads -> Projecting \cup {Nothing}]
        /\ locks' \in [Locks -> HostThreads \cup {Nobody}]
    BY <1>1 DEF Types, Advanced
  <2>. QED  BY <1>1, <2>1, <2>2, TypesPersist
<1>. QED  BY <1>1, <1>2, <1>3, <1>4, NoCallIsFlagged


-----------------------------------------------------------------------------
(* Memory.                                                                 *)

(* What is provided by a queue that grew, and what is freed by it.         *)
LEMMA ProvidedGrows ==
    ASSUME Types, NEW ops \in Seq(Operation), Grown(Own, ops), resident' = resident,
           NEW x \in Slots, NEW p \in Nat
    PROVE  /\ Provided(x, p, Len(queue[Own]))' <=>
                  \/ Provided(x, p, Len(queue[Own]))
                  \/ \E k \in 1..Len(ops) : Allocates(ops[k], x, p)
           /\ (\E i \in At(Own)' : Frees(queue'[Own][i], x, p)) <=>
                  \/ \E i \in At(Own) : Frees(queue[Own][i], x, p)
                  \/ \E k \in 1..Len(ops) : Frees(ops[k], x, p)
<1>1. /\ Own \in Streams /\ Len(queue[Own]) \in Nat /\ Len(ops) \in Nat
      /\ At(Own)' = 1..(Len(queue[Own]) + Len(ops))
  BY DEF Types, Grown, At, Streams
<1>2. \A i \in At(Own) : i \in At(Own)' /\ queue'[Own][i] = queue[Own][i]
  BY <1>1 DEF Grown, At
<1>3. \A k \in 1..Len(ops) :
        Len(queue[Own]) + k \in At(Own)' /\ queue'[Own][Len(queue[Own]) + k] = ops[k]
  BY <1>1 DEF Grown
<1>4. ASSUME NEW i \in At(Own)'
      PROVE  \/ i \in At(Own) /\ queue'[Own][i] = queue[Own][i]
             \/ \E k \in 1..Len(ops) : queue'[Own][i] = ops[k]
  BY <1>1, GrownPlaces
<1>5. (\E i \in At(Own)' : Allocates(queue'[Own][i], x, p)) <=>
           \/ \E i \in At(Own) : Allocates(queue[Own][i], x, p)
           \/ \E k \in 1..Len(ops) : Allocates(ops[k], x, p)
  BY <1>2, <1>3, <1>4
<1>6. Provided(x, p, Len(queue[Own]))' <=>
           p \in resident[x] \/ \E i \in At(Own)' : Allocates(queue'[Own][i], x, p)
  BY DEF Provided, At
<1>7. Provided(x, p, Len(queue[Own])) <=>
           p \in resident[x] \/ \E i \in At(Own) : Allocates(queue[Own][i], x, p)
  BY DEF Provided, At
<1>. QED  BY <1>2, <1>3, <1>4, <1>5, <1>6, <1>7

(* Operations of one plan join: what they need is allocated before them,   *)
(* and is freed by none before them.                                       *)
Joining(slot, ops) ==
    /\ ops \in Seq(Operation) /\ Grown(Own, ops)
    /\ \A k \in 1..Len(ops) :
         /\ ops[k].slot = slot
         /\ ops[k].name # "alloc" => \A p \in ops[k].needs :
                p \in held[slot] \/ \E j \in 1..(k - 1) : Allocates(ops[j], slot, p)
         /\ \A p \in ops[k].needs :
                /\ \A i \in At(Own) : ~Frees(queue[Own][i], slot, p)
                /\ \A j \in 1..(k - 1) : ~Frees(ops[j], slot, p)

(* What joins finds its needs allocated before it.                         *)
LEMMA NeedsGrow ==
    ASSUME Types, MemoryInv, NEW slot \in Slots, NEW ops, Joining(slot, ops),
           resident' = resident
    PROVE  NeedsAreProvided'
<1>. Own \in Streams /\ ops \in Seq(Operation) /\ Grown(Own, ops)
  BY DEF Streams, Joining
<1>0. Len(queue[Own]) \in Nat /\ Len(ops) \in Nat
  BY DEF Types
<1>1. ASSUME NEW i \in At(Own), NEW x, NEW p, queue'[Own][i] = queue[Own][i],
             queue[Own][i].slot = x, queue[Own][i].name # "alloc",
             p \in queue[Own][i].needs
      PROVE  \/ p \in resident[x]
             \/ \E j \in 1..(i - 1) : Allocates(queue'[Own][j], x, p)
  <2>1. Provided(x, p, i - 1)
    BY <1>1 DEF MemoryInv, NeedsAreProvided
  <2>2. \A j \in 1..(i - 1) : queue'[Own][j] = queue[Own][j]
    BY <1>0 DEF Grown, At
  <2>. QED  BY <2>1, <2>2 DEF Provided
<1>2. ASSUME NEW k \in 1..Len(ops), NEW i \in Nat, NEW p, i = Len(queue[Own]) + k,
             queue'[Own][i] = ops[k], ops[k].name # "alloc", p \in ops[k].needs
      PROVE  \/ p \in resident[slot]
             \/ \E j \in 1..(i - 1) : Allocates(queue'[Own][j], slot, p)
  <2>1. CASE p \in held[slot]
    <3>1. Provided(slot, p, Len(queue[Own]))
      BY <2>1 DEF MemoryInv, HeldIsProvided
    <3>2. \A j \in 1..Len(queue[Own]) : j \in 1..(i - 1) /\ queue'[Own][j] = queue[Own][j]
      BY <1>0, <1>2 DEF Grown, At
    <3>. QED  BY <3>1, <3>2 DEF Provided
  <2>2. ASSUME NEW j \in 1..(k - 1), Allocates(ops[j], slot, p)
        PROVE  \E l \in 1..(i - 1) : Allocates(queue'[Own][l], slot, p)
    <3>1. /\ j \in 1..Len(ops) /\ Len(queue[Own]) + j \in 1..(i - 1)
          /\ queue'[Own][Len(queue[Own]) + j] = ops[j]
      BY <1>0, <1>2, <2>2 DEF Grown
    <3>. QED  BY <2>2, <3>1
  <2>3. p \in held[slot] \/ \E j \in 1..(k - 1) : Allocates(ops[j], slot, p)
    BY <1>2 DEF Joining
  <2>. QED  BY <2>1, <2>2, <2>3
<1>3. ASSUME NEW i \in At(Own)', queue'[Own][i].name # "alloc",
             NEW p \in queue'[Own][i].needs
      PROVE  \/ p \in resident[queue'[Own][i].slot]
             \/ \E j \in 1..(i - 1) : Allocates(queue'[Own][j], queue'[Own][i].slot, p)
  <2>1. CASE i \in At(Own) /\ queue'[Own][i] = queue[Own][i]
    BY <1>1, <1>3, <2>1
  <2>2. CASE \E k \in 1..Len(ops) : i = Len(queue[Own]) + k /\ queue'[Own][i] = ops[k]
    <3>1. PICK k \in 1..Len(ops) : i = Len(queue[Own]) + k /\ queue'[Own][i] = ops[k]
      BY <2>2
    <3>2. i \in Nat /\ ops[k].slot = slot
      BY <1>0, <3>1 DEF Joining
    <3>. QED  BY <1>2, <1>3, <3>1, <3>2
  <2>. QED  BY <2>1, <2>2, GrownPlaces
<1>. QED  BY <1>3 DEF NeedsAreProvided, Provided

(* What joins is not behind a free of what it needs.                       *)
LEMMA FreesGrow ==
    ASSUME Types, MemoryInv, NEW slot \in Slots, NEW ops, Joining(slot, ops)
    PROVE  FreesAreLast'
<1>. Own \in Streams /\ ops \in Seq(Operation) /\ Grown(Own, ops)
  BY DEF Streams, Joining
<1>0. Len(queue[Own]) \in Nat /\ Len(ops) \in Nat
  BY DEF Types
<1>1. ASSUME NEW i \in At(Own)', NEW j \in At(Own)', i < j,
             queue'[Own][i].name = "free", queue'[Own][i].slot = queue'[Own][j].slot,
             NEW p, p \in queue'[Own][i].needs, p \in queue'[Own][j].needs
      PROVE  FALSE
  <2>1. CASE j \in At(Own) /\ queue'[Own][j] = queue[Own][j]
    <3>1. i \in At(Own) /\ queue'[Own][i] = queue[Own][i]
      BY <1>0, <1>1, <2>1 DEF At, Grown
    <3>. QED  BY <1>1, <2>1, <3>1 DEF MemoryInv, FreesAreLast
  <2>2. ASSUME NEW k \in 1..Len(ops), j = Len(queue[Own]) + k, queue'[Own][j] = ops[k]
        PROVE  FALSE
    <3>1. /\ queue'[Own][i].slot = slot /\ p \in ops[k].needs
          /\ \A l \in At(Own) : ~Frees(queue[Own][l], slot, p)
          /\ \A l \in 1..(k - 1) : ~Frees(ops[l], slot, p)
      BY <1>1, <2>2 DEF Joining
    <3>2. CASE i \in At(Own) /\ queue'[Own][i] = queue[Own][i]
      BY <1>1, <3>1, <3>2 DEF Frees
    <3>3. ASSUME NEW l \in 1..Len(ops), i = Len(queue[Own]) + l, queue'[Own][i] = ops[l]
          PROVE  FALSE
      <4>1. l \in 1..(k - 1)
        BY <1>0, <1>1, <2>2, <3>3
      <4>. QED  BY <1>1, <3>1, <3>3, <4>1 DEF Frees
    <3>. QED  BY <3>2, <3>3, GrownPlaces
  <2>. QED  BY <2>1, <2>2, GrownPlaces
<1>. QED  BY <1>1 DEF FreesAreLast

(* Books on what becomes of memory when operations join.                   *)
LEMMA MemoryGrows ==
    ASSUME Types, MemoryInv, NEW slot \in Slots, NEW ops, Joining(slot, ops),
           UNCHANGED <<world, resident>>, plan'[slot] # "none",
           \A x \in Slots : plan'[x] = "none" => plan[x] = "none" /\ held'[x] = held[x],
           \A x \in Slots : held'[x] # {} =>
               plan'[x] = "ready" /\ Shape(x).native.creation # <<>>,
           \A x \in Slots : \A p \in held'[x] :
               /\ p \in Nat
               /\ p \in held[x] \/ \E k \in 1..Len(ops) : Allocates(ops[k], x, p)
               /\ \A i \in At(Own) : ~Frees(queue[Own][i], x, p)
               /\ \A k \in 1..Len(ops) : ~Frees(ops[k], x, p),
           \A x \in Slots : \A p \in Nat \ held'[x] :
               (p \in held[x] \/ \E k \in 1..Len(ops) : Allocates(ops[k], x, p)) =>
                   \E k \in 1..Len(ops) : Frees(ops[k], x, p)
    PROVE  MemoryInv'
<1>. Own \in Streams /\ ops \in Seq(Operation) /\ Grown(Own, ops) /\ Slots' = Slots
  BY SameWorld DEF Streams, Joining
<1>1. NoneHasNothing'
  <2>1. ASSUME NEW x \in Slots, plan'[x] = "none"
        PROVE  /\ held'[x] = {} /\ resident'[x] = {}
               /\ \A i \in At(Own)' : queue'[Own][i].slot # x
    <3>1. /\ held[x] = {} /\ resident[x] = {} /\ held'[x] = held[x] /\ x # slot
          /\ \A i \in At(Own) : queue[Own][i].slot # x
      BY <2>1 DEF MemoryInv, NoneHasNothing
    <3>2. ASSUME NEW i \in At(Own)'  PROVE queue'[Own][i].slot # x
      BY <3>1, GrownPlaces DEF Joining
    <3>. QED  BY <3>1, <3>2
  <2>. QED  BY <2>1 DEF NoneHasNothing
<1>2. OnlyReadyHold'
  BY DEF OnlyReadyHold, Shape
<1>3. FreesAreLast' /\ NeedsAreProvided'
  BY FreesGrow, NeedsGrow
<1>4. HeldIsProvided'
  <2>1. ASSUME NEW x \in Slots, NEW p \in held'[x]
        PROVE  /\ Provided(x, p, Len(queue[Own]))'
               /\ \A i \in At(Own)' : ~Frees(queue'[Own][i], x, p)
    <3>1. p \in Nat /\ (p \in held[x] \/ \E k \in 1..Len(ops) : Allocates(ops[k], x, p))
      OBVIOUS
    <3>2. p \in held[x] => Provided(x, p, Len(queue[Own]))
      BY DEF MemoryInv, HeldIsProvided
    <3>3. Provided(x, p, Len(queue[Own]))'
      BY <3>1, <3>2, ProvidedGrows
    <3>4. ~ \E i \in At(Own)' : Frees(queue'[Own][i], x, p)
      BY <3>1, ProvidedGrows
    <3>. QED  BY <3>3, <3>4
  <2>. QED  BY <2>1 DEF HeldIsProvided
<1>5. OthersAreFreed'
  <2>1. ASSUME NEW x \in Slots, NEW p \in Nat \ held'[x],
               Provided(x, p, Len(queue[Own]))'
        PROVE  \E i \in At(Own)' : Frees(queue'[Own][i], x, p)
    <3>1. Provided(x, p, Len(queue[Own])) \/ \E k \in 1..Len(ops) : Allocates(ops[k], x, p)
      BY <2>1, ProvidedGrows
    <3>2. CASE p \in held[x] \/ \E k \in 1..Len(ops) : Allocates(ops[k], x, p)
      BY <3>2, ProvidedGrows
    <3>3. CASE p \notin held[x] /\ Provided(x, p, Len(queue[Own]))
      <4>1. \E i \in At(Own) : Frees(queue[Own][i], x, p)
        BY <3>3 DEF MemoryInv, OthersAreFreed
      <4>. QED  BY <4>1, ProvidedGrows
    <3>. QED  BY <3>1, <3>2, <3>3
  <2>. QED  BY <2>1 DEF OthersAreFreed
<1>. QED  BY <1>1, <1>2, <1>3, <1>4, <1>5 DEF MemoryInv


(* Books on memory when nothing happens to it.                             *)
LEMMA MemoryStays ==
    ASSUME MemoryInv, UNCHANGED <<world, plan, held, resident>>, queue'[Own] = queue[Own]
    PROVE  MemoryInv'
<1>1. Slots' = Slots /\ At(Own)' = At(Own)
  BY SameWorld DEF At
<1>2. NoneHasNothing' /\ FreesAreLast'
  BY <1>1 DEF MemoryInv, NoneHasNothing, FreesAreLast
<1>3. OnlyReadyHold'
  BY <1>1 DEF MemoryInv, OnlyReadyHold, Shape
<1>4. NeedsAreProvided'
  BY <1>1 DEF MemoryInv, NeedsAreProvided, Provided
<1>5. HeldIsProvided' /\ OthersAreFreed'
  BY <1>1 DEF MemoryInv, HeldIsProvided, OthersAreFreed, Provided
<1>. QED  BY <1>2, <1>3, <1>4, <1>5 DEF MemoryInv

(* Books on memory when the first operation of the plans' stream has run.  *)
LEMMA MemoryAdvances ==
    ASSUME Types, MemoryInv, Advanced(Own), UNCHANGED <<world, plan, held>>,
           resident' \in [Slots -> SUBSET Nat],
           \A slot \in Slots, p \in Nat :
                p \in resident'[slot] <=>
                    \/ p \in resident[slot] /\ ~Frees(queue[Own][1], slot, p)
                    \/ Allocates(queue[Own][1], slot, p)
    PROVE  MemoryInv'
<1>. DEFINE op == queue[Own][1]
<1>1. /\ Own \in Streams /\ Slots' = Slots /\ Len(queue[Own]) \in Nat \ {0}
      /\ At(Own)' = 1..(Len(queue[Own]) - 1) /\ 1 \in At(Own)
      /\ \A i \in At(Own)' : i + 1 \in At(Own) /\ queue'[Own][i] = queue[Own][i + 1]
      /\ \A i \in At(Own) : i = 1 \/ i - 1 \in At(Own)'
      /\ \A i \in At(Own) : queue[Own][i] \in Operation
  BY SameWorld DEF Streams, Advanced, At, Types
<1>2. \A i \in At(Own) : queue[Own][i].slot \in Slots /\ queue[Own][i].needs \subseteq Nat
  BY <1>1 DEF Operation
<1>3. ASSUME NEW x \in Slots, NEW p \in Nat, NEW n \in Nat, n + 1 <= Len(queue[Own]),
             Provided(x, p, n + 1), ~Frees(op, x, p)
      PROVE  p \in resident'[x] \/ \E j \in 1..n : Allocates(queue'[Own][j], x, p)
  <2>1. CASE p \in resident[x] \/ Allocates(op, x, p)
    BY <1>3, <2>1
  <2>2. CASE \E j \in 1..(n + 1) : j # 1 /\ Allocates(queue[Own][j], x, p)
    <3>1. PICK j \in 1..(n + 1) : j # 1 /\ Allocates(queue[Own][j], x, p)
      BY <2>2
    <3>2. j - 1 \in 1..n /\ j - 1 \in At(Own)' /\ (j - 1) + 1 = j
      BY <1>1, <1>3, <3>1
    <3>3. queue'[Own][j - 1] = queue[Own][j]
      BY <1>1, <3>2
    <3>. QED  BY <3>1, <3>2, <3>3
  <2>. QED  BY <1>3, <2>1, <2>2 DEF Provided
<1>4. ASSUME NEW x \in Slots, NEW p \in Nat, Frees(op, x, p)
      PROVE  \A i \in At(Own)' : /\ ~Frees(queue'[Own][i], x, p)
                                 /\ ~Allocates(queue'[Own][i], x, p)
  <2>1. ASSUME NEW i \in At(Own)', queue'[Own][i].slot = x, p \in queue'[Own][i].needs
        PROVE  FALSE
    <3>1. i + 1 \in At(Own) /\ 1 < i + 1 /\ queue'[Own][i] = queue[Own][i + 1]
      BY <1>1
    <3>2. op.name = "free" /\ op.slot = x /\ p \in op.needs
      BY <1>4 DEF Frees
    <3>. QED  BY <1>1, <2>1, <3>1, <3>2 DEF MemoryInv, FreesAreLast
  <2>. QED  BY <2>1 DEF Frees, Allocates
<1>5. NoneHasNothing'
  <2>1. ASSUME NEW x \in Slots, plan[x] = "none"
        PROVE  /\ held[x] = {} /\ resident'[x] = {}
               /\ \A i \in At(Own)' : queue'[Own][i].slot # x
    <3>1. /\ held[x] = {} /\ resident[x] = {} /\ \A i \in At(Own) : queue[Own][i].slot # x
      BY <2>1 DEF MemoryInv, NoneHasNothing
    <3>2. \A p \in Nat : p \notin resident'[x]
      BY <1>1, <3>1 DEF Allocates
    <3>. QED  BY <1>1, <3>1, <3>2
  <2>. QED  BY <1>1, <2>1 DEF NoneHasNothing
<1>6. OnlyReadyHold'
  BY <1>1 DEF MemoryInv, OnlyReadyHold, Shape
<1>7. FreesAreLast'
  <2>1. ASSUME NEW i \in At(Own)', NEW j \in At(Own)', i < j,
               queue'[Own][i].name = "free", queue'[Own][i].slot = queue'[Own][j].slot
        PROVE  queue'[Own][i].needs \cap queue'[Own][j].needs = {}
    <3>1. i + 1 \in At(Own) /\ j + 1 \in At(Own) /\ i + 1 < j + 1
      BY <1>1, <2>1
    <3>. QED  BY <1>1, <2>1, <3>1 DEF MemoryInv, FreesAreLast
  <2>. QED  BY <2>1 DEF FreesAreLast
<1>8. NeedsAreProvided'
  <2>1. ASSUME NEW i \in At(Own)', queue'[Own][i].name # "alloc",
               NEW p \in queue'[Own][i].needs
        PROVE  \/ p \in resident'[queue'[Own][i].slot]
               \/ \E j \in 1..(i - 1) : Allocates(queue'[Own][j], queue'[Own][i].slot, p)
    <3>1. PICK x : x = queue'[Own][i].slot
      OBVIOUS
    <3>2. /\ i + 1 \in At(Own) /\ queue'[Own][i] = queue[Own][i + 1] /\ 1 < i + 1
          /\ x \in Slots /\ p \in Nat /\ (i - 1) \in Nat
          /\ (i - 1) + 1 = i /\ i <= Len(queue[Own])
      BY <1>1, <1>2, <2>1, <3>1
    <3>3. Provided(x, p, (i + 1) - 1)
      BY <2>1, <3>1, <3>2 DEF MemoryInv, NeedsAreProvided
    <3>4. Provided(x, p, (i - 1) + 1)
      BY <3>2, <3>3
    <3>5. ~Frees(op, x, p)
      <4>1. ASSUME Frees(op, x, p)  PROVE FALSE
        <5>1. op.name = "free" /\ op.slot = x /\ p \in op.needs
          BY <4>1 DEF Frees
        <5>. QED  BY <1>1, <2>1, <3>1, <3>2, <5>1 DEF MemoryInv, FreesAreLast
      <4>. QED  BY <4>1
    <3>. QED  BY <1>3, <3>1, <3>2, <3>4, <3>5
  <2>. QED  BY <2>1 DEF NeedsAreProvided, Provided
<1>9. HeldIsProvided'
  <2>1. ASSUME NEW x \in Slots, NEW p \in held[x]
        PROVE  /\ \/ p \in resident'[x]
                  \/ \E j \in 1..(Len(queue[Own]) - 1) : Allocates(queue'[Own][j], x, p)
               /\ \A i \in At(Own)' : ~Frees(queue'[Own][i], x, p)
    <3>1. /\ Provided(x, p, (Len(queue[Own]) - 1) + 1) /\ p \in Nat
          /\ \A i \in At(Own) : ~Frees(queue[Own][i], x, p)
      BY <1>1 DEF MemoryInv, HeldIsProvided, Types
    <3>2. Len(queue[Own]) - 1 \in Nat /\ (Len(queue[Own]) - 1) + 1 <= Len(queue[Own])
      BY <1>1
    <3>3. p \in resident'[x]
          \/ \E j \in 1..(Len(queue[Own]) - 1) : Allocates(queue'[Own][j], x, p)
      BY <1>1, <1>3, <3>1, <3>2
    <3>. QED  BY <1>1, <3>1, <3>3
  <2>2. Len(queue'[Own]) = Len(queue[Own]) - 1
    BY DEF Advanced
  <2>. QED  BY <1>1, <2>1, <2>2 DEF HeldIsProvided, Provided
<1>10. OthersAreFreed'
  <2>1. ASSUME NEW x \in Slots, NEW p \in Nat \ held[x],
               p \in resident'[x] \/ \E j \in At(Own)' : Allocates(queue'[Own][j], x, p)
        PROVE  \E i \in At(Own)' : Frees(queue'[Own][i], x, p)
    <3>1. Provided(x, p, Len(queue[Own]))
      BY <1>1, <2>1 DEF Provided, At
    <3>2. PICK i \in At(Own) : Frees(queue[Own][i], x, p)
      BY <3>1 DEF MemoryInv, OthersAreFreed
    <3>3. CASE i = 1
      <4>1. Frees(op, x, p) /\ ~Allocates(op, x, p)
        BY <3>2, <3>3 DEF Frees, Allocates
      <4>. QED  BY <1>4, <2>1, <4>1
    <3>4. CASE i # 1
      <4>1. i - 1 \in At(Own)' /\ (i - 1) + 1 = i
        BY <1>1, <3>4 DEF At
      <4>. QED  BY <1>1, <3>2, <4>1
    <3>. QED  BY <3>3, <3>4
  <2>. QED  BY <1>1, <2>1 DEF OthersAreFreed, Provided, At
<1>. QED  BY <1>5, <1>6, <1>7, <1>8, <1>9, <1>10 DEF MemoryInv


(* A creation allocates before it uses, and frees last.                    *)
LEMMA CreateKeepsMemory ==
    ASSUME BaseInv, MemoryInv, NEW t \in HostThreads, NEW slot \in Slots,
           Create(t, slot)
    PROVE  MemoryInv'
<1>. USE DEF BaseInv
<1>1. PICK steps \in Seq({"alloc", "init"}), ops \in Seq(Operation) :
           \E n \in 0..Len(steps) :
              /\ CreatedOps(slot, steps, n, ops)
              /\ \/ /\ plan' = [plan EXCEPT ![slot] = "ready"]
                    /\ held' = [held EXCEPT ![slot] = Allocated(steps, n)]
                    /\ Len(ops) = n
                    /\ Shape(slot).create
                    /\ steps = Shape(slot).native.creation
                 \/ /\ plan' = [plan EXCEPT ![slot] = "failed"]
                    /\ held' = held
                    /\ Len(ops) = IF Allocated(steps, n) = {} THEN n ELSE n + 1
                    /\ Allocated(steps, n) # {} =>
                          /\ ops[n + 1].name = "free" /\ ops[n + 1].slot = slot
                          /\ ops[n + 1].call = 0
                          /\ ops[n + 1].needs = Allocated(steps, n)
  BY CreatedCases
<1>2. PICK n \in 0..Len(steps) :
              /\ CreatedOps(slot, steps, n, ops)
              /\ \/ /\ plan' = [plan EXCEPT ![slot] = "ready"]
                    /\ held' = [held EXCEPT ![slot] = Allocated(steps, n)]
                    /\ Len(ops) = n
                    /\ steps = Shape(slot).native.creation
                 \/ /\ plan' = [plan EXCEPT ![slot] = "failed"]
                    /\ held' = held
                    /\ Len(ops) = IF Allocated(steps, n) = {} THEN n ELSE n + 1
                    /\ Allocated(steps, n) # {} =>
                          /\ ops[n + 1].name = "free" /\ ops[n + 1].slot = slot
                          /\ ops[n + 1].needs = Allocated(steps, n)
  BY <1>1
<1>3. plan[slot] = "none" /\ UNCHANGED <<world, resident>>
  BY CreateCases
<1>4. /\ held[slot] = {} /\ resident[slot] = {} /\ n \in Nat
      /\ \A i \in At(Own) : queue[Own][i].slot # slot
      /\ plan \in [Slots -> {"none", "ready", "failed", "dropped"}]
      /\ held \in [Slots -> SUBSET Nat]
  BY <1>3 DEF MemoryInv, NoneHasNothing, Types
<1>5. \A i \in 1..n :
        /\ ops[i].name = steps[i] /\ ops[i].slot = slot /\ steps[i] \in {"alloc", "init"}
        /\ ops[i].needs = IF steps[i] = "alloc" THEN {i} ELSE Allocated(steps, i)
  <2>1. \A i \in 1..n : steps[i] \in {"alloc", "init"}
    OBVIOUS
  <2>. QED  BY <1>2, <2>1, Zenon DEF CreatedOps
<1>6. \A m \in 0..n : \A p : p \in Allocated(steps, m) <=> p \in 1..m /\ steps[p] = "alloc"
  BY DEF Allocated
<1>7. \A k \in 1..Len(ops) : k \in 1..n \/ (k = n + 1 /\ Len(ops) # n)
  BY <1>2
<1>8. Len(ops) # n => /\ plan' = [plan EXCEPT ![slot] = "failed"] /\ held' = held
                      /\ Len(ops) = n + 1
                      /\ ops[n + 1].name = "free" /\ ops[n + 1].slot = slot
                      /\ ops[n + 1].needs = Allocated(steps, n)
  BY <1>2
<1>9. \A p : p \in Allocated(steps, n) => p \in 1..n /\ Allocates(ops[p], slot, p)
  <2>1. n \in 0..n
    BY <1>4
  <2>2. ASSUME NEW p \in Allocated(steps, n)
        PROVE  p \in 1..n /\ ops[p].name = "alloc" /\ ops[p].slot = slot /\ ops[p].needs = {p}
    <3>1. p \in 1..n /\ steps[p] = "alloc"
      BY <1>6, <2>1
    <3>. QED  BY <1>5, <3>1
  <2>. QED  BY <2>2 DEF Allocates
<1>10. ASSUME NEW k \in 1..n
       PROVE  /\ ops[k].slot = slot
              /\ ops[k].name # "alloc" => \A p \in ops[k].needs :
                     \E j \in 1..(k - 1) : Allocates(ops[j], slot, p)
              /\ \A p : ~Frees(ops[k], slot, p)
  <2>1. ASSUME ops[k].name # "alloc", NEW p \in ops[k].needs
        PROVE  \E j \in 1..(k - 1) : Allocates(ops[j], slot, p)
    <3>0. k \in 0..n /\ n \in 0..n
      BY <1>4
    <3>1. p \in Allocated(steps, k)
      <4>1. ops[k].name = steps[k]
        BY <1>5
      <4>2. ops[k].needs = IF steps[k] = "alloc" THEN {k} ELSE Allocated(steps, k)
        BY <1>5
      <4>. QED  BY <2>1, <4>1, <4>2
    <3>2. p \in 1..k /\ steps[p] = "alloc" /\ p # k
      BY <1>5, <1>6, <2>1, <3>0, <3>1
    <3>3. p \in 1..(k - 1) /\ p \in Allocated(steps, n)
      BY <1>6, <3>0, <3>2
    <3>. QED  BY <1>9, <3>3
  <2>. QED  BY <1>5, <2>1 DEF Frees
<1>11. Joining(slot, ops)
  <2>1. ops \in Seq(Operation) /\ Grown(Own, ops)
    BY <1>2 DEF CreatedOps
  <2>2. ASSUME NEW k \in 1..Len(ops)
        PROVE  /\ ops[k].slot = slot
               /\ ops[k].name # "alloc" => \A p \in ops[k].needs :
                      \E j \in 1..(k - 1) : Allocates(ops[j], slot, p)
               /\ \A p : \A j \in 1..(k - 1) : ~Frees(ops[j], slot, p)
    <3>1. \A j \in 1..(k - 1) : j \in 1..n
      BY <1>4, <1>7
    <3>2. CASE k \in 1..n
      BY <1>10, <3>1, <3>2
    <3>3. CASE k = n + 1 /\ Len(ops) # n
      <4>1. ops[k].slot = slot /\ ops[k].needs = Allocated(steps, n) /\ k - 1 = n
        BY <1>4, <1>8, <3>3
      <4>2. \A p \in ops[k].needs : \E j \in 1..(k - 1) : Allocates(ops[j], slot, p)
        BY <1>9, <4>1
      <4>. QED  BY <1>10, <3>1, <4>1, <4>2
    <3>. QED  BY <1>7, <3>2, <3>3
  <2>3. \A p : \A i \in At(Own) : ~Frees(queue[Own][i], slot, p)
    BY <1>4 DEF Frees
  <2>. QED  BY <2>1, <2>2, <2>3 DEF Joining
<1>12. \A x \in Slots : plan'[x] = "none" => plan[x] = "none" /\ held'[x] = held[x]
  BY <1>2, <1>4
<1>13. \A x \in Slots : held'[x] # {} =>
           plan'[x] = "ready" /\ Shape(x).native.creation # <<>>
  <2>1. ASSUME NEW x \in Slots, held'[x] # {}, x # slot
        PROVE  plan'[x] = "ready" /\ Shape(x).native.creation # <<>>
    BY <1>2, <1>4, <2>1 DEF MemoryInv, OnlyReadyHold
  <2>2. ASSUME held'[slot] # {}
        PROVE  plan'[slot] = "ready" /\ Shape(slot).native.creation # <<>>
    <3>1. /\ plan' = [plan EXCEPT ![slot] = "ready"]
          /\ held' = [held EXCEPT ![slot] = Allocated(steps, n)]
          /\ steps = Shape(slot).native.creation
      BY <1>2, <1>4, <2>2
    <3>2. \E p : p \in Allocated(steps, n)
      BY <1>4, <2>2, <3>1
    <3>3. n # 0 /\ steps # <<>>
      BY <1>6, <3>2
    <3>. QED  BY <1>4, <3>1, <3>3
  <2>. QED  BY <2>1, <2>2
<1>14. ASSUME NEW x \in Slots, NEW p \in held'[x]
       PROVE  /\ p \in Nat
              /\ p \in held[x] \/ \E k \in 1..Len(ops) : Allocates(ops[k], x, p)
              /\ \A i \in At(Own) : ~Frees(queue[Own][i], x, p)
              /\ \A k \in 1..Len(ops) : ~Frees(ops[k], x, p)
  <2>1. CASE x # slot
    <3>1. p \in held[x] /\ p \in Nat
      BY <1>2, <1>4, <1>14, <2>1
    <3>2. \A k \in 1..Len(ops) : ~Frees(ops[k], x, p)
      BY <1>11, <2>1 DEF Frees, Joining
    <3>. QED  BY <3>1, <3>2 DEF MemoryInv, HeldIsProvided
  <2>2. CASE x = slot
    <3>1. held' = [held EXCEPT ![slot] = Allocated(steps, n)] /\ Len(ops) = n
      BY <1>2, <1>4, <1>14, <2>2
    <3>2. p \in Allocated(steps, n) /\ p \in 1..n
      BY <1>4, <1>6, <1>14, <2>2, <3>1
    <3>. QED  BY <1>4, <1>9, <1>10, <2>2, <3>1, <3>2 DEF Frees
  <2>. QED  BY <2>1, <2>2
<1>15. ASSUME NEW x \in Slots, NEW p \in Nat \ held'[x],
              p \in held[x] \/ \E k \in 1..Len(ops) : Allocates(ops[k], x, p)
       PROVE  \E k \in 1..Len(ops) : Frees(ops[k], x, p)
  <2>1. x = slot /\ \E k \in 1..n : Allocates(ops[k], slot, p)
    <3>1. CASE p \in held[x]
      BY <1>2, <1>4, <1>15, <3>1
    <3>2. CASE \E k \in 1..Len(ops) : Allocates(ops[k], x, p)
      BY <1>7, <1>8, <1>11, <3>2 DEF Allocates, Joining
    <3>. QED  BY <1>15, <3>1, <3>2
  <2>2. p \in Allocated(steps, n)
    <3>1. PICK k \in 1..n : Allocates(ops[k], slot, p)
      BY <2>1
    <3>2. steps[k] = "alloc" /\ p = k /\ n \in 0..n
      <4>1. ops[k].name = "alloc" /\ p \in ops[k].needs
        BY <3>1 DEF Allocates
      <4>2. steps[k] = "alloc" /\ ops[k].needs = {k}
        BY <1>5, <4>1
      <4>. QED  BY <1>4, <4>1, <4>2
    <3>. QED  BY <1>6, <3>1, <3>2
  <2>3. Len(ops) # n
    BY <1>2, <1>4, <1>15, <2>1, <2>2
  <2>4. n + 1 \in 1..Len(ops) /\ Frees(ops[n + 1], slot, p)
    BY <1>4, <1>8, <2>2, <2>3 DEF Frees
  <2>. QED  BY <2>1, <2>4
<1>16. plan'[slot] # "none"
  BY <1>2, <1>4
<1>. QED  BY <1>3, <1>11, <1>12, <1>13, <1>14, <1>15, <1>16, MemoryGrows


(* A drop frees what the plan held, after all that needs it.               *)
LEMMA DropKeepsMemory ==
    ASSUME BaseInv, MemoryInv, NEW slot \in Slots, Drop(slot)
    PROVE  MemoryInv'
<1>. USE DEF BaseInv
<1>. DEFINE ops == Released(slot, held[slot])
<1>1. /\ plan[slot] = "ready" /\ plan' = [plan EXCEPT ![slot] = "dropped"]
      /\ held' = [held EXCEPT ![slot] = {}]
      /\ UNCHANGED <<world, resident>>
  BY DEF Drop, Emptied
<1>2. /\ plan \in [Slots -> {"none", "ready", "failed", "dropped"}]
      /\ held \in [Slots -> SUBSET Nat]
  BY DEF Types
<1>3. /\ ops \in Seq(Operation)
      /\ Len(ops) = IF held[slot] = {} THEN 0 ELSE 1
      /\ held[slot] # {} => /\ ops[1].name = "free" /\ ops[1].slot = slot
                            /\ ops[1].needs = held[slot]
  <2>1. PICK pieces \in SUBSET Nat : pieces = held[slot]
    BY <1>2
  <2>2. Released(slot, pieces) \in Seq(Operation)
    BY ReleasedIsKnown
  <2>3. Len(Released(slot, pieces)) = IF pieces = {} THEN 0 ELSE 1
    BY ReleasedIsKnown
  <2>4. ASSUME pieces # {}
        PROVE  LET op == Released(slot, pieces)[1] IN
               op.name = "free" /\ op.slot = slot /\ op.needs = pieces
    BY <2>4, ReleasedIsKnown
  <2>. QED  BY <2>1, <2>2, <2>3, <2>4
<1>4. Grown(Own, ops)
  BY DropKeepsBase
<1>. HIDE DEF ops
<1>5. \A k \in 1..Len(ops) : /\ k = 1 /\ held[slot] # {} /\ ops[k].name = "free"
                             /\ ops[k].slot = slot /\ ops[k].needs = held[slot]
  BY <1>3
<1>6. /\ \A x \in Slots \ {slot} : held'[x] = held[x] /\ plan'[x] = plan[x]
      /\ held'[slot] = {} /\ plan'[slot] = "dropped"
  BY <1>1, <1>2
<1>7. Joining(slot, ops)
  <2>1. \A p \in held[slot] : \A i \in At(Own) : ~Frees(queue[Own][i], slot, p)
    BY DEF MemoryInv, HeldIsProvided
  <2>2. ASSUME NEW k \in 1..Len(ops)
        PROVE  /\ ops[k].slot = slot /\ ops[k].needs = held[slot] /\ 1..(k - 1) = {}
    BY <1>5
  <2>. QED  BY <1>3, <1>4, <2>1, <2>2 DEF Joining
<1>8. \A x \in Slots : \A p : /\ \A k \in 1..Len(ops) : ~Allocates(ops[k], x, p)
                              /\ x # slot => \A k \in 1..Len(ops) : ~Frees(ops[k], x, p)
  BY <1>5 DEF Allocates, Frees
<1>9. ASSUME NEW x \in Slots, NEW p \in held'[x]
      PROVE  /\ p \in Nat /\ p \in held[x]
             /\ \A i \in At(Own) : ~Frees(queue[Own][i], x, p)
             /\ \A k \in 1..Len(ops) : ~Frees(ops[k], x, p)
  BY <1>2, <1>6, <1>8, <1>9 DEF MemoryInv, HeldIsProvided
<1>10. ASSUME NEW x \in Slots, NEW p \in Nat \ held'[x], p \in held[x]
       PROVE  \E k \in 1..Len(ops) : Frees(ops[k], x, p)
  <2>1. x = slot /\ held[slot] # {}
    BY <1>6, <1>10
  <2>. QED  BY <1>3, <1>10, <2>1 DEF Frees
<1>11. \A x \in Slots : held'[x] # {} =>
           plan'[x] = "ready" /\ Shape(x).native.creation # <<>>
  BY <1>6 DEF MemoryInv, OnlyReadyHold
<1>12. \A x \in Slots : plan'[x] = "none" => plan[x] = "none" /\ held'[x] = held[x]
  BY <1>6
<1>. QED  BY <1>1, <1>6, <1>7, <1>8, <1>9, <1>10, <1>11, <1>12, MemoryGrows

(* Work of a plan in use needs what the plan holds.                        *)
LEMMA WorkKeepsMemory ==
    ASSUME BaseInv, MemoryInv, NEW slot \in Slots, NEW call, NEW s \in Streams,
           NEW ops, UNCHANGED <<world, plan, held, resident>>,
           plan[slot] = "ready", held[slot] # {} => s = Own,
           Working(slot, call, s, ops)
    PROVE  MemoryInv'
<1>. USE DEF BaseInv
<1>1. /\ ops \in Seq(Operation) /\ Grown(s, ops)
      /\ \A i \in 1..Len(ops) : /\ ops[i].slot = slot /\ ops[i].needs = held[slot]
                                /\ ops[i].name \in KernelNames
  BY Zenon DEF Working
<1>2. CASE s # Own
  <2>1. queue'[Own] = queue[Own]
    BY <1>1, <1>2 DEF Grown, Streams
  <2>. QED  BY <2>1, MemoryStays
<1>3. CASE s = Own
  <2>1. \A x, p : \A k \in 1..Len(ops) : ~Allocates(ops[k], x, p) /\ ~Frees(ops[k], x, p)
    BY <1>1 DEF Allocates, Frees, KernelNames
  <2>2. \A x \in Slots : \A p \in held[x] :
          p \in Nat /\ \A i \in At(Own) : ~Frees(queue[Own][i], x, p)
    BY DEF MemoryInv, HeldIsProvided, Types
  <2>3. Joining(slot, ops)
    <3>1. ASSUME NEW k \in 1..Len(ops), NEW j \in 1..(k - 1), NEW p
          PROVE  ~Frees(ops[j], slot, p)
      <4>1. j \in 1..Len(ops)
        BY <1>1
      <4>. QED  BY <2>1, <4>1
    <3>. QED  BY <1>1, <1>3, <2>2, <3>1 DEF Joining
  <2>4. \A x \in Slots : held[x] # {} =>
           plan[x] = "ready" /\ Shape(x).native.creation # <<>>
    BY DEF MemoryInv, OnlyReadyHold
  <2>. QED  BY <2>1, <2>2, <2>3, <2>4, MemoryGrows
<1>. QED  BY <1>2, <1>3

(* A quantization needs nothing of a plan.                                 *)
LEMMA QuantizeKeepsMemory ==
    ASSUME BaseInv, MemoryInv, NEW t \in HostThreads, LaunchQuantize(t)
    PROVE  MemoryInv'
<1>. USE DEF BaseInv
<1>. DEFINE d == doing[t]
            op == Op("quantize", d.slot, d.call, {})
            ops == <<op>>
<1>1. /\ d \in Projecting /\ ops \in Seq(Operation)
      /\ UNCHANGED <<world, plan, held, resident>>
      /\ Grown(d.stream, ops) \/ UNCHANGED queue
  BY QuantizeCases
<1>2. op.name = "quantize" /\ op.needs = {} /\ op.slot = d.slot
  BY OpParts
<1>. HIDE DEF op
<1>3. \A k \in 1..Len(ops) : k = 1 /\ ops[k] = op
  OBVIOUS
<1>. HIDE DEF ops
<1>4. d.stream \in Streams /\ d.slot \in Slots /\ plan[d.slot] = "ready"
  BY <1>1, InPhase DEF Projecting, ProjectionsAreReady
<1>5. CASE queue'[Own] = queue[Own]
  BY <1>1, <1>5, MemoryStays
<1>6. CASE Grown(Own, ops)
  <2>1. \A x, p : \A k \in 1..Len(ops) : ~Allocates(ops[k], x, p) /\ ~Frees(ops[k], x, p)
    BY <1>2, <1>3 DEF Allocates, Frees
  <2>2. \A x \in Slots : \A p \in held[x] :
          p \in Nat /\ \A i \in At(Own) : ~Frees(queue[Own][i], x, p)
    BY DEF MemoryInv, HeldIsProvided, Types
  <2>3. Joining(d.slot, ops)
    BY <1>1, <1>2, <1>3, <1>6 DEF Joining
  <2>4. \A x \in Slots : held[x] # {} =>
           plan[x] = "ready" /\ Shape(x).native.creation # <<>>
    BY DEF MemoryInv, OnlyReadyHold
  <2>. QED  BY <1>1, <1>4, <2>1, <2>2, <2>3, <2>4, MemoryGrows
<1>. QED  BY <1>1, <1>4, <1>5, <1>6 DEF Grown, Streams

(* The device takes and gives back what the books say.                     *)
LEMMA RunKeepsMemory ==
    ASSUME BaseInv, MemoryInv, NEW s \in Streams, Run(s)
    PROVE  MemoryInv'
<1>. USE DEF BaseInv
<1>1. /\ Advanced(s) /\ 1 \in At(s)
      /\ UNCHANGED <<world, plan, held>>
      /\ resident' \in [Slots -> SUBSET Nat]
      /\ \A slot \in Slots, p \in Nat :
           p \in resident'[slot] <=>
               \/ p \in resident[slot] /\ ~Frees(queue[s][1], slot, p)
               \/ Allocates(queue[s][1], slot, p)
  BY RunCases
<1>2. CASE s = Own
  BY <1>1, <1>2, MemoryAdvances
<1>3. CASE s = Other
  <2>1. queue[Other][1].needs = {}
    BY <1>1, <1>3 DEF OthersNeedNothing
  <2>2. resident \in [Slots -> SUBSET Nat]
    BY DEF Types
  <2>3. \A slot \in Slots : resident'[slot] = resident[slot]
    BY <1>1, <1>3, <2>1, <2>2 DEF Frees, Allocates
  <2>4. resident' = resident
    BY <1>1, <2>2, <2>3
  <2>5. queue'[Own] = queue[Own]
    BY <1>1, <1>3, ThreeStreams DEF Advanced, Streams
  <2>. QED  BY <1>1, <2>4, <2>5, MemoryStays
<1>. QED  BY <1>2, <1>3 DEF Streams

(* Sorting rows takes and gives back no memory.                            *)
LEMMA RoutesKeepMemory ==
    ASSUME BaseInv, MemoryInv,
           StepRoutes \/ \E s \in Streams : StartRoutes(s) \/ FinishRoutes(s)
    PROVE  MemoryInv'
<1>. USE DEF BaseInv
<1>1. /\ UNCHANGED <<world, plan, held, resident>>
      /\ \/ UNCHANGED queue
         \/ \E s \in Streams :
              Advanced(s) /\ 1 \in At(s) /\ queue[s][1].name = "routes"
  BY RouteCases
<1>2. CASE queue'[Own] = queue[Own]
  BY <1>1, <1>2, MemoryStays
<1>3. CASE Advanced(Own) /\ queue[Own][1].name = "routes"
  <2>1. resident' \in [Slots -> SUBSET Nat]
    BY <1>1 DEF Types
  <2>2. \A slot \in Slots, p \in Nat :
           p \in resident'[slot] <=>
               \/ p \in resident[slot] /\ ~Frees(queue[Own][1], slot, p)
               \/ Allocates(queue[Own][1], slot, p)
    BY <1>1, <1>3 DEF Frees, Allocates
  <2>. QED  BY <1>1, <1>3, <2>1, <2>2, MemoryAdvances
<1>. QED  BY <1>1, <1>2, <1>3 DEF Advanced, Streams


-----------------------------------------------------------------------------
(* What products read.                                                     *)

(* What is loaded stays so, but for a quantization of another call.        *)
LEMMA LoadedGrows ==
    ASSUME NEW call, NEW n \in Nat, NEW m \in Nat, n <= m, Loaded(call, n),
           strays \subseteq strays', scratch' = scratch \/ scratch' \in strays',
           \A k \in 1..n : queue'[Own][k] = queue[Own][k],
           \A k \in (n + 1)..m : queue'[Own][k].name = "quantize" =>
               queue'[Own][k].call \in {call} \cup strays'
    PROVE  Loaded(call, m)'
<1>1. PICK j \in 0..n :
        /\ IF j = 0 THEN scratch \in Ours(call)
           ELSE queue[Own][j].name = "quantize" /\ queue[Own][j].call \in Ours(call)
        /\ \A k \in (j + 1)..n :
             queue[Own][k].name = "quantize" => queue[Own][k].call \in Ours(call)
  BY DEF Loaded
<1>2. IF j = 0 THEN scratch' \in {call} \cup strays'
      ELSE queue'[Own][j].name = "quantize" /\ queue'[Own][j].call \in {call} \cup strays'
  BY <1>1 DEF Ours
<1>3. ASSUME NEW k \in (j + 1)..m, queue'[Own][k].name = "quantize"
      PROVE  queue'[Own][k].call \in {call} \cup strays'
  <2>1. CASE k <= n
    BY <1>1, <1>3, <2>1 DEF Ours
  <2>2. CASE k > n
    BY <1>3, <2>2
  <2>. QED  BY <2>1, <2>2
<1>4. j \in 0..m
  OBVIOUS
<1>. QED  BY <1>2, <1>3, <1>4 DEF Loaded, Ours

(* And when the first operation has run.                                   *)
LEMMA LoadedAdvances ==
    ASSUME NEW call, NEW n \in Nat, Loaded(call, n + 1), strays' = strays,
           \A k \in 1..n : queue'[Own][k] = queue[Own][k + 1],
           scratch' = IF queue[Own][1].name = "quantize" THEN queue[Own][1].call
                      ELSE scratch
    PROVE  Loaded(call, n)'
<1>1. PICK j \in 0..(n + 1) :
        /\ IF j = 0 THEN scratch \in Ours(call)
           ELSE queue[Own][j].name = "quantize" /\ queue[Own][j].call \in Ours(call)
        /\ \A k \in (j + 1)..(n + 1) :
             queue[Own][k].name = "quantize" => queue[Own][k].call \in Ours(call)
  BY DEF Loaded
<1>2. ASSUME NEW i \in 0..n, i + 1 >= j, NEW k \in (i + 1)..n,
             queue'[Own][k].name = "quantize"
      PROVE  queue'[Own][k].call \in {call} \cup strays'
  <2>1. k + 1 \in (j + 1)..(n + 1) /\ queue'[Own][k] = queue[Own][k + 1]
    BY <1>2
  <2>. QED  BY <1>1, <1>2, <2>1 DEF Ours
<1>3. CASE j <= 1
  <2>1. scratch' \in {call} \cup strays'
    <3>1. CASE j = 0
      <4>1. 1 \in (j + 1)..(n + 1)
        BY <3>1
      <4>. QED  BY <1>1, <3>1, <4>1 DEF Ours
    <3>2. CASE j = 1
      BY <1>1, <3>2 DEF Ours
    <3>. QED  BY <1>3, <3>1, <3>2
  <2>2. 0 \in 0..n /\ 0 + 1 >= j
    BY <1>3
  <2>3. \A k \in (0 + 1)..n : queue'[Own][k].name = "quantize" =>
            queue'[Own][k].call \in {call} \cup strays'
    BY <1>2, <2>2
  <2>. QED  BY <2>1, <2>2, <2>3 DEF Loaded, Ours
<1>4. CASE j > 1
  <2>1. PICK i \in 1..n : i + 1 = j
    <3>1. j - 1 \in 1..n /\ (j - 1) + 1 = j
      BY <1>4
    <3>. QED  BY <3>1
  <2>2. queue'[Own][i].name = "quantize" /\ queue'[Own][i].call \in {call} \cup strays'
    BY <1>1, <1>4, <2>1 DEF Ours
  <2>3. \A k \in (i + 1)..n : queue'[Own][k].name = "quantize" =>
            queue'[Own][k].call \in {call} \cup strays'
    BY <1>2, <2>1
  <2>4. i \in 0..n /\ i # 0
    BY <2>1
  <2>. QED  BY <2>2, <2>3, <2>4 DEF Loaded, Ours
<1>. QED  BY <1>3, <1>4

(* Tables when operations join: a product's setup is right before it.      *)
LEMMA TablesGrow ==
    ASSUME Types, TablesAreSet, NEW ops \in Seq(Operation), Grown(Own, ops),
           UNCHANGED <<world, tables>>,
           \A k \in 1..Len(ops) :
               (ops[k].name = "gemm" /\ ops[k].whole /\ Sets(ops[k].slot)) =>
                   /\ k > 1 /\ ops[k - 1].name = "setup" /\ ops[k - 1].whole
                   /\ ops[k - 1].slot = ops[k].slot /\ ops[k - 1].call = ops[k].call
    PROVE  TablesAreSet'
<1>1. Own \in Streams /\ Len(queue[Own]) \in Nat /\ Len(ops) \in Nat
  BY DEF Types, Streams
<1>2. ASSUME NEW i \in At(Own)', queue'[Own][i].name = "gemm", queue'[Own][i].whole,
             Sets(queue'[Own][i].slot)
      PROVE  IF i = 1 THEN tables[queue'[Own][i].slot] = {queue'[Own][i].call}
             ELSE /\ queue'[Own][i - 1].name = "setup" /\ queue'[Own][i - 1].whole
                  /\ queue'[Own][i - 1].slot = queue'[Own][i].slot
                  /\ queue'[Own][i - 1].call = queue'[Own][i].call
  <2>1. CASE i \in At(Own) /\ queue'[Own][i] = queue[Own][i]
    <3>1. IF i = 1 THEN tables[queue[Own][i].slot] = {queue[Own][i].call}
          ELSE /\ queue[Own][i - 1].name = "setup" /\ queue[Own][i - 1].whole
               /\ queue[Own][i - 1].slot = queue[Own][i].slot
               /\ queue[Own][i - 1].call = queue[Own][i].call
      BY <1>2, <2>1 DEF TablesAreSet
    <3>2. i # 1 => queue'[Own][i - 1] = queue[Own][i - 1]
      BY <1>1, <2>1 DEF Grown, At
    <3>. QED  BY <2>1, <3>1, <3>2
  <2>2. ASSUME NEW k \in 1..Len(ops), i = Len(queue[Own]) + k, queue'[Own][i] = ops[k]
        PROVE  /\ i # 1 /\ queue'[Own][i - 1].name = "setup" /\ queue'[Own][i - 1].whole
               /\ queue'[Own][i - 1].slot = queue'[Own][i].slot
               /\ queue'[Own][i - 1].call = queue'[Own][i].call
    <3>1. /\ k > 1 /\ ops[k - 1].name = "setup" /\ ops[k - 1].whole
          /\ ops[k - 1].slot = ops[k].slot /\ ops[k - 1].call = ops[k].call
      BY <1>2, <2>2
    <3>2. /\ i # 1 /\ k - 1 \in 1..Len(ops) /\ i - 1 = Len(queue[Own]) + (k - 1)
      BY <1>1, <2>2, <3>1
    <3>3. queue'[Own][i - 1] = ops[k - 1]
      BY <3>2 DEF Grown
    <3>. QED  BY <2>2, <3>1, <3>2, <3>3
  <2>. QED  BY <1>1, <2>1, <2>2, GrownPlaces
<1>. QED  BY <1>2 DEF TablesAreSet, Sets, Shape

(* Tables when the first operation has run.                                *)
LEMMA TablesAdvance ==
    ASSUME Types, TablesAreSet, Advanced(Own), world' = world,
           (queue[Own][1].name = "setup" /\ queue[Own][1].whole) =>
               tables'[queue[Own][1].slot] = {queue[Own][1].call}
    PROVE  TablesAreSet'
<1>1. ASSUME NEW i \in At(Own)', queue'[Own][i].name = "gemm", queue'[Own][i].whole,
             Sets(queue'[Own][i].slot)
      PROVE  IF i = 1 THEN tables'[queue'[Own][i].slot] = {queue'[Own][i].call}
             ELSE /\ queue'[Own][i - 1].name = "setup" /\ queue'[Own][i - 1].whole
                  /\ queue'[Own][i - 1].slot = queue'[Own][i].slot
                  /\ queue'[Own][i - 1].call = queue'[Own][i].call
  <2>1. /\ i \in Nat \ {0} /\ i + 1 \in At(Own) /\ (i + 1) - 1 = i /\ i + 1 # 1
        /\ queue'[Own][i] = queue[Own][i + 1]
    BY DEF Advanced, At
  <2>2. /\ queue[Own][i].name = "setup" /\ queue[Own][i].whole
        /\ queue[Own][i].slot = queue[Own][i + 1].slot
        /\ queue[Own][i].call = queue[Own][i + 1].call
    BY <1>1, <2>1 DEF TablesAreSet
  <2>3. CASE i = 1
    BY <2>1, <2>2, <2>3
  <2>4. CASE i # 1
    <3>1. i - 1 \in 1..(Len(queue[Own]) - 1) /\ (i - 1) + 1 = i
      BY <2>1, <2>4 DEF Advanced, At
    <3>2. queue'[Own][i - 1] = queue[Own][i]
      BY <3>1 DEF Advanced
    <3>. QED  BY <2>1, <2>2, <2>4, <3>2
  <2>. QED  BY <2>3, <2>4
<1>. QED  BY <1>1 DEF TablesAreSet, Sets, Shape

(* Locks of the scratch: what a lock or a return leaves to the others.     *)
LEMMA ScratchStaysLocked ==
    ASSUME ScratchIsLocked, NEW t \in HostThreads,
           \A u \in HostThreads \ {t} : doing'[u] = doing[u],
           \A u \in HostThreads \ {t} : locks[<<"quantized", 0>>] = u
               => locks'[<<"quantized", 0>>] = u,
           doing'[t].phase \in Phases \ {"quantized"} => locks'[<<"quantized", 0>>] = t
    PROVE  ScratchIsLocked'
<1>1. ASSUME NEW u \in HostThreads, doing'[u].phase \in Phases \ {"quantized"}
      PROVE  locks'[<<"quantized", 0>>] = u
  <2>1. CASE u = t
    BY <1>1, <2>1
  <2>2. CASE u # t
    BY <1>1, <2>2 DEF ScratchIsLocked
  <2>. QED  BY <2>1, <2>2
<1>. QED  BY <1>1 DEF ScratchIsLocked, Phases


(* Products when operations join: theirs are loaded when they do.          *)
LEMMA ProductsGrow ==
    ASSUME Types, ProductsAreLoaded, NEW ops \in Seq(Operation), Grown(Own, ops),
           UNCHANGED <<world, scratch>>, strays \subseteq strays',
           world.shared => \A k \in 1..Len(ops) : ops[k].name = "gemm" =>
               /\ Loaded(ops[k].call, Len(queue[Own]))
               /\ \A j \in 1..Len(ops) : ops[j].name # "quantize"
    PROVE  ProductsAreLoaded'
<1>1. Own \in Streams /\ Len(queue[Own]) \in Nat /\ Len(ops) \in Nat
  BY DEF Types, Streams
<1>2. ASSUME world.shared, NEW i \in At(Own)', queue'[Own][i].name = "gemm",
             NEW call, call = queue'[Own][i].call
      PROVE  Loaded(call, i - 1)'
  <2>1. CASE i \in At(Own) /\ queue'[Own][i] = queue[Own][i]
    <3>1. Loaded(call, i - 1) /\ i - 1 \in Nat
      BY <1>1, <1>2, <2>1 DEF ProductsAreLoaded, At
    <3>2. /\ \A k \in 1..(i - 1) : queue'[Own][k] = queue[Own][k]
          /\ ((i - 1) + 1)..(i - 1) = {}
      BY <1>1, <2>1 DEF Grown, At
    <3>. QED  BY <3>1, <3>2, LoadedGrows
  <2>2. ASSUME NEW k \in 1..Len(ops), i = Len(queue[Own]) + k, queue'[Own][i] = ops[k]
        PROVE  Loaded(call, i - 1)'
    <3>1. /\ Loaded(call, Len(queue[Own]))
          /\ \A j \in 1..Len(ops) : ops[j].name # "quantize"
      BY <1>2, <2>2
    <3>2. /\ i - 1 \in Nat /\ Len(queue[Own]) <= i - 1
          /\ \A j \in 1..Len(queue[Own]) : queue'[Own][j] = queue[Own][j]
      BY <1>1, <2>2 DEF Grown, At
    <3>3. ASSUME NEW j \in (Len(queue[Own]) + 1)..(i - 1)
          PROVE  queue'[Own][j].name # "quantize"
      <4>1. /\ j - Len(queue[Own]) \in 1..Len(ops)
            /\ j = Len(queue[Own]) + (j - Len(queue[Own]))
        BY <1>1, <2>2
      <4>2. queue'[Own][j] = ops[j - Len(queue[Own])]
        BY <4>1 DEF Grown
      <4>. QED  BY <3>1, <4>1, <4>2
    <3>. QED  BY <1>1, <3>1, <3>2, <3>3, LoadedGrows
  <2>. QED  BY <1>1, <2>1, <2>2, GrownPlaces
<1>. QED  BY <1>2 DEF ProductsAreLoaded

(* And what is loaded at the end of the queue.                             *)
LEMMA EndGrows ==
    ASSUME Types, NEW ops \in Seq(Operation), Grown(Own, ops), scratch' = scratch,
           strays \subseteq strays', \A k \in 1..Len(ops) : ops[k].name # "quantize",
           NEW call, Loaded(call, Len(queue[Own]))
    PROVE  Loaded(call, Len(queue[Own]))'
<1>1. /\ Len(queue[Own]) \in Nat /\ Len(queue'[Own]) \in Nat
      /\ Len(queue[Own]) <= Len(queue'[Own])
      /\ Len(queue'[Own]) = Len(queue[Own]) + Len(ops) /\ Len(ops) \in Nat
      /\ \A j \in 1..Len(queue[Own]) : queue'[Own][j] = queue[Own][j]
  BY DEF Types, Grown, At, Streams
<1>2. ASSUME NEW j \in (Len(queue[Own]) + 1)..Len(queue'[Own])
      PROVE  queue'[Own][j].name # "quantize"
  <2>1. /\ j - Len(queue[Own]) \in 1..Len(ops)
        /\ j = Len(queue[Own]) + (j - Len(queue[Own]))
    BY <1>1
  <2>2. queue'[Own][j] = ops[j - Len(queue[Own])]
    BY <2>1 DEF Grown
  <2>. QED  BY <2>1, <2>2
<1>3. PICK m \in Nat : m = Len(queue'[Own])
  BY <1>1
<1>4. Loaded(call, m)'
  BY <1>1, <1>2, <1>3, LoadedGrows
<1>. QED  BY <1>3, <1>4 DEF Loaded

(* What reads when operations join that quantize nothing.                  *)
LEMMA ReadsGrow ==
    ASSUME BaseInv, ReadInv, NEW ops \in Seq(Operation), Grown(Own, ops),
           UNCHANGED <<world, tables, scratch, misread>>, strays \subseteq strays',
           \A k \in 1..Len(ops) :
               (ops[k].name = "gemm" /\ ops[k].whole /\ Sets(ops[k].slot)) =>
                   /\ k > 1 /\ ops[k - 1].name = "setup" /\ ops[k - 1].whole
                   /\ ops[k - 1].slot = ops[k].slot /\ ops[k - 1].call = ops[k].call,
           \A k \in 1..Len(ops) :
               /\ ops[k].name # "quantize"
               /\ world.shared /\ ops[k].name = "gemm" =>
                      Loaded(ops[k].call, Len(queue[Own])),
           ScratchIsLocked',
           \A t \in HostThreads :
               (doing'[t].phase \in {"plan", "execute"} /\ doing'[t].stream = Own)
                   => Loaded(doing'[t].call, Len(queue[Own]))
    PROVE  ReadInv'
<1>. USE DEF BaseInv, ReadInv
<1>1. TablesAreSet'
  BY TablesGrow
<1>2. ProductsAreLoaded'
  BY ProductsGrow
<1>3. ProjectionsAreLoaded'
  <2>1. ASSUME NEW t \in HostThreads, doing'[t].phase \in {"plan", "execute"},
               doing'[t].stream = Own, NEW call, call = doing'[t].call
        PROVE  Loaded(call, Len(queue[Own]))'
    BY <2>1, EndGrows
  <2>. QED  BY <2>1 DEF ProjectionsAreLoaded
<1>4. WorkReadsItsOwnCall'
  BY DEF WorkReadsItsOwnCall
<1>. QED  BY <1>1, <1>2, <1>3, <1>4


(* Creations and drops have nothing to read.                               *)
LEMMA UncalledKeepReads ==
    ASSUME BaseInv, ReadInv, NEW ops \in Seq(Operation), Grown(Own, ops),
           UNCHANGED <<world, tables, scratch, misread, strays, doing, locks>>,
           \A k \in 1..Len(ops) : ops[k].name \in {"alloc", "init", "free"}
    PROVE  ReadInv'
<1>1. ScratchIsLocked'
  BY DEF ReadInv, ScratchIsLocked, Phases
<1>2. \A t \in HostThreads :
          (doing'[t].phase \in {"plan", "execute"} /\ doing'[t].stream = Own)
              => Loaded(doing'[t].call, Len(queue[Own]))
  BY DEF ReadInv, ProjectionsAreLoaded
<1>. QED  BY <1>1, <1>2, ReadsGrow

(* A creation quantizes and reads nothing.                                 *)
LEMMA CreateKeepsReads ==
    ASSUME BaseInv, ReadInv, NEW t \in HostThreads, NEW slot \in Slots, Create(t, slot)
    PROVE  ReadInv'
BY CreateKeepsBase, UncalledKeepReads

(* Nor does a drop.                                                        *)
LEMMA DropKeepsReads ==
    ASSUME BaseInv, ReadInv, NEW slot \in Slots, Drop(slot)
    PROVE  ReadInv'
<1>1. PICK pieces \in SUBSET Nat : pieces = held[slot]
  BY DEF BaseInv, Types
<1>2. Grown(Own, Released(slot, pieces))
  BY <1>1, DropKeepsBase
<1>3. /\ Released(slot, pieces) \in Seq(Operation)
      /\ \A k \in 1..Len(Released(slot, pieces)) :
           Released(slot, pieces)[k].name \in {"alloc", "init", "free"}
  BY ReleasedIsKnown
<1>4. UNCHANGED <<world, tables, scratch, misread, strays, doing, locks>>
  BY DEF Drop
<1>. QED  BY <1>2, <1>3, <1>4, UncalledKeepReads

(* The work of a call comes with its setup, and a projection's with its    *)
(* input.                                                                  *)
LEMMA WorkKeepsReads ==
    ASSUME BaseInv, ReadInv, NEW slot \in Slots, NEW call, NEW s \in Streams, NEW ops,
           Working(slot, call, s, ops), UNCHANGED <<world, tables, scratch, misread, strays>>,
           world.shared => s = Own /\ Loaded(call, Len(queue[Own])),
           ScratchIsLocked',
           \A t \in HostThreads :
               (doing'[t].phase \in {"plan", "execute"} /\ doing'[t].stream = Own)
                   => Loaded(doing'[t].call, Len(queue[Own]))
    PROVE  ReadInv'
<1>1. /\ ops \in Seq(Operation) /\ Grown(s, ops)
      /\ \A i \in 1..Len(ops) :
           /\ ops[i].name \in KernelNames /\ ops[i].slot = slot /\ ops[i].call = call
           /\ ops[i].whole = ops[1].whole
           /\ (Sets(slot) /\ ops[i].name = "gemm") => i > 1 /\ ops[i - 1].name = "setup"
  BY Zenon DEF Working
<1>2. CASE s = Own
  <2>1. ASSUME NEW k \in 1..Len(ops), ops[k].name = "gemm", ops[k].whole,
               Sets(ops[k].slot)
        PROVE  /\ k > 1 /\ ops[k - 1].name = "setup" /\ ops[k - 1].whole
               /\ ops[k - 1].slot = ops[k].slot /\ ops[k - 1].call = ops[k].call
    <3>1. k > 1 /\ ops[k - 1].name = "setup"
      BY <1>1, <2>1
    <3>2. k - 1 \in 1..Len(ops)
      BY <1>1, <3>1
    <3>. QED  BY <1>1, <2>1, <3>1, <3>2
  <2>2. \A k \in 1..Len(ops) :
               /\ ops[k].name # "quantize"
               /\ world.shared /\ ops[k].name = "gemm" =>
                      Loaded(ops[k].call, Len(queue[Own]))
    BY <1>1 DEF KernelNames
  <2>. QED  BY <1>1, <1>2, <2>1, <2>2, ReadsGrow
<1>3. CASE s # Own
  <2>1. Own \in Streams /\ queue'[Own] = queue[Own]
    BY <1>1, <1>3 DEF Grown, Streams
  <2>2. ~world.shared
    BY <1>3
  <2>3. TablesAreSet'
    BY <2>1 DEF ReadInv, TablesAreSet, At, Sets, Shape
  <2>4. ProductsAreLoaded'
    BY <2>2 DEF ProductsAreLoaded
  <2>5. ProjectionsAreLoaded'
    BY <2>1 DEF ProjectionsAreLoaded, Loaded, Ours
  <2>. QED  BY <2>3, <2>4, <2>5 DEF ReadInv, WorkReadsItsOwnCall
<1>. QED  BY <1>2, <1>3

(* Nothing joins: what a step of a projection leaves as it was.            *)
LEMMA IdleKeepsReads ==
    ASSUME BaseInv, ReadInv, queue'[Own] = queue[Own],
           UNCHANGED <<world, tables, misread>>, strays \subseteq strays',
           scratch' = scratch \/ scratch' \in strays', ScratchIsLocked',
           \A t \in HostThreads :
               (doing'[t].phase \in {"plan", "execute"} /\ doing'[t].stream = Own)
                   => Loaded(doing'[t].call, Len(queue[Own]))
    PROVE  ReadInv'
<1>. Own \in Streams /\ Len(queue[Own]) \in Nat
  BY DEF Streams, BaseInv, Types
<1>1. ASSUME NEW call, NEW n \in Nat, Loaded(call, n)
      PROVE  Loaded(call, n)'
  BY <1>1, LoadedGrows
<1>2. TablesAreSet'
  BY DEF ReadInv, TablesAreSet, At, Sets, Shape
<1>3. ProductsAreLoaded'
  <2>1. ASSUME world.shared, NEW i \in At(Own), queue[Own][i].name = "gemm",
               NEW call, call = queue[Own][i].call
        PROVE  Loaded(call, i - 1)'
    <3>1. Loaded(call, i - 1) /\ i - 1 \in Nat
      BY <2>1 DEF ReadInv, ProductsAreLoaded, At
    <3>. QED  BY <1>1, <3>1
  <2>. QED  BY <2>1 DEF ProductsAreLoaded, At
<1>4. ProjectionsAreLoaded'
  <2>1. PICK n \in Nat : n = Len(queue[Own])
    OBVIOUS
  <2>2. ASSUME NEW t \in HostThreads, doing'[t].phase \in {"plan", "execute"},
               doing'[t].stream = Own, NEW call, call = doing'[t].call
        PROVE  Loaded(call, n)'
    BY <1>1, <2>1, <2>2
  <2>. QED  BY <2>1, <2>2 DEF ProjectionsAreLoaded
<1>. QED  BY <1>2, <1>3, <1>4 DEF ReadInv, WorkReadsItsOwnCall


(* A call of a plan by itself is of no shared scratch.                     *)
LEMMA CallKeepsReads ==
    ASSUME BaseInv, OnlyReadyHold, ReadInv, NEW t \in HostThreads, NEW slot \in Slots,
           Call(t, slot)
    PROVE  ReadInv'
<1>1. /\ ~world.shared
      /\ UNCHANGED <<world, tables, scratch, strays, misread, doing, locks>>
      /\ \/ UNCHANGED queue
         \/ \E s \in Streams, ops \in Seq(Operation) : Working(slot, calls + 1, s, ops)
  BY CallKeepsBase
<1>2. ScratchIsLocked'
  BY <1>1 DEF ReadInv, ScratchIsLocked, Phases
<1>3. \A u \in HostThreads :
          (doing'[u].phase \in {"plan", "execute"} /\ doing'[u].stream = Own)
              => Loaded(doing'[u].call, Len(queue[Own]))
  BY <1>1 DEF ReadInv, ProjectionsAreLoaded
<1>4. CASE UNCHANGED queue
  BY <1>1, <1>2, <1>3, <1>4, IdleKeepsReads
<1>5. ASSUME NEW s \in Streams, NEW ops, Working(slot, calls + 1, s, ops)
      PROVE  ReadInv'
  BY <1>1, <1>2, <1>3, <1>5, WorkKeepsReads
<1>. QED  BY <1>1, <1>4, <1>5

(* A projection that begins has no lock to keep yet.                       *)
LEMMA BeginKeepsReads ==
    ASSUME BaseInv, ReadInv, NEW t \in HostThreads, NEW slot \in Slots, Begin(t, slot)
    PROVE  ReadInv'
<1>1. /\ doing'[t].phase = "quantized"
      /\ \A u \in HostThreads \ {t} : doing'[u] = doing[u]
  BY BeginKeepsBase
<1>2. UNCHANGED <<world, queue, tables, scratch, strays, misread, locks>>
  BY DEF Begin
<1>3. ScratchIsLocked'
  BY <1>1, <1>2, ScratchStaysLocked DEF ReadInv
<1>4. ASSUME NEW u \in HostThreads, doing'[u].phase \in {"plan", "execute"},
             doing'[u].stream = Own
      PROVE  Loaded(doing'[u].call, Len(queue[Own]))
  BY <1>1, <1>4 DEF ReadInv, ProjectionsAreLoaded
<1>. QED  BY <1>2, <1>3, <1>4, IdleKeepsReads

(* A lock taken leaves the one of the scratch to who has it.               *)
LEMMA LockKeepsReads ==
    ASSUME BaseInv, ReadInv, NEW t \in HostThreads,
           LockInput(t) \/ LockFactors(t) \/ LockPlan(t)
    PROVE  BaseInv' /\ ReadInv' /\ UNCHANGED <<world, plan, held, resident, queue>>
<1>. DEFINE key == <<"quantized", 0>>
<1>1. PICK phase \in {"quantized", "scales", "plan"}, next \in Phases, lock \in Locks :
               /\ Lock(t, phase, lock, next)
               /\ phase = "quantized" <=> lock = key
               /\ phase = "plan" <=> next = "execute"
               /\ next # "plan"
  BY LockCases DEF BaseInv
<1>2. phase \in Phases /\ Types /\ Lock(t, phase, lock, next)
  BY <1>1 DEF Phases, BaseInv
<1>. HIDE DEF key
<1>3. /\ doing[t].phase = phase /\ doing'[t].phase = next
      /\ doing'[t].call = doing[t].call /\ doing'[t].stream = doing[t].stream
      /\ \A u \in HostThreads \ {t} : doing'[u] = doing[u]
      /\ locks[lock] = Nobody /\ locks' = [locks EXCEPT ![lock] = t]
      /\ UNCHANGED <<world, plan, held, resident, queue, tables, scratch,
                     strays, misread>>
  <2>1. /\ doing[t].phase = phase /\ doing'[t].phase = next
        /\ doing'[t].call = doing[t].call /\ doing'[t].stream = doing[t].stream
        /\ \A u \in HostThreads \ {t} : doing'[u] = doing[u]
    BY <1>2, LockKeeps
  <2>2. /\ locks[lock] = Nobody /\ locks' = [locks EXCEPT ![lock] = t]
        /\ UNCHANGED <<world, plan, held, resident, queue, tables, scratch,
                       strays, misread>>
    BY <1>2 DEF Lock
  <2>. QED  BY <2>1, <2>2
<1>4. locks \in [Locks -> HostThreads \cup {Nobody}] /\ key \in Locks
  BY DEF BaseInv, Types, Locks, key
<1>5. BaseInv'
  BY <1>1, <1>2, LockKeepsBase
<1>6. ScratchIsLocked'
  <2>1. CASE lock = key
    <3>1. locks'[key] = t /\ \A u \in HostThreads : locks[key] # u
      BY <1>3, <1>4, <2>1, NobodyAssumption
    <3>. QED  BY <1>3, <3>1, ScratchStaysLocked DEF ReadInv, key
  <2>2. CASE lock # key
    <3>1. locks'[key] = locks[key]
      BY <1>3, <1>4, <2>2
    <3>2. locks[key] = t
      BY <1>1, <1>2, <1>3, <2>2 DEF ReadInv, ScratchIsLocked, key
    <3>. QED  BY <1>3, <3>1, <3>2, ScratchStaysLocked DEF ReadInv, key
  <2>. QED  BY <2>1, <2>2
<1>7. ASSUME NEW u \in HostThreads, doing'[u].phase \in {"plan", "execute"},
             doing'[u].stream = Own
      PROVE  Loaded(doing'[u].call, Len(queue[Own]))
  <2>1. CASE u # t
    BY <1>3, <1>7, <2>1 DEF ReadInv, ProjectionsAreLoaded
  <2>2. CASE u = t
    <3>1. doing[t].phase = "plan" /\ doing[t].stream = Own
      BY <1>1, <1>3, <1>7, <2>2
    <3>2. Loaded(doing[t].call, Len(queue[Own]))
      BY <3>1 DEF ReadInv, ProjectionsAreLoaded
    <3>. QED  BY <1>3, <2>2, <3>2
  <2>. QED  BY <2>1, <2>2
<1>8. ReadInv'
  BY <1>3, <1>6, <1>7, IdleKeepsReads
<1>. QED  BY <1>3, <1>5, <1>8

(* A return gives up nobody else's lock.                                   *)
LEMMA ReturnKeepsLocked ==
    ASSUME Types, ScratchIsLocked, NEW t \in HostThreads, Returned(t)
    PROVE  ScratchIsLocked'
<1>1. <<"quantized", 0>> \in Locks
  BY DEF Locks
<1>2. /\ doing'[t] = Nothing /\ \A u \in HostThreads \ {t} : doing'[u] = doing[u]
      /\ \A lock \in Locks : locks[lock] # t => locks'[lock] = locks[lock]
  BY ReturnKeeps
<1>3. doing'[t].phase \notin Phases
  BY <1>2 DEF Nothing, Phases
<1>. QED  BY <1>1, <1>2, <1>3, ScratchStaysLocked

(* A projection's product joins while its input is loaded.                 *)
LEMMA ExecuteKeepsReads ==
    ASSUME BaseInv, ReadInv, NEW t \in HostThreads, ExecutePlan(t)
    PROVE  ReadInv'
<1>. DEFINE d == doing[t]
<1>1. /\ d \in Projecting /\ d.phase = "execute" /\ Returned(t)
      /\ UNCHANGED <<world, tables, scratch, strays, misread>>
      /\ \/ UNCHANGED queue
         \/ \E ops \in Seq(Operation) :
              d.stream = Own /\ Working(d.slot, d.call, Own, ops)
  BY ExecuteKeepsBase
<1>2. ScratchIsLocked' /\ Types
  BY <1>1, ReturnKeepsLocked DEF BaseInv, ReadInv
<1>3. doing'[t] = Nothing /\ \A u \in HostThreads \ {t} : doing'[u] = doing[u]
  BY <1>1, <1>2, ReturnKeeps
<1>4. ASSUME NEW u \in HostThreads, doing'[u].phase \in {"plan", "execute"},
             doing'[u].stream = Own
      PROVE  Loaded(doing'[u].call, Len(queue[Own]))
  BY <1>3, <1>4 DEF ReadInv, ProjectionsAreLoaded, Nothing
<1>5. CASE UNCHANGED queue
  BY <1>1, <1>2, <1>4, <1>5, IdleKeepsReads
<1>6. ASSUME NEW ops, d.stream = Own, Working(d.slot, d.call, Own, ops)
      PROVE  ReadInv'
  <2>1. d.slot \in Slots /\ Own \in Streams
    BY <1>1 DEF Projecting, Streams
  <2>2. Loaded(d.call, Len(queue[Own]))
    BY <1>1, <1>6 DEF ReadInv, ProjectionsAreLoaded
  <2>. QED  BY <1>1, <1>2, <1>4, <1>6, <2>1, <2>2, WorkKeepsReads
<1>. QED  BY <1>1, <1>5, <1>6

(* A quantization overwrites what nobody else waits for: it has the lock.  *)
LEMMA QuantizeKeepsReads ==
    ASSUME BaseInv, ReadInv, NEW t \in HostThreads, LaunchQuantize(t)
    PROVE  ReadInv'
<1>. DEFINE d == doing[t]
            op == Op("quantize", d.slot, d.call, {})
            ops == <<op>>
<1>1. /\ d \in Projecting /\ d.phase = "quantize" /\ ops \in Seq(Operation)
      /\ UNCHANGED <<world, tables, scratch, misread>>
      /\ \A u \in HostThreads \ {t} : doing'[u] = doing[u]
      /\ strays \subseteq strays'
      /\ \/ /\ Grown(d.stream, ops) /\ UNCHANGED locks
            /\ strays' = IF d.stream = Own THEN strays ELSE strays \cup {d.call}
            /\ doing'[t].phase = "plan" /\ doing'[t].call = d.call
            /\ doing'[t].stream = d.stream
         \/ Returned(t) /\ UNCHANGED <<queue, strays>>
  BY QuantizeCases DEF BaseInv
<1>2. op.name = "quantize" /\ op.call = d.call
  BY OpParts
<1>. HIDE DEF op
<1>3. Len(ops) = 1 /\ ops[1] = op
  OBVIOUS
<1>. HIDE DEF ops
<1>4. /\ locks[<<"quantized", 0>>] = t
      /\ \A u \in HostThreads \ {t} : doing[u].phase \notin {"plan", "execute"}
  BY <1>1 DEF ReadInv, ScratchIsLocked, Phases
<1>5. CASE Returned(t) /\ UNCHANGED <<queue, strays>>
  <2>1. ScratchIsLocked' /\ Types
    BY <1>5, ReturnKeepsLocked DEF BaseInv, ReadInv
  <2>2. doing'[t] = Nothing
    BY <1>5, <2>1, ReturnKeeps
  <2>3. \A u \in HostThreads : doing'[u].phase \notin {"plan", "execute"}
    BY <1>1, <1>4, <2>2 DEF Nothing
  <2>. QED  BY <1>1, <1>5, <2>1, <2>3, IdleKeepsReads
<1>6. ASSUME Grown(d.stream, ops), UNCHANGED locks,
             doing'[t].phase = "plan", doing'[t].call = d.call,
             doing'[t].stream = d.stream
      PROVE  ReadInv'
  <2>1. ScratchIsLocked'
    BY <1>1, <1>4, <1>6, ScratchStaysLocked DEF ReadInv
  <2>2. CASE d.stream # Own
    <3>1. queue'[Own] = queue[Own]
      BY <1>6, <2>2 DEF Grown, Streams
    <3>2. ASSUME NEW u \in HostThreads, doing'[u].phase \in {"plan", "execute"}
          PROVE  doing'[u].stream # Own
      BY <1>1, <1>4, <1>6, <2>2, <3>2
    <3>. QED  BY <1>1, <2>1, <3>1, <3>2, IdleKeepsReads
  <2>3. CASE d.stream = Own
    <3>1. Grown(Own, ops) /\ Types /\ Own \in Streams
      BY <1>6, <2>3 DEF BaseInv, Streams
    <3>2. TablesAreSet'
      <4>1. \A k \in 1..Len(ops) : ops[k].name # "gemm"
        BY <1>2, <1>3
      <4>. QED  BY <1>1, <3>1, <4>1, TablesGrow DEF ReadInv
    <3>3. ProductsAreLoaded'
      <4>1. \A k \in 1..Len(ops) : ops[k].name # "gemm"
        BY <1>2, <1>3
      <4>. QED  BY <1>1, <3>1, <4>1, ProductsGrow DEF ReadInv
    <3>4. ASSUME NEW u \in HostThreads, doing'[u].phase \in {"plan", "execute"},
                 doing'[u].stream = Own, NEW call, call = doing'[u].call
          PROVE  Loaded(call, Len(queue[Own]))'
      <4>1. u = t /\ call = d.call
        BY <1>1, <1>4, <1>6, <3>4
      <4>2. /\ Len(queue[Own]) \in Nat /\ Len(queue'[Own]) = Len(queue[Own]) + 1
            /\ queue'[Own][Len(queue[Own]) + 1] = op
        BY <1>3, <3>1 DEF Grown, Types
      <4>3. PICK m \in Nat : m = Len(queue'[Own]) /\ m # 0
        BY <4>2
      <4>4. /\ m \in 0..m /\ queue'[Own][m].name = "quantize"
            /\ queue'[Own][m].call = call /\ (m + 1)..m = {}
        BY <1>2, <4>1, <4>2, <4>3
      <4>. QED  BY <4>3, <4>4 DEF Loaded, Ours
    <3>5. ProjectionsAreLoaded'
      BY <3>4 DEF ProjectionsAreLoaded
    <3>. QED  BY <1>1, <2>1, <3>2, <3>3, <3>5 DEF ReadInv, WorkReadsItsOwnCall
  <2>. QED  BY <2>2, <2>3
<1>. QED  BY <1>1, <1>5, <1>6


(* A product that runs reads its own operands, or those of strays.         *)
LEMMA ProductsReadTheirs ==
    ASSUME BaseInv, ReadInv, NEW s \in Streams, 1 \in At(s),
           queue[s][1].name = "gemm", queue[s][1].whole
    PROVE  Strange(queue[s][1]) \subseteq strays
<1>. DEFINE op == queue[s][1]
<1>1. Reads(op) = (IF Sets(op.slot) THEN tables[op.slot] ELSE {op.call})
                  \cup (IF world.shared THEN {scratch} ELSE {op.call})
  BY DEF Reads, Sets, Shape
<1>. HIDE DEF op
<1>2. CASE s = Own
  <2>1. Sets(op.slot) => tables[op.slot] = {op.call}
    BY <1>2 DEF ReadInv, TablesAreSet, op
  <2>2. world.shared => scratch \in {op.call} \cup strays
    <3>1. ASSUME world.shared  PROVE Loaded(op.call, 1 - 1)
      BY <1>2, <3>1 DEF ReadInv, ProductsAreLoaded, op
    <3>2. ASSUME world.shared  PROVE Loaded(op.call, 0)
      BY <3>1, <3>2
    <3>3. ASSUME NEW j \in 0..0  PROVE j = 0
      OBVIOUS
    <3>. QED  BY <3>2, <3>3 DEF Loaded, Ours
  <2>. QED  BY <1>1, <2>1, <2>2 DEF Strange, op
<1>3. CASE s = Other
  <2>1. ~Sets(op.slot) /\ ~world.shared
    BY <1>3 DEF BaseInv, OthersNeedNothing, op
  <2>. QED  BY <1>1, <2>1 DEF Strange, op
<1>. QED  BY <1>2, <1>3 DEF Streams

(* What reads when the first operation of the plans' stream has run.       *)
LEMMA ReadsAdvance ==
    ASSUME BaseInv, ReadInv, Advanced(Own),
           UNCHANGED <<world, strays, doing, locks>>,
           (queue[Own][1].name = "setup" /\ queue[Own][1].whole) =>
               tables'[queue[Own][1].slot] = {queue[Own][1].call},
           scratch' = IF queue[Own][1].name = "quantize" THEN queue[Own][1].call
                      ELSE scratch
    PROVE  /\ TablesAreSet' /\ ProductsAreLoaded' /\ ProjectionsAreLoaded'
           /\ ScratchIsLocked'
<1>1. /\ Len(queue[Own]) \in Nat \ {0} /\ Len(queue'[Own]) = Len(queue[Own]) - 1
      /\ \A i \in 1..(Len(queue[Own]) - 1) : queue'[Own][i] = queue[Own][i + 1]
  BY DEF Advanced
<1>2. TablesAreSet'
  BY TablesAdvance DEF BaseInv, ReadInv
<1>3. ASSUME world.shared, NEW i \in At(Own)', queue'[Own][i].name = "gemm",
             NEW call, call = queue'[Own][i].call
      PROVE  Loaded(call, i - 1)'
  <2>1. PICK n \in Nat : n + 1 = i /\ n = i - 1
    <3>1. i - 1 \in Nat /\ (i - 1) + 1 = i
      BY <1>1 DEF At
    <3>. QED  BY <3>1
  <2>2. /\ i + 1 \in At(Own) /\ (i + 1) - 1 = n + 1 /\ queue'[Own][i] = queue[Own][i + 1]
        /\ \A k \in 1..n : queue'[Own][k] = queue[Own][k + 1]
    <3>1. i \in 1..(Len(queue[Own]) - 1)
      BY <1>1 DEF At
    <3>2. i + 1 \in At(Own) /\ (i + 1) - 1 = n + 1
      BY <1>1, <2>1, <3>1 DEF At
    <3>3. \A k \in 1..n : k \in 1..(Len(queue[Own]) - 1)
      BY <1>1, <2>1, <3>1
    <3>. QED  BY <1>1, <3>1, <3>2, <3>3
  <2>3. Loaded(call, (i + 1) - 1)
    BY <1>3, <2>2 DEF ReadInv, ProductsAreLoaded
  <2>4. Loaded(call, n + 1)
    BY <2>2, <2>3
  <2>5. Loaded(call, n)'
    BY <2>2, <2>4, LoadedAdvances
  <2>. QED  BY <2>1, <2>5 DEF Loaded
<1>4. ProductsAreLoaded'
  BY <1>3 DEF ProductsAreLoaded
<1>5. ASSUME NEW t \in HostThreads, doing[t].phase \in {"plan", "execute"},
             doing[t].stream = Own, NEW call, call = doing[t].call
      PROVE  Loaded(call, Len(queue[Own]))'
  <2>1. PICK n \in Nat : n + 1 = Len(queue[Own]) /\ n = Len(queue'[Own])
    <3>1. Len(queue[Own]) - 1 \in Nat /\ (Len(queue[Own]) - 1) + 1 = Len(queue[Own])
      BY <1>1
    <3>. QED  BY <1>1, <3>1
  <2>2. Loaded(call, n + 1)
    BY <1>5, <2>1 DEF ReadInv, ProjectionsAreLoaded
  <2>3. \A k \in 1..n : queue'[Own][k] = queue[Own][k + 1]
    BY <1>1, <2>1
  <2>4. Loaded(call, n)'
    BY <2>2, <2>3, LoadedAdvances
  <2>. QED  BY <2>1, <2>4 DEF Loaded
<1>6. ProjectionsAreLoaded'
  BY <1>5 DEF ProjectionsAreLoaded
<1>7. ScratchIsLocked'
  BY DEF ReadInv, ScratchIsLocked, Phases
<1>. QED  BY <1>2, <1>4, <1>6, <1>7

(* The device runs a setup right before its product.                       *)
LEMMA RunKeepsReads ==
    ASSUME BaseInv, ReadInv, NEW s \in Streams, Run(s)
    PROVE  ReadInv'
<1>. DEFINE op == queue[s][1]
<1>1. Types /\ CallsAreNumbered
  BY DEF BaseInv
<1>2. /\ Advanced(s) /\ op \in Operation /\ 1 \in At(s)
      /\ UNCHANGED <<world, strays, doing, locks>>
      /\ tables' \in [Slots -> SUBSET Nat]
      /\ \A slot \in Slots :
           slot # op.slot \/ op.name \notin {"init", "setup"} => tables'[slot] = tables[slot]
      /\ op.name = "setup" /\ op.whole => tables'[op.slot] = {op.call}
      /\ scratch' = IF op.name = "quantize" THEN op.call ELSE scratch
      /\ misread' = IF op.name = "gemm" /\ Strange(op) # {}
                    THEN misread \cup {[reader |-> op.call, whole |-> op.whole,
                                        read |-> Strange(op)]}
                    ELSE misread
  BY <1>1, RunCases
<1>3. WorkReadsItsOwnCall'
  <2>1. op.name = "gemm" /\ op.whole => Strange(op) \subseteq strays
    BY <1>2, ProductsReadTheirs
  <2>2. ASSUME NEW m \in misread', m.whole
        PROVE  m.read \subseteq strays
    <3>1. CASE m \in misread
      BY <2>2, <3>1 DEF ReadInv, WorkReadsItsOwnCall
    <3>2. CASE m \notin misread
      <4>1. /\ op.name = "gemm"
            /\ m = [reader |-> op.call, whole |-> op.whole, read |-> Strange(op)]
        BY <1>2, <2>2, <3>2
      <4>2. m.whole = op.whole /\ m.read = Strange(op)
        BY <4>1
      <4>. QED  BY <2>1, <2>2, <4>1, <4>2
    <3>. QED  BY <3>1, <3>2
  <2>. QED  BY <1>2, <2>2 DEF WorkReadsItsOwnCall
<1>4. CASE s = Own
  BY <1>2, <1>3, <1>4, ReadsAdvance DEF ReadInv
<1>5. CASE s = Other
  <2>1. /\ op.name \in {"gemm", "routes", "quantize"}
        /\ op.name = "gemm" => ~Sets(op.slot) /\ ~world.shared
        /\ op.name = "quantize" => op.call \in strays
    BY <1>2, <1>5 DEF BaseInv, OthersNeedNothing
  <2>2. tables' = tables
    BY <1>1, <1>2, <2>1 DEF Types
  <2>3. scratch' = scratch \/ scratch' \in strays'
    BY <1>2, <2>1
  <2>4. misread' = misread
    <3>1. op.name = "gemm" => Strange(op) = {}
      BY <2>1 DEF Strange, Reads, Sets, Shape
    <3>. QED  BY <1>2, <3>1
  <2>5. queue'[Own] = queue[Own]
    BY <1>2, <1>5, ThreeStreams DEF Advanced, Streams
  <2>6. ScratchIsLocked'
    BY <1>2 DEF ReadInv, ScratchIsLocked, Phases
  <2>7. \A t \in HostThreads :
               (doing'[t].phase \in {"plan", "execute"} /\ doing'[t].stream = Own)
                   => Loaded(doing'[t].call, Len(queue[Own]))
    BY <1>2 DEF ReadInv, ProjectionsAreLoaded
  <2>. QED  BY <1>2, <2>2, <2>3, <2>4, <2>5, <2>6, <2>7, IdleKeepsReads
<1>. QED  BY <1>4, <1>5 DEF Streams

(* Sorting rows leaves tables and scratch alone.                           *)
LEMMA RoutesKeepReads ==
    ASSUME BaseInv, ReadInv,
           StepRoutes \/ \E s \in Streams : StartRoutes(s) \/ FinishRoutes(s)
    PROVE  ReadInv'
<1>1. /\ UNCHANGED <<world, tables, scratch, strays, misread, doing, locks>>
      /\ \/ UNCHANGED queue
         \/ \E s \in Streams :
              Advanced(s) /\ 1 \in At(s) /\ queue[s][1].name = "routes"
  BY RouteCases DEF BaseInv
<1>2. CASE queue'[Own] = queue[Own]
  <2>1. ScratchIsLocked'
    BY <1>1 DEF ReadInv, ScratchIsLocked, Phases
  <2>2. \A t \in HostThreads :
               (doing'[t].phase \in {"plan", "execute"} /\ doing'[t].stream = Own)
                   => Loaded(doing'[t].call, Len(queue[Own]))
    BY <1>1 DEF ReadInv, ProjectionsAreLoaded
  <2>. QED  BY <1>1, <1>2, <2>1, <2>2, IdleKeepsReads
<1>3. CASE Advanced(Own) /\ queue[Own][1].name = "routes"
  BY <1>1, <1>3, ReadsAdvance DEF ReadInv, WorkReadsItsOwnCall
<1>. QED  BY <1>1, <1>2, <1>3 DEF Advanced, Streams


-----------------------------------------------------------------------------
(* All of it together.                                                     *)

(* Nothing is in use, queued or booked at first.                           *)
LEMMA InitKeeps ==
    ASSUME Init
    PROVE  IInv
<1>1. /\ world \in Worlds
      /\ plan = [slot \in Slots |-> "none"] /\ held = [slot \in Slots |-> {}]
      /\ resident = [slot \in Slots |-> {}] /\ queue = [s \in Streams |-> <<>>]
      /\ tables = [slot \in Slots |-> {}] /\ scratch = 0 /\ calls = 0
      /\ strays = {} /\ misread = {} /\ last = NoCall
      /\ doing = [t \in HostThreads |-> Nothing]
      /\ locks = [lock \in Locks |-> Nobody] /\ routing = Idle
  BY DEF Init
<1>2. world.calls \in Nat
  BY <1>1, WorldsAreKnown
<1>3. pending \in [HostThreads -> BOOLEAN]
  BY DEF Init
<1>4. /\ last.refused = "none" /\ last.launched = FALSE
      /\ "phase" \in DOMAIN routing /\ routing.phase = "idle"
  BY <1>1 DEF NoCall, Idle
<1>5. \A s \in Streams : queue[s] = <<>> /\ At(s) = {}
  BY <1>1 DEF At
<1>6. \A t \in HostThreads : doing[t] = Nothing /\ doing[t].phase \notin Phases
  BY <1>1 DEF Nothing, Phases
<1>7. Types
  <2>1. queue \in [Streams -> Seq(Operation)]
    BY <1>1
  <2>2. calls \in 0..world.calls /\ scratch \in 0..calls /\ strays \subseteq 1..calls
    BY <1>1, <1>2
  <2>3. /\ plan \in [Slots -> {"none", "ready", "failed", "dropped"}]
        /\ held \in [Slots -> SUBSET Nat] /\ resident \in [Slots -> SUBSET Nat]
        /\ tables \in [Slots -> SUBSET Nat]
    BY <1>1
  <2>4. /\ doing \in [HostThreads -> Projecting \cup {Nothing}]
        /\ locks \in [Locks -> HostThreads \cup {Nobody}]
    BY <1>1
  <2>. QED  BY <1>1, <1>3, <1>4, <2>1, <2>2, <2>3, <2>4 DEF Types
<1>8. Own \in Streams /\ Other \in Streams
  BY DEF Streams
<1>9. BaseInv
  BY <1>1, <1>4, <1>5, <1>6, <1>7, <1>8
  DEF BaseInv, ReadyIsCreated, CallsAreNumbered, OthersNeedNothing,
      ProjectionsAreReady, BuffersAreFlagged
<1>10. MemoryInv
  <2>1. \A slot \in Slots : held[slot] = {} /\ resident[slot] = {}
    BY <1>1
  <2>2. \A slot \in Slots, p \in Nat : ~Provided(slot, p, Len(queue[Own]))
    BY <1>5, <1>8, <2>1 DEF Provided, At
  <2>. QED  BY <1>5, <1>8, <2>1, <2>2
       DEF MemoryInv, NoneHasNothing, OnlyReadyHold, FreesAreLast, NeedsAreProvided,
           HeldIsProvided, OthersAreFreed
<1>11. ReadInv
  BY <1>1, <1>5, <1>6, <1>8
  DEF ReadInv, TablesAreSet, ProductsAreLoaded, ProjectionsAreLoaded, ScratchIsLocked,
      WorkReadsItsOwnCall, Phases
<1>. QED  BY <1>9, <1>10, <1>11 DEF IInv

(* A step that changes nothing keeps the books.                            *)
LEMMA StutterKeeps ==
    ASSUME IInv, UNCHANGED vars
    PROVE  IInv'
<1>1. UNCHANGED <<world, plan, held, resident, queue, tables, scratch, pending,
                  calls, strays, misread, last, doing, locks, routing>>
  BY DEF vars
<1>2. BaseInv'
  BY <1>1
  DEF IInv, BaseInv, Types, ReadyIsCreated, CallsAreNumbered, OthersNeedNothing,
      ProjectionsAreReady, BuffersAreFlagged, Slots, Streams, Locks, Operation,
      Projecting, Phases, Nothing, At, Shape, Sets
<1>3. MemoryInv'
  BY <1>1, MemoryStays DEF IInv
<1>4. ReadInv'
  <2>1. ScratchIsLocked'
    BY <1>1 DEF IInv, ReadInv, ScratchIsLocked, Phases
  <2>2. \A t \in HostThreads :
               (doing'[t].phase \in {"plan", "execute"} /\ doing'[t].stream = Own)
                   => Loaded(doing'[t].call, Len(queue[Own]))
    BY <1>1 DEF IInv, ReadInv, ProjectionsAreLoaded
  <2>. QED  BY <1>1, <2>1, <2>2, IdleKeepsReads DEF IInv
<1>. QED  BY <1>2, <1>3, <1>4 DEF IInv

(* Each action keeps all of the books: a creation,                         *)
LEMMA CreateKeeps ==
    ASSUME IInv, NEW t \in HostThreads, NEW slot \in Slots, Create(t, slot)
    PROVE  IInv'
BY CreateKeepsBase, CreateKeepsMemory, CreateKeepsReads DEF IInv

(* a drop,                                                                 *)
LEMMA DropKeeps ==
    ASSUME IInv, NEW slot \in Slots, Drop(slot)
    PROVE  IInv'
BY DropKeepsBase, DropKeepsMemory, DropKeepsReads DEF IInv

(* a call, whatever the checks find and however far its launches get,      *)
LEMMA CallKeeps ==
    ASSUME IInv, NEW t \in HostThreads, NEW slot \in Slots, Call(t, slot)
    PROVE  IInv'
<1>1. BaseInv /\ MemoryInv /\ ReadInv /\ OnlyReadyHold
  BY DEF IInv, MemoryInv
<1>2. /\ BaseInv' /\ plan[slot] = "ready"
      /\ UNCHANGED <<world, plan, held, resident>>
      /\ \/ UNCHANGED queue
         \/ \E s \in Streams, ops \in Seq(Operation) :
              /\ Working(slot, calls + 1, s, ops)
              /\ (held[slot] # {} \/ Sets(slot)) => s = Own
  BY <1>1, CallKeepsBase
<1>3. MemoryInv'
  <2>1. CASE UNCHANGED queue
    BY <1>1, <1>2, <2>1, MemoryStays
  <2>2. ASSUME NEW s \in Streams, NEW ops, Working(slot, calls + 1, s, ops),
               held[slot] # {} => s = Own
        PROVE  MemoryInv'
    BY <1>1, <1>2, <2>2, WorkKeepsMemory
  <2>. QED  BY <1>2, <2>1, <2>2
<1>4. ReadInv'
  BY <1>1, CallKeepsReads
<1>. QED  BY <1>2, <1>3, <1>4 DEF IInv

(* the beginning of a projection,                                          *)
LEMMA BeginKeeps ==
    ASSUME IInv, NEW t \in HostThreads, NEW slot \in Slots, Begin(t, slot)
    PROVE  IInv'
<1>1. UNCHANGED <<world, plan, held, resident, queue>>
  BY DEF Begin
<1>. QED  BY <1>1, BeginKeepsBase, MemoryStays, BeginKeepsReads DEF IInv

(* each of its locks,                                                      *)
LEMMA LocksKeep ==
    ASSUME IInv, NEW t \in HostThreads, LockInput(t) \/ LockFactors(t) \/ LockPlan(t)
    PROVE  IInv'
BY LockKeepsReads, MemoryStays DEF IInv

(* its quantization,                                                       *)
LEMMA QuantizeKeeps ==
    ASSUME IInv, NEW t \in HostThreads, LaunchQuantize(t)
    PROVE  IInv'
BY QuantizeKeepsBase, QuantizeKeepsMemory, QuantizeKeepsReads DEF IInv

(* its product, or the refusal of its stream,                              *)
LEMMA ExecuteKeeps ==
    ASSUME IInv, NEW t \in HostThreads, ExecutePlan(t)
    PROVE  IInv'
<1>. DEFINE d == doing[t]
<1>1. BaseInv /\ MemoryInv /\ ReadInv
  BY DEF IInv
<1>2. /\ BaseInv' /\ d \in Projecting /\ plan[d.slot] = "ready"
      /\ UNCHANGED <<world, plan, held, resident>>
      /\ \/ UNCHANGED queue
         \/ \E ops \in Seq(Operation) : Working(d.slot, d.call, Own, ops)
  BY <1>1, ExecuteKeepsBase
<1>3. d.slot \in Slots /\ Own \in Streams
  BY <1>2 DEF Projecting, Streams
<1>4. MemoryInv'
  <2>1. CASE UNCHANGED queue
    BY <1>1, <1>2, <2>1, MemoryStays
  <2>2. ASSUME NEW ops, Working(d.slot, d.call, Own, ops)
        PROVE  MemoryInv'
    BY <1>1, <1>2, <1>3, <2>2, WorkKeepsMemory
  <2>. QED  BY <1>2, <2>1, <2>2
<1>5. ReadInv'
  BY <1>1, ExecuteKeepsReads
<1>. QED  BY <1>2, <1>4, <1>5 DEF IInv

(* and what the device does.                                               *)
LEMMA DeviceKeeps ==
    ASSUME IInv,
           StepRoutes \/ \E s \in Streams : Run(s) \/ StartRoutes(s) \/ FinishRoutes(s)
    PROVE  IInv'
<1>1. ASSUME NEW s \in Streams, Run(s)  PROVE IInv'
  BY <1>1, RunKeepsBase, RunKeepsMemory, RunKeepsReads DEF IInv
<1>2. ASSUME StepRoutes \/ \E s \in Streams : StartRoutes(s) \/ FinishRoutes(s)
      PROVE  IInv'
  BY <1>2, RoutesKeepBase, RoutesKeepMemory, RoutesKeepReads DEF IInv
<1>. QED  BY <1>1, <1>2

(* So does every step.                                                     *)
LEMMA StepKeeps ==
    ASSUME IInv, [Next]_vars
    PROVE  IInv'
<1>1. world.threads \subseteq HostThreads
  BY KnownWorld DEF IInv, BaseInv
<1>2. ASSUME NEW t \in world.threads, NEW slot \in Slots,
             Create(t, slot) \/ Call(t, slot) \/ Begin(t, slot)
      PROVE  IInv'
  BY <1>1, <1>2, CreateKeeps, CallKeeps, BeginKeeps
<1>3. ASSUME NEW t \in world.threads, ProjectionStep(t)
      PROVE  IInv'
  BY <1>1, <1>3, LocksKeep, QuantizeKeeps, ExecuteKeeps DEF ProjectionStep
<1>4. CASE Next
  BY <1>2, <1>3, <1>4, DropKeeps, DeviceKeeps DEF Next
<1>. QED  BY <1>4, StutterKeeps

-----------------------------------------------------------------------------
(* The books above are true of every state.                                *)
THEOREM InductiveInvariant == Spec => []IInv
<1>1. Init => IInv
  BY InitKeeps
<1>2. IInv /\ [Next]_vars => IInv'
  BY StepKeeps
<1>. QED  BY <1>1, <1>2, PTL DEF Spec

(* TypeOK: plans that are not in use own nothing, calls are numbered, and  *)
(* each phase of a projection, lock and refusal is one that the code has.  *)
THEOREM TypeCorrect == Spec => []TypeOK
<1>1. IInv => TypeOK
  BY DEF IInv, BaseInv, MemoryInv, Types, OnlyReadyHold, CallsAreNumbered, TypeOK,
         Projecting, Nothing, CheckNames
<1>. QED  BY <1>1, InductiveInvariant, PTL

(* BuffersAreFlagged: the loop over a call's operands has marked each of   *)
(* another stream when the checks let the call through.                    *)
THEOREM BuffersFlagged == Spec => []BuffersAreFlagged
<1>1. IInv => BuffersAreFlagged
  BY DEF IInv, BaseInv
<1>. QED  BY <1>1, InductiveInvariant, PTL

(* WorkUsesLiveMemory: kernels and frees are queued behind the allocations *)
(* that they need, in one stream, and before the free of any of them.      *)
THEOREM WorkIsBacked == Spec => []WorkUsesLiveMemory
<1>1. ASSUME IInv, NEW s \in Streams, queue[s] # <<>>, Head(queue[s]).name # "alloc"
      PROVE  Head(queue[s]).needs \subseteq resident[Head(queue[s]).slot]
  <2>1. queue[s] \in Seq(Operation)
    BY <1>1 DEF IInv, BaseInv, Types
  <2>2. Head(queue[s]) = queue[s][1] /\ 1 \in At(s)
    BY <1>1, <2>1 DEF At
  <2>3. CASE s = Own
    <3>1. \A p \in queue[Own][1].needs : Provided(queue[Own][1].slot, p, 1 - 1)
      BY <1>1, <2>2, <2>3 DEF IInv, MemoryInv, NeedsAreProvided
    <3>2. 1..(1 - 1) = {}
      OBVIOUS
    <3>. QED  BY <2>2, <2>3, <3>1, <3>2 DEF Provided
  <2>4. CASE s = Other
    BY <1>1, <2>2, <2>4 DEF IInv, BaseInv, OthersNeedNothing
  <2>. QED  BY <2>3, <2>4 DEF Streams
<1>2. IInv => WorkUsesLiveMemory
  BY <1>1 DEF WorkUsesLiveMemory
<1>. QED  BY <1>2, InductiveInvariant, PTL

(* NothingIsLeaked: what a failed creation and a drop give back is freed   *)
(* by one operation each, and nothing else is.                             *)
THEOREM NothingLeaks == Spec => []NothingIsLeaked
<1>1. ASSUME IInv, \A s \in Streams : queue[s] = <<>>
      PROVE  resident = held
  <2>1. held \in [Slots -> SUBSET Nat] /\ resident \in [Slots -> SUBSET Nat]
    BY <1>1 DEF IInv, BaseInv, Types
  <2>2. Own \in Streams /\ 1..Len(queue[Own]) = {}
    BY <1>1 DEF Streams
  <2>3. \A slot \in Slots : \A p \in held[slot] : p \in resident[slot]
    BY <1>1, <2>2 DEF IInv, MemoryInv, HeldIsProvided, Provided
  <2>4. \A slot \in Slots : \A p \in Nat : p \in resident[slot] => p \in held[slot]
    BY <1>1, <2>2 DEF IInv, MemoryInv, OthersAreFreed, Provided, At
  <2>5. \A slot \in Slots : resident[slot] = held[slot]
    BY <2>1, <2>3, <2>4
  <2>. QED  BY <2>1, <2>5
<1>2. IInv => NothingIsLeaked
  BY <1>1 DEF NothingIsLeaked
<1>. QED  BY <1>2, InductiveInvariant, PTL

(* WorkReadsItsOwnCall: a product runs right behind the setup of its call, *)
(* and a projection holds the lock of the scratch from its quantization    *)
(* until its product is queued behind it.                                  *)
THEOREM ProductsReadOwnCalls == Spec => []WorkReadsItsOwnCall
<1>1. IInv => WorkReadsItsOwnCall
  BY DEF IInv, ReadInv
<1>. QED  BY <1>1, InductiveInvariant, PTL
=============================================================================
