------------------------- MODULE DeviceMemory_proofs -------------------------
(* Theorems about DeviceMemory, for every value of its constants.          *)
EXTENDS DeviceMemory, SequenceTheorems, TLAPS

(* The operations that the actions queue are operations.                   *)
LEMMA OperationsTyped ==
    ASSUME NEW b \in Buffers, NEW B \in SUBSET Buffers
    PROVE  /\ Alloc(b) \in Operation /\ Free(b) \in Operation /\ Use(B) \in Operation
           /\ <<Alloc(b)>> \in Seq(Operation)
           /\ <<Free(b)>> \in Seq(Operation)
           /\ <<Use(B)>> \in Seq(Operation)
           /\ <<Alloc(b), Use({b})>> \in Seq(Operation)
<1>1. Alloc(b) \in Operation /\ Free(b) \in Operation /\ Use(B) \in Operation
  BY DEF Operation
<1>2. Use({b}) \in Operation
  BY DEF Operation
<1>. QED  BY <1>1, <1>2

(* What queueing work on a stream changes.                                 *)
LEMMA EnqueueEffect ==
    ASSUME queue \in [Streams -> Seq(Operation)], NEW s \in Streams,
           NEW ops \in Seq(Operation), Enqueue(s, ops)
    PROVE  /\ queue' \in [Streams -> Seq(Operation)]
           /\ \A t \in Streams : t # s => queue'[t] = queue[t]
           /\ Len(queue'[s]) = Len(queue[s]) + Len(ops)
           /\ \A i \in 1..Len(queue[s]) : queue'[s][i] = queue[s][i]
           /\ \A i \in 1..Len(ops) : queue'[s][Len(queue[s]) + i] = ops[i]
<1>1. queue' = [queue EXCEPT ![s] = queue[s] \o ops]
  BY DEF Enqueue
<1>2. queue[s] \in Seq(Operation)
  OBVIOUS
<1>3. /\ queue[s] \o ops \in Seq(Operation)
      /\ Len(queue[s] \o ops) = Len(queue[s]) + Len(ops)
      /\ \A i \in 1..(Len(queue[s]) + Len(ops)) :
            (queue[s] \o ops)[i] = IF i <= Len(queue[s]) THEN queue[s][i]
                                                         ELSE ops[i - Len(queue[s])]
  BY <1>2, ConcatProperties
<1>4. queue'[s] = queue[s] \o ops
  BY <1>1
<1>5. Len(queue[s]) \in Nat /\ Len(ops) \in Nat
  BY <1>2
<1>6. \A i \in 1..Len(queue[s]) : queue'[s][i] = queue[s][i]
  BY <1>3, <1>4, <1>5
<1>7. \A i \in 1..Len(ops) : queue'[s][Len(queue[s]) + i] = ops[i]
  <2> TAKE i \in 1..Len(ops)
  <2>1. Len(queue[s]) + i \in 1..(Len(queue[s]) + Len(ops))
    BY <1>5
  <2>2. ~(Len(queue[s]) + i <= Len(queue[s])) /\ (Len(queue[s]) + i) - Len(queue[s]) = i
    BY <1>5
  <2>. QED  BY <1>3, <1>4, <2>1, <2>2
<1>. QED  BY <1>1, <1>3, <1>4, <1>6, <1>7

(* What running the oldest operation of a stream changes.                  *)
LEMMA StepEffect ==
    ASSUME queue \in [Streams -> Seq(Operation)], NEW s \in Streams,
           StreamStep(s)
    PROVE  /\ queue' \in [Streams -> Seq(Operation)]
           /\ \A t \in Streams : t # s => queue'[t] = queue[t]
           /\ Len(queue[s]) \in Nat \ {0}
           /\ Len(queue'[s]) = Len(queue[s]) - 1
           /\ \A i \in 1..Len(queue'[s]) : queue'[s][i] = queue[s][i + 1]
           /\ Head(queue[s]) = queue[s][1]
BY HeadTailProperties DEF StreamStep

-----------------------------------------------------------------------------
(* Type correctness.                                                       *)

(* The initial state is well typed.                                        *)
LEMMA TypeInit == Init => TypeOK
BY ContextsAssumption, BoundsAssumption DEF Init, TypeOK, Phases

(* A free keeps the types of what it changes.                              *)
LEMMA FreeTyped ==
    ASSUME TypeOK, NEW b \in Buffers, home[b] \in Streams,
           FreeQueued(b) \/ FreeRefused(b)
    PROVE  /\ queue' \in [Streams -> Seq(Operation)]
           /\ phase' \in [Buffers -> Phases]
<1>1. CASE FreeQueued(b)
  BY <1>1, OperationsTyped, EnqueueEffect DEF TypeOK, Phases, FreeQueued
<1>2. CASE FreeRefused(b)
  BY <1>2 DEF TypeOK, Phases, FreeRefused
<1>. QED  BY <1>1, <1>2

(* So does free_async as a whole, with the error it may record.            *)
LEMMA FreeAsyncTyped ==
    ASSUME TypeOK, NEW b \in Buffers, home[b] \in Streams, FreeAsync(b)
    PROVE  /\ queue' \in [Streams -> Seq(Operation)]
           /\ phase' \in [Buffers -> Phases]
           /\ errorState' \in [Contexts -> BOOLEAN]
<1>1. FreeQueued(b) \/ FreeRefused(b)
  BY DEF FreeAsync
<1>2. errorState' \in [Contexts -> BOOLEAN]
  BY DEF FreeAsync, RecordError, TypeOK
<1>. QED  BY <1>1, <1>2, FreeTyped

(* Allocations, copies, launches and the work of foreign code keep every   *)
(* type.                                                                   *)
LEMMA CallTyped ==
    ASSUME TypeOK, HomeIsSet,
           NEW b \in Buffers, NEW B \in SUBSET Buffers, NEW s \in Streams,
           NEW zeroed \in BOOLEAN,
           \/ Allocate(b, s, zeroed) \/ Copy(B, s) \/ Launch(B, s)
           \/ RawPointerFor(b, s) \/ ForeignWork(b, s)
    PROVE  TypeOK'
<1>. USE BoundsAssumption DEF TypeOK
<1>1. CASE Allocate(b, s, zeroed)
  <2>1. PICK ops \in {<<Alloc(b)>>, <<Alloc(b), Use({b})>>} : Enqueue(s, ops)
    BY <1>1 DEF Allocate
  <2>3. ops \in Seq(Operation)
    BY OperationsTyped
  <2>4. queue' \in [Streams -> Seq(Operation)]
    BY <2>1, <2>3, EnqueueEffect
  <2>5. \/ phase' = [phase EXCEPT ![b] = "held"] /\ handles' = [handles EXCEPT ![b] = 1]
        \/ phase' = [phase EXCEPT ![b] = "leaked"] /\ handles' = handles
    BY <1>1, Zenon DEF Allocate
  <2>6. phase' \in [Buffers -> Phases]
    BY <2>5 DEF Phases
  <2>7. 1 \in 0..MaxHandles
    OBVIOUS
  <2>2. handles' \in [Buffers -> 0..MaxHandles]
    BY <2>5, <2>7
  <2>. QED  BY <1>1, <2>2, <2>4, <2>6 DEF Allocate
<1>2. CASE Copy(B, s)
  <2>1. queue' \in [Streams -> Seq(Operation)]
    BY <1>2, OperationsTyped, EnqueueEffect DEF Copy
  <2>2. crossStream' \in [Buffers -> BOOLEAN]
    BY <1>2 DEF Copy, StopAtMismatch, MarkCrossStream
  <2>. QED  BY <1>2, <2>1, <2>2 DEF Copy
<1>3. CASE Launch(B, s)
  <2>1. queue' \in [Streams -> Seq(Operation)]
    BY <1>3, OperationsTyped, EnqueueEffect DEF Launch
  <2>2. crossStream' \in [Buffers -> BOOLEAN]
    BY <1>3 DEF Launch, StopAtMismatch, MarkCrossStream
  <2>3. errorState' \in [Contexts -> BOOLEAN]
    BY <1>3 DEF Launch
  <2>. QED  BY <1>3, <2>1, <2>2, <2>3 DEF Launch
<1>4. CASE RawPointerFor(b, s)
  BY <1>4 DEF RawPointerFor, MarkCrossStream, device
<1>5. CASE ForeignWork(b, s)
  <2>1. queue' \in [Streams -> Seq(Operation)]
    BY <1>5, OperationsTyped, EnqueueEffect DEF ForeignWork
  <2>. QED  BY <1>5, <2>1 DEF ForeignWork, host
<1>. QED  BY <1>1, <1>2, <1>3, <1>4, <1>5

(* Clones and views keep every type: handles stay within their bound.      *)
LEMMA TakeViewTyped ==
    ASSUME TypeOK, NEW b \in Buffers, TakeView(b)
    PROVE  TypeOK'
BY BoundsAssumption DEF TypeOK, TakeView, device

(* Every path of a drop keeps every type.                                  *)
LEMMA DropTyped ==
    ASSUME TypeOK, HomeIsSet, NEW b \in Buffers, Drop(b)
    PROVE  TypeOK'
<1>. USE BoundsAssumption DEF TypeOK
<1>0. home[b] \in Streams
  BY DEF HomeIsSet, Drop, DropHandle, DropLocal, BeginDrain, DropUnderError,
         FinishDrain, DrainFails, Held
<1>1. CASE DropHandle(b)
  BY <1>1 DEF DropHandle, device
<1>2. CASE DropLocal(b)
  BY <1>0, <1>2, FreeAsyncTyped DEF DropLocal
<1>3. CASE BeginDrain(b)
  BY <1>3 DEF BeginDrain, Phases, device
<1>4. CASE DropUnderError(b)
  BY <1>0, <1>4, FreeAsyncTyped DEF DropUnderError
<1>5. CASE FinishDrain(b)
  BY <1>0, <1>5, FreeAsyncTyped DEF FinishDrain
<1>6. CASE DrainFails(b)
  <2>1. /\ queue' \in [Streams -> Seq(Operation)]
        /\ phase' \in [Buffers -> Phases]
    BY <1>0, <1>6, FreeTyped DEF DrainFails
  <2>. QED  BY <1>6, <2>1 DEF DrainFails, RecordError
<1>. QED  BY <1>1, <1>2, <1>3, <1>4, <1>5, <1>6 DEF Drop

(* The device keeps every type.                                            *)
LEMMA StreamStepTyped ==
    ASSUME TypeOK, NEW s \in Streams, StreamStep(s)
    PROVE  TypeOK'
<1>1. queue' \in [Streams -> Seq(Operation)]
  BY StepEffect DEF TypeOK
<1>2. awaiting' \in [Buffers -> [Streams -> Nat]]
  BY DEF TypeOK, StreamStep
<1>3. resident' \in [Buffers -> {"absent", "live", "released"}]
  BY DEF TypeOK, StreamStep
<1>. QED  BY <1>1, <1>2, <1>3 DEF TypeOK, StreamStep, host

(* The allocation stream of a buffer is known from its allocation on.      *)
LEMMA HomeStaysSet ==
    ASSUME TypeOK, HomeIsSet, [Next]_vars
    PROVE  HomeIsSet'
<1>. USE NoStreamAssumption DEF TypeOK, HomeIsSet, host, device
<1>1. CASE UNCHANGED vars
  BY <1>1 DEF vars
<1>2. ASSUME NEW b \in Buffers, NEW s \in Streams, NEW zeroed \in BOOLEAN,
             Allocate(b, s, zeroed)
      PROVE  HomeIsSet'
  BY <1>2 DEF Allocate
<1>3. ASSUME NEW B \in SUBSET Buffers, NEW s \in Streams, Copy(B, s) \/ Launch(B, s)
      PROVE  HomeIsSet'
  BY <1>3 DEF Copy, Launch
<1>4. ASSUME NEW b \in Buffers, NEW s \in Streams,
             RawPointerFor(b, s) \/ ForeignWork(b, s)
      PROVE  HomeIsSet'
  BY <1>4 DEF RawPointerFor, ForeignWork
<1>5. ASSUME NEW b \in Buffers, TakeView(b) \/ Drop(b)
      PROVE  HomeIsSet'
  BY <1>5 DEF TakeView, Drop, DropHandle, DropLocal, BeginDrain, DropUnderError,
              FinishDrain, DrainFails, FreeAsync, FreeQueued, FreeRefused, Held
<1>6. ASSUME NEW c \in Contexts, ReportError(c)
      PROVE  HomeIsSet'
  BY <1>6 DEF ReportError
<1>7. ASSUME NEW s \in Streams, StreamStep(s)
      PROVE  HomeIsSet'
  BY <1>7 DEF StreamStep
<1>. QED  BY <1>1, <1>2, <1>3, <1>4, <1>5, <1>6, <1>7 DEF Next

(* Every step keeps every type, given that every buffer in use has a       *)
(* stream.                                                                 *)
LEMMA TypeStep == TypeOK /\ HomeIsSet /\ [Next]_vars => TypeOK'
<1>. SUFFICES ASSUME TypeOK, HomeIsSet, [Next]_vars PROVE TypeOK'
  OBVIOUS
<1>1. CASE UNCHANGED vars
  BY <1>1 DEF vars, TypeOK
<1>2. ASSUME NEW c \in Contexts, ReportError(c)
      PROVE  TypeOK'
  BY <1>2 DEF ReportError, TypeOK, host, device
<1>3. ASSUME NEW b \in Buffers, NEW s \in Streams, NEW zeroed \in BOOLEAN,
             Allocate(b, s, zeroed)
      PROVE  TypeOK'
  BY <1>3, CallTyped
<1>4. ASSUME NEW B \in SUBSET Buffers, NEW s \in Streams, Copy(B, s) \/ Launch(B, s)
      PROVE  TypeOK'
  <2>. PICK b \in Buffers : b \in B
    BY <1>4 DEF Copy, Launch
  <2>. QED  BY <1>4, CallTyped
<1>5. ASSUME NEW b \in Buffers, NEW s \in Streams,
             RawPointerFor(b, s) \/ ForeignWork(b, s)
      PROVE  TypeOK'
  BY <1>5, CallTyped
<1>6. ASSUME NEW b \in Buffers, TakeView(b)
      PROVE  TypeOK'
  BY <1>6, TakeViewTyped
<1>7. ASSUME NEW b \in Buffers, Drop(b)
      PROVE  TypeOK'
  BY <1>7, DropTyped
<1>8. ASSUME NEW s \in Streams, StreamStep(s)
      PROVE  TypeOK'
  BY <1>8, StreamStepTyped
<1>. QED  BY <1>1, <1>2, <1>3, <1>4, <1>5, <1>6, <1>7, <1>8 DEF Next

(* Every variable keeps its type, and an allocation stream is set exactly  *)
(* for the buffers that were allocated.                                    *)
THEOREM TypeCorrect == Spec => [](TypeOK /\ HomeIsSet)
<1>1. Init => TypeOK /\ HomeIsSet
  BY TypeInit, NoStreamAssumption DEF Init, HomeIsSet
<1>2. (TypeOK /\ HomeIsSet) /\ [Next]_vars => (TypeOK /\ HomeIsSet)'
  BY TypeStep, HomeStaysSet
<1>. QED  BY <1>1, <1>2, PTL DEF Spec

-----------------------------------------------------------------------------
(* No use after free.                                                      *)

(* The part of the inductive invariant that talks about queued work.       *)
WorkInv ==
    QueuedSoundly /\ FreeIsLast /\ DrainCoversUses /\ DroppedIsLocal /\ ReleasedIsIdle

(* What is queued is an operation on buffers.                              *)
LEMMA QueuedTyped ==
    ASSUME TypeOK
    PROVE  \A t \in Streams : \A i \in Pending(t) :
               /\ queue[t][i] \in Operation
               /\ queue[t][i].on \in SUBSET Buffers
               /\ queue[t][i].kind \in {"alloc", "use", "free"}
               /\ queue[t][i].kind # "use" =>
                     \E b \in Buffers : queue[t][i].on = {b}
<1>1. \A t \in Streams : \A i \in Pending(t) : queue[t][i] \in Operation
  BY DEF TypeOK, Pending
<1>. QED  BY <1>1 DEF Operation, Alloc, Free, Use

(* Queueing one operation keeps every earlier one at its position.         *)
LEMMA EnqueueOne ==
    ASSUME TypeOK, NEW s \in Streams, NEW op \in Operation, Enqueue(s, <<op>>)
    PROVE  /\ \A t \in Streams : Len(queue[t]) \in Nat /\ Len(queue'[t]) \in Nat
           /\ \A t \in Streams : \A i \in Pending(t) :
                 i \in Pending(t)' /\ queue'[t][i] = queue[t][i]
           /\ \A t \in Streams : \A i \in Pending(t)' :
                 \/ i \in Pending(t) /\ queue'[t][i] = queue[t][i]
                 \/ /\ t = s /\ i = Len(queue[s]) + 1 /\ i = Len(queue'[s])
                    /\ queue'[t][i] = op
<1>1. <<op>> \in Seq(Operation) /\ Len(<<op>>) = 1 /\ <<op>>[1] = op
  OBVIOUS
<1>2. /\ queue' \in [Streams -> Seq(Operation)]
      /\ \A t \in Streams : t # s => queue'[t] = queue[t]
      /\ Len(queue'[s]) = Len(queue[s]) + 1
      /\ \A i \in 1..Len(queue[s]) : queue'[s][i] = queue[s][i]
      /\ \A i \in 1..1 : queue'[s][Len(queue[s]) + i] = <<op>>[i]
  BY <1>1, EnqueueEffect DEF TypeOK
<1>3. queue'[s][Len(queue[s]) + 1] = op
  BY <1>1, <1>2
<1>4. \A t \in Streams : Len(queue[t]) \in Nat /\ Len(queue'[t]) \in Nat
  BY <1>2 DEF TypeOK
<1>5. ASSUME NEW t \in Streams, NEW i \in 1..Len(queue[t])
      PROVE  i \in 1..Len(queue'[t]) /\ queue'[t][i] = queue[t][i]
  <2>1. CASE t = s
    <3>1. i \in 1..Len(queue'[s])
      BY <1>2, <1>4, <1>5, <2>1
    <3>2. queue'[s][i] = queue[s][i]
      BY <1>2, <1>5, <2>1
    <3>. QED  BY <3>1, <3>2, <2>1
  <2>2. CASE t # s
    <3>1. queue'[t] = queue[t]
      BY <1>2, <2>2
    <3>. QED  BY <1>5, <3>1
  <2>. QED  BY <2>1, <2>2
<1>6. ASSUME NEW t \in Streams, NEW i \in 1..Len(queue'[t]),
             ~(i \in 1..Len(queue[t]) /\ queue'[t][i] = queue[t][i])
      PROVE  /\ t = s /\ i = Len(queue[s]) + 1 /\ i = Len(queue'[s])
             /\ queue'[t][i] = op
  <2>1. t = s
    BY <1>2, <1>6
  <2>2. i = Len(queue[s]) + 1
    BY <1>2, <1>4, <1>6, <2>1
  <2>. QED  BY <1>2, <1>3, <2>1, <2>2
<1>. QED  BY <1>4, <1>5, <1>6, Zenon DEF Pending

(* Work that uses held buffers of the stream's context, flagged when the   *)
(* stream is not their own, keeps the invariant.                           *)
LEMMA UseKeepsInv ==
    ASSUME TypeOK, HomeIsSet, WorkInv, NEW s \in Streams, NEW B \in SUBSET Buffers,
           B \subseteq Held, UNCHANGED <<home, phase, awaiting, resident, unsynced>>,
           \A b \in Buffers : crossStream[b] => crossStream'[b],
           \A b \in B : SameContext(b, s) /\ home[b] \in Streams,
           \A b \in B : home[b] # s => crossStream'[b],
           Enqueue(s, <<Use(B)>>)
    PROVE  WorkInv'
<1>. DEFINE op == Use(B)
<1>1. op \in Operation /\ op.kind = "use" /\ op.on = B
  BY DEF Operation, Use
<1>2. \A b \in B : phase[b] = "held"
  BY DEF Held
<1>. HIDE DEF op
<1>3. /\ \A t \in Streams : Len(queue[t]) \in Nat /\ Len(queue'[t]) \in Nat
      /\ \A t \in Streams : \A i \in Pending(t) :
            i \in Pending(t)' /\ queue'[t][i] = queue[t][i]
      /\ \A t \in Streams : \A i \in Pending(t)' :
            \/ i \in Pending(t) /\ queue'[t][i] = queue[t][i]
            \/ /\ t = s /\ i = Len(queue[s]) + 1 /\ i = Len(queue'[s])
               /\ queue'[t][i] = op
  <2>1. Enqueue(s, <<op>>)
    BY DEF op
  <2>. QED  BY <1>1, <2>1, EnqueueOne
<1>4. QueuedSoundly'
  <2>. SUFFICES ASSUME NEW t \in Streams, NEW i \in Pending(t)',
                       NEW b \in queue'[t][i].on
                PROVE  /\ phase[b] # "unused"
                       /\ home[b] \in Streams
                       /\ SameContext(b, t)
                       /\ t # home[b] => queue'[t][i].kind = "use" /\ crossStream'[b]
    BY DEF QueuedSoundly, SameContext
  <2>1. CASE i \in Pending(t) /\ queue'[t][i] = queue[t][i]
    BY <2>1, QueuedTyped DEF WorkInv, QueuedSoundly
  <2>2. CASE t = s /\ queue'[t][i] = op
    BY <1>1, <1>2, <2>2
  <2>. QED  BY <1>3, <2>1, <2>2
<1>5. FreeIsLast'
  <2>. SUFFICES ASSUME NEW t \in Streams, NEW i \in Pending(t)',
                       NEW b \in queue'[t][i].on, queue'[t][i].kind = "free"
                PROVE  /\ phase[b] = "dropped"
                       /\ \A j \in Pending(t)' : j > i => b \notin queue'[t][j].on
    BY DEF FreeIsLast
  <2>1. i \in Pending(t) /\ queue'[t][i] = queue[t][i]
    BY <1>1, <1>3
  <2>2. phase[b] = "dropped" /\ \A j \in Pending(t) : j > i => b \notin queue[t][j].on
    BY <2>1 DEF WorkInv, FreeIsLast
  <2>. QED  BY <1>1, <1>2, <1>3, <2>2
<1>6. DrainCoversUses'
  BY <1>1, <1>2, <1>3 DEF WorkInv, DrainCoversUses, UsedBy
<1>7. DroppedIsLocal'
  BY <1>1, <1>2, <1>3 DEF WorkInv, DroppedIsLocal, UsedBy
<1>8. ReleasedIsIdle'
  <2>. SUFFICES ASSUME NEW b \in Buffers, resident[b] = "released"
                PROVE  /\ phase[b] = "dropped"
                       /\ \A i \in Pending(home[b])' : b \notin queue'[home[b]][i].on
    BY DEF ReleasedIsIdle
  <2>1. /\ phase[b] = "dropped"
        /\ \A i \in Pending(home[b]) : b \notin queue[home[b]][i].on
    BY DEF WorkInv, ReleasedIsIdle
  <2>2. home[b] \in Streams
    BY <2>1 DEF HomeIsSet
  <2>. QED  BY <1>1, <1>2, <1>3, <2>1, <2>2
<1>. QED  BY <1>4, <1>5, <1>6, <1>7, <1>8 DEF WorkInv

(* A step that queues nothing and only adds flags keeps the invariant.     *)
LEMMA FlagsKeepInv ==
    ASSUME TypeOK, WorkInv,
           UNCHANGED <<home, phase, queue, awaiting, resident, unsynced>>,
           \A b \in Buffers : crossStream[b] => crossStream'[b]
    PROVE  WorkInv'
<1>1. QueuedSoundly'
  <2>. SUFFICES ASSUME NEW t \in Streams, NEW i \in Pending(t),
                       NEW b \in queue[t][i].on
                PROVE  /\ phase[b] # "unused"
                       /\ home[b] \in Streams
                       /\ SameContext(b, t)
                       /\ t # home[b] => queue[t][i].kind = "use" /\ crossStream'[b]
    BY DEF QueuedSoundly, SameContext, Pending
  <2>. QED  BY QueuedTyped DEF WorkInv, QueuedSoundly
<1>2. FreeIsLast' /\ DrainCoversUses' /\ DroppedIsLocal' /\ ReleasedIsIdle'
  BY DEF WorkInv, FreeIsLast, DrainCoversUses, DroppedIsLocal, ReleasedIsIdle,
         UsedBy, Pending
<1>. QED  BY <1>1, <1>2 DEF WorkInv

(* Work on a stream mentions a buffer only after its allocation.           *)
LEMMA UnusedIsUnmentioned ==
    ASSUME TypeOK, WorkInv, NEW b \in Buffers, phase[b] = "unused"
    PROVE  /\ \A t \in Streams : \A i \in Pending(t) : b \notin queue[t][i].on
           /\ resident[b] # "released"
BY DEF WorkInv, QueuedSoundly, ReleasedIsIdle

(* An allocation keeps the invariant: nothing mentioned the buffer before. *)
LEMMA AllocateKeepsInv ==
    ASSUME TypeOK, HomeIsSet, WorkInv, NEW b \in Buffers, NEW s \in Streams,
           NEW zeroed \in BOOLEAN, Allocate(b, s, zeroed)
    PROVE  WorkInv'
<1>1. /\ phase[b] = "unused"
      /\ home' = [home EXCEPT ![b] = s]
      /\ UNCHANGED <<crossStream, awaiting, resident, unsynced>>
  BY DEF Allocate
<1>2. PICK p \in {"held", "leaked"} : phase' = [phase EXCEPT ![b] = p]
  BY Zenon DEF Allocate
<1>3. PICK ops \in {<<Alloc(b)>>, <<Alloc(b), Use({b})>>} : Enqueue(s, ops)
  BY DEF Allocate
<1>4. /\ ops \in Seq(Operation)
      /\ \A i \in 1..Len(ops) : ops[i].on = {b} /\ ops[i].kind \in {"alloc", "use"}
  <2>1. CASE ops = <<Alloc(b)>>
    BY <2>1, OperationsTyped DEF Alloc
  <2>2. CASE ops = <<Alloc(b), Use({b})>>
    <3>1. ops \in Seq(Operation) /\ Len(ops) = 2 /\ ops[1] = Alloc(b) /\ ops[2] = Use({b})
      BY <2>2, OperationsTyped
    <3>2. \A i \in 1..Len(ops) : i = 1 \/ i = 2
      BY <3>1
    <3>3. /\ Alloc(b).on = {b} /\ Alloc(b).kind = "alloc"
          /\ Use({b}).on = {b} /\ Use({b}).kind = "use"
      BY DEF Alloc, Use
    <3>. QED  BY <3>1, <3>2, <3>3
  <2>. QED  BY <2>1, <2>2
<1>5. /\ \A t \in Streams : Len(queue[t]) \in Nat
      /\ \A t \in Streams : \A i \in Pending(t)' :
            \/ i \in Pending(t) /\ queue'[t][i] = queue[t][i]
            \/ t = s /\ queue'[t][i].on = {b} /\ queue'[t][i].kind \in {"alloc", "use"}
  <2>1. /\ \A t \in Streams : t # s => queue'[t] = queue[t]
        /\ Len(queue'[s]) = Len(queue[s]) + Len(ops)
        /\ \A i \in 1..Len(queue[s]) : queue'[s][i] = queue[s][i]
        /\ \A i \in 1..Len(ops) : queue'[s][Len(queue[s]) + i] = ops[i]
    BY <1>3, <1>4, EnqueueEffect DEF TypeOK
  <2>2. \A t \in Streams : Len(queue[t]) \in Nat
    BY DEF TypeOK
  <2>3. Len(ops) \in Nat
    BY <1>4
  <2>4. ASSUME NEW i \in 1..Len(queue'[s]), ~(i <= Len(queue[s]))
        PROVE  queue'[s][i].on = {b} /\ queue'[s][i].kind \in {"alloc", "use"}
    <3>. DEFINE j == i - Len(queue[s])
    <3>1. j \in 1..Len(ops) /\ i = Len(queue[s]) + j
      BY <2>1, <2>2, <2>3, <2>4
    <3>. HIDE DEF j
    <3>. QED  BY <1>4, <2>1, <3>1
  <2>. QED  BY <2>1, <2>2, <2>3, <2>4, SMTT(30) DEF Pending
<1>6. \A t \in Streams : \A i \in Pending(t) : b \notin queue[t][i].on
  BY <1>1, UnusedIsUnmentioned
<1>7. /\ phase'[b] = p /\ home'[b] = s
      /\ \A c \in Buffers : c # b => phase'[c] = phase[c] /\ home'[c] = home[c]
  BY <1>1, <1>2 DEF TypeOK
<1>8. QueuedSoundly'
  <2>. SUFFICES ASSUME NEW t \in Streams, NEW i \in Pending(t)',
                       NEW c \in queue'[t][i].on
                PROVE  /\ phase'[c] # "unused"
                       /\ home'[c] \in Streams
                       /\ ContextOf[home'[c]] = ContextOf[t]
                       /\ t # home'[c] => queue'[t][i].kind = "use" /\ crossStream[c]
    BY <1>1 DEF QueuedSoundly, SameContext
  <2>1. CASE i \in Pending(t) /\ queue'[t][i] = queue[t][i]
    <3>1. c \in Buffers /\ c # b
      BY <1>6, <2>1, QueuedTyped
    <3>2. /\ phase[c] # "unused"
          /\ home[c] \in Streams
          /\ SameContext(c, t)
          /\ t # home[c] => queue[t][i].kind = "use" /\ crossStream[c]
      BY <2>1 DEF WorkInv, QueuedSoundly
    <3>. QED  BY <1>7, <2>1, <3>1, <3>2 DEF SameContext
  <2>2. CASE t = s /\ queue'[t][i].on = {b}
    BY <1>2, <1>7, <2>2
  <2>. QED  BY <1>5, <2>1, <2>2
<1>9. FreeIsLast'
  <2>. SUFFICES ASSUME NEW t \in Streams, NEW i \in Pending(t)',
                       NEW c \in queue'[t][i].on, queue'[t][i].kind = "free"
                PROVE  /\ phase'[c] = "dropped"
                       /\ \A j \in Pending(t)' : j > i => c \notin queue'[t][j].on
    BY DEF FreeIsLast
  <2>1. i \in Pending(t) /\ queue'[t][i] = queue[t][i]
    BY <1>5
  <2>2. c \in Buffers /\ c # b
    BY <1>6, <2>1, QueuedTyped
  <2>3. phase[c] = "dropped" /\ \A j \in Pending(t) : j > i => c \notin queue[t][j].on
    BY <2>1 DEF WorkInv, FreeIsLast
  <2>. QED  BY <1>5, <1>7, <2>2, <2>3
<1>10. DrainCoversUses'
  BY <1>1, <1>2, <1>5, <1>7 DEF WorkInv, DrainCoversUses, UsedBy
<1>11. DroppedIsLocal'
  BY <1>1, <1>2, <1>5, <1>7 DEF WorkInv, DroppedIsLocal, UsedBy
<1>12. ReleasedIsIdle'
  <2>. SUFFICES ASSUME NEW c \in Buffers, resident[c] = "released"
                PROVE  /\ phase'[c] = "dropped"
                       /\ \A i \in 1..Len(queue'[home'[c]]) : c \notin queue'[home'[c]][i].on
    BY <1>1 DEF ReleasedIsIdle, Pending
  <2>1. c # b
    BY <1>1, UnusedIsUnmentioned
  <2>2. /\ phase[c] = "dropped"
        /\ \A i \in Pending(home[c]) : c \notin queue[home[c]][i].on
    BY DEF WorkInv, ReleasedIsIdle
  <2>3. home[c] \in Streams
    BY <2>2 DEF HomeIsSet
  <2>. QED  BY <1>5, <1>7, <2>1, <2>2, <2>3 DEF Pending
<1>. QED  BY <1>8, <1>9, <1>10, <1>11, <1>12 DEF WorkInv

(* Freeing a buffer that no other stream uses, or giving up on the wait,   *)
(* keeps the invariant.                                                    *)
LEMMA FreeKeepsInv ==
    ASSUME TypeOK, HomeIsSet, WorkInv, NEW b \in Buffers,
           phase[b] \in {"held", "draining"},
           FreeQueued(b) \/ FreeRefused(b),
           UNCHANGED <<home, crossStream, resident>>,
           \A c \in Buffers : c # b => awaiting'[c] = awaiting[c],
           unsynced \subseteq unsynced', unsynced' \subseteq unsynced \cup {b},
           b \in unsynced' \/ \A t \in Streams \ {home[b]} :
                                 \A i \in Pending(t) : ~UsedBy(b, t, i)
    PROVE  WorkInv'
<1>1. home[b] \in Streams
  BY DEF HomeIsSet
<1>2. PICK p \in {"dropped", "leaked"} : phase' = [phase EXCEPT ![b] = p]
  BY DEF FreeQueued, FreeRefused
<1>3. /\ phase'[b] = p
      /\ \A c \in Buffers : c # b => phase'[c] = phase[c]
  BY <1>2 DEF TypeOK
<1>4. /\ \A t \in Streams : Len(queue[t]) \in Nat
      /\ \A t \in Streams : \A i \in Pending(t)' :
            \/ i \in Pending(t) /\ queue'[t][i] = queue[t][i]
            \/ /\ t = home[b] /\ i = Len(queue'[t]) /\ p = "dropped"
               /\ queue'[t][i].on = {b} /\ queue'[t][i].kind = "free"
  <2>1. CASE FreeRefused(b)
    BY <2>1 DEF FreeRefused, TypeOK, Pending
  <2>2. CASE FreeQueued(b)
    <3>1. p = "dropped"
      <4>1. phase \in [Buffers -> Phases]
        BY DEF TypeOK
      <4>. QED  BY <1>3, <2>2, <4>1 DEF FreeQueued
    <3>2. Free(b) \in Operation /\ Free(b).on = {b} /\ Free(b).kind = "free"
      BY OperationsTyped DEF Free
    <3>3. Enqueue(home[b], <<Free(b)>>)
      BY <2>2 DEF FreeQueued
    <3>. QED  BY <1>1, <3>1, <3>2, <3>3, EnqueueOne
  <2>. QED  BY <2>1, <2>2
<1>5. \A t \in Streams : Len(queue'[t]) \in Nat /\ Len(queue'[t]) >= Len(queue[t])
  <2>1. CASE FreeRefused(b)
    BY <2>1 DEF FreeRefused, TypeOK
  <2>2. CASE FreeQueued(b)
    <3>1. <<Free(b)>> \in Seq(Operation) /\ Len(<<Free(b)>>) = 1
      BY OperationsTyped
    <3>2. Enqueue(home[b], <<Free(b)>>)
      BY <2>2 DEF FreeQueued
    <3>3. queue \in [Streams -> Seq(Operation)]
      BY DEF TypeOK
    <3>4. /\ queue' \in [Streams -> Seq(Operation)]
          /\ \A t \in Streams : t # home[b] => queue'[t] = queue[t]
          /\ Len(queue'[home[b]]) = Len(queue[home[b]]) + 1
      BY <1>1, <3>1, <3>2, <3>3, EnqueueEffect
    <3>. QED  BY <3>3, <3>4
  <2>. QED  BY <2>1, <2>2
<1>6. resident[b] # "released"
  BY DEF WorkInv, ReleasedIsIdle
<1>7. QueuedSoundly'
  <2>. SUFFICES ASSUME NEW t \in Streams, NEW i \in Pending(t)',
                       NEW c \in queue'[t][i].on
                PROVE  /\ phase'[c] # "unused"
                       /\ home[c] \in Streams
                       /\ SameContext(c, t)
                       /\ t # home[c] => queue'[t][i].kind = "use" /\ crossStream[c]
    BY DEF QueuedSoundly, SameContext
  <2>1. CASE i \in Pending(t) /\ queue'[t][i] = queue[t][i]
    <3>1. c \in Buffers
      BY <2>1, QueuedTyped
    <3>2. /\ phase[c] # "unused"
          /\ home[c] \in Streams
          /\ SameContext(c, t)
          /\ t # home[c] => queue[t][i].kind = "use" /\ crossStream[c]
      BY <2>1 DEF WorkInv, QueuedSoundly
    <3>. QED  BY <1>2, <1>3, <2>1, <3>1, <3>2
  <2>2. CASE t = home[b] /\ queue'[t][i].on = {b}
    BY <1>2, <1>3, <2>2 DEF SameContext
  <2>. QED  BY <1>4, <2>1, <2>2
<1>8. FreeIsLast'
  <2>. SUFFICES ASSUME NEW t \in Streams, NEW i \in Pending(t)',
                       NEW c \in queue'[t][i].on, queue'[t][i].kind = "free"
                PROVE  /\ phase'[c] = "dropped"
                       /\ \A j \in Pending(t)' : j > i => c \notin queue'[t][j].on
    BY DEF FreeIsLast
  <2>1. CASE i \in Pending(t) /\ queue'[t][i] = queue[t][i]
    <3>1. c \in Buffers
      BY <2>1, QueuedTyped
    <3>2. phase[c] = "dropped" /\ \A j \in Pending(t) : j > i => c \notin queue[t][j].on
      BY <2>1 DEF WorkInv, FreeIsLast
    <3>3. c # b
      BY <3>2
    <3>. QED  BY <1>3, <1>4, <3>1, <3>2, <3>3
  <2>2. CASE /\ t = home[b] /\ i = Len(queue'[t]) /\ p = "dropped"
             /\ queue'[t][i].on = {b}
    BY <1>3, <1>5, <2>2 DEF Pending
  <2>. QED  BY <1>4, <2>1, <2>2
<1>9. DrainCoversUses'
  <2>. SUFFICES ASSUME NEW c \in Buffers, phase'[c] = "draining",
                       NEW t \in Streams, NEW i \in Pending(t)', UsedBy(c, t, i)'
                PROVE  i <= awaiting'[c][t]
    BY DEF DrainCoversUses
  <2>1. c # b
    BY <1>2, <1>3
  <2>2. i \in Pending(t) /\ UsedBy(c, t, i)
    BY <1>4, <2>1 DEF UsedBy
  <2>. QED  BY <1>3, <2>1, <2>2 DEF WorkInv, DrainCoversUses
<1>10. DroppedIsLocal'
  <2>. SUFFICES ASSUME NEW c \in Buffers, c \notin unsynced', phase'[c] = "dropped",
                       NEW t \in Streams, t # home[c],
                       NEW i \in Pending(t)', UsedBy(c, t, i)'
                PROVE  FALSE
    BY DEF DroppedIsLocal
  <2>1. i \in Pending(t) /\ UsedBy(c, t, i)
    BY <1>4 DEF UsedBy
  <2>. QED  BY <1>3, <2>1 DEF WorkInv, DroppedIsLocal
<1>11. ReleasedIsIdle'
  <2>. SUFFICES ASSUME NEW c \in Buffers, resident[c] = "released"
                PROVE  /\ phase'[c] = "dropped"
                       /\ \A i \in Pending(home[c])' : c \notin queue'[home[c]][i].on
    BY DEF ReleasedIsIdle
  <2>1. /\ phase[c] = "dropped"
        /\ \A i \in Pending(home[c]) : c \notin queue[home[c]][i].on
    BY DEF WorkInv, ReleasedIsIdle
  <2>2. c # b /\ home[c] \in Streams
    BY <1>6, <2>1 DEF HomeIsSet
  <2>. QED  BY <1>3, <1>4, <2>1, <2>2
<1>. QED  BY <1>7, <1>8, <1>9, <1>10, <1>11 DEF WorkInv

(* Entering the context synchronization keeps the invariant: a use of the  *)
(* buffer is on a stream of its context, so the wait counts it.            *)
LEMMA BeginDrainKeepsInv ==
    ASSUME TypeOK, HomeIsSet, WorkInv, NEW b \in Buffers, BeginDrain(b)
    PROVE  WorkInv'
<1>1. /\ UNCHANGED <<home, crossStream, queue, resident, unsynced>>
      /\ phase[b] = "held" /\ phase' = [phase EXCEPT ![b] = "draining"]
      /\ \A c \in Buffers : c # b => awaiting'[c] = awaiting[c]
  BY DEF BeginDrain, Held, device, TypeOK
<1>2. phase'[b] = "draining" /\ \A c \in Buffers : c # b => phase'[c] = phase[c]
  BY <1>1 DEF TypeOK
<1>3. QueuedSoundly'
  <2>. SUFFICES ASSUME NEW t \in Streams, NEW i \in Pending(t),
                       NEW c \in queue[t][i].on
                PROVE  /\ phase'[c] # "unused"
                       /\ home[c] \in Streams
                       /\ SameContext(c, t)
                       /\ t # home[c] => queue[t][i].kind = "use" /\ crossStream[c]
    BY <1>1 DEF QueuedSoundly, SameContext, Pending
  <2>. QED  BY <1>2, QueuedTyped DEF WorkInv, QueuedSoundly
<1>4. FreeIsLast'
  <2>. SUFFICES ASSUME NEW t \in Streams, NEW i \in Pending(t),
                       NEW c \in queue[t][i].on, queue[t][i].kind = "free"
                PROVE  /\ phase'[c] = "dropped"
                       /\ \A j \in Pending(t) : j > i => c \notin queue[t][j].on
    BY <1>1 DEF FreeIsLast, Pending
  <2>. QED  BY <1>1, <1>2, QueuedTyped DEF WorkInv, FreeIsLast
<1>5. DrainCoversUses'
  <2>. SUFFICES ASSUME NEW c \in Buffers, phase'[c] = "draining",
                       NEW t \in Streams, NEW i \in Pending(t), UsedBy(c, t, i)
                PROVE  i <= awaiting'[c][t]
    BY <1>1 DEF DrainCoversUses, Pending, UsedBy
  <2>1. CASE c # b
    BY <1>1, <1>2, <2>1 DEF WorkInv, DrainCoversUses
  <2>2. CASE c = b
    <3>1. SameContext(b, t)
      BY <2>2 DEF WorkInv, QueuedSoundly, UsedBy
    <3>2. awaiting'[b][t] = Len(queue[t])
      BY <3>1 DEF BeginDrain, TypeOK
    <3>. QED  BY <2>2, <3>2 DEF Pending, TypeOK
  <2>. QED  BY <2>1, <2>2
<1>6. DroppedIsLocal' /\ ReleasedIsIdle'
  BY <1>1, <1>2 DEF WorkInv, DroppedIsLocal, ReleasedIsIdle, Pending, UsedBy
<1>. QED  BY <1>3, <1>4, <1>5, <1>6 DEF WorkInv

(* Running the oldest operation of a stream keeps the invariant: positions *)
(* and the counts of the waits move together, and a free that runs is      *)
(* last.                                                                   *)
LEMMA StreamStepKeepsInv ==
    ASSUME TypeOK, HomeIsSet, WorkInv, NEW s \in Streams, StreamStep(s)
    PROVE  WorkInv'
<1>1. /\ UNCHANGED <<home, phase, crossStream, unsynced>>
      /\ queue \in [Streams -> Seq(Operation)]
      /\ awaiting \in [Buffers -> [Streams -> Nat]]
  BY DEF StreamStep, host, TypeOK
<1>2. /\ \A t \in Streams : t # s => queue'[t] = queue[t]
      /\ Len(queue[s]) \in Nat \ {0}
      /\ Len(queue'[s]) = Len(queue[s]) - 1
      /\ \A i \in 1..Len(queue'[s]) : queue'[s][i] = queue[s][i + 1]
      /\ Head(queue[s]) = queue[s][1]
  BY <1>1, StepEffect
<1>3. 1 \in Pending(s) /\ queue[s][1].on \in SUBSET Buffers
  BY <1>2, QueuedTyped DEF Pending
<1>4. \A t \in Streams : \A i \in Pending(t)' :
          \/ t # s /\ i \in Pending(t) /\ queue'[t][i] = queue[t][i]
          \/ t = s /\ i + 1 \in Pending(t) /\ queue'[t][i] = queue[t][i + 1]
  BY <1>1, <1>2 DEF Pending
<1>5. QueuedSoundly'
  <2>. SUFFICES ASSUME NEW t \in Streams, NEW i \in Pending(t)',
                       NEW c \in queue'[t][i].on
                PROVE  /\ phase[c] # "unused"
                       /\ home[c] \in Streams
                       /\ SameContext(c, t)
                       /\ t # home[c] => queue'[t][i].kind = "use" /\ crossStream[c]
    BY <1>1 DEF QueuedSoundly, SameContext
  <2>. QED  BY <1>4 DEF WorkInv, QueuedSoundly
<1>6. FreeIsLast'
  <2>. SUFFICES ASSUME NEW t \in Streams, NEW i \in Pending(t)',
                       NEW c \in queue'[t][i].on, queue'[t][i].kind = "free"
                PROVE  /\ phase[c] = "dropped"
                       /\ \A j \in Pending(t)' : j > i => c \notin queue'[t][j].on
    BY <1>1 DEF FreeIsLast
  <2>1. CASE t # s
    BY <1>4, <2>1 DEF WorkInv, FreeIsLast
  <2>2. CASE t = s
    <3>1. i + 1 \in Pending(s) /\ queue'[s][i] = queue[s][i + 1]
      BY <1>4, <2>2
    <3>2. /\ phase[c] = "dropped"
          /\ \A j \in Pending(s) : j > i + 1 => c \notin queue[s][j].on
      BY <2>2, <3>1 DEF WorkInv, FreeIsLast
    <3>3. ASSUME NEW j \in Pending(s)', j > i
          PROVE  c \notin queue'[s][j].on
      <4>1. j + 1 \in Pending(s) /\ queue'[s][j] = queue[s][j + 1] /\ j + 1 > i + 1
        BY <1>2, <1>4, <2>2, <3>3 DEF Pending
      <4>. QED  BY <3>2, <4>1
    <3>. QED  BY <2>2, <3>2, <3>3
  <2>. QED  BY <2>1, <2>2
<1>7. DrainCoversUses'
  <2>. SUFFICES ASSUME NEW c \in Buffers, phase[c] = "draining",
                       NEW t \in Streams, NEW i \in Pending(t)', UsedBy(c, t, i)'
                PROVE  i <= awaiting'[c][t]
    BY <1>1 DEF DrainCoversUses
  <2>1. /\ awaiting[c][t] \in Nat
        /\ t # s => awaiting'[c][t] = awaiting[c][t]
        /\ t = s => awaiting'[c][t] = IF awaiting[c][t] > 0 THEN awaiting[c][t] - 1 ELSE 0
    BY <1>1 DEF StreamStep
  <2>2. CASE t # s
    BY <1>4, <2>1, <2>2 DEF WorkInv, DrainCoversUses, UsedBy
  <2>3. CASE t = s
    <3>1. i + 1 \in Pending(s) /\ UsedBy(c, s, i + 1) /\ i \in Nat
      BY <1>4, <2>3 DEF UsedBy, Pending
    <3>2. i + 1 <= awaiting[c][s]
      BY <3>1 DEF WorkInv, DrainCoversUses
    <3>. QED  BY <2>1, <2>3, <3>1, <3>2
  <2>. QED  BY <2>2, <2>3
<1>8. DroppedIsLocal'
  <2>. SUFFICES ASSUME NEW c \in Buffers, c \notin unsynced, phase[c] = "dropped",
                       NEW t \in Streams, t # home[c],
                       NEW i \in Pending(t)', UsedBy(c, t, i)'
                PROVE  FALSE
    BY <1>1 DEF DroppedIsLocal
  <2>1. \E j \in Pending(t) : UsedBy(c, t, j)
    BY <1>4 DEF UsedBy
  <2>. QED  BY <2>1 DEF WorkInv, DroppedIsLocal
<1>9. ReleasedIsIdle'
  <2>. SUFFICES ASSUME NEW c \in Buffers, resident'[c] = "released"
                PROVE  /\ phase[c] = "dropped"
                       /\ \A i \in Pending(home[c])' : c \notin queue'[home[c]][i].on
    BY <1>1 DEF ReleasedIsIdle
  <2>1. CASE c \in queue[s][1].on /\ queue[s][1].kind = "free"
    <3>1. /\ phase[c] = "dropped"
          /\ \A j \in Pending(s) : j > 1 => c \notin queue[s][j].on
      BY <1>3, <2>1 DEF WorkInv, FreeIsLast
    <3>2. home[c] = s
      BY <1>3, <2>1 DEF WorkInv, QueuedSoundly
    <3>3. ASSUME NEW i \in Pending(s)'
          PROVE  c \notin queue'[s][i].on
      <4>1. i + 1 \in Pending(s) /\ queue'[s][i] = queue[s][i + 1] /\ i + 1 > 1
        BY <1>4 DEF Pending
      <4>. QED  BY <3>1, <4>1
    <3>. QED  BY <1>1, <3>1, <3>2, <3>3
  <2>2. CASE resident[c] = "released"
    <3>1. /\ phase[c] = "dropped"
          /\ \A i \in Pending(home[c]) : c \notin queue[home[c]][i].on
      BY <2>2 DEF WorkInv, ReleasedIsIdle
    <3>2. home[c] \in Streams
      BY <3>1 DEF HomeIsSet
    <3>. QED  BY <1>1, <1>4, <3>1, <3>2
  <2>3. \/ c \in queue[s][1].on /\ queue[s][1].kind \notin {"use", "alloc"}
        \/ resident[c] = "released"
    BY <1>2 DEF StreamStep
  <2>4. queue[s][1].kind \in {"alloc", "use", "free"}
    BY <1>3, QueuedTyped
  <2>. QED  BY <2>1, <2>2, <2>3, <2>4
<1>. QED  BY <1>5, <1>6, <1>7, <1>8, <1>9 DEF WorkInv

(* Every step keeps what foreign code holds sound: an address leaves with  *)
(* its flag stored, and no step clears a flag.                             *)
LEMMA NextKeepsExports ==
    ASSUME TypeOK, HomeIsSet, ExportedIsFlagged, [Next]_vars
    PROVE  ExportedIsFlagged'
<1>1. ASSUME NEW b \in Buffers, NEW s \in Streams, NEW zeroed \in BOOLEAN,
             Allocate(b, s, zeroed)
      PROVE  ExportedIsFlagged'
  BY <1>1 DEF Allocate, TypeOK, ExportedIsFlagged, SameContext
<1>2. ASSUME NEW b \in Buffers, NEW s \in Streams, RawPointerFor(b, s)
      PROVE  ExportedIsFlagged'
  <2>1. /\ phase[b] # "unused" /\ SameContext(b, s)
        /\ home[b] # s => crossStream'[b]
        /\ \A c \in Buffers : crossStream[c] => crossStream'[c]
        /\ exported' = exported \cup {<<b, s>>}
        /\ UNCHANGED <<home, phase>>
    BY <1>2 DEF RawPointerFor, MarkCrossStream, Held
  <2>. QED  BY <2>1 DEF ExportedIsFlagged, SameContext
<1>3. ASSUME NEW B \in SUBSET Buffers, NEW s \in Streams, Copy(B, s) \/ Launch(B, s)
      PROVE  ExportedIsFlagged'
  <2>1. /\ UNCHANGED <<home, phase, exported>>
        /\ \A c \in Buffers : crossStream[c] => crossStream'[c]
    BY <1>3 DEF Copy, Launch, StopAtMismatch, MarkCrossStream
  <2>. QED  BY <2>1 DEF ExportedIsFlagged, SameContext
<1>4. ASSUME NEW b \in Buffers, NEW s \in Streams,
             TakeView(b) \/ Drop(b) \/ ForeignWork(b, s)
      PROVE  ExportedIsFlagged'
  <2>1. /\ UNCHANGED <<home, crossStream, exported>>
        /\ \A c \in Buffers : phase[c] # "unused" => phase'[c] # "unused"
    BY <1>4 DEF TakeView, ForeignWork, Drop, DropHandle, DropLocal, BeginDrain,
        DropUnderError, FinishDrain, DrainFails, FreeAsync, FreeQueued, FreeRefused,
        TypeOK, host
  <2>. QED  BY <2>1 DEF ExportedIsFlagged, SameContext
<1>5. CASE UNCHANGED <<home, phase, crossStream, exported>>
  BY <1>5 DEF ExportedIsFlagged, SameContext
<1>6. ASSUME \/ \E c \in Contexts : ReportError(c)
             \/ \E s \in Streams : StreamStep(s)
             \/ UNCHANGED vars
      PROVE  UNCHANGED <<home, phase, crossStream, exported>>
  BY <1>6 DEF ReportError, StreamStep, host, vars
<1>7. ASSUME NEW b \in Buffers, TakeView(b) \/ Drop(b)
      PROVE  ExportedIsFlagged'
  <2>1. CASE Streams = {}
    BY <2>1 DEF ExportedIsFlagged
  <2>2. CASE \E s \in Streams : TRUE
    BY <1>4, <1>7, <2>2
  <2>. QED  BY <2>1, <2>2
<1>. QED  BY <1>1, <1>2, <1>3, <1>4, <1>5, <1>6, <1>7 DEF Next

(* One step for each action of the program.                                *)
LEMMA NextKeepsInv ==
    TypeOK /\ HomeIsSet /\ ExportedIsFlagged /\ WorkInv /\ [Next]_vars => WorkInv'
<1>. SUFFICES ASSUME TypeOK, HomeIsSet, ExportedIsFlagged, WorkInv, [Next]_vars PROVE WorkInv'
  OBVIOUS
<1>1. CASE UNCHANGED vars
  BY <1>1, FlagsKeepInv DEF vars
<1>2. ASSUME NEW b \in Buffers, NEW s \in Streams, NEW zeroed \in BOOLEAN,
             Allocate(b, s, zeroed)
      PROVE  WorkInv'
  BY <1>2, AllocateKeepsInv
<1>3. ASSUME NEW B \in SUBSET Buffers, NEW s \in Streams, Copy(B, s) \/ Launch(B, s)
      PROVE  WorkInv'
  <2>1. /\ B \subseteq Held
        /\ UNCHANGED <<home, phase, awaiting, resident, unsynced>>
    BY <1>3 DEF Copy, Launch
  <2>2. \A b \in Buffers : crossStream[b] => crossStream'[b]
    BY <1>3 DEF Copy, Launch, StopAtMismatch, MarkCrossStream
  <2>3. CASE UNCHANGED queue
    BY <2>1, <2>2, <2>3, FlagsKeepInv
  <2>4. CASE /\ \A b \in B : SameContext(b, s)
             /\ MarkCrossStream(B, s)
             /\ Enqueue(s, <<Use(B)>>)
    <3>1. \A b \in B : home[b] \in Streams
      BY <2>1 DEF HomeIsSet, Held
    <3>2. \A b \in B : home[b] # s => crossStream'[b]
      BY <2>4 DEF MarkCrossStream
    <3>. QED  BY <2>1, <2>2, <2>4, <3>1, <3>2, UseKeepsInv
  <2>. QED  BY <1>3, <2>3, <2>4 DEF Copy, Launch
<1>4. ASSUME NEW b \in Buffers, NEW s \in Streams, RawPointerFor(b, s)
      PROVE  WorkInv'
  BY <1>4, FlagsKeepInv DEF RawPointerFor, MarkCrossStream, device
<1>5. ASSUME NEW b \in Buffers, NEW s \in Streams, ForeignWork(b, s)
      PROVE  WorkInv'
  <2>1. /\ {b} \subseteq Held /\ {b} \in SUBSET Buffers
        /\ UNCHANGED <<home, phase, crossStream, awaiting, resident, unsynced>>
        /\ Enqueue(s, <<Use({b})>>)
    BY <1>5 DEF ForeignWork, host
  <2>2. home[b] \in Streams
    BY <2>1 DEF HomeIsSet, Held
  <2>3. SameContext(b, s) /\ (home[b] # s => crossStream[b])
    BY <1>5 DEF ForeignWork, ExportedIsFlagged
  <2>. QED  BY <2>1, <2>2, <2>3, UseKeepsInv
<1>6. ASSUME NEW b \in Buffers, TakeView(b) \/ DropHandle(b)
      PROVE  WorkInv'
  BY <1>6, FlagsKeepInv DEF TakeView, DropHandle, device
<1>7. ASSUME NEW b \in Buffers, DropLocal(b)
      PROVE  WorkInv'
  <2>1. /\ phase[b] \in {"held", "draining"}
        /\ FreeQueued(b) \/ FreeRefused(b)
        /\ UNCHANGED <<home, crossStream, resident, awaiting, unsynced>>
    BY <1>7 DEF DropLocal, Held, FreeAsync
  <2>2. \A t \in Streams \ {home[b]} : \A i \in Pending(t) : ~UsedBy(b, t, i)
    BY <1>7 DEF DropLocal, WorkInv, QueuedSoundly, UsedBy
  <2>. QED  BY <2>1, <2>2, FreeKeepsInv
<1>8. ASSUME NEW b \in Buffers, BeginDrain(b)
      PROVE  WorkInv'
  BY <1>8, BeginDrainKeepsInv
<1>9. ASSUME NEW b \in Buffers, DropUnderError(b)
      PROVE  WorkInv'
  BY <1>9, FreeKeepsInv DEF DropUnderError, Held, FreeAsync
<1>10. ASSUME NEW b \in Buffers, FinishDrain(b)
       PROVE  WorkInv'
  <2>1. /\ phase[b] = "draining"
        /\ FreeQueued(b) \/ FreeRefused(b)
        /\ UNCHANGED <<home, crossStream, resident, awaiting, unsynced>>
    BY <1>10 DEF FinishDrain, FreeAsync
  <2>2. \A t \in Streams : \A i \in Pending(t) : ~UsedBy(b, t, i)
    <3>1. \A t \in Streams : awaiting[b][t] = 0
      BY <1>10 DEF FinishDrain, Drained
    <3>2. \A t \in Streams : \A i \in Pending(t) : ~(i <= 0)
      BY DEF Pending, TypeOK
    <3>. QED  BY <2>1, <3>1, <3>2 DEF WorkInv, DrainCoversUses
  <2>. QED  BY <2>1, <2>2, FreeKeepsInv
<1>11. ASSUME NEW b \in Buffers, DrainFails(b)
       PROVE  WorkInv'
  <2>1. \A c \in Buffers : c # b => awaiting'[c] = awaiting[c]
    BY <1>11 DEF DrainFails, TypeOK
  <2>. QED  BY <1>11, <2>1, FreeKeepsInv DEF DrainFails
<1>12. ASSUME NEW c \in Contexts, ReportError(c)
       PROVE  WorkInv'
  BY <1>12, FlagsKeepInv DEF ReportError, host, device
<1>13. ASSUME NEW s \in Streams, StreamStep(s)
       PROVE  WorkInv'
  BY <1>13, StreamStepKeepsInv
<1>. QED  BY <1>1, <1>2, <1>3, <1>4, <1>5, <1>6, <1>7, <1>8, <1>9, <1>10, <1>11,
             <1>12, <1>13 DEF Next, Drop

(* The inductive invariant holds of every reachable state.                 *)
THEOREM InductiveInvariant == Spec => []IInv
<1>1. Init => IInv
  <2>. SUFFICES ASSUME Init PROVE IInv
    OBVIOUS
  <2>1. TypeOK
    BY TypeInit
  <2>2. \A s \in Streams : Pending(s) = {}
    BY DEF Init, Pending
  <2>. QED  BY <2>1, <2>2, NoStreamAssumption DEF Init, IInv, QueuedSoundly,
               FreeIsLast, DrainCoversUses, DroppedIsLocal, ReleasedIsIdle,
               ExportedIsFlagged, HomeIsSet
<1>2. IInv /\ [Next]_vars => IInv'
  BY TypeStep, HomeStaysSet, NextKeepsExports, NextKeepsInv DEF IInv, WorkInv
<1>. QED  BY <1>1, <1>2, PTL DEF Spec

(* Memory goes back to the pool only when no work of any stream uses it,   *)
(* for every drop that was not refused its synchronization.                *)
THEOREM MemorySafe == Spec => []NoUseAfterFree
<1>1. IInv => NoUseAfterFree
  <2>. SUFFICES ASSUME IInv, NEW b \in Buffers, b \notin unsynced,
                       resident[b] = "released",
                       NEW s \in Streams, NEW i \in Pending(s), UsedBy(b, s, i)
                PROVE  FALSE
    BY DEF NoUseAfterFree, InUse
  <2>1. /\ phase[b] = "dropped"
        /\ \A j \in Pending(home[b]) : b \notin queue[home[b]][j].on
    BY DEF IInv, ReleasedIsIdle
  <2>2. CASE s = home[b]
    BY <2>1, <2>2 DEF UsedBy
  <2>3. CASE s # home[b]
    BY <2>1, <2>3 DEF IInv, DroppedIsLocal
  <2>. QED  BY <2>2, <2>3
<1>. QED  BY <1>1, InductiveInvariant, PTL


-----------------------------------------------------------------------------
(* Freed once.                                                             *)

(* An allocation has handles exactly while the host holds it.              *)
HandlesAreHeld == \A b \in Buffers : handles[b] > 0 <=> phase[b] = "held"

(* Every step keeps it: the step that takes the last handle is the one     *)
(* that starts the drop of the allocation.                                 *)
LEMMA HandlesStayHeld ==
    ASSUME TypeOK, HandlesAreHeld, [Next]_vars
    PROVE  HandlesAreHeld'
<1>0. /\ handles \in [Buffers -> 0..MaxHandles] /\ phase \in [Buffers -> Phases]
      /\ MaxHandles \in Nat
      /\ \A b \in Buffers : handles[b] \in Nat
  BY BoundsAssumption DEF TypeOK
<1>1. CASE UNCHANGED <<handles, phase>>
  BY <1>1 DEF HandlesAreHeld
<1>2. ASSUME NEW b \in Buffers, NEW s \in Streams, NEW zeroed \in BOOLEAN,
             Allocate(b, s, zeroed)
      PROVE  HandlesAreHeld'
  <2>1. phase[b] = "unused"
    BY <1>2 DEF Allocate
  <2>2. \/ phase' = [phase EXCEPT ![b] = "held"] /\ handles' = [handles EXCEPT ![b] = 1]
        \/ phase' = [phase EXCEPT ![b] = "leaked"] /\ handles' = handles
    BY <1>2, Zenon DEF Allocate
  <2>. QED  BY <1>0, <2>1, <2>2 DEF HandlesAreHeld
<1>3. ASSUME NEW B \in SUBSET Buffers, NEW s \in Streams, Copy(B, s) \/ Launch(B, s)
      PROVE  UNCHANGED <<handles, phase>>
  BY <1>3 DEF Copy, Launch
<1>4. ASSUME NEW b \in Buffers, NEW s \in Streams,
             RawPointerFor(b, s) \/ ForeignWork(b, s)
      PROVE  UNCHANGED <<handles, phase>>
  BY <1>4 DEF RawPointerFor, ForeignWork, host
<1>5. ASSUME NEW b \in Buffers, TakeView(b) \/ DropHandle(b)
      PROVE  HandlesAreHeld'
  <2>1. phase' = phase /\ phase[b] = "held"
    BY <1>5 DEF TakeView, DropHandle, Held
  <2>2. \/ handles' = [handles EXCEPT ![b] = handles[b] + 1]
        \/ handles[b] > 1 /\ handles' = [handles EXCEPT ![b] = handles[b] - 1]
    BY <1>5 DEF TakeView, DropHandle
  <2>. QED  BY <1>0, <2>1, <2>2 DEF HandlesAreHeld
<1>6. ASSUME NEW b \in Buffers, DropLocal(b) \/ BeginDrain(b) \/ DropUnderError(b)
      PROVE  HandlesAreHeld'
  <2>1. handles' = [handles EXCEPT ![b] = 0]
    BY <1>6 DEF DropLocal, BeginDrain, DropUnderError
  <2>2. PICK p \in {"draining", "dropped", "leaked"} : phase' = [phase EXCEPT ![b] = p]
    BY <1>6 DEF DropLocal, BeginDrain, DropUnderError, FreeAsync, FreeQueued, FreeRefused
  <2>. QED  BY <1>0, <2>1, <2>2 DEF HandlesAreHeld
<1>7. ASSUME NEW b \in Buffers, FinishDrain(b) \/ DrainFails(b)
      PROVE  HandlesAreHeld'
  <2>1. handles' = handles /\ phase[b] = "draining"
    BY <1>7 DEF FinishDrain, DrainFails
  <2>2. PICK p \in {"dropped", "leaked"} : phase' = [phase EXCEPT ![b] = p]
    BY <1>7 DEF FinishDrain, DrainFails, FreeAsync, FreeQueued, FreeRefused
  <2>. QED  BY <1>0, <2>1, <2>2 DEF HandlesAreHeld
<1>8. ASSUME \/ \E c \in Contexts : ReportError(c)
             \/ \E s \in Streams : StreamStep(s)
             \/ UNCHANGED vars
      PROVE  UNCHANGED <<handles, phase>>
  BY <1>8 DEF ReportError, StreamStep, host, vars
<1>. QED  BY <1>1, <1>2, <1>3, <1>4, <1>5, <1>6, <1>7, <1>8 DEF Next, Drop

(* An allocation is freed by the drop of its last handle, never while a    *)
(* view is alive and never a second time, driver faults included.          *)
THEOREM FreedByTheLastDrop == Spec => []FreedOnce
<1>1. Init => HandlesAreHeld
  BY DEF Init, HandlesAreHeld
<1>2. TypeOK /\ HandlesAreHeld /\ [Next]_vars => HandlesAreHeld'
  BY HandlesStayHeld
<1>3. IInv => TypeOK
  BY DEF IInv
<1>4. IInv /\ HandlesAreHeld => FreedOnce
  <2>. SUFFICES ASSUME IInv, HandlesAreHeld, NEW b \in Buffers
                PROVE  /\ resident[b] = "released" => handles[b] = 0
                       /\ \A s \in Streams : \A i \in Pending(s) : queue[s][i] = Free(b) =>
                             /\ handles[b] = 0
                             /\ resident[b] # "released"
                             /\ \A t \in Streams : \A j \in Pending(t) :
                                   queue[t][j] = Free(b) => t = s /\ j = i
    BY DEF FreedOnce
  <2>1. phase[b] = "dropped" => handles[b] = 0
    BY BoundsAssumption DEF IInv, TypeOK, HandlesAreHeld
  <2>2. resident[b] = "released" => phase[b] = "dropped"
    BY DEF IInv, ReleasedIsIdle
  <2>3. ASSUME NEW t \in Streams, NEW j \in Pending(t), queue[t][j] = Free(b)
        PROVE  /\ t = home[b] /\ phase[b] = "dropped" /\ b \in queue[t][j].on
               /\ \A k \in Pending(t) : k > j => b \notin queue[t][k].on
    <3>1. queue[t][j].kind = "free" /\ b \in queue[t][j].on
      BY <2>3 DEF Free
    <3>. QED  BY <3>1 DEF IInv, QueuedSoundly, FreeIsLast
  <2>4. ASSUME NEW s \in Streams, NEW i \in Pending(s), queue[s][i] = Free(b)
        PROVE  resident[b] # "released"
    BY <2>3, <2>4 DEF IInv, ReleasedIsIdle
  <2>5. ASSUME NEW s \in Streams, NEW i \in Pending(s), queue[s][i] = Free(b),
               NEW t \in Streams, NEW j \in Pending(t), queue[t][j] = Free(b)
        PROVE  t = s /\ j = i
    <3>1. t = s
      BY <2>3, <2>5
    <3>2. ~(j > i) /\ ~(i > j)
      BY <2>3, <2>5, <3>1
    <3>3. i \in Nat /\ j \in Nat
      BY <2>5 DEF Pending
    <3>. QED  BY <3>1, <3>2, <3>3
  <2>. QED  BY <2>1, <2>2, <2>3, <2>4, <2>5
<1>. QED  BY <1>1, <1>2, <1>3, <1>4, InductiveInvariant, PTL DEF Spec

-----------------------------------------------------------------------------
(* Without driver faults, DeviceMemory implements SafeReclaim.             *)

(* Without driver faults no error is recorded and no wait is skipped.      *)
NoFaults ==
    /\ unsynced = {}
    /\ \A c \in Contexts : ~errorState[c]
    /\ \A b \in Buffers : phase[b] # "leaked"

(* When the driver does not fail, no error is recorded, nothing is leaked  *)
(* and no drop skips its wait.                                             *)
LEMMA NoFaultsStep ==
    ASSUME DriverFaults = FALSE, TypeOK, HomeIsSet, NoFaults, [Next]_vars
    PROVE  NoFaults'
<1>. USE DEF NoFaults
<1>1. CASE UNCHANGED vars
  BY <1>1 DEF vars
<1>2. ASSUME NEW b \in Buffers, NEW s \in Streams, NEW zeroed \in BOOLEAN,
             Allocate(b, s, zeroed)
      PROVE  NoFaults'
  <2>1. phase' = [phase EXCEPT ![b] = "held"] /\ UNCHANGED <<errorState, unsynced>>
    BY <1>2, Zenon DEF Allocate
  <2>. QED  BY <2>1 DEF TypeOK
<1>3. ASSUME NEW B \in SUBSET Buffers, NEW s \in Streams, Copy(B, s) \/ Launch(B, s)
      PROVE  NoFaults'
  BY <1>3 DEF Copy, Launch, TypeOK
<1>4. ASSUME NEW b \in Buffers, NEW s \in Streams,
             RawPointerFor(b, s) \/ ForeignWork(b, s)
      PROVE  NoFaults'
  BY <1>4 DEF RawPointerFor, ForeignWork, host
<1>5. ASSUME NEW b \in Buffers, TakeView(b) \/ DropHandle(b)
      PROVE  NoFaults'
  BY <1>5 DEF TakeView, DropHandle
<1>6. ASSUME NEW b \in Buffers, DropLocal(b) \/ FinishDrain(b) \/ BeginDrain(b)
      PROVE  NoFaults'
  <2>1. UNCHANGED <<errorState, unsynced>>
    BY <1>6 DEF DropLocal, FinishDrain, BeginDrain, FreeAsync, FreeRefused
  <2>2. phase' = [phase EXCEPT ![b] = "dropped"] \/ phase' = [phase EXCEPT ![b] = "draining"]
    BY <1>6 DEF DropLocal, FinishDrain, BeginDrain, FreeAsync, FreeQueued, FreeRefused
  <2>. QED  BY <2>1, <2>2 DEF TypeOK
<1>7. ASSUME NEW b \in Buffers, DropUnderError(b) \/ DrainFails(b)
      PROVE  NoFaults'
  <2>1. home[b] \in Streams
    BY <1>7 DEF DropUnderError, DrainFails, HomeIsSet, Held
  <2>. QED  BY <1>7, <2>1, ContextsAssumption DEF DropUnderError, DrainFails
<1>8. ASSUME NEW c \in Contexts, ReportError(c)
      PROVE  NoFaults'
  BY <1>8 DEF ReportError
<1>9. ASSUME NEW s \in Streams, StreamStep(s)
      PROVE  NoFaults'
  BY <1>9 DEF StreamStep, host
<1>. QED  BY <1>1, <1>2, <1>3, <1>4, <1>5, <1>6, <1>7, <1>8, <1>9 DEF Next, Drop

(* The abstract value of "who uses what".                                  *)
InUsePairs ==
    {u \in Buffers \X Streams : \E i \in Pending(u[2]) : UsedBy(u[1], u[2], i)}

LifeMap == [b \in Buffers |-> LifeOf(b)]

(* Queueing one operation adds the pairs of a use, and of nothing else.    *)
LEMMA PairsAfterEnqueue ==
    ASSUME TypeOK, NEW s \in Streams, NEW op \in Operation, Enqueue(s, <<op>>)
    PROVE  InUsePairs' = InUsePairs \cup
               (IF op.kind = "use" THEN {<<b, s>> : b \in op.on} ELSE {})
<1>1. /\ \A t \in Streams : Len(queue[t]) \in Nat /\ Len(queue'[t]) \in Nat
      /\ \A t \in Streams : \A i \in Pending(t) :
            i \in Pending(t)' /\ queue'[t][i] = queue[t][i]
      /\ \A t \in Streams : \A i \in Pending(t)' :
            \/ i \in Pending(t) /\ queue'[t][i] = queue[t][i]
            \/ /\ t = s /\ i = Len(queue[s]) + 1 /\ i = Len(queue'[s])
               /\ queue'[t][i] = op
  BY EnqueueOne
<1>2. Len(queue[s]) + 1 \in Pending(s)' /\ queue'[s][Len(queue[s]) + 1] = op
  <2>1. /\ <<op>> \in Seq(Operation) /\ Len(<<op>>) = 1
        /\ 1 \in 1..Len(<<op>>) /\ <<op>>[1] = op
    OBVIOUS
  <2>2. queue \in [Streams -> Seq(Operation)]
    BY DEF TypeOK
  <2>3. Len(queue'[s]) = Len(queue[s]) + 1 /\ queue'[s][Len(queue[s]) + 1] = op
    BY <2>1, <2>2, EnqueueEffect
  <2>. QED  BY <1>1, <2>3 DEF Pending
<1>3. op.on \in SUBSET Buffers
  BY DEF Operation, Alloc, Free, Use
<1>4. ASSUME NEW b \in Buffers, NEW t \in Streams
      PROVE  (\E i \in Pending(t)' : UsedBy(b, t, i)') <=>
                 \/ \E i \in Pending(t) : UsedBy(b, t, i)
                 \/ t = s /\ op.kind = "use" /\ b \in op.on
  BY <1>1, <1>2 DEF UsedBy
<1>. QED  BY <1>3, <1>4 DEF InUsePairs

(* Streams use the same buffers while no queue changes.                    *)
LEMMA PairsUnchanged ==
    ASSUME UNCHANGED queue
    PROVE  UNCHANGED InUsePairs
BY DEF InUsePairs, Pending, UsedBy

(* A buffer is in the same abstract state while its phase and memory are.  *)
LEMMA LifeUnchanged ==
    ASSUME UNCHANGED <<phase, resident>>
    PROVE  UNCHANGED LifeMap
BY DEF LifeMap, LifeOf

(* Operations on the mapped state that SafeReclaim allows.                 *)
MappedBegin(B, s) ==
    /\ \A b \in B : LifeMap[b] = "owned"
    /\ InUsePairs' = InUsePairs \cup {<<b, s>> : b \in B}
    /\ UNCHANGED LifeMap

MappedStep == Reclaiming!AbstractNext \/ UNCHANGED <<LifeMap, InUsePairs>>

(* A mapped beginning of a use is a step of the abstract specification.    *)
LEMMA BeginMaps ==
    ASSUME NEW B \in SUBSET Buffers, NEW s \in Streams, MappedBegin(B, s)
    PROVE  MappedStep
<1>1. Reclaiming!Begin(B, s)
  BY DEF MappedBegin, Reclaiming!Begin, LifeMap, InUsePairs
<1>. QED  BY <1>1 DEF MappedStep, Reclaiming!AbstractNext

(* Queueing a use of held buffers begins the use, or changes nothing when  *)
(* the call queued nothing.                                                *)
LEMMA UseMaps ==
    ASSUME TypeOK, WorkInv, NEW s \in Streams, NEW B \in SUBSET Buffers,
           B \subseteq Held, UNCHANGED <<phase, resident>>,
           UNCHANGED queue \/ Enqueue(s, <<Use(B)>>)
    PROVE  MappedStep
<1>1. CASE UNCHANGED queue
  BY <1>1, LifeUnchanged, PairsUnchanged DEF MappedStep
<1>2. CASE Enqueue(s, <<Use(B)>>)
  <2>1. Use(B) \in Operation
    BY DEF Operation
  <2>4. Use(B).kind = "use" /\ Use(B).on = B
    BY DEF Use
  <2>2. InUsePairs' = InUsePairs \cup {<<b, s>> : b \in B}
    BY <1>2, <2>1, <2>4, PairsAfterEnqueue
  <2>3. \A b \in B : LifeMap[b] = "owned"
    BY DEF Held, LifeMap, LifeOf, WorkInv, ReleasedIsIdle
  <2>. QED  BY <2>2, <2>3, LifeUnchanged, BeginMaps DEF MappedBegin
<1>. QED  BY <1>1, <1>2

(* An allocation acquires the buffer, whether it is zeroed or not.         *)
LEMMA AllocateMaps ==
    ASSUME DriverFaults = FALSE, TypeOK, WorkInv, NEW b \in Buffers,
           NEW s \in Streams, NEW zeroed \in BOOLEAN, Allocate(b, s, zeroed)
    PROVE  MappedStep
<1>1. /\ phase[b] = "unused" /\ phase' = [phase EXCEPT ![b] = "held"]
      /\ resident' = resident
  <2>1. phase[b] = "unused" /\ phase' = [phase EXCEPT ![b] = "held"]
    BY Zenon DEF Allocate
  <2>2. resident' = resident
    BY DEF Allocate
  <2>. QED  BY <2>1, <2>2
<1>2. resident[b] # "released"
  BY <1>1, UnusedIsUnmentioned
<1>3. LifeMap[b] = "none" /\ LifeMap' = [LifeMap EXCEPT ![b] = "owned"]
  BY <1>1, <1>2 DEF LifeMap, LifeOf, TypeOK
<1>4. PICK ops \in {<<Alloc(b)>>, <<Alloc(b), Use({b})>>} : Enqueue(s, ops)
  BY DEF Allocate
<1>5. InUsePairs' = InUsePairs \/ InUsePairs' = InUsePairs \cup {<<b, s>>}
  <2>1. CASE ops = <<Alloc(b)>>
    <3>1. Alloc(b) \in Operation /\ Alloc(b).kind # "use"
      BY OperationsTyped DEF Alloc
    <3>. QED  BY <1>4, <2>1, <3>1, PairsAfterEnqueue
  <2>2. CASE ops = <<Alloc(b), Use({b})>>
    <3>1. /\ ops \in Seq(Operation) /\ Len(ops) = 2
          /\ ops[1] = Alloc(b) /\ ops[2] = Use({b})
      BY <2>2, OperationsTyped
    <3>2. queue \in [Streams -> Seq(Operation)]
      BY DEF TypeOK
    <3>8. Enqueue(s, ops) /\ ops \in Seq(Operation)
      BY <1>4, <3>1
    <3>9. /\ \A t \in Streams : t # s => queue'[t] = queue[t]
          /\ Len(queue'[s]) = Len(queue[s]) + Len(ops)
          /\ \A i \in 1..Len(queue[s]) : queue'[s][i] = queue[s][i]
          /\ \A i \in 1..Len(ops) : queue'[s][Len(queue[s]) + i] = ops[i]
      <4>. HIDE <2>2
      <4>. QED  BY <3>8, <3>2, EnqueueEffect
    <3>3. /\ \A t \in Streams : t # s => queue'[t] = queue[t]
          /\ Len(queue'[s]) = Len(queue[s]) + 2
          /\ \A i \in 1..Len(queue[s]) : queue'[s][i] = queue[s][i]
          /\ \A i \in 1..2 : queue'[s][Len(queue[s]) + i] = ops[i]
      BY <3>1, <3>9
    <3>4. Len(queue[s]) \in Nat
      BY <3>2
    <3>5. /\ queue'[s][Len(queue[s]) + 1] = Alloc(b)
          /\ queue'[s][Len(queue[s]) + 2] = Use({b})
      <4>1. 1 \in 1..2 /\ 2 \in 1..2
        OBVIOUS
      <4>. QED  BY <3>1, <3>3, <4>1
    <3>6. /\ Alloc(b).kind = "alloc" /\ Use({b}).kind = "use" /\ Use({b}).on = {b}
      BY DEF Alloc, Use
    <3>7. ASSUME NEW c \in Buffers, NEW t \in Streams
          PROVE  (\E i \in Pending(t)' : UsedBy(c, t, i)') <=>
                     \/ \E i \in Pending(t) : UsedBy(c, t, i)
                     \/ t = s /\ c = b
      <4>1. CASE t # s
        BY <3>3, <4>1 DEF Pending, UsedBy
      <4>2. CASE t = s
        <5>1. \A i \in Pending(s)' :
                 i \in Pending(s) \/ i = Len(queue[s]) + 1 \/ i = Len(queue[s]) + 2
          BY <3>3, <3>4 DEF Pending
        <5>2. \A i \in Pending(s) : i \in Pending(s)'
          BY <3>3, <3>4 DEF Pending
        <5>3. Len(queue[s]) + 2 \in Pending(s)'
          BY <3>3, <3>4 DEF Pending
        <5>4. \A i \in Pending(s) : queue'[s][i] = queue[s][i]
          BY <3>3 DEF Pending
        <5>. QED  BY <3>5, <3>6, <4>2, <5>1, <5>2, <5>3, <5>4 DEF UsedBy
      <4>. QED  BY <4>1, <4>2
    <3>. QED  BY <3>7 DEF InUsePairs
  <2>. QED  BY <2>1, <2>2
<1>6. Reclaiming!Acquire(b)
  BY <1>3, <1>5 DEF Reclaiming!Acquire, LifeMap, InUsePairs
<1>. QED  BY <1>6 DEF MappedStep, Reclaiming!AbstractNext

(* A drop abandons the buffer; its free, once queued, is no use.           *)
LEMMA DropMaps ==
    ASSUME DriverFaults = FALSE, TypeOK, HomeIsSet, WorkInv, NoFaults,
           NEW b \in Buffers, Drop(b)
    PROVE  MappedStep
<1>1. ASSUME FreeQueued(b), home[b] \in Streams
      PROVE  UNCHANGED InUsePairs
  <2>1. Free(b) \in Operation /\ Free(b).kind # "use"
    BY OperationsTyped DEF Free
  <2>. QED  BY <1>1, <2>1, PairsAfterEnqueue DEF FreeQueued
<1>2. ASSUME phase[b] \in {"held", "draining"}
      PROVE  resident[b] # "released" /\ home[b] \in Streams
  BY <1>2 DEF WorkInv, ReleasedIsIdle, HomeIsSet
<1>3. CASE DropHandle(b)
  BY <1>3, LifeUnchanged, PairsUnchanged DEF DropHandle, device, MappedStep
<1>4. CASE DropLocal(b) \/ BeginDrain(b)
  <2>1. /\ phase[b] = "held" /\ resident' = resident
        /\ \/ phase' = [phase EXCEPT ![b] = "dropped"] /\ FreeQueued(b)
           \/ phase' = [phase EXCEPT ![b] = "draining"] /\ UNCHANGED queue
    BY <1>4 DEF DropLocal, BeginDrain, Held, FreeAsync, FreeQueued, FreeRefused, device
  <2>2. LifeMap[b] = "owned" /\ LifeMap' = [LifeMap EXCEPT ![b] = "abandoned"]
    BY <1>2, <2>1 DEF LifeMap, LifeOf, TypeOK
  <2>3. UNCHANGED InUsePairs
    BY <1>1, <1>2, <2>1, PairsUnchanged
  <2>4. Reclaiming!Abandon(b)
    BY <2>2, <2>3 DEF Reclaiming!Abandon, LifeMap, InUsePairs
  <2>. QED  BY <2>4 DEF MappedStep, Reclaiming!AbstractNext
<1>5. CASE FinishDrain(b)
  <2>1. /\ phase[b] = "draining" /\ resident' = resident
        /\ phase' = [phase EXCEPT ![b] = "dropped"] /\ FreeQueued(b)
    BY <1>5 DEF FinishDrain, FreeAsync, FreeQueued, FreeRefused
  <2>2. UNCHANGED LifeMap
    BY <1>2, <2>1 DEF LifeMap, LifeOf, TypeOK
  <2>. QED  BY <1>1, <1>2, <2>1, <2>2 DEF MappedStep
<1>6. ~DrainFails(b)
  BY DEF DrainFails
<1>7. ~DropUnderError(b)
  BY ContextsAssumption DEF DropUnderError, NoFaults, HomeIsSet, Held
<1>. QED  BY <1>3, <1>4, <1>5, <1>6, <1>7 DEF Drop

(* Running an operation ends uses, and running a free reclaims a buffer    *)
(* that nobody uses.                                                       *)
LEMMA StreamStepMaps ==
    ASSUME TypeOK, WorkInv, NoFaults, NEW s \in Streams, StreamStep(s)
    PROVE  MappedStep
<1>1. /\ \A t \in Streams : t # s => queue'[t] = queue[t]
      /\ Len(queue[s]) \in Nat \ {0}
      /\ Len(queue'[s]) = Len(queue[s]) - 1
      /\ \A i \in 1..Len(queue'[s]) : queue'[s][i] = queue[s][i + 1]
      /\ Head(queue[s]) = queue[s][1]
  BY StepEffect DEF TypeOK
<1>2. 1 \in Pending(s) /\ \A i \in Pending(s)' : i + 1 \in Pending(s)
  BY <1>1 DEF Pending
<1>3. /\ queue[s][1].on \in SUBSET Buffers
      /\ queue[s][1].kind \in {"alloc", "use", "free"}
      /\ queue[s][1].kind # "use" => \E b \in Buffers : queue[s][1].on = {b}
  BY <1>2, QueuedTyped
<1>4. /\ UNCHANGED phase
      /\ resident' = [b \in Buffers |->
            IF b \notin queue[s][1].on \/ queue[s][1].kind = "use" THEN resident[b]
            ELSE IF queue[s][1].kind = "alloc" THEN "live" ELSE "released"]
  BY <1>1 DEF StreamStep, host
<1>5. ASSUME NEW b \in Buffers, NEW t \in Streams
      PROVE  (\E i \in Pending(t)' : UsedBy(b, t, i)') =>
                 \E i \in Pending(t) : UsedBy(b, t, i)
  <2>1. CASE t # s
    BY <1>1, <2>1 DEF Pending, UsedBy
  <2>2. CASE t = s
    BY <1>1, <1>2, <2>2 DEF Pending, UsedBy
  <2>. QED  BY <2>1, <2>2
<1>6. ASSUME NEW b \in Buffers, NEW t \in Streams,
             t # s \/ queue[s][1].kind # "use"
      PROVE  (\E i \in Pending(t)' : UsedBy(b, t, i)') <=>
                 \E i \in Pending(t) : UsedBy(b, t, i)
  <2>1. CASE t # s
    BY <1>1, <2>1 DEF Pending, UsedBy
  <2>2. CASE t = s /\ queue[s][1].kind # "use"
    <3>1. ASSUME NEW i \in Pending(s), UsedBy(b, s, i)
          PROVE  i - 1 \in Pending(s)' /\ UsedBy(b, s, i - 1)'
      <4>1. i # 1
        BY <2>2, <3>1 DEF UsedBy
      <4>2. i - 1 \in 1..Len(queue'[s]) /\ (i - 1) + 1 = i
        BY <1>1, <4>1 DEF Pending
      <4>3. queue'[s][i - 1] = queue[s][i]
        BY <1>1, <4>2
      <4>. QED  BY <3>1, <4>2, <4>3 DEF Pending, UsedBy
    <3>. QED  BY <1>5, <2>2, <3>1
  <2>. QED  BY <1>6, <2>1, <2>2
<1>7. CASE queue[s][1].kind = "use"
  <2> DEFINE done == {b \in Buffers : ~\E i \in Pending(s)' : UsedBy(b, s, i)'}
  <2>1. UNCHANGED LifeMap
    BY <1>4, <1>7, LifeUnchanged DEF TypeOK
  <2>2. InUsePairs' = InUsePairs \ {<<b, s>> : b \in done}
    BY <1>5, <1>6 DEF InUsePairs
  <2>3. Reclaiming!Finish(s)
    BY <2>1, <2>2 DEF Reclaiming!Finish, LifeMap, InUsePairs
  <2>. QED  BY <2>3 DEF MappedStep, Reclaiming!AbstractNext
<1>8. CASE queue[s][1].kind # "use"
  <2>1. PICK b \in Buffers : queue[s][1].on = {b}
    BY <1>3, <1>8
  <2>2. UNCHANGED InUsePairs
    BY <1>6, <1>8 DEF InUsePairs
  <2>3. CASE queue[s][1].kind = "alloc"
    <3>1. resident[b] # "released"
      <4>. SUFFICES ASSUME resident[b] = "released" PROVE FALSE
        OBVIOUS
      <4>1. s = home[b]
        BY <1>2, <2>1, <2>3 DEF WorkInv, QueuedSoundly
      <4>. QED  BY <1>2, <2>1, <4>1 DEF WorkInv, ReleasedIsIdle
    <3>2. UNCHANGED LifeMap
      BY <1>4, <2>1, <2>3, <3>1 DEF LifeMap, LifeOf
    <3>. QED  BY <2>2, <3>2 DEF MappedStep
  <2>4. CASE queue[s][1].kind = "free"
    <3>1. /\ s = home[b] /\ phase[b] = "dropped"
          /\ \A j \in Pending(s) : j > 1 => b \notin queue[s][j].on
      BY <1>2, <2>1, <2>4 DEF WorkInv, QueuedSoundly, FreeIsLast
    <3>2. resident[b] # "released"
      BY <1>2, <2>1, <3>1 DEF WorkInv, ReleasedIsIdle
    <3>3. LifeMap[b] = "abandoned" /\ LifeMap' = [LifeMap EXCEPT ![b] = "reclaimed"]
      BY <1>4, <2>1, <2>4, <3>1, <3>2 DEF LifeMap, LifeOf
    <3>4. \A t \in Streams : \A i \in Pending(t) : ~UsedBy(b, t, i)
      <4>1. \A i \in Pending(s) : ~UsedBy(b, s, i)
        BY <2>4, <3>1 DEF Pending, UsedBy
      <4>2. \A t \in Streams \ {s} : \A i \in Pending(t) : ~UsedBy(b, t, i)
        BY <3>1 DEF WorkInv, DroppedIsLocal, NoFaults
      <4>. QED  BY <4>1, <4>2
    <3>5. Reclaiming!Reclaim(b)
      BY <2>2, <3>3, <3>4 DEF Reclaiming!Reclaim, LifeMap, InUsePairs
    <3>. QED  BY <3>5 DEF MappedStep, Reclaiming!AbstractNext
  <2>. QED  BY <1>3, <1>8, <2>3, <2>4
<1>. QED  BY <1>7, <1>8

(* Every step of DeviceMemory is a step of SafeReclaim or a stutter.       *)
LEMMA NextMaps ==
    ASSUME DriverFaults = FALSE, TypeOK, HomeIsSet, WorkInv, NoFaults, [Next]_vars
    PROVE  MappedStep
<1>1. CASE UNCHANGED vars
  BY <1>1, LifeUnchanged, PairsUnchanged DEF vars, MappedStep
<1>2. ASSUME NEW b \in Buffers, NEW s \in Streams, NEW zeroed \in BOOLEAN,
             Allocate(b, s, zeroed)
      PROVE  MappedStep
  BY <1>2, AllocateMaps
<1>3. ASSUME NEW B \in SUBSET Buffers, NEW s \in Streams, Copy(B, s) \/ Launch(B, s)
      PROVE  MappedStep
  <2>1. /\ B \subseteq Held /\ UNCHANGED <<phase, resident>>
        /\ UNCHANGED queue \/ Enqueue(s, <<Use(B)>>)
    BY <1>3 DEF Copy, Launch
  <2>. QED  BY <2>1, UseMaps
<1>4. ASSUME NEW b \in Buffers, NEW s \in Streams,
             RawPointerFor(b, s) \/ ForeignWork(b, s)
      PROVE  MappedStep
  <2>1. /\ {b} \in SUBSET Buffers /\ {b} \subseteq Held
        /\ UNCHANGED <<phase, resident>>
        /\ UNCHANGED queue \/ Enqueue(s, <<Use({b})>>)
    BY <1>4 DEF RawPointerFor, ForeignWork, host, device
  <2>. QED  BY <2>1, UseMaps
<1>5. ASSUME NEW b \in Buffers, TakeView(b)
      PROVE  MappedStep
  BY <1>5, LifeUnchanged, PairsUnchanged DEF TakeView, device, MappedStep
<1>6. ASSUME NEW b \in Buffers, Drop(b)
      PROVE  MappedStep
  BY <1>6, DropMaps
<1>7. ASSUME NEW c \in Contexts, ReportError(c)
      PROVE  MappedStep
  BY <1>7, LifeUnchanged, PairsUnchanged DEF ReportError, host, device, MappedStep
<1>8. ASSUME NEW s \in Streams, StreamStep(s)
      PROVE  MappedStep
  BY <1>8, StreamStepMaps
<1>. QED  BY <1>1, <1>2, <1>3, <1>4, <1>5, <1>6, <1>7, <1>8 DEF Next

(* Without driver faults, device memory implements the abstract promise:   *)
(* memory is given back only when it has no owner and no stream uses it.   *)
THEOREM ImplementsSafeReclaim ==
    ASSUME DriverFaults = FALSE
    PROVE  Spec => ReclaimsSafely
<1>1. Init => Reclaiming!AbstractInit /\ NoFaults
  BY DEF Init, Reclaiming!AbstractInit, LifeOf, Pending, NoFaults
<1>2. TypeOK /\ HomeIsSet /\ NoFaults /\ [Next]_vars => NoFaults'
  BY NoFaultsStep
<1>3. TypeOK /\ HomeIsSet /\ WorkInv /\ NoFaults /\ [Next]_vars
          => [Reclaiming!AbstractNext]_(Reclaiming!avars)
  BY NextMaps DEF MappedStep, Reclaiming!avars, LifeMap, InUsePairs
<1>4. IInv => TypeOK /\ HomeIsSet /\ WorkInv
  BY DEF IInv, WorkInv
<1>. QED
  BY <1>1, <1>2, <1>3, <1>4, InductiveInvariant, PTL
     DEF Spec, ReclaimsSafely, Reclaiming!AbstractSpec
=============================================================================
