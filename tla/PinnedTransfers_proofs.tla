------------------------ MODULE PinnedTransfers_proofs ------------------------
(* Theorems about PinnedTransfers, for every value of its constants.       *)
EXTENDS PinnedTransfers, SequenceTheorems, TLAPS

(***************************************************************************)
(* The argument.  An event stands for the transfers that its record is     *)
(* behind.  What every record of an event was behind, not just the last,   *)
(* is a table C that no variable holds; the invariant says there is one.   *)
(* As long as a record is queued, the transfers that it is behind come     *)
(* before it on its stream, or before a record that its stream waits for,  *)
(* and so on: no transfer outlives a record that is behind it.             *)
(***************************************************************************)
Marks == 0..MaxRecords

Tables == [AllEvents -> [Marks -> SUBSET (Buffers \X Nat)]]

Operation == [kind : {"copy", "record", "wait"}, on : AllEvents, mark : Nat]

CopyOf(t)  == Transfer(t[1], t[2])
Pending(t) == Queued(CopyOf(t))
Tight(t)   == t[1] \notin loose

(* An operation that makes its stream wait for a transfer.                 *)
Covers(C, op, t) ==
    \/ op = CopyOf(t)
    \/ /\ op.kind = "wait" /\ Queued(Record(op.on, op.mark))
       /\ t \in C[op.on][op.mark]

Before(C, s, i, t) == \E j \in 1..(i - 1) : Covers(C, queue[s][j], t)

Types ==
    /\ queue \in [Streams -> Seq(Operation)]
    /\ recorded \in [AllEvents -> Marks]
    /\ access \in [Buffers -> {"idle", "waiting", "inside", "dropping", "freed"}]
    /\ behind \in [Streams -> SUBSET (Buffers \X Nat)]
    /\ carried \in [AllEvents -> SUBSET (Buffers \X Nat)]
    /\ loose \in SUBSET Buffers

(* A queued record or wait is of a record that was made; a transfer has a  *)
(* mark of its own, unless its buffer is loose.                            *)
IsOld(op) ==
    /\ op.kind # "copy" => op.mark \in 0..recorded[op.on]
    /\ op.kind = "copy" =>
           /\ op.on \in Buffers /\ op.mark \in 1..MaxRecords
           /\ op.on \notin loose => op.mark <= recorded[op.on]

MarksAreOld ==
    \A s \in Streams : \A i \in 1..Len(queue[s]) : IsOld(queue[s][i])

TransfersAreDistinct ==
    \A r, s \in Streams : \A i \in 1..Len(queue[r]), j \in 1..Len(queue[s]) :
        /\ queue[r][i].kind = "copy" /\ queue[r][i].on \notin loose
        /\ queue[r][i] = queue[s][j]
        => r = s /\ i = j

(* The last record of a buffer's event is behind all its transfers.        *)
IsCarried(op) ==
    op.kind = "copy" /\ op.on \notin loose => <<op.on, op.mark>> \in carried[op.on]

LastIsBehindAll ==
    \A s \in Streams : \A i \in 1..Len(queue[s]) : IsCarried(queue[s][i])

(* The table: what a stream or a record is behind was transferred before,  *)
(* and a variable holds its last column.                                   *)
TableIsOld(C) ==
    /\ \A e \in AllEvents : carried[e] = C[e][recorded[e]]
    /\ \A s \in Streams : \A t \in behind[s] : Tight(t) => t[2] <= recorded[t[1]]
    /\ \A e \in AllEvents : \A m \in Marks : \A t \in C[e][m] :
           Tight(t) => t[2] <= recorded[t[1]]

(* Transfers come before the records and the ends that are behind them.    *)
RecordsAreBehind(C) ==
    \A s \in Streams : \A i \in 1..Len(queue[s]) :
        queue[s][i].kind = "record" =>
            \A t \in C[queue[s][i].on][queue[s][i].mark] :
                Tight(t) /\ Pending(t) => Before(C, s, i, t)

EndsAreBehind(C) ==
    \A s \in Streams : \A t \in behind[s] :
        Tight(t) /\ Pending(t) => Before(C, s, Len(queue[s]) + 1, t)

(* So what a completed record was behind is done.                          *)
CompletedIsDone(C) ==
    \A e \in AllEvents : \A m \in 0..recorded[e] :
        Completed(e, m) => \A t \in C[e][m] : Tight(t) => ~Pending(t)

Ordered(C) ==
    /\ TableIsOld(C)
    /\ RecordsAreBehind(C)
    /\ EndsAreBehind(C)
    /\ CompletedIsDone(C)

Counted == Types /\ MarksAreOld /\ TransfersAreDistinct /\ LastIsBehindAll

IInv ==
    /\ Counted
    /\ \E C \in Tables : Ordered(C)
    /\ HostAccessIsExclusive


-----------------------------------------------------------------------------
(* Queues.                                                                 *)

(* The operations that the actions queue are operations.                   *)
LEMMA OperationsTyped ==
    ASSUME NEW e \in AllEvents, NEW n \in Nat
    PROVE  /\ Transfer(e, n) \in Operation
           /\ Record(e, n) \in Operation
           /\ Await(e, n) \in Operation
           /\ <<Transfer(e, n)>> \in Seq(Operation)
           /\ <<Record(e, n)>> \in Seq(Operation)
           /\ <<Await(e, n)>> \in Seq(Operation)
           /\ CopyOps(e, n) \in Seq(Operation)
<1>1. /\ Transfer(e, n) \in Operation
      /\ Record(e, n) \in Operation
      /\ Await(e, n) \in Operation
  BY DEF Transfer, Record, Await, Operation
<1>. QED  BY <1>1 DEF CopyOps

(* What queueing work on a stream changes: the old operations stay where   *)
(* they are, the new ones follow.                                          *)
LEMMA EnqueueEffect ==
    ASSUME queue \in [Streams -> Seq(Operation)], NEW s \in Streams,
           NEW ops \in Seq(Operation), Enqueue(s, ops)
    PROVE  /\ queue' \in [Streams -> Seq(Operation)]
           /\ \A r \in Streams : r # s => queue'[r] = queue[r]
           /\ \A r \in Streams : Len(queue[r]) \in Nat
           /\ Len(queue'[s]) = Len(queue[s]) + Len(ops)
           /\ \A r \in Streams : \A i \in 1..Len(queue[r]) :
                  i \in 1..Len(queue'[r]) /\ queue'[r][i] = queue[r][i]
           /\ \A j \in 1..Len(ops) :
                  /\ Len(queue[s]) + j \in 1..Len(queue'[s])
                  /\ queue'[s][Len(queue[s]) + j] = ops[j]
           /\ \A r \in Streams : \A i \in 1..Len(queue'[r]) :
                  \/ i \in 1..Len(queue[r])
                  \/ r = s /\ \E j \in 1..Len(ops) : i = Len(queue[s]) + j
<1>1. queue[s] \in Seq(Operation) /\ queue'[s] = queue[s] \o ops
  BY DEF Enqueue
<1>2. /\ queue'[s] \in Seq(Operation)
      /\ Len(queue'[s]) = Len(queue[s]) + Len(ops)
      /\ \A i \in 1..(Len(queue[s]) + Len(ops)) :
            queue'[s][i] = IF i <= Len(queue[s]) THEN queue[s][i]
                           ELSE ops[i - Len(queue[s])]
  BY <1>1, ConcatProperties
<1>3. Len(ops) \in Nat /\ \A r \in Streams : Len(queue[r]) \in Nat
  BY LenProperties
<1>4. queue' \in [Streams -> Seq(Operation)] /\ \A r \in Streams : r # s => queue'[r] = queue[r]
  BY <1>1, <1>2 DEF Enqueue
<1>5. ASSUME NEW r \in Streams, NEW i \in 1..Len(queue[r])
      PROVE  i \in 1..Len(queue'[r]) /\ queue'[r][i] = queue[r][i]
  <2>1. CASE r = s
    BY <1>2, <1>3, <2>1
  <2>2. CASE r # s
    BY <1>4, <2>2
  <2>. QED  BY <2>1, <2>2
<1>6. ASSUME NEW j \in 1..Len(ops)
      PROVE  /\ Len(queue[s]) + j \in 1..Len(queue'[s])
             /\ queue'[s][Len(queue[s]) + j] = ops[j]
  <2>1. /\ Len(queue[s]) + j \in 1..(Len(queue[s]) + Len(ops))
        /\ ~(Len(queue[s]) + j <= Len(queue[s]))
        /\ (Len(queue[s]) + j) - Len(queue[s]) = j
    BY <1>3
  <2>. QED  BY <1>2, <2>1
<1>7. ASSUME NEW r \in Streams, NEW i \in 1..Len(queue'[r])
      PROVE  \/ i \in 1..Len(queue[r])
             \/ r = s /\ \E j \in 1..Len(ops) : i = Len(queue[s]) + j
  <2>1. CASE r = s /\ i \notin 1..Len(queue[s])
    <3>1. /\ i - Len(queue[s]) \in 1..Len(ops)
          /\ i = Len(queue[s]) + (i - Len(queue[s]))
      BY <1>2, <1>3, <2>1
    <3>. QED  BY <2>1, <3>1
  <2>. QED  BY <1>4, <2>1
<1>. QED  BY <1>2, <1>3, <1>4, <1>5, <1>6, <1>7

(* An operation that is queued afterwards is one of the new or was queued. *)
LEMMA EnqueueGrows ==
    ASSUME queue \in [Streams -> Seq(Operation)], NEW s \in Streams,
           NEW ops \in Seq(Operation), Enqueue(s, ops)
    PROVE  \A op : Queued(op)' <=> Queued(op) \/ \E j \in 1..Len(ops) : ops[j] = op
<1>1. ASSUME NEW op, Queued(op)
      PROVE  Queued(op)'
  <2>1. PICK r \in Streams : \E i \in 1..Len(queue[r]) : queue[r][i] = op
    BY <1>1 DEF Queued
  <2>2. PICK i \in 1..Len(queue[r]) : queue[r][i] = op
    BY <2>1
  <2>3. i \in 1..Len(queue'[r]) /\ queue'[r][i] = op
    BY <2>2, EnqueueEffect
  <2>. QED  BY <2>3 DEF Queued
<1>2. ASSUME NEW j \in 1..Len(ops)
      PROVE  Queued(ops[j])'
  <2>1. /\ Len(queue[s]) + j \in 1..Len(queue'[s])
        /\ queue'[s][Len(queue[s]) + j] = ops[j]
    BY EnqueueEffect
  <2>. QED  BY <2>1 DEF Queued
<1>3. ASSUME NEW op, Queued(op)'
      PROVE  Queued(op) \/ \E j \in 1..Len(ops) : ops[j] = op
  <2>1. PICK r \in Streams : \E i \in 1..Len(queue'[r]) : queue'[r][i] = op
    BY <1>3 DEF Queued
  <2>2. PICK i \in 1..Len(queue'[r]) : queue'[r][i] = op
    BY <2>1
  <2>3. CASE i \in 1..Len(queue[r])
    <3>1. queue[r][i] = op
      BY <2>2, <2>3, EnqueueEffect
    <3>. QED  BY <2>3, <3>1 DEF Queued
  <2>4. CASE r = s /\ \E j \in 1..Len(ops) : i = Len(queue[s]) + j
    <3>1. PICK j \in 1..Len(ops) : i = Len(queue[s]) + j
      BY <2>4
    <3>2. queue'[s][Len(queue[s]) + j] = ops[j]
      BY EnqueueEffect
    <3>. QED  BY <2>2, <2>4, <3>1, <3>2
  <2>. QED  BY <2>3, <2>4, EnqueueEffect
<1>. QED  BY <1>1, <1>2, <1>3

(* What is queued after one operation was.                                 *)
LEMMA EnqueueOne ==
    ASSUME queue \in [Streams -> Seq(Operation)], NEW s \in Streams,
           NEW new \in Operation, Enqueue(s, <<new>>)
    PROVE  \A op : Queued(op)' <=> Queued(op) \/ op = new
<1>1. <<new>> \in Seq(Operation) /\ 1..Len(<<new>>) = {1} /\ <<new>>[1] = new
  OBVIOUS
<1>. QED  BY <1>1, EnqueueGrows

(* What is queued after a transfer and its record were.                    *)
LEMMA EnqueueCopy ==
    ASSUME queue \in [Streams -> Seq(Operation)], NEW s \in Streams,
           NEW p \in AllEvents, NEW n \in Nat, Enqueue(s, CopyOps(p, n))
    PROVE  \A op : Queued(op)' <=> Queued(op) \/ op = Transfer(p, n) \/ op = Record(p, n)
<1>. DEFINE ops == CopyOps(p, n)
<1>1. ops \in Seq(Operation)
  BY OperationsTyped
<1>2. 1..Len(ops) = {1, 2} /\ ops[1] = Transfer(p, n) /\ ops[2] = Record(p, n)
  BY DEF CopyOps
<1>. QED  BY <1>1, <1>2, EnqueueGrows

(* What running the oldest operation of a stream changes.                  *)
LEMMA StepEffect ==
    ASSUME queue \in [Streams -> Seq(Operation)], NEW s \in Streams,
           StreamStep(s)
    PROVE  /\ queue' \in [Streams -> Seq(Operation)]
           /\ \A r \in Streams : r # s => queue'[r] = queue[r]
           /\ \A r \in Streams : Len(queue[r]) \in Nat
           /\ Len(queue[s]) \in Nat \ {0}
           /\ Len(queue'[s]) = Len(queue[s]) - 1
           /\ \A i \in 1..Len(queue'[s]) : queue'[s][i] = queue[s][i + 1]
           /\ Head(queue[s]) = queue[s][1]
<1>1. queue[s] \in Seq(Operation) /\ queue[s] # <<>> /\ queue'[s] = Tail(queue[s])
  BY DEF StreamStep
<1>2. /\ queue' \in [Streams -> Seq(Operation)]
      /\ \A r \in Streams : r # s => queue'[r] = queue[r]
  BY <1>1, HeadTailProperties DEF StreamStep
<1>. QED  BY <1>1, <1>2, HeadTailProperties, EmptySeq, LenProperties

(* Only that operation goes.                                               *)
LEMMA StepShrinks ==
    ASSUME queue \in [Streams -> Seq(Operation)], NEW s \in Streams,
           StreamStep(s)
    PROVE  \A op : /\ Queued(op)' => Queued(op)
                   /\ Queued(op) /\ op # queue[s][1] => Queued(op)'
<1>1. ASSUME NEW op, Queued(op)'
      PROVE  Queued(op)
  <2>1. PICK r \in Streams : \E i \in 1..Len(queue'[r]) : queue'[r][i] = op
    BY <1>1 DEF Queued
  <2>2. PICK i \in 1..Len(queue'[r]) : queue'[r][i] = op
    BY <2>1
  <2>3. CASE r = s
    <3>1. i + 1 \in 1..Len(queue[s]) /\ queue[s][i + 1] = op
      BY <2>2, <2>3, StepEffect
    <3>. QED  BY <3>1 DEF Queued
  <2>4. CASE r # s
    BY <2>2, <2>4, StepEffect DEF Queued
  <2>. QED  BY <2>3, <2>4
<1>2. ASSUME NEW op, Queued(op), op # queue[s][1]
      PROVE  Queued(op)'
  <2>1. PICK r \in Streams : \E i \in 1..Len(queue[r]) : queue[r][i] = op
    BY <1>2 DEF Queued
  <2>2. PICK i \in 1..Len(queue[r]) : queue[r][i] = op
    BY <2>1
  <2>3. CASE r = s
    <3>1. i - 1 \in 1..Len(queue'[s]) /\ queue'[s][i - 1] = queue[s][(i - 1) + 1]
      BY <1>2, <2>2, <2>3, StepEffect
    <3>2. (i - 1) + 1 = i
      BY <2>2
    <3>. QED  BY <2>2, <2>3, <3>1, <3>2 DEF Queued
  <2>4. CASE r # s
    BY <2>2, <2>4, StepEffect DEF Queued
  <2>. QED  BY <2>3, <2>4
<1>. QED  BY <1>1, <1>2

-----------------------------------------------------------------------------
(* Types, and what is queued.                                              *)

(* Every step keeps every type.                                            *)
LEMMA NextTyped ==
    ASSUME Types, [Next]_vars
    PROVE  Types'
<1>. Buffers \subseteq AllEvents /\ Events \subseteq AllEvents
  BY DEF AllEvents
<1>. USE BoundsAssumption DEF Types, Marks
<1>1. ASSUME NEW p \in Buffers, NEW s \in Streams, Copy(p, s)
      PROVE  Types'
  <2>. DEFINE n == recorded[p] + 1
  <2>1. n \in Nat /\ n \in 0..MaxRecords
    BY <1>1 DEF Copy
  <2>2. \/ Enqueue(s, CopyOps(p, n)) /\ recorded' = [recorded EXCEPT ![p] = n]
        \/ Enqueue(s, <<Transfer(p, n)>>) /\ recorded' = recorded
    BY <1>1 DEF Copy, CopyAndRecord, CopyUnrecorded
  <2>3. queue' \in [Streams -> Seq(Operation)]
    BY <2>1, <2>2, OperationsTyped, EnqueueEffect
  <2>4. recorded' \in [AllEvents -> 0..MaxRecords]
    BY <2>1, <2>2
  <2>5. behind' \in [Streams -> SUBSET (Buffers \X Nat)]
    BY <1>1, <2>1 DEF Copy
  <2>6. carried' \in [AllEvents -> SUBSET (Buffers \X Nat)]
    BY <1>1, <2>5 DEF Copy, CopyAndRecord, CopyUnrecorded
  <2>7. loose' \in SUBSET Buffers
    BY <1>1 DEF Copy, CopyAndRecord, CopyUnrecorded
  <2>. QED  BY <1>1, <2>3, <2>4, <2>5, <2>6, <2>7 DEF Copy
<1>2. ASSUME NEW e \in Events, NEW s \in Streams, RecordEvent(e, s)
      PROVE  Types'
  <2>. DEFINE n == recorded[e] + 1
  <2>1. n \in Nat /\ n \in 0..MaxRecords
    BY <1>2 DEF RecordEvent
  <2>2. queue' \in [Streams -> Seq(Operation)]
    BY <1>2, <2>1, OperationsTyped, EnqueueEffect DEF RecordEvent
  <2>3. recorded' \in [AllEvents -> 0..MaxRecords]
    BY <1>2, <2>1 DEF RecordEvent
  <2>. QED  BY <1>2, <2>2, <2>3 DEF RecordEvent
<1>3. ASSUME NEW e \in Events, NEW s \in Streams, StreamWait(s, e)
      PROVE  Types'
  <2>. recorded[e] \in Nat
    OBVIOUS
  <2>1. queue' \in [Streams -> Seq(Operation)]
    BY <1>3, OperationsTyped, EnqueueEffect DEF StreamWait
  <2>2. behind[s] \cup carried[e] \in SUBSET (Buffers \X Nat)
    OBVIOUS
  <2>. QED  BY <1>3, <2>1, <2>2 DEF StreamWait
<1>4. ASSUME NEW p \in Buffers, HostAccess(p)
      PROVE  Types'
  BY <1>4 DEF HostAccess, BeginAccess, EnterAccess, AccessFails, LeaveAccess,
              BeginDrop, FinishDrop
<1>5. ASSUME NEW s \in Streams, StreamStep(s)
      PROVE  Types'
  BY <1>5, StepEffect DEF StreamStep
<1>6. CASE UNCHANGED vars
  BY <1>6 DEF vars
<1>. QED  BY <1>1, <1>2, <1>3, <1>4, <1>5, <1>6 DEF Next


-----------------------------------------------------------------------------
(* What is queued is old, distinct and behind the last record.             *)

(* MarksAreOld, of what is queued rather than of positions.                *)
LEMMA OldIsOfQueued == MarksAreOld <=> \A op : Queued(op) => IsOld(op)
BY DEF MarksAreOld, Queued

(* LastIsBehindAll, likewise.                                              *)
LEMMA CarriedIsOfQueued == LastIsBehindAll <=> \A op : Queued(op) => IsCarried(op)
BY DEF LastIsBehindAll, Queued

(* What is queued is an operation.                                         *)
LEMMA QueuedTyped ==
    ASSUME queue \in [Streams -> Seq(Operation)], NEW op, Queued(op)
    PROVE  op \in Operation
<1>1. PICK s \in Streams : \E i \in 1..Len(queue[s]) : queue[s][i] = op
  BY DEF Queued
<1>2. queue[s] \in Seq(Operation)
  OBVIOUS
<1>. QED  BY <1>1, <1>2, ElementOfSeq

(* A host call queues nothing; buffers only become loose.                  *)
LEMMA HostEffect ==
    ASSUME Types, NEW p \in Buffers, HostAccess(p)
    PROVE  /\ UNCHANGED <<queue, recorded, behind, carried>>
           /\ loose \subseteq loose'
BY DEF HostAccess, BeginAccess, EnterAccess, AccessFails, LeaveAccess, BeginDrop, FinishDrop

(* What a copy changes, recorded or not.                                   *)
LEMMA CopyEffect ==
    ASSUME Types, NEW p \in Buffers, NEW s \in Streams, Copy(p, s), NEW n, n = recorded[p] + 1
    PROVE  /\ n \in 1..MaxRecords /\ n \in Nat /\ p \in AllEvents
           /\ behind' = [behind EXCEPT ![s] = @ \cup {<<p, n>>}]
           /\ loose \subseteq loose'
           /\ \/ /\ Enqueue(s, CopyOps(p, n))
                 /\ recorded' = [recorded EXCEPT ![p] = n]
                 /\ carried' = [carried EXCEPT ![p] = behind'[s]]
                 /\ p \in loose' \/ PendingTransfers(p) \subseteq behind[s]
              \/ /\ Enqueue(s, <<Transfer(p, n)>>)
                 /\ p \in loose'
                 /\ UNCHANGED <<recorded, carried>>
<1>. USE BoundsAssumption DEF Types, Marks
<1>1. p \in AllEvents /\ recorded[p] \in 0..MaxRecords
  BY DEF AllEvents
<1>2. n \in 1..MaxRecords /\ n \in Nat
  BY <1>1 DEF Copy
<1>. QED  BY <1>1, <1>2 DEF Copy, CopyAndRecord, CopyUnrecorded

(* Every queued operation is old: the queue may grow by old operations,    *)
(* marks grow, and buffers become loose.                                   *)
LEMMA OldStaysOld ==
    ASSUME Types, NEW op \in Operation, IsOld(op), loose \subseteq loose',
           recorded' \in [AllEvents -> Marks],
           \A e \in AllEvents : recorded[e] <= recorded'[e]
    PROVE  IsOld(op)'
<1>. USE BoundsAssumption DEF Types, Marks, Operation
<1>1. /\ op.on \in AllEvents /\ op.mark \in Nat
      /\ recorded[op.on] \in Nat /\ recorded'[op.on] \in Nat
      /\ recorded[op.on] <= recorded'[op.on]
  OBVIOUS
<1>. QED  BY <1>1 DEF IsOld

(* Every step keeps marks old: a new mark is the one just counted.         *)
LEMMA MarksStayOld ==
    ASSUME Types, Types', MarksAreOld, Next
    PROVE  MarksAreOld'
<1>. Buffers \subseteq AllEvents /\ Events \subseteq AllEvents
  BY DEF AllEvents
<1>. USE BoundsAssumption
<1>1. ASSUME NEW p \in Buffers, NEW s \in Streams, Copy(p, s)
      PROVE  MarksAreOld'
  <2>. PICK n : n = recorded[p] + 1
    OBVIOUS
  <2>1. /\ n \in 1..MaxRecords /\ n \in Nat
        /\ loose \subseteq loose'
        /\ \/ /\ Enqueue(s, CopyOps(p, n))
              /\ recorded' = [recorded EXCEPT ![p] = n]
           \/ /\ Enqueue(s, <<Transfer(p, n)>>)
              /\ p \in loose'
              /\ UNCHANGED recorded
    BY <1>1, CopyEffect
  <2>2. \A e \in AllEvents : recorded[e] <= recorded'[e]
    <3>1. recorded \in [AllEvents -> Nat] /\ n = recorded[p] + 1
      BY DEF Types, Marks
    <3>2. CASE recorded' = [recorded EXCEPT ![p] = n]
      BY <3>1, <3>2
    <3>3. CASE UNCHANGED recorded
      BY <3>1, <3>3
    <3>. QED  BY <2>1, <3>2, <3>3
  <2>3. \A op : Queued(op)' =>
            \/ Queued(op)
            \/ op = Transfer(p, n)
            \/ op = Record(p, n) /\ recorded'[p] = n
    <3>1. CASE Enqueue(s, CopyOps(p, n)) /\ recorded' = [recorded EXCEPT ![p] = n]
      BY <2>1, <3>1, EnqueueCopy DEF Types
    <3>2. CASE Enqueue(s, <<Transfer(p, n)>>)
      BY <2>1, <3>2, EnqueueOne, OperationsTyped DEF Types
    <3>. QED  BY <2>1, <3>1, <3>2
  <2>4. IsOld(Transfer(p, n))'
    BY <2>1 DEF IsOld, Transfer, Types
  <2>5. recorded'[p] = n => IsOld(Record(p, n))'
    BY <2>1 DEF IsOld, Record
  <2>6. \A op : Queued(op) => IsOld(op)'
    BY <2>1, <2>2, OldStaysOld, OldIsOfQueued, QueuedTyped DEF Types
  <2>. QED  BY <2>3, <2>4, <2>5, <2>6 DEF MarksAreOld, Queued
<1>2. ASSUME NEW e \in Events, NEW s \in Streams, RecordEvent(e, s)
      PROVE  MarksAreOld'
  <2>. PICK n : n = recorded[e] + 1
    OBVIOUS
  <2>1. /\ n \in Nat /\ Enqueue(s, <<Record(e, n)>>)
        /\ recorded' = [recorded EXCEPT ![e] = n] /\ UNCHANGED loose
    BY <1>2 DEF RecordEvent, Types, Marks
  <2>2. \A f \in AllEvents : recorded[f] <= recorded'[f]
    BY <2>1 DEF Types, Marks
  <2>3. \A op : Queued(op)' => Queued(op) \/ op = Record(e, n)
    BY <2>1, EnqueueOne, OperationsTyped DEF Types
  <2>4. IsOld(Record(e, n))'
    BY <2>1 DEF IsOld, Record, Types
  <2>5. \A op : Queued(op) => IsOld(op)'
    BY <2>1, <2>2, OldStaysOld, OldIsOfQueued, QueuedTyped DEF Types
  <2>. QED  BY <2>3, <2>4, <2>5 DEF MarksAreOld, Queued
<1>3. ASSUME NEW e \in Events, NEW s \in Streams, StreamWait(s, e)
      PROVE  MarksAreOld'
  <2>. PICK n : n = recorded[e]
    OBVIOUS
  <2>1. /\ n \in Nat /\ Enqueue(s, <<Await(e, n)>>)
        /\ UNCHANGED <<recorded, loose>>
    BY <1>3 DEF StreamWait, Types, Marks
  <2>2. \A op : Queued(op)' => Queued(op) \/ op = Await(e, n)
    BY <2>1, EnqueueOne, OperationsTyped DEF Types
  <2>3. IsOld(Await(e, n))'
    BY <2>1 DEF IsOld, Await
  <2>4. \A op : IsOld(op) => IsOld(op)'
    BY <2>1 DEF IsOld
  <2>. QED  BY <2>2, <2>3, <2>4, OldIsOfQueued DEF MarksAreOld, Queued
<1>4. ASSUME NEW p \in Buffers, HostAccess(p)
      PROVE  MarksAreOld'
  BY <1>4, HostEffect DEF MarksAreOld, IsOld
<1>5. ASSUME NEW s \in Streams, StreamStep(s)
      PROVE  MarksAreOld'
  <2>1. \A op : Queued(op)' => Queued(op)
    BY <1>5, StepShrinks DEF Types
  <2>2. \A op : IsOld(op) => IsOld(op)'
    BY <1>5 DEF IsOld, StreamStep
  <2>. QED  BY <2>1, <2>2, OldIsOfQueued DEF MarksAreOld, Queued
<1>. QED  BY <1>1, <1>2, <1>3, <1>4, <1>5 DEF Next


(* A queued copy of a tight buffer is older than the next one.             *)
LEMMA NextCopyIsNew ==
    ASSUME Types, MarksAreOld, NEW p \in Buffers, p \notin loose,
           NEW n, n = recorded[p] + 1
    PROVE  ~Queued(Transfer(p, n))
<1>1. recorded[p] \in Nat /\ ~(n <= recorded[p])
  BY BoundsAssumption DEF Types, Marks, AllEvents
<1>2. ASSUME Queued(Transfer(p, n))
      PROVE  n <= recorded[p]
  BY <1>2, OldIsOfQueued DEF IsOld, Transfer
<1>. QED  BY <1>1, <1>2

(* Only the first of the new operations may be a copy, and it is new.      *)
LEMMA EnqueueDistinct ==
    ASSUME queue \in [Streams -> Seq(Operation)], TransfersAreDistinct, loose \subseteq loose',
           NEW q \in Streams, NEW ops \in Seq(Operation), Enqueue(q, ops),
           \A j \in 1..Len(ops) : ops[j].kind = "copy" /\ ops[j].on \notin loose' =>
               j = 1 /\ ~Queued(ops[j])
    PROVE  TransfersAreDistinct'
<1>1. SUFFICES
        ASSUME NEW r \in Streams, NEW s \in Streams,
               NEW i \in 1..Len(queue'[r]), NEW j \in 1..Len(queue'[s]),
               queue'[r][i].kind = "copy", queue'[r][i].on \notin loose',
               queue'[r][i] = queue'[s][j]
        PROVE  r = s /\ i = j
  BY DEF TransfersAreDistinct
<1>. DEFINE Old(x, k)    == k \in 1..Len(queue[x]) /\ queue'[x][k] = queue[x][k]
            New(x, k, o) == x = q /\ k = Len(queue[q]) + o /\ queue'[x][k] = ops[o]
<1>2. ASSUME NEW x \in Streams, NEW k \in 1..Len(queue'[x])
      PROVE  Old(x, k) \/ \E o \in 1..Len(ops) : New(x, k, o)
  <2>1. CASE k \in 1..Len(queue[x])
    BY <2>1, EnqueueEffect
  <2>2. CASE x = q /\ \E o \in 1..Len(ops) : k = Len(queue[q]) + o
    <3>1. PICK o \in 1..Len(ops) : k = Len(queue[q]) + o
      BY <2>2
    <3>2. queue'[q][Len(queue[q]) + o] = ops[o]
      BY EnqueueEffect
    <3>3. New(x, k, o)
      BY <2>2, <3>1, <3>2
    <3>. QED  BY <3>3
  <2>. QED  BY <2>1, <2>2, EnqueueEffect
<1>3. ASSUME Old(r, i), Old(s, j)
      PROVE  r = s /\ i = j
  <2>1. /\ queue[r][i].kind = "copy" /\ queue[r][i].on \notin loose
        /\ queue[r][i] = queue[s][j]
    BY <1>1, <1>3
  <2>. QED  BY <1>3, <2>1 DEF TransfersAreDistinct
<1>4. ASSUME NEW o \in 1..Len(ops), New(r, i, o), Old(s, j)
      PROVE  FALSE
  <2>1. ops[o] = queue[s][j] /\ ~Queued(ops[o])
    BY <1>1, <1>4
  <2>. QED  BY <1>4, <2>1 DEF Queued
<1>5. ASSUME NEW o \in 1..Len(ops), Old(r, i), New(s, j, o)
      PROVE  FALSE
  <2>1. ops[o] = queue[r][i] /\ ~Queued(ops[o])
    BY <1>1, <1>5
  <2>. QED  BY <1>5, <2>1 DEF Queued
<1>6. ASSUME NEW o \in 1..Len(ops), NEW u \in 1..Len(ops), New(r, i, o), New(s, j, u)
      PROVE  r = s /\ i = j
  <2>1. o = 1 /\ u = 1
    BY <1>1, <1>6
  <2>. QED  BY <1>6, <2>1
<1>7. /\ Old(r, i) \/ \E o \in 1..Len(ops) : New(r, i, o)
      /\ Old(s, j) \/ \E o \in 1..Len(ops) : New(s, j, o)
  BY <1>2
<1>. HIDE DEF Old, New
<1>. QED  BY <1>3, <1>4, <1>5, <1>6, <1>7

(* Every step keeps transfers distinct: a new one has a new mark.          *)
LEMMA TransfersStayDistinct ==
    ASSUME Types, MarksAreOld, TransfersAreDistinct, Next
    PROVE  TransfersAreDistinct'
<1>. /\ queue \in [Streams -> Seq(Operation)]
     /\ Buffers \subseteq AllEvents /\ Events \subseteq AllEvents
  BY DEF Types, AllEvents
<1>1. ASSUME NEW p \in Buffers, NEW s \in Streams, Copy(p, s)
      PROVE  TransfersAreDistinct'
  <2>. PICK n : n = recorded[p] + 1
    OBVIOUS
  <2>1. /\ n \in Nat /\ loose \subseteq loose'
        /\ \/ Enqueue(s, CopyOps(p, n))
           \/ Enqueue(s, <<Transfer(p, n)>>)
    BY <1>1, CopyEffect
  <2>2. p \notin loose' => ~Queued(Transfer(p, n))
    BY <2>1, NextCopyIsNew
  <2>3. Transfer(p, n).kind = "copy" /\ Transfer(p, n).on = p /\ Record(p, n).kind = "record"
    BY DEF Transfer, Record
  <2>4. CASE Enqueue(s, CopyOps(p, n))
    <3>. DEFINE ops == CopyOps(p, n)
    <3>1. /\ ops \in Seq(Operation) /\ 1..Len(ops) = {1, 2}
          /\ ops[1] = Transfer(p, n) /\ ops[2] = Record(p, n)
      BY <2>1, OperationsTyped DEF CopyOps
    <3>2. \A j \in 1..Len(ops) : ops[j].kind = "copy" /\ ops[j].on \notin loose' =>
              j = 1 /\ ~Queued(ops[j])
      BY <2>2, <2>3, <3>1
    <3>. HIDE DEF ops
    <3>. QED  BY <2>1, <2>4, <3>1, <3>2, EnqueueDistinct DEF ops
  <2>5. CASE Enqueue(s, <<Transfer(p, n)>>)
    <3>. DEFINE ops == <<Transfer(p, n)>>
    <3>1. ops \in Seq(Operation) /\ 1..Len(ops) = {1} /\ ops[1] = Transfer(p, n)
      BY <2>1, OperationsTyped
    <3>2. \A j \in 1..Len(ops) : ops[j].kind = "copy" /\ ops[j].on \notin loose' =>
              j = 1 /\ ~Queued(ops[j])
      BY <2>2, <2>3, <3>1
    <3>. QED  BY <2>1, <2>5, <3>1, <3>2, EnqueueDistinct
  <2>. QED  BY <2>1, <2>4, <2>5
<1>2. ASSUME NEW e \in AllEvents, NEW s \in Streams, NEW new \in Operation,
             new.kind # "copy", Enqueue(s, <<new>>), UNCHANGED loose
      PROVE  TransfersAreDistinct'
  <2>1. <<new>> \in Seq(Operation) /\ 1..Len(<<new>>) = {1} /\ <<new>>[1] = new
    OBVIOUS
  <2>. QED  BY <1>2, <2>1, EnqueueDistinct
<1>3. ASSUME NEW e \in Events, NEW s \in Streams, RecordEvent(e, s) \/ StreamWait(s, e)
      PROVE  TransfersAreDistinct'
  <2>1. PICK n \in {recorded[e], recorded[e] + 1} :
            /\ Enqueue(s, <<Record(e, n)>>) \/ Enqueue(s, <<Await(e, n)>>)
            /\ UNCHANGED loose
    BY <1>3 DEF RecordEvent, StreamWait
  <2>2. n \in Nat
    BY BoundsAssumption DEF Types, Marks
  <2>3. /\ Record(e, n) \in Operation /\ Record(e, n).kind # "copy"
        /\ Await(e, n) \in Operation /\ Await(e, n).kind # "copy"
    BY <2>2, OperationsTyped DEF Record, Await
  <2>. QED  BY <1>2, <2>1, <2>3
<1>4. ASSUME NEW p \in Buffers, HostAccess(p)
      PROVE  TransfersAreDistinct'
  BY <1>4, HostEffect DEF TransfersAreDistinct
<1>5. ASSUME NEW q \in Streams, StreamStep(q)
      PROVE  TransfersAreDistinct'
  <2>1. SUFFICES
          ASSUME NEW r \in Streams, NEW s \in Streams,
                 NEW i \in 1..Len(queue'[r]), NEW j \in 1..Len(queue'[s]),
                 queue'[r][i].kind = "copy", queue'[r][i].on \notin loose',
                 queue'[r][i] = queue'[s][j]
          PROVE  r = s /\ i = j
    BY DEF TransfersAreDistinct
  <2>. DEFINE From(x, k) == IF x = q THEN k + 1 ELSE k
  <2>2. ASSUME NEW x \in Streams, NEW k \in 1..Len(queue'[x])
        PROVE  From(x, k) \in 1..Len(queue[x]) /\ queue'[x][k] = queue[x][From(x, k)]
    BY <1>5, StepEffect
  <2>3. r = s /\ From(r, i) = From(s, j)
    <3>1. queue[r][From(r, i)] = queue[s][From(s, j)] /\ UNCHANGED loose
      BY <1>5, <2>1, <2>2 DEF StreamStep
    <3>2. From(r, i) \in 1..Len(queue[r]) /\ From(s, j) \in 1..Len(queue[s])
      BY <2>2
    <3>3. queue[r][From(r, i)].kind = "copy" /\ queue[r][From(r, i)].on \notin loose
      BY <2>1, <2>2, <3>1
    <3>. HIDE DEF From
    <3>. QED  BY <3>1, <3>2, <3>3 DEF TransfersAreDistinct
  <2>4. i \in Nat /\ j \in Nat
    OBVIOUS
  <2>. QED  BY <2>3, <2>4
<1>. QED  BY <1>1, <1>3, <1>4, <1>5 DEF Next


(* Every step keeps the last record behind all transfers of its buffer.    *)
LEMMA LastStaysBehindAll ==
    ASSUME Types, MarksAreOld, LastIsBehindAll, Next
    PROVE  LastIsBehindAll'
<1>. /\ queue \in [Streams -> Seq(Operation)] /\ carried \in [AllEvents -> SUBSET (Buffers \X Nat)]
     /\ Buffers \subseteq AllEvents /\ Events \subseteq AllEvents
  BY DEF Types, AllEvents
<1>1. ASSUME NEW p \in Buffers, NEW s \in Streams, Copy(p, s)
      PROVE  LastIsBehindAll'
  <2>. PICK n : n = recorded[p] + 1
    OBVIOUS
  <2>1. /\ n \in Nat /\ loose \subseteq loose'
        /\ behind' = [behind EXCEPT ![s] = @ \cup {<<p, n>>}]
        /\ \/ /\ Enqueue(s, CopyOps(p, n))
              /\ carried' = [carried EXCEPT ![p] = behind'[s]]
              /\ p \in loose' \/ PendingTransfers(p) \subseteq behind[s]
           \/ /\ Enqueue(s, <<Transfer(p, n)>>)
              /\ p \in loose'
              /\ UNCHANGED carried
    BY <1>1, CopyEffect
  <2>2. behind'[s] = behind[s] \cup {<<p, n>>}
    BY <2>1 DEF Types
  <2>3. IsCarried(Transfer(p, n))'
    <3>1. p \notin loose' => carried'[p] = behind'[s]
      BY <2>1
    <3>. QED  BY <2>2, <3>1 DEF IsCarried, Transfer
  <2>4. IsCarried(Record(p, n))'
    BY DEF IsCarried, Record
  <2>5. ASSUME NEW op, Queued(op)
        PROVE  IsCarried(op)'
    <3>. SUFFICES ASSUME op.kind = "copy", op.on \notin loose'
                  PROVE  <<op.on, op.mark>> \in carried'[op.on]
      BY DEF IsCarried
    <3>1. op \in Operation /\ IsOld(op) /\ IsCarried(op)
      BY <2>5, QueuedTyped, OldIsOfQueued, CarriedIsOfQueued
    <3>2. /\ op.on \in Buffers /\ op.mark \in 1..MaxRecords
          /\ <<op.on, op.mark>> \in carried[op.on]
      BY <2>1, <3>1 DEF IsOld, IsCarried
    <3>3. CASE op.on # p
      BY <2>1, <3>2, <3>3
    <3>4. CASE op.on = p
      <4>1. op = Transfer(p, op.mark)
        BY <3>1, <3>4 DEF Operation, Transfer
      <4>2. <<p, op.mark>> \in PendingTransfers(p)
        BY <2>5, <3>2, <4>1, BoundsAssumption DEF PendingTransfers
      <4>. QED  BY <2>1, <2>2, <3>4, <4>2
    <3>. QED  BY <3>3, <3>4
  <2>6. \A op : Queued(op)' => Queued(op) \/ op = Transfer(p, n) \/ op = Record(p, n)
    <3>1. CASE Enqueue(s, CopyOps(p, n))
      BY <2>1, <3>1, EnqueueCopy
    <3>2. CASE Enqueue(s, <<Transfer(p, n)>>)
      BY <2>1, <3>2, EnqueueOne, OperationsTyped
    <3>. QED  BY <2>1, <3>1, <3>2
  <2>. QED  BY <2>3, <2>4, <2>5, <2>6 DEF LastIsBehindAll, Queued
<1>2. ASSUME NEW e \in Events, NEW s \in Streams, RecordEvent(e, s)
      PROVE  LastIsBehindAll'
  <2>. PICK n : n = recorded[e] + 1
    OBVIOUS
  <2>1. /\ n \in Nat /\ Enqueue(s, <<Record(e, n)>>)
        /\ carried' = [carried EXCEPT ![e] = behind[s]] /\ UNCHANGED loose
    BY <1>2, BoundsAssumption DEF RecordEvent, Types, Marks
  <2>2. \A op : Queued(op)' => Queued(op) \/ op = Record(e, n)
    BY <2>1, EnqueueOne, OperationsTyped
  <2>3. IsCarried(Record(e, n))'
    BY DEF IsCarried, Record
  <2>4. ASSUME NEW op, Queued(op)
        PROVE  IsCarried(op)'
    <3>1. IsOld(op) /\ IsCarried(op)
      BY <2>4, OldIsOfQueued, CarriedIsOfQueued
    <3>2. op.kind = "copy" => op.on \in Buffers /\ op.on # e
      BY <3>1, DistinctEvents DEF IsOld
    <3>. QED  BY <2>1, <3>1, <3>2 DEF IsCarried
  <2>. QED  BY <2>2, <2>3, <2>4 DEF LastIsBehindAll, Queued
<1>3. ASSUME NEW e \in Events, NEW s \in Streams, StreamWait(s, e)
      PROVE  LastIsBehindAll'
  <2>. PICK n : n = recorded[e]
    OBVIOUS
  <2>1. /\ n \in Nat /\ Enqueue(s, <<Await(e, n)>>)
        /\ UNCHANGED <<carried, loose>>
    BY <1>3, BoundsAssumption DEF StreamWait, Types, Marks
  <2>2. \A op : Queued(op)' => Queued(op) \/ op = Await(e, n)
    BY <2>1, EnqueueOne, OperationsTyped
  <2>3. IsCarried(Await(e, n))'
    BY DEF IsCarried, Await
  <2>4. \A op : IsCarried(op) => IsCarried(op)'
    BY <2>1 DEF IsCarried
  <2>. QED  BY <2>2, <2>3, <2>4, CarriedIsOfQueued DEF LastIsBehindAll, Queued
<1>4. ASSUME NEW p \in Buffers, HostAccess(p)
      PROVE  LastIsBehindAll'
  BY <1>4, HostEffect DEF LastIsBehindAll, IsCarried
<1>5. ASSUME NEW s \in Streams, StreamStep(s)
      PROVE  LastIsBehindAll'
  <2>1. \A op : Queued(op)' => Queued(op)
    BY <1>5, StepShrinks
  <2>2. \A op : IsCarried(op) => IsCarried(op)'
    BY <1>5 DEF IsCarried, StreamStep
  <2>. QED  BY <2>1, <2>2, CarriedIsOfQueued DEF LastIsBehindAll, Queued
<1>. QED  BY <1>1, <1>2, <1>3, <1>4, <1>5 DEF Next


-----------------------------------------------------------------------------
(* What new work on a stream leaves in order.                              *)

(* What a table holds is transfers.                                        *)
LEMMA TablesTyped ==
    ASSUME NEW C \in Tables, NEW e \in AllEvents, NEW m \in Marks
    PROVE  C[e][m] \subseteq Buffers \X Nat
BY DEF Tables

(* The records made so far have marks.                                     *)
LEMMA RecordedIsMark ==
    ASSUME Types, NEW e \in AllEvents
    PROVE  /\ recorded[e] \in Nat /\ recorded[e] \in Marks
           /\ 0..recorded[e] \subseteq Marks
           /\ recorded[e] \in 0..recorded[e]
BY BoundsAssumption DEF Types, Marks

(* An operation goes on covering what it covered.                          *)
LEMMA StillCovers ==
    ASSUME NEW C, NEW D, NEW op \in Operation, NEW t, Covers(C, op, t), IsOld(op),
           \A e \in AllEvents : \A m \in 0..recorded[e] : D[e][m] = C[e][m],
           \A e \in AllEvents : \A m \in 0..recorded[e] :
               Queued(Record(e, m)) => Queued(Record(e, m))'
    PROVE  Covers(D, op, t)'
<1>1. CASE op = CopyOf(t)
  BY <1>1 DEF Covers, CopyOf, Transfer
<1>2. CASE op.kind = "wait" /\ Queued(Record(op.on, op.mark)) /\ t \in C[op.on][op.mark]
  <2>1. op.on \in AllEvents /\ op.mark \in 0..recorded[op.on]
    BY <1>2 DEF IsOld, Operation
  <2>. QED  BY <1>2, <2>1 DEF Covers
<1>. QED  BY <1>1, <1>2 DEF Covers

(* Under new work on stream s, with a table D that agrees with C on the    *)
(* marks so far, what came before still does.                              *)
LEMMA StillBefore ==
    ASSUME Types, MarksAreOld, NEW C, NEW D,
           NEW s \in Streams, NEW ops \in Seq(Operation), Enqueue(s, ops),
           \A e \in AllEvents : \A m \in 0..recorded[e] : D[e][m] = C[e][m],
           NEW r \in Streams, NEW i \in Nat, i <= Len(queue[r]) + 1,
           NEW k \in Nat, i <= k,
           NEW t, Before(C, r, i, t)
    PROVE  Before(D, r, k, t)'
<1>1. queue \in [Streams -> Seq(Operation)] /\ Len(queue[r]) \in Nat
  BY LenProperties DEF Types
<1>2. PICK j \in 1..(i - 1) : Covers(C, queue[r][j], t)
  BY DEF Before
<1>3. j \in 1..Len(queue[r]) /\ j \in 1..(k - 1)
  BY <1>1, <1>2
<1>4. queue'[r][j] = queue[r][j]
  BY <1>1, <1>3, EnqueueEffect
<1>5. queue[r][j] \in Operation /\ IsOld(queue[r][j])
  BY <1>1, <1>3, ElementOfSeq DEF MarksAreOld
<1>6. \A e \in AllEvents : \A m \in 0..recorded[e] :
          Queued(Record(e, m)) => Queued(Record(e, m))'
  BY <1>1, EnqueueGrows
<1>7. ASSUME NEW op, op = queue[r][j]
      PROVE  Covers(D, op, t)'
  <2>1. op \in Operation /\ IsOld(op) /\ Covers(C, op, t)
    BY <1>2, <1>5, <1>7
  <2>. QED  BY <1>6, <2>1, StillCovers
<1>8. Covers(D, queue[r][j], t)'
  <2>1. PICK op : op = queue[r][j]
    OBVIOUS
  <2>2. Covers(D, op, t)' /\ op = queue'[r][j]
    BY <1>4, <1>7, <2>1
  <2>. QED  BY <2>2 DEF Covers
<1>. QED  BY <1>3, <1>8 DEF Before

(* So records and ends of streams stay behind, and completed ones done, as *)
(* long as only new transfers are pending that were not.                   *)
LEMMA OldOrdersKept ==
    ASSUME Types, MarksAreOld, NEW C \in Tables, Ordered(C), NEW D \in Tables,
           NEW s \in Streams, NEW ops \in Seq(Operation), Enqueue(s, ops),
           \A e \in AllEvents : \A m \in 0..recorded[e] : D[e][m] = C[e][m],
           loose \subseteq loose',
           \A t \in Buffers \X Nat :
               Tight(t)' /\ Pending(t)' => Pending(t) \/ t[2] > recorded[t[1]]
    PROVE  /\ \A r \in Streams : \A i \in 1..Len(queue[r]) : queue[r][i].kind = "record" =>
                  \A t \in D[queue[r][i].on][queue[r][i].mark] :
                      Tight(t)' /\ Pending(t)' => Before(D, r, i, t)'
           /\ \A r \in Streams : \A t \in behind[r] : \A k \in Nat :
                  Len(queue[r]) + 1 <= k /\ Tight(t)' /\ Pending(t)' => Before(D, r, k, t)'
           /\ \A e \in AllEvents : \A m \in 0..recorded[e] :
                  Completed(e, m)' => \A t \in D[e][m] : Tight(t)' => ~Pending(t)'
<1>. /\ queue \in [Streams -> Seq(Operation)] /\ behind \in [Streams -> SUBSET (Buffers \X Nat)]
     /\ \A r \in Streams : Len(queue[r]) \in Nat
  BY LenProperties DEF Types
<1>1. ASSUME NEW t \in Buffers \X Nat, Tight(t)', Pending(t)',
             Tight(t) => t[2] <= recorded[t[1]]
      PROVE  Tight(t) /\ Pending(t)
  <2>1. Tight(t)
    BY <1>1 DEF Tight
  <2>2. t[2] \in Nat /\ recorded[t[1]] \in Nat
    BY RecordedIsMark DEF AllEvents
  <2>. QED  BY <1>1, <2>1, <2>2
<1>2. ASSUME NEW r \in Streams, NEW i \in 1..Len(queue[r]), queue[r][i].kind = "record",
             NEW t \in D[queue[r][i].on][queue[r][i].mark], Tight(t)', Pending(t)'
      PROVE  Before(D, r, i, t)'
  <2>1. PICK op : op = queue[r][i]
    OBVIOUS
  <2>2. op \in Operation /\ op.mark \in 0..recorded[op.on]
    BY <1>2, <2>1, ElementOfSeq DEF MarksAreOld, IsOld
  <2>3. op.on \in AllEvents /\ op.mark \in Marks /\ t \in C[op.on][op.mark]
    BY <1>2, <2>1, <2>2, RecordedIsMark DEF Operation
  <2>4. t \in Buffers \X Nat /\ (Tight(t) => t[2] <= recorded[t[1]])
    BY <2>3, TablesTyped DEF Ordered, TableIsOld
  <2>5. Tight(t) /\ Pending(t)
    BY <1>1, <1>2, <2>4
  <2>6. Before(C, r, i, t)
    BY <1>2, <2>1, <2>3, <2>5 DEF Ordered, RecordsAreBehind
  <2>7. i \in Nat /\ i <= Len(queue[r]) + 1 /\ i <= i
    OBVIOUS
  <2>. QED  BY <2>6, <2>7, StillBefore
<1>3. ASSUME NEW r \in Streams, NEW t \in behind[r], NEW k \in Nat,
             Len(queue[r]) + 1 <= k, Tight(t)', Pending(t)'
      PROVE  Before(D, r, k, t)'
  <2>1. t \in Buffers \X Nat /\ (Tight(t) => t[2] <= recorded[t[1]])
    BY DEF Ordered, TableIsOld
  <2>2. Tight(t) /\ Pending(t)
    BY <1>1, <1>3, <2>1
  <2>3. Before(C, r, Len(queue[r]) + 1, t)
    BY <2>2 DEF Ordered, EndsAreBehind
  <2>4. PICK i \in Nat : i = Len(queue[r]) + 1
    OBVIOUS
  <2>5. Before(C, r, i, t) /\ i <= Len(queue[r]) + 1 /\ i <= k
    BY <1>3, <2>3, <2>4
  <2>. QED  BY <2>5, StillBefore
<1>4. ASSUME NEW e \in AllEvents, NEW m \in 0..recorded[e], Completed(e, m)',
             NEW t \in D[e][m], Tight(t)', Pending(t)'
      PROVE  FALSE
  <2>1. t \in C[e][m] /\ m \in Marks
    BY RecordedIsMark
  <2>2. t \in Buffers \X Nat /\ (Tight(t) => t[2] <= recorded[t[1]])
    BY <2>1, TablesTyped DEF Ordered, TableIsOld
  <2>3. Tight(t) /\ Pending(t)
    BY <1>1, <1>4, <2>2
  <2>4. Completed(e, m)
    BY <1>4, EnqueueGrows DEF Completed
  <2>. QED  BY <2>1, <2>3, <2>4 DEF Ordered, CompletedIsDone
<1>. QED  BY <1>2, <1>3, <1>4


-----------------------------------------------------------------------------
(* Every step has a table of its own.                                      *)

(* Where the operations of a longer queue are.                             *)
LEMMA NewPlaces ==
    ASSUME queue \in [Streams -> Seq(Operation)], NEW s \in Streams,
           NEW ops \in Seq(Operation), Enqueue(s, ops)
    PROVE  \A r \in Streams : \A i \in 1..Len(queue'[r]) :
               \/ i \in 1..Len(queue[r]) /\ queue'[r][i] = queue[r][i]
               \/ \E j \in 1..Len(ops) :
                     r = s /\ i = Len(queue[s]) + j /\ queue'[r][i] = ops[j]
<1>. SUFFICES ASSUME NEW r \in Streams, NEW i \in 1..Len(queue'[r])
              PROVE  \/ i \in 1..Len(queue[r]) /\ queue'[r][i] = queue[r][i]
                     \/ \E j \in 1..Len(ops) :
                           r = s /\ i = Len(queue[s]) + j /\ queue'[r][i] = ops[j]
  OBVIOUS
<1>1. CASE i \in 1..Len(queue[r])
  BY <1>1, EnqueueEffect
<1>2. CASE r = s /\ \E j \in 1..Len(ops) : i = Len(queue[s]) + j
  <2>1. PICK j \in 1..Len(ops) : i = Len(queue[s]) + j
    BY <1>2
  <2>2. queue'[s][Len(queue[s]) + j] = ops[j]
    BY EnqueueEffect
  <2>. QED  BY <1>2, <2>1, <2>2
<1>. QED  BY <1>1, <1>2, EnqueueEffect

(* Where an operation of the longer queue comes from.                      *)
LEMMA NewPlace ==
    ASSUME queue \in [Streams -> Seq(Operation)], NEW s \in Streams,
           NEW new \in Operation, Enqueue(s, <<new>>)
    PROVE  /\ \A r \in Streams : \A i \in 1..Len(queue'[r]) :
                  \/ i \in 1..Len(queue[r]) /\ queue'[r][i] = queue[r][i]
                  \/ r = s /\ i = Len(queue[s]) + 1 /\ queue'[r][i] = new
           /\ Len(queue'[s]) = Len(queue[s]) + 1
           /\ queue'[s][Len(queue[s]) + 1] = new
           /\ \A r \in Streams : /\ Len(queue[r]) \in Nat /\ Len(queue'[r]) \in Nat
                                 /\ Len(queue[r]) <= Len(queue'[r])
<1>. DEFINE ops == <<new>>
<1>1. /\ ops \in Seq(Operation) /\ Len(ops) = 1 /\ 1..Len(ops) = {1} /\ ops[1] = new
      /\ Enqueue(s, ops)
  OBVIOUS
<1>. HIDE DEF ops
<1>2. /\ \A r \in Streams : r # s => queue'[r] = queue[r]
      /\ \A r \in Streams : Len(queue[r]) \in Nat
      /\ Len(queue'[s]) = Len(queue[s]) + Len(ops)
      /\ \A j \in 1..Len(ops) : queue'[s][Len(queue[s]) + j] = ops[j]
  BY <1>1, EnqueueEffect
<1>3. \A r \in Streams : /\ Len(queue[r]) \in Nat /\ Len(queue'[r]) \in Nat
                         /\ Len(queue[r]) <= Len(queue'[r])
  <2>1. \A r \in Streams : Len(queue'[r]) = IF r = s THEN Len(queue[r]) + 1 ELSE Len(queue[r])
    BY <1>1, <1>2
  <2>. QED  BY <1>2, <2>1
<1>4. \A r \in Streams : \A i \in 1..Len(queue[r]) : queue'[r][i] = queue[r][i]
  BY <1>1, EnqueueEffect
<1>5. ASSUME NEW r \in Streams, NEW i \in 1..Len(queue'[r])
      PROVE  \/ i \in 1..Len(queue[r]) /\ queue'[r][i] = queue[r][i]
             \/ r = s /\ i = Len(queue[s]) + 1 /\ queue'[r][i] = new
  <2>1. queue'[s][Len(queue[s]) + 1] = new
    BY <1>1, <1>2
  <2>2. i \in 1..Len(queue[r]) \/ (r = s /\ i = Len(queue[s]) + 1)
    BY <1>1, <1>2
  <2>. QED  BY <1>4, <2>1, <2>2
<1>. QED  BY <1>1, <1>2, <1>3, <1>5

(* A recorded copy: the record is behind all that its stream was behind.   *)
LEMMA CopyAndRecordKeepsOrder ==
    ASSUME Types, MarksAreOld, NEW C \in Tables, Ordered(C),
           NEW p \in Buffers, NEW s \in Streams, NEW n, n = recorded[p] + 1, n \in Marks,
           Enqueue(s, CopyOps(p, n)), loose \subseteq loose',
           recorded' = [recorded EXCEPT ![p] = n],
           behind' = [behind EXCEPT ![s] = @ \cup {<<p, n>>}],
           carried' = [carried EXCEPT ![p] = behind'[s]]
    PROVE  \E D \in Tables : Ordered(D)'
<1>. DEFINE ops == CopyOps(p, n)
            last == behind[s] \cup {<<p, n>>}
<1>. PICK b : b = last
  OBVIOUS
<1>. DEFINE D == [C EXCEPT ![p][n] = b]
<1>1. /\ queue \in [Streams -> Seq(Operation)]
      /\ behind \in [Streams -> SUBSET (Buffers \X Nat)]
      /\ carried \in [AllEvents -> SUBSET (Buffers \X Nat)]
      /\ p \in AllEvents /\ n \in Nat /\ recorded[p] \in Nat /\ n > recorded[p]
  BY RecordedIsMark DEF Types, AllEvents, Marks
<1>2. /\ b \in SUBSET (Buffers \X Nat) /\ <<p, n>> \in Buffers \X Nat
      /\ behind'[s] = b /\ carried'[p] = b /\ \A t \in b : t \in behind[s] \/ t = <<p, n>>
      /\ \A r \in Streams : r # s => behind'[r] = behind[r]
      /\ \A e \in AllEvents : e # p => carried'[e] = carried[e] /\ recorded'[e] = recorded[e]
      /\ recorded'[p] = n
  BY <1>1 DEF Types
<1>3. /\ D \in Tables /\ D[p][n] = b
      /\ \A e \in AllEvents : \A m \in Marks : e # p \/ m # n => D[e][m] = C[e][m]
  BY <1>1, <1>2 DEF Tables
<1>4. \A e \in AllEvents : \A m \in 0..recorded[e] : m \in Marks /\ D[e][m] = C[e][m]
  BY <1>1, <1>3, RecordedIsMark
<1>5. /\ ops \in Seq(Operation) /\ Len(ops) = 2 /\ 1..Len(ops) = {1, 2}
      /\ ops[1] = Transfer(p, n) /\ ops[2] = Record(p, n)
      /\ Len(queue[s]) \in Nat /\ Len(queue'[s]) = Len(queue[s]) + 2
      /\ queue'[s][Len(queue[s]) + 1] = Transfer(p, n)
  <2>1. /\ ops \in Seq(Operation) /\ Len(ops) = 2 /\ 1..Len(ops) = {1, 2}
        /\ ops[1] = Transfer(p, n) /\ ops[2] = Record(p, n)
    BY <1>1, OperationsTyped DEF CopyOps
  <2>2. /\ Len(queue[s]) \in Nat /\ Len(queue'[s]) = Len(queue[s]) + Len(ops)
        /\ \A j \in 1..Len(ops) : queue'[s][Len(queue[s]) + j] = ops[j]
    BY <1>1, <2>1, EnqueueEffect
  <2>. QED  BY <2>1, <2>2
<1>6. \A t \in Buffers \X Nat :
          Tight(t)' /\ Pending(t)' => Pending(t) \/ t[2] > recorded[t[1]]
  <2>1. \A t : Pending(t)' => Pending(t) \/ CopyOf(t) = Transfer(p, n) \/ CopyOf(t) = Record(p, n)
    BY <1>1, EnqueueCopy DEF Pending, CopyOf
  <2>2. \A t : CopyOf(t) # Record(p, n)
    BY DEF CopyOf, Transfer, Record
  <2>3. \A t : CopyOf(t) = Transfer(p, n) => t[1] = p /\ t[2] = n
    BY DEF CopyOf, Transfer
  <2>. QED  BY <1>1, <2>1, <2>2, <2>3
<1>. HIDE DEF D, ops
<1>7. /\ \A r \in Streams : \A i \in 1..Len(queue[r]) : queue[r][i].kind = "record" =>
             \A t \in D[queue[r][i].on][queue[r][i].mark] :
                 Tight(t)' /\ Pending(t)' => Before(D, r, i, t)'
      /\ \A r \in Streams : \A t \in behind[r] : \A k \in Nat :
             Len(queue[r]) + 1 <= k /\ Tight(t)' /\ Pending(t)' => Before(D, r, k, t)'
      /\ \A e \in AllEvents : \A m \in 0..recorded[e] :
             Completed(e, m)' => \A t \in D[e][m] : Tight(t)' => ~Pending(t)'
  <2>. Enqueue(s, ops)
    BY DEF ops
  <2>. QED  BY <1>3, <1>4, <1>5, <1>6, OldOrdersKept
<1>8. \A t : Tight(t)' => Tight(t)
  BY DEF Tight
<1>9. \A t \in Buffers \X Nat : Tight(t) /\ t[2] <= recorded[t[1]] => t[2] <= recorded'[t[1]]
  <2>1. SUFFICES ASSUME NEW t \in Buffers \X Nat, t[2] <= recorded[t[1]]
                 PROVE  t[2] <= recorded'[t[1]]
    OBVIOUS
  <2>2. t[1] \in AllEvents /\ t[2] \in Nat
    BY DEF AllEvents
  <2>3. CASE t[1] = p
    BY <1>1, <1>2, <2>1, <2>2, <2>3
  <2>4. CASE t[1] # p
    BY <1>2, <2>1, <2>2, <2>4
  <2>. QED  BY <2>3, <2>4
<1>10. TableIsOld(D)'
  <2>1. \A e \in AllEvents : carried'[e] = D[e][recorded'[e]]
    <3>1. \A e \in AllEvents : e # p => D[e][recorded[e]] = C[e][recorded[e]]
      BY <1>3, RecordedIsMark
    <3>2. \A e \in AllEvents : carried[e] = C[e][recorded[e]]
      BY DEF Ordered, TableIsOld
    <3>3. ASSUME NEW e \in AllEvents, e # p
          PROVE  carried'[e] = D[e][recorded'[e]]
      <4>1. carried'[e] = carried[e] /\ recorded'[e] = recorded[e]
        BY <1>2, <3>3
      <4>. QED  BY <3>1, <3>2, <3>3, <4>1
    <3>4. carried'[p] = D[p][recorded'[p]]
      BY <1>2, <1>3
    <3>. QED  BY <3>3, <3>4
  <2>2. \A t \in b : Tight(t)' => t[2] <= recorded'[t[1]]
    <3>1. \A t \in behind[s] : Tight(t) => t[2] <= recorded[t[1]]
      BY DEF Ordered, TableIsOld
    <3>2. <<p, n>>[2] <= recorded'[<<p, n>>[1]]
      BY <1>1, <1>2
    <3>. QED  BY <1>1, <1>2, <1>8, <1>9, <3>1, <3>2
  <2>3. \A r \in Streams : \A t \in behind'[r] : Tight(t)' => t[2] <= recorded'[t[1]]
    <3>1. \A r \in Streams : \A t \in behind[r] :
              t \in Buffers \X Nat /\ (Tight(t) => t[2] <= recorded[t[1]])
      BY <1>1 DEF Ordered, TableIsOld
    <3>. QED  BY <1>2, <1>8, <1>9, <2>2, <3>1
  <2>4. \A e \in AllEvents : \A m \in Marks : \A t \in D[e][m] :
            Tight(t)' => t[2] <= recorded'[t[1]]
    <3>1. \A e \in AllEvents : \A m \in Marks : \A t \in C[e][m] :
              t \in Buffers \X Nat /\ (Tight(t) => t[2] <= recorded[t[1]])
      BY TablesTyped DEF Ordered, TableIsOld
    <3>. QED  BY <1>3, <1>8, <1>9, <2>2, <3>1
  <2>. QED  BY <2>1, <2>3, <2>4 DEF TableIsOld
<1>11. ASSUME NEW k \in Nat, Len(queue[s]) + 2 <= k, NEW t \in b, Tight(t)', Pending(t)'
       PROVE  Before(D, s, k, t)'
  <2>1. CASE t \in behind[s]
    BY <1>5, <1>7, <1>11, <2>1
  <2>2. CASE t = <<p, n>>
    <3>1. Len(queue[s]) + 1 \in 1..(k - 1)
      BY <1>5, <1>11
    <3>2. queue'[s][Len(queue[s]) + 1] = CopyOf(t)
      BY <1>5, <2>2 DEF CopyOf
    <3>. QED  BY <3>1, <3>2 DEF Before, Covers
  <2>. QED  BY <1>2, <2>1, <2>2
<1>12. RecordsAreBehind(D)'
  <2>1. SUFFICES ASSUME NEW r \in Streams, NEW i \in 1..Len(queue'[r]),
                        queue'[r][i].kind = "record",
                        NEW t \in D[queue'[r][i].on][queue'[r][i].mark],
                        Tight(t)', Pending(t)'
                 PROVE  Before(D, r, i, t)'
    BY DEF RecordsAreBehind
  <2>2. CASE i \in 1..Len(queue[r]) /\ queue'[r][i] = queue[r][i]
    BY <1>7, <2>1, <2>2
  <2>3. CASE r = s /\ i = Len(queue[s]) + 1 /\ queue'[r][i] = ops[1]
    BY <1>5, <2>1, <2>3 DEF Transfer
  <2>4. CASE r = s /\ i = Len(queue[s]) + 2 /\ queue'[r][i] = ops[2]
    <3>1. t \in b /\ i \in Nat /\ Len(queue[s]) + 2 <= i
      BY <1>3, <1>5, <2>1, <2>4 DEF Record
    <3>. QED  BY <1>11, <2>1, <2>4, <3>1
  <2>5. \/ i \in 1..Len(queue[r]) /\ queue'[r][i] = queue[r][i]
        \/ \E j \in 1..Len(ops) : r = s /\ i = Len(queue[s]) + j /\ queue'[r][i] = ops[j]
    BY <1>1, <1>5, NewPlaces DEF ops
  <2>. QED  BY <1>5, <2>2, <2>3, <2>4, <2>5
<1>13. EndsAreBehind(D)'
  <2>1. SUFFICES ASSUME NEW r \in Streams, NEW t \in behind'[r], Tight(t)', Pending(t)'
                 PROVE  Before(D, r, Len(queue[r]) + 1, t)'
    BY DEF EndsAreBehind
  <2>2. CASE r = s
    <3>1. /\ Len(queue'[s]) + 1 \in Nat /\ Len(queue[s]) + 2 <= Len(queue'[s]) + 1
          /\ t \in b
      BY <1>2, <1>5, <2>2
    <3>2. PICK k \in Nat : k = Len(queue'[s]) + 1
      BY <3>1
    <3>3. Before(D, s, k, t)'
      BY <1>11, <2>1, <3>1, <3>2
    <3>. QED  BY <2>2, <3>2, <3>3 DEF Before
  <2>3. CASE r # s
    <3>1. queue'[r] = queue[r] /\ t \in behind[r] /\ Len(queue[r]) \in Nat
      BY <1>1, <1>2, <2>3, LenProperties DEF Enqueue
    <3>2. PICK k \in Nat : k = Len(queue[r]) + 1
      BY <3>1
    <3>3. Before(D, r, k, t)' /\ k = Len(queue'[r]) + 1
      BY <1>7, <2>1, <3>1, <3>2
    <3>. QED  BY <3>3 DEF Before
  <2>. QED  BY <2>2, <2>3
<1>14. CompletedIsDone(D)'
  <2>1. SUFFICES ASSUME NEW e \in AllEvents, NEW m \in 0..recorded'[e], Completed(e, m)',
                        NEW t \in D[e][m], Tight(t)'
                 PROVE  ~Pending(t)'
    BY DEF CompletedIsDone
  <2>2. CASE m \in 0..recorded[e]
    BY <1>7, <2>1, <2>2
  <2>3. CASE m \notin 0..recorded[e]
    <3>1. e = p /\ m = n
      BY <1>1, <1>2, <2>3
    <3>2. Queued(Record(p, n))'
      BY <1>1, EnqueueCopy
    <3>. QED  BY <2>1, <3>1, <3>2 DEF Completed
  <2>. QED  BY <2>2, <2>3
<1>. QED  BY <1>3, <1>10, <1>12, <1>13, <1>14 DEF Ordered


(* A copy without a record: nothing is promised for its buffer any more.   *)
LEMMA CopyUnrecordedKeepsOrder ==
    ASSUME Types, MarksAreOld, NEW C \in Tables, Ordered(C),
           NEW p \in Buffers, NEW s \in Streams, NEW n \in Nat,
           Enqueue(s, <<Transfer(p, n)>>), loose \subseteq loose', p \in loose',
           UNCHANGED <<recorded, carried>>,
           behind' = [behind EXCEPT ![s] = @ \cup {<<p, n>>}]
    PROVE  Ordered(C)'
<1>1. /\ queue \in [Streams -> Seq(Operation)]
      /\ behind \in [Streams -> SUBSET (Buffers \X Nat)]
      /\ p \in AllEvents /\ Transfer(p, n) \in Operation /\ <<Transfer(p, n)>> \in Seq(Operation)
  BY OperationsTyped DEF Types, AllEvents
<1>2. /\ \A t : Tight(t)' => Tight(t)
      /\ \A r \in Streams : \A t \in behind'[r] : Tight(t)' => t \in behind[r]
  <2>1. ~Tight(<<p, n>>)'
    BY DEF Tight
  <2>. QED  BY <1>1, <2>1 DEF Tight
<1>3. \A t : Tight(t)' /\ Pending(t)' => Pending(t)
  <2>1. \A t : Pending(t)' => Pending(t) \/ CopyOf(t) = Transfer(p, n)
    BY <1>1, EnqueueOne DEF Pending, CopyOf
  <2>2. \A t : CopyOf(t) = Transfer(p, n) => t[1] = p
    BY DEF CopyOf, Transfer
  <2>. QED  BY <2>1, <2>2 DEF Tight
<1>4. /\ \A r \in Streams : \A i \in 1..Len(queue[r]) : queue[r][i].kind = "record" =>
             \A t \in C[queue[r][i].on][queue[r][i].mark] :
                 Tight(t)' /\ Pending(t)' => Before(C, r, i, t)'
      /\ \A r \in Streams : \A t \in behind[r] : \A k \in Nat :
             Len(queue[r]) + 1 <= k /\ Tight(t)' /\ Pending(t)' => Before(C, r, k, t)'
      /\ \A e \in AllEvents : \A m \in 0..recorded[e] :
             Completed(e, m)' => \A t \in C[e][m] : Tight(t)' => ~Pending(t)'
  BY <1>1, <1>3, OldOrdersKept
<1>5. TableIsOld(C)'
  BY <1>2 DEF Ordered, TableIsOld
<1>6. RecordsAreBehind(C)'
  <2>1. SUFFICES ASSUME NEW r \in Streams, NEW i \in 1..Len(queue'[r]),
                        queue'[r][i].kind = "record",
                        NEW t \in C[queue'[r][i].on][queue'[r][i].mark],
                        Tight(t)', Pending(t)'
                 PROVE  Before(C, r, i, t)'
    BY DEF RecordsAreBehind
  <2>2. queue'[r][i] # Transfer(p, n)
    BY <2>1 DEF Transfer
  <2>3. i \in 1..Len(queue[r]) /\ queue'[r][i] = queue[r][i]
    BY <1>1, <2>2, NewPlace
  <2>. QED  BY <1>4, <2>1, <2>3
<1>7. EndsAreBehind(C)'
  <2>1. SUFFICES ASSUME NEW r \in Streams, NEW t \in behind'[r], Tight(t)', Pending(t)'
                 PROVE  Before(C, r, Len(queue[r]) + 1, t)'
    BY DEF EndsAreBehind
  <2>2. Len(queue[r]) \in Nat /\ Len(queue'[r]) \in Nat /\ Len(queue[r]) <= Len(queue'[r])
    BY <1>1, NewPlace
  <2>3. PICK k \in Nat : k = Len(queue'[r]) + 1
    BY <2>2
  <2>4. Before(C, r, k, t)'
    BY <1>2, <1>4, <2>1, <2>2, <2>3
  <2>. QED  BY <2>3, <2>4 DEF Before
<1>8. CompletedIsDone(C)'
  BY <1>4 DEF CompletedIsDone
<1>. QED  BY <1>5, <1>6, <1>7, <1>8 DEF Ordered

(* A stream that waits for an event is behind what the event's last record *)
(* is behind: the wait is for that record, or the record is complete.      *)
LEMMA StreamWaitKeepsOrder ==
    ASSUME Types, MarksAreOld, NEW C \in Tables, Ordered(C),
           NEW e \in AllEvents, NEW s \in Streams, NEW n, n = recorded[e],
           Enqueue(s, <<Await(e, n)>>), UNCHANGED <<recorded, carried, loose>>,
           behind' = [behind EXCEPT ![s] = @ \cup carried[e]]
    PROVE  Ordered(C)'
<1>1. /\ queue \in [Streams -> Seq(Operation)]
      /\ behind \in [Streams -> SUBSET (Buffers \X Nat)]
      /\ n \in Nat /\ n \in Marks
      /\ Await(e, n) \in Operation /\ <<Await(e, n)>> \in Seq(Operation)
  BY RecordedIsMark, OperationsTyped DEF Types
<1>2. /\ \A t : Tight(t)' <=> Tight(t)
      /\ carried[e] = C[e][n]
      /\ \A t \in behind'[s] : t \in behind[s] \/ t \in C[e][n]
      /\ \A r \in Streams : r # s => behind'[r] = behind[r]
  BY <1>1 DEF Tight, Ordered, TableIsOld
<1>3. \A t : Pending(t)' => Pending(t)
  <2>1. \A t : Pending(t)' => Pending(t) \/ CopyOf(t) = Await(e, n)
    BY <1>1, EnqueueOne DEF Pending, CopyOf
  <2>2. \A t : CopyOf(t) # Await(e, n)
    BY DEF CopyOf, Transfer, Await
  <2>. QED  BY <2>1, <2>2
<1>4. /\ \A r \in Streams : \A i \in 1..Len(queue[r]) : queue[r][i].kind = "record" =>
             \A t \in C[queue[r][i].on][queue[r][i].mark] :
                 Tight(t)' /\ Pending(t)' => Before(C, r, i, t)'
      /\ \A r \in Streams : \A t \in behind[r] : \A k \in Nat :
             Len(queue[r]) + 1 <= k /\ Tight(t)' /\ Pending(t)' => Before(C, r, k, t)'
      /\ \A f \in AllEvents : \A m \in 0..recorded[f] :
             Completed(f, m)' => \A t \in C[f][m] : Tight(t)' => ~Pending(t)'
  BY <1>1, <1>3, OldOrdersKept
<1>5. TableIsOld(C)'
  <2>1. \A t \in C[e][n] : Tight(t) => t[2] <= recorded[t[1]]
    BY <1>1 DEF Ordered, TableIsOld
  <2>2. \A r \in Streams : \A t \in behind'[r] : Tight(t) => t[2] <= recorded[t[1]]
    BY <1>2, <2>1 DEF Ordered, TableIsOld
  <2>. QED  BY <1>2, <2>2 DEF Ordered, TableIsOld
<1>6. RecordsAreBehind(C)'
  <2>1. SUFFICES ASSUME NEW r \in Streams, NEW i \in 1..Len(queue'[r]),
                        queue'[r][i].kind = "record",
                        NEW t \in C[queue'[r][i].on][queue'[r][i].mark],
                        Tight(t)', Pending(t)'
                 PROVE  Before(C, r, i, t)'
    BY DEF RecordsAreBehind
  <2>2. queue'[r][i] # Await(e, n)
    BY <2>1 DEF Await
  <2>3. i \in 1..Len(queue[r]) /\ queue'[r][i] = queue[r][i]
    BY <1>1, <2>2, NewPlace
  <2>. QED  BY <1>4, <2>1, <2>3
<1>7. EndsAreBehind(C)'
  <2>1. SUFFICES ASSUME NEW r \in Streams, NEW t \in behind'[r], Tight(t)', Pending(t)'
                 PROVE  Before(C, r, Len(queue[r]) + 1, t)'
    BY DEF EndsAreBehind
  <2>2. Len(queue[r]) \in Nat /\ Len(queue'[r]) \in Nat /\ Len(queue[r]) <= Len(queue'[r])
    BY <1>1, NewPlace
  <2>3. PICK k \in Nat : k = Len(queue'[r]) + 1
    BY <2>2
  <2>4. CASE t \in behind[r]
    <3>1. Before(C, r, k, t)'
      BY <1>4, <2>1, <2>2, <2>3, <2>4
    <3>. QED  BY <2>3, <3>1 DEF Before
  <2>5. CASE r = s /\ t \in C[e][n]
    <3>1. Tight(t) /\ Pending(t)
      BY <1>2, <1>3, <2>1
    <3>2. Queued(Record(e, n))
      BY <1>1, <2>5, <3>1, RecordedIsMark DEF Ordered, CompletedIsDone, Completed
    <3>3. Queued(Record(e, n))'
      BY <1>1, <3>2, EnqueueOne
    <3>4. /\ Len(queue[s]) + 1 \in 1..((Len(queue'[s]) + 1) - 1)
          /\ queue'[s][Len(queue[s]) + 1] = Await(e, n)
      <4>1. /\ Len(queue'[s]) = Len(queue[s]) + 1
            /\ queue'[s][Len(queue[s]) + 1] = Await(e, n)
        BY <1>1, NewPlace
      <4>. QED  BY <1>1, <2>2, <2>5, <4>1
    <3>5. Covers(C, Await(e, n), t)'
      BY <2>5, <3>3 DEF Covers, Await
    <3>. QED  BY <2>5, <3>4, <3>5 DEF Before, Covers
  <2>. QED  BY <1>2, <2>1, <2>4, <2>5
<1>8. CompletedIsDone(C)'
  BY <1>4 DEF CompletedIsDone
<1>. QED  BY <1>5, <1>6, <1>7, <1>8 DEF Ordered


(* A caller's record is behind all that its stream was behind.             *)
LEMMA RecordEventKeepsOrder ==
    ASSUME Types, MarksAreOld, NEW C \in Tables, Ordered(C),
           NEW p \in AllEvents, NEW s \in Streams, NEW n, n = recorded[p] + 1, n \in Marks,
           Enqueue(s, <<Record(p, n)>>), UNCHANGED <<behind, loose>>,
           recorded' = [recorded EXCEPT ![p] = n],
           carried' = [carried EXCEPT ![p] = behind[s]]
    PROVE  \E D \in Tables : Ordered(D)'
<1>. PICK b : b = behind[s]
  OBVIOUS
<1>. DEFINE D == [C EXCEPT ![p][n] = b]
<1>1. /\ queue \in [Streams -> Seq(Operation)]
      /\ behind \in [Streams -> SUBSET (Buffers \X Nat)]
      /\ carried \in [AllEvents -> SUBSET (Buffers \X Nat)]
      /\ n \in Nat /\ recorded[p] \in Nat /\ n > recorded[p]
      /\ Record(p, n) \in Operation /\ <<Record(p, n)>> \in Seq(Operation)
  <2>1. n \in Nat /\ recorded[p] \in Nat /\ n > recorded[p]
    BY RecordedIsMark DEF Marks
  <2>. QED  BY <2>1, OperationsTyped DEF Types
<1>2. /\ b \in SUBSET (Buffers \X Nat) /\ b = behind[s] /\ carried'[p] = b
      /\ \A e \in AllEvents : e # p => carried'[e] = carried[e] /\ recorded'[e] = recorded[e]
      /\ recorded'[p] = n
      /\ \A t : Tight(t)' <=> Tight(t)
  BY <1>1 DEF Types, Tight
<1>3. /\ D \in Tables /\ D[p][n] = b
      /\ \A e \in AllEvents : \A m \in Marks : e # p \/ m # n => D[e][m] = C[e][m]
  BY <1>1, <1>2 DEF Tables
<1>4. \A e \in AllEvents : \A m \in 0..recorded[e] : m \in Marks /\ D[e][m] = C[e][m]
  BY <1>1, <1>3, RecordedIsMark
<1>5. \A t : Pending(t)' => Pending(t)
  <2>1. \A t : Pending(t)' => Pending(t) \/ CopyOf(t) = Record(p, n)
    BY <1>1, EnqueueOne DEF Pending, CopyOf
  <2>2. \A t : CopyOf(t) # Record(p, n)
    BY DEF CopyOf, Transfer, Record
  <2>. QED  BY <2>1, <2>2
<1>. HIDE DEF D
<1>6. /\ \A r \in Streams : \A i \in 1..Len(queue[r]) : queue[r][i].kind = "record" =>
             \A t \in D[queue[r][i].on][queue[r][i].mark] :
                 Tight(t)' /\ Pending(t)' => Before(D, r, i, t)'
      /\ \A r \in Streams : \A t \in behind[r] : \A k \in Nat :
             Len(queue[r]) + 1 <= k /\ Tight(t)' /\ Pending(t)' => Before(D, r, k, t)'
      /\ \A e \in AllEvents : \A m \in 0..recorded[e] :
             Completed(e, m)' => \A t \in D[e][m] : Tight(t)' => ~Pending(t)'
  <2>1. /\ loose \subseteq loose' /\ <<Record(p, n)>> \in Seq(Operation)
        /\ \A e \in AllEvents : \A m \in 0..recorded[e] : D[e][m] = C[e][m]
        /\ \A t \in Buffers \X Nat :
               Tight(t)' /\ Pending(t)' => Pending(t) \/ t[2] > recorded[t[1]]
    BY <1>1, <1>4, <1>5
  <2>. QED  BY <1>3, <2>1, OldOrdersKept
<1>7. \A t \in Buffers \X Nat : t[2] <= recorded[t[1]] => t[2] <= recorded'[t[1]]
  <2>1. SUFFICES ASSUME NEW t \in Buffers \X Nat, t[2] <= recorded[t[1]]
                 PROVE  t[2] <= recorded'[t[1]]
    OBVIOUS
  <2>2. t[1] \in AllEvents /\ t[2] \in Nat
    BY DEF AllEvents
  <2>3. CASE t[1] = p
    BY <1>1, <1>2, <2>1, <2>2, <2>3
  <2>4. CASE t[1] # p
    BY <1>2, <2>1, <2>2, <2>4
  <2>. QED  BY <2>3, <2>4
<1>8. TableIsOld(D)'
  <2>1. \A e \in AllEvents : carried'[e] = D[e][recorded'[e]]
    <3>1. \A e \in AllEvents : e # p => D[e][recorded[e]] = C[e][recorded[e]]
      BY <1>3, RecordedIsMark
    <3>2. \A e \in AllEvents : carried[e] = C[e][recorded[e]]
      BY DEF Ordered, TableIsOld
    <3>3. ASSUME NEW e \in AllEvents, e # p
          PROVE  carried'[e] = D[e][recorded'[e]]
      <4>1. carried'[e] = carried[e] /\ recorded'[e] = recorded[e]
        BY <1>2, <3>3
      <4>. QED  BY <3>1, <3>2, <3>3, <4>1
    <3>4. carried'[p] = D[p][recorded'[p]]
      BY <1>2, <1>3
    <3>. QED  BY <3>3, <3>4
  <2>2. \A r \in Streams : \A t \in behind[r] : Tight(t) => t[2] <= recorded'[t[1]]
    <3>1. \A r \in Streams : \A t \in behind[r] :
              t \in Buffers \X Nat /\ (Tight(t) => t[2] <= recorded[t[1]])
      BY <1>1 DEF Ordered, TableIsOld
    <3>. QED  BY <1>7, <3>1
  <2>3. \A e \in AllEvents : \A m \in Marks : \A t \in D[e][m] :
            Tight(t) => t[2] <= recorded'[t[1]]
    <3>1. \A e \in AllEvents : \A m \in Marks : \A t \in C[e][m] :
              t \in Buffers \X Nat /\ (Tight(t) => t[2] <= recorded[t[1]])
      BY TablesTyped DEF Ordered, TableIsOld
    <3>. QED  BY <1>2, <1>3, <1>7, <2>2, <3>1
  <2>. QED  BY <1>2, <2>1, <2>2, <2>3 DEF TableIsOld
<1>9. RecordsAreBehind(D)'
  <2>1. SUFFICES ASSUME NEW r \in Streams, NEW i \in 1..Len(queue'[r]),
                        queue'[r][i].kind = "record",
                        NEW t \in D[queue'[r][i].on][queue'[r][i].mark],
                        Tight(t)', Pending(t)'
                 PROVE  Before(D, r, i, t)'
    BY DEF RecordsAreBehind
  <2>2. CASE i \in 1..Len(queue[r]) /\ queue'[r][i] = queue[r][i]
    BY <1>6, <2>1, <2>2
  <2>3. CASE r = s /\ i = Len(queue[s]) + 1 /\ queue'[r][i] = Record(p, n)
    <3>1. t \in behind[s] /\ i \in Nat /\ Len(queue[s]) + 1 <= i
      BY <1>2, <1>3, <2>1, <2>3 DEF Record
    <3>. QED  BY <1>6, <2>1, <2>3, <3>1
  <2>. QED  BY <1>1, <2>2, <2>3, NewPlace
<1>10. EndsAreBehind(D)'
  <2>1. SUFFICES ASSUME NEW r \in Streams, NEW t \in behind[r], Tight(t)', Pending(t)'
                 PROVE  Before(D, r, Len(queue[r]) + 1, t)'
    BY DEF EndsAreBehind
  <2>2. Len(queue[r]) \in Nat /\ Len(queue'[r]) \in Nat /\ Len(queue[r]) <= Len(queue'[r])
    BY <1>1, NewPlace
  <2>3. PICK k \in Nat : k = Len(queue'[r]) + 1
    BY <2>2
  <2>4. Before(D, r, k, t)'
    BY <1>6, <2>1, <2>2, <2>3
  <2>. QED  BY <2>3, <2>4 DEF Before
<1>11. CompletedIsDone(D)'
  <2>1. SUFFICES ASSUME NEW e \in AllEvents, NEW m \in 0..recorded'[e], Completed(e, m)',
                        NEW t \in D[e][m], Tight(t)'
                 PROVE  ~Pending(t)'
    BY DEF CompletedIsDone
  <2>2. CASE m \in 0..recorded[e]
    BY <1>6, <2>1, <2>2
  <2>3. CASE m \notin 0..recorded[e]
    <3>1. e = p /\ m = n
      BY <1>1, <1>2, <2>3
    <3>2. Queued(Record(p, n))'
      BY <1>1, EnqueueOne
    <3>. QED  BY <2>1, <3>1, <3>2 DEF Completed
  <2>. QED  BY <2>2, <2>3
<1>. QED  BY <1>3, <1>8, <1>9, <1>10, <1>11 DEF Ordered

(* The oldest operation of a stream that runs was no transfer that is      *)
(* still pending, and no wait; if it was a record, nothing that it was     *)
(* behind is pending.                                                      *)
LEMMA StepCovers ==
    ASSUME Types, TransfersAreDistinct, NEW C \in Tables, Ordered(C),
           NEW s \in Streams, StreamStep(s), NEW t, Tight(t), Pending(t)'
    PROVE  /\ ~Covers(C, queue[s][1], t)
           /\ queue[s][1].kind = "record" => t \notin C[queue[s][1].on][queue[s][1].mark]
           /\ \A op : Covers(C, op, t) => Covers(C, op, t)'
<1>1. queue \in [Streams -> Seq(Operation)] /\ 1 \in 1..Len(queue[s]) /\ Pending(t)
  <2>1. queue \in [Streams -> Seq(Operation)]
    BY DEF Types
  <2>2. Len(queue[s]) \in Nat \ {0}
    BY <2>1, StepEffect
  <2>. QED  BY <2>1, <2>2, StepShrinks DEF Pending, CopyOf
<1>2. queue[s][1] # CopyOf(t)
  <2>1. SUFFICES ASSUME queue[s][1] = CopyOf(t)  PROVE FALSE
    OBVIOUS
  <2>2. PICK r \in Streams : \E i \in 1..Len(queue'[r]) : queue'[r][i] = CopyOf(t)
    BY DEF Pending, Queued, CopyOf
  <2>3. PICK i \in 1..Len(queue'[r]) : queue'[r][i] = CopyOf(t)
    BY <2>2
  <2>4. CopyOf(t).kind = "copy" /\ CopyOf(t).on \notin loose
    BY DEF CopyOf, Transfer, Tight
  <2>5. CASE r = s
    <3>1. i + 1 \in 1..Len(queue[s]) /\ queue[s][i + 1] = CopyOf(t)
      BY <1>1, <2>3, <2>5, StepEffect
    <3>2. 1 = i + 1
      BY <1>1, <2>1, <2>4, <3>1 DEF TransfersAreDistinct
    <3>. QED  BY <3>2
  <2>6. CASE r # s
    <3>1. i \in 1..Len(queue[r]) /\ queue[r][i] = CopyOf(t)
      BY <1>1, <2>3, <2>6, StepEffect
    <3>. QED  BY <1>1, <2>1, <2>4, <2>6, <3>1 DEF TransfersAreDistinct
  <2>. QED  BY <2>5, <2>6
<1>3. queue[s][1].kind = "wait" => ~Queued(Record(queue[s][1].on, queue[s][1].mark))
  BY <1>1, StepEffect DEF StreamStep, Completed
<1>4. queue[s][1].kind = "record" => t \notin C[queue[s][1].on][queue[s][1].mark]
  <2>1. ~Before(C, s, 1, t)
    BY DEF Before
  <2>. QED  BY <1>1, <2>1 DEF Ordered, RecordsAreBehind
<1>5. ASSUME NEW op, Covers(C, op, t)
      PROVE  Covers(C, op, t)'
  <2>1. CASE op = CopyOf(t)
    BY <2>1 DEF Covers, CopyOf, Transfer
  <2>2. CASE op.kind = "wait" /\ Queued(Record(op.on, op.mark)) /\ t \in C[op.on][op.mark]
    <3>1. Record(op.on, op.mark) # queue[s][1]
      BY <1>4, <2>2 DEF Record
    <3>2. Queued(Record(op.on, op.mark))'
      BY <1>1, <2>2, <3>1, StepShrinks
    <3>. QED  BY <2>2, <3>2 DEF Covers
  <2>. QED  BY <1>5, <2>1, <2>2 DEF Covers
<1>. QED  BY <1>2, <1>3, <1>4, <1>5 DEF Covers

(* Running the oldest operation of a stream keeps the order, with the same *)
(* table.                                                                  *)
LEMMA StepKeepsOrder ==
    ASSUME Types, TransfersAreDistinct, NEW C \in Tables, Ordered(C),
           NEW s \in Streams, StreamStep(s)
    PROVE  Ordered(C)'
<1>. DEFINE From(r, i) == IF r = s THEN i + 1 ELSE i
<1>1. /\ queue \in [Streams -> Seq(Operation)]
      /\ UNCHANGED <<recorded, behind, carried, loose>>
      /\ \A t : Tight(t)' <=> Tight(t)
      /\ \A t : Pending(t)' => Pending(t)
  BY StepShrinks DEF Types, StreamStep, Tight, Pending, CopyOf
<1>2. /\ \A r \in Streams : \A i \in 1..Len(queue'[r]) :
             From(r, i) \in 1..Len(queue[r]) /\ queue'[r][i] = queue[r][From(r, i)]
      /\ \A r \in Streams : /\ Len(queue[r]) \in Nat /\ Len(queue'[r]) \in Nat
                            /\ From(r, Len(queue'[r]) + 1) = Len(queue[r]) + 1
      /\ \A i \in 1..Len(queue'[s]) : queue'[s][i] = queue[s][i + 1]
      /\ \A r \in Streams : r # s => queue'[r] = queue[r]
  BY <1>1, StepEffect
<1>3. ASSUME NEW r \in Streams, NEW i \in Nat, i <= Len(queue'[r]) + 1,
             NEW t, Tight(t), Pending(t)', Before(C, r, From(r, i), t)
      PROVE  Before(C, r, i, t)'
  <2>1. PICK j \in 1..(From(r, i) - 1) : Covers(C, queue[r][j], t)
    BY <1>3 DEF Before
  <2>2. PICK op : op = queue[r][j]
    OBVIOUS
  <2>3. Covers(C, op, t)'
    BY <1>3, <2>1, <2>2, StepCovers
  <2>4. CASE r = s
    <3>1. j # 1
      BY <1>3, <2>1, <2>4, StepCovers
    <3>2. /\ j - 1 \in 1..(i - 1) /\ j - 1 \in 1..Len(queue'[s]) /\ (j - 1) + 1 = j
      BY <1>2, <1>3, <2>1, <2>4, <3>1
    <3>3. queue'[s][j - 1] = op
      BY <1>2, <2>2, <2>4, <3>2
    <3>. QED  BY <2>3, <2>4, <3>2, <3>3 DEF Before
  <2>5. CASE r # s
    <3>1. queue'[r][j] = op /\ j \in 1..(i - 1)
      BY <1>2, <2>1, <2>2, <2>5
    <3>. QED  BY <2>3, <3>1 DEF Before
  <2>. QED  BY <2>4, <2>5
<1>4. TableIsOld(C)'
  BY <1>1 DEF Ordered, TableIsOld
<1>5. RecordsAreBehind(C)'
  <2>1. SUFFICES ASSUME NEW r \in Streams, NEW i \in 1..Len(queue'[r]),
                        queue'[r][i].kind = "record",
                        NEW t \in C[queue'[r][i].on][queue'[r][i].mark],
                        Tight(t)', Pending(t)'
                 PROVE  Before(C, r, i, t)'
    BY DEF RecordsAreBehind
  <2>2. /\ From(r, i) \in 1..Len(queue[r]) /\ queue'[r][i] = queue[r][From(r, i)]
        /\ i \in Nat /\ i <= Len(queue'[r]) + 1
    BY <1>2
  <2>. HIDE DEF From
  <2>3. Before(C, r, From(r, i), t)
    BY <1>1, <2>1, <2>2 DEF Ordered, RecordsAreBehind
  <2>. QED  BY <1>1, <1>3, <2>1, <2>2, <2>3
<1>6. EndsAreBehind(C)'
  <2>1. SUFFICES ASSUME NEW r \in Streams, NEW t \in behind[r], Tight(t)', Pending(t)'
                 PROVE  Before(C, r, Len(queue[r]) + 1, t)'
    BY <1>1 DEF EndsAreBehind
  <2>2. PICK k \in Nat : k = Len(queue'[r]) + 1
    BY <1>2
  <2>3. Before(C, r, Len(queue[r]) + 1, t)
    BY <1>1, <2>1 DEF Ordered, EndsAreBehind
  <2>4. Before(C, r, From(r, k), t) /\ k <= Len(queue'[r]) + 1
    BY <1>2, <2>2, <2>3
  <2>5. Before(C, r, k, t)'
    BY <1>1, <1>3, <2>1, <2>4
  <2>. QED  BY <2>2, <2>5 DEF Before
<1>7. CompletedIsDone(C)'
  <2>1. SUFFICES ASSUME NEW e \in AllEvents, NEW m \in 0..recorded[e], Completed(e, m)',
                        NEW t \in C[e][m], Tight(t), Pending(t)'
                 PROVE  FALSE
    BY <1>1 DEF CompletedIsDone
  <2>2. CASE Completed(e, m)
    BY <1>1, <2>1, <2>2 DEF Ordered, CompletedIsDone
  <2>3. CASE ~Completed(e, m)
    <3>1. queue[s][1] = Record(e, m)
      BY <1>1, <2>1, <2>3, StepShrinks DEF Completed
    <3>. QED  BY <2>1, <3>1, StepCovers DEF Record
  <2>. QED  BY <2>2, <2>3
<1>. QED  BY <1>4, <1>5, <1>6, <1>7 DEF Ordered


(* A host call leaves the queues alone; buffers only become loose.         *)
LEMMA HostKeepsOrder ==
    ASSUME NEW C \in Tables, Ordered(C),
           UNCHANGED <<queue, recorded, behind, carried>>, loose \subseteq loose'
    PROVE  Ordered(C)'
<1>1. UNCHANGED <<queue, recorded, behind, carried>> /\ \A t : Tight(t)' => Tight(t)
  BY DEF Tight
<1>2. /\ \A op : Queued(op)' <=> Queued(op)
      /\ \A t : Pending(t)' <=> Pending(t)
      /\ \A e, m : Completed(e, m)' <=> Completed(e, m)
  BY <1>1 DEF Queued, Pending, CopyOf, Completed
<1>3. \A r, i, t : Before(C, r, i, t) => Before(C, r, i, t)'
  <2>1. \A op, t : Covers(C, op, t) => Covers(C, op, t)'
    BY <1>2 DEF Covers, CopyOf
  <2>. QED  BY <1>1, <2>1 DEF Before
<1>4. TableIsOld(C)'
  BY <1>1 DEF Ordered, TableIsOld
<1>5. RecordsAreBehind(C)'
  <2>1. SUFFICES ASSUME NEW r \in Streams, NEW i \in 1..Len(queue[r]),
                        queue[r][i].kind = "record",
                        NEW t \in C[queue[r][i].on][queue[r][i].mark],
                        Tight(t)', Pending(t)'
                 PROVE  Before(C, r, i, t)'
    BY <1>1 DEF RecordsAreBehind
  <2>. QED  BY <1>1, <1>2, <1>3, <2>1 DEF Ordered, RecordsAreBehind
<1>6. EndsAreBehind(C)'
  <2>1. SUFFICES ASSUME NEW r \in Streams, NEW t \in behind[r], Tight(t)', Pending(t)'
                 PROVE  Before(C, r, Len(queue[r]) + 1, t)'
    BY <1>1 DEF EndsAreBehind
  <2>2. PICK k : k = Len(queue[r]) + 1
    OBVIOUS
  <2>3. Before(C, r, k, t)'
    BY <1>1, <1>2, <1>3, <2>1, <2>2 DEF Ordered, EndsAreBehind
  <2>. QED  BY <1>1, <2>2, <2>3 DEF Before
<1>7. CompletedIsDone(C)'
  BY <1>1, <1>2 DEF Ordered, CompletedIsDone
<1>. QED  BY <1>4, <1>5, <1>6, <1>7 DEF Ordered

(* Every step keeps the order, with a table that has a new column at most. *)
LEMMA NextKeepsOrder ==
    ASSUME Counted, NEW C \in Tables, Ordered(C), Next
    PROVE  \E D \in Tables : Ordered(D)'
<1>. Types /\ MarksAreOld /\ TransfersAreDistinct /\ Buffers \subseteq AllEvents
     /\ Events \subseteq AllEvents
  BY DEF Counted, AllEvents
<1>1. ASSUME NEW p \in Buffers, NEW s \in Streams, Copy(p, s)
      PROVE  \E D \in Tables : Ordered(D)'
  <2>. PICK n : n = recorded[p] + 1
    OBVIOUS
  <2>1. /\ n \in Nat /\ n \in Marks /\ loose \subseteq loose'
        /\ behind' = [behind EXCEPT ![s] = @ \cup {<<p, n>>}]
        /\ \/ /\ Enqueue(s, CopyOps(p, n))
              /\ recorded' = [recorded EXCEPT ![p] = n]
              /\ carried' = [carried EXCEPT ![p] = behind'[s]]
           \/ /\ Enqueue(s, <<Transfer(p, n)>>)
              /\ p \in loose'
              /\ UNCHANGED <<recorded, carried>>
    BY <1>1, CopyEffect, BoundsAssumption DEF Marks
  <2>2. CASE /\ Enqueue(s, CopyOps(p, n))
             /\ recorded' = [recorded EXCEPT ![p] = n]
             /\ carried' = [carried EXCEPT ![p] = behind'[s]]
    BY <2>1, <2>2, CopyAndRecordKeepsOrder
  <2>3. CASE /\ Enqueue(s, <<Transfer(p, n)>>)
             /\ p \in loose'
             /\ UNCHANGED <<recorded, carried>>
    BY <2>1, <2>3, CopyUnrecordedKeepsOrder
  <2>. QED  BY <2>1, <2>2, <2>3
<1>2. ASSUME NEW e \in Events, NEW s \in Streams, RecordEvent(e, s)
      PROVE  \E D \in Tables : Ordered(D)'
  <2>. PICK n : n = recorded[e] + 1
    OBVIOUS
  <2>1. n \in Marks
    BY <1>2, RecordedIsMark, BoundsAssumption DEF RecordEvent, Marks
  <2>2. /\ Enqueue(s, <<Record(e, n)>>) /\ UNCHANGED <<behind, loose>>
        /\ recorded' = [recorded EXCEPT ![e] = n]
        /\ carried' = [carried EXCEPT ![e] = behind[s]]
    BY <1>2 DEF RecordEvent
  <2>. QED  BY <2>1, <2>2, RecordEventKeepsOrder
<1>3. ASSUME NEW e \in Events, NEW s \in Streams, StreamWait(s, e)
      PROVE  \E D \in Tables : Ordered(D)'
  <2>. PICK n : n = recorded[e]
    OBVIOUS
  <2>1. /\ Enqueue(s, <<Await(e, n)>>) /\ UNCHANGED <<recorded, carried, loose>>
        /\ behind' = [behind EXCEPT ![s] = @ \cup carried[e]]
    BY <1>3 DEF StreamWait
  <2>. QED  BY <2>1, StreamWaitKeepsOrder
<1>4. ASSUME NEW p \in Buffers, HostAccess(p)
      PROVE  \E D \in Tables : Ordered(D)'
  BY <1>4, HostEffect, HostKeepsOrder
<1>5. ASSUME NEW s \in Streams, StreamStep(s)
      PROVE  \E D \in Tables : Ordered(D)'
  BY <1>5, StepKeepsOrder
<1>. QED  BY <1>1, <1>2, <1>3, <1>4, <1>5 DEF Next

-----------------------------------------------------------------------------
(* Host access.                                                            *)

(* When the last record of a buffer's event is complete, so are all of its *)
(* transfers.                                                              *)
LEMMA CompletedIsIdle ==
    ASSUME Counted, NEW C \in Tables, Ordered(C),
           NEW p \in Buffers \ loose, Completed(p, recorded[p])
    PROVE  PendingTransfers(p) = {}
<1>1. p \in AllEvents /\ recorded[p] \in 0..recorded[p] /\ carried[p] = C[p][recorded[p]]
  BY RecordedIsMark DEF AllEvents, Counted, Ordered, TableIsOld
<1>2. ASSUME NEW t \in {p} \X (1..(MaxRecords + 1)), Queued(Transfer(t[1], t[2]))
      PROVE  FALSE
  <2>1. t \in carried[p] /\ Tight(t)
    <3>1. IsCarried(Transfer(t[1], t[2]))
      BY <1>2, CarriedIsOfQueued DEF Counted
    <3>2. t[1] = p /\ t = <<p, t[2]>>
      OBVIOUS
    <3>. QED  BY <3>1, <3>2 DEF IsCarried, Transfer, Tight
  <2>2. ~Pending(t)
    BY <1>1, <2>1 DEF Ordered, CompletedIsDone
  <2>. QED  BY <1>2, <2>2 DEF Pending, CopyOf
<1>. QED  BY <1>2 DEF PendingTransfers

(* When transfers only finish, a buffer without any stays without.         *)
LEMMA PendingShrinks ==
    ASSUME NEW p, \A n \in Nat : Queued(Transfer(p, n))' => Queued(Transfer(p, n))
    PROVE  PendingTransfers(p) = {} => PendingTransfers(p)' = {}
<1>1. \A n \in 1..(MaxRecords + 1) : n \in Nat
  BY BoundsAssumption
<1>. QED  BY <1>1 DEF PendingTransfers

(* Every step keeps host access exclusive: access waits for a record that  *)
(* is behind all transfers of the buffer.                                  *)
LEMMA AccessStaysExclusive ==
    ASSUME Counted, NEW C \in Tables, Ordered(C), HostAccessIsExclusive, Next
    PROVE  HostAccessIsExclusive'
<1>. Types /\ Buffers \subseteq AllEvents /\ Events \subseteq AllEvents
     /\ queue \in [Streams -> Seq(Operation)]
  BY DEF Counted, AllEvents, Types
<1>1. ASSUME loose \subseteq loose', access' = access,
             \A p \in Buffers : access[p] # "idle" =>
                 \A n \in Nat : Queued(Transfer(p, n))' => Queued(Transfer(p, n))
      PROVE  HostAccessIsExclusive'
  <2>1. SUFFICES ASSUME NEW p \in Buffers \ loose', access[p] \in {"inside", "freed"}
                 PROVE  PendingTransfers(p)' = {}
    BY <1>1 DEF HostAccessIsExclusive
  <2>2. PendingTransfers(p) = {}
    BY <1>1, <2>1 DEF HostAccessIsExclusive
  <2>. QED  BY <1>1, <2>1, <2>2, PendingShrinks
<1>2. ASSUME NEW p \in Buffers, NEW s \in Streams, Copy(p, s)
      PROVE  HostAccessIsExclusive'
  <2>. PICK n : n = recorded[p] + 1
    OBVIOUS
  <2>1. /\ n \in Nat /\ loose \subseteq loose' /\ access' = access /\ access[p] = "idle"
        /\ Enqueue(s, CopyOps(p, n)) \/ Enqueue(s, <<Transfer(p, n)>>)
    BY <1>2, CopyEffect DEF Copy
  <2>2. \A op : Queued(op)' => Queued(op) \/ op = Transfer(p, n) \/ op = Record(p, n)
    <3>1. CASE Enqueue(s, CopyOps(p, n))
      BY <2>1, <3>1, EnqueueCopy
    <3>2. CASE Enqueue(s, <<Transfer(p, n)>>)
      BY <2>1, <3>2, EnqueueOne, OperationsTyped
    <3>. QED  BY <2>1, <3>1, <3>2
  <2>3. \A q, m : q # p => Transfer(q, m) # Transfer(p, n) /\ Transfer(q, m) # Record(p, n)
    BY DEF Transfer, Record
  <2>. QED  BY <1>1, <2>1, <2>2, <2>3
<1>3. ASSUME NEW e \in Events, NEW s \in Streams, RecordEvent(e, s) \/ StreamWait(s, e)
      PROVE  HostAccessIsExclusive'
  <2>1. PICK n \in {recorded[e], recorded[e] + 1} :
            /\ Enqueue(s, <<Record(e, n)>>) \/ Enqueue(s, <<Await(e, n)>>)
            /\ UNCHANGED <<access, loose>>
    BY <1>3 DEF RecordEvent, StreamWait
  <2>2. n \in Nat
    BY RecordedIsMark
  <2>3. Record(e, n) \in Operation /\ Await(e, n) \in Operation
    BY <2>2, OperationsTyped
  <2>4. \A op : Queued(op)' => Queued(op) \/ op = Record(e, n) \/ op = Await(e, n)
    BY <2>1, <2>3, EnqueueOne
  <2>5. \A p, m : Transfer(p, m) # Record(e, n) /\ Transfer(p, m) # Await(e, n)
    BY DEF Transfer, Record, Await
  <2>. QED  BY <1>1, <2>1, <2>4, <2>5
<1>4. ASSUME NEW p \in Buffers, HostAccess(p)
      PROVE  HostAccessIsExclusive'
  <2>1. /\ loose \subseteq loose' /\ \A q \in Buffers : q # p => access'[q] = access[q]
        /\ \A q : PendingTransfers(q)' = PendingTransfers(q)
    <3>1. UNCHANGED queue /\ loose \subseteq loose'
      BY <1>4, HostEffect
    <3>2. \A q \in Buffers : q # p => access'[q] = access[q]
      BY <1>4 DEF HostAccess, BeginAccess, EnterAccess, AccessFails, LeaveAccess,
                  BeginDrop, FinishDrop, Types
    <3>. QED  BY <3>1, <3>2 DEF PendingTransfers, Queued
  <2>2. p \notin loose' /\ access'[p] \in {"inside", "freed"} => PendingTransfers(p) = {}
    <3>1. p \notin loose' /\ access'[p] \in {"inside", "freed"} => Completed(p, recorded[p])
      BY <1>4 DEF HostAccess, BeginAccess, EnterAccess, AccessFails, LeaveAccess,
                  BeginDrop, FinishDrop, Types
    <3>. QED  BY <2>1, <3>1, CompletedIsIdle
  <2>. QED  BY <2>1, <2>2 DEF HostAccessIsExclusive
<1>5. ASSUME NEW s \in Streams, StreamStep(s)
      PROVE  HostAccessIsExclusive'
  <2>1. loose \subseteq loose' /\ access' = access
    BY <1>5 DEF StreamStep
  <2>. QED  BY <1>1, <1>5, <2>1, StepShrinks
<1>. QED  BY <1>2, <1>3, <1>4, <1>5 DEF Next

-----------------------------------------------------------------------------
(* The theorems.                                                           *)

(* The invariant holds initially.                                          *)
LEMMA InitInv == Init => IInv
<1>. SUFFICES ASSUME Init PROVE IInv
  OBVIOUS
<1>1. /\ \A s \in Streams : queue[s] = <<>> /\ Len(queue[s]) = 0 /\ behind[s] = {}
      /\ \A op : ~Queued(op)
  <2>1. \A s \in Streams : queue[s] = <<>> /\ Len(queue[s]) = 0 /\ behind[s] = {}
    BY DEF Init
  <2>. QED  BY <2>1 DEF Queued
<1>2. Types
  <2>1. 0 \in Marks
    BY BoundsAssumption DEF Marks
  <2>. QED  BY <2>1 DEF Types, Init
<1>3. MarksAreOld /\ TransfersAreDistinct /\ LastIsBehindAll
  BY <1>1 DEF MarksAreOld, TransfersAreDistinct, LastIsBehindAll
<1>4. \E C \in Tables : Ordered(C)
  <2>. DEFINE C == [e \in AllEvents |-> [m \in Marks |-> {}]]
  <2>1. C \in Tables /\ \A e \in AllEvents : \A m \in Marks : C[e][m] = {}
    BY DEF Tables
  <2>. HIDE DEF C
  <2>2. TableIsOld(C)
    BY <1>1, <1>2, <2>1, RecordedIsMark DEF TableIsOld, Init
  <2>3. RecordsAreBehind(C) /\ EndsAreBehind(C)
    BY <1>1 DEF RecordsAreBehind, EndsAreBehind
  <2>4. CompletedIsDone(C)
    BY <1>2, <2>1, RecordedIsMark DEF CompletedIsDone
  <2>. QED  BY <2>1, <2>2, <2>3, <2>4 DEF Ordered
<1>5. HostAccessIsExclusive
  BY <1>1 DEF HostAccessIsExclusive, PendingTransfers
<1>. QED  BY <1>2, <1>3, <1>4, <1>5 DEF IInv, Counted

(* Every step keeps the invariant.                                         *)
LEMMA NextInv == IInv /\ [Next]_vars => IInv'
<1>. SUFFICES ASSUME IInv, [Next]_vars PROVE IInv'
  OBVIOUS
<1>. Types /\ Counted
  BY DEF IInv, Counted
<1>1. CASE Next
  <2>. PICK C \in Tables : Ordered(C)
    BY DEF IInv
  <2>1. Counted'
    BY <1>1, NextTyped, MarksStayOld, TransfersStayDistinct, LastStaysBehindAll DEF Counted
  <2>2. (\E D \in Tables : Ordered(D))'
    BY <1>1, NextKeepsOrder DEF Tables, AllEvents, Marks
  <2>3. HostAccessIsExclusive'
    BY <1>1, AccessStaysExclusive DEF IInv
  <2>. QED  BY <2>1, <2>2, <2>3 DEF IInv
<1>2. CASE UNCHANGED vars
  <2>1. Types' /\ MarksAreOld' /\ TransfersAreDistinct' /\ LastIsBehindAll'
    <3>1. Types'
      BY <1>2, NextTyped
    <3>2. MarksAreOld'
      BY <1>2 DEF vars, Counted, MarksAreOld, IsOld
    <3>3. TransfersAreDistinct'
      BY <1>2 DEF vars, Counted, TransfersAreDistinct
    <3>4. LastIsBehindAll'
      BY <1>2 DEF vars, Counted, LastIsBehindAll, IsCarried
    <3>. QED  BY <3>1, <3>2, <3>3, <3>4
  <2>2. (\E C \in Tables : Ordered(C))'
    <3>1. PICK C \in Tables : Ordered(C)
      BY DEF IInv
    <3>2. Ordered(C)'
      BY <1>2, <3>1, HostKeepsOrder DEF vars
    <3>. QED  BY <3>2 DEF Tables, AllEvents, Marks
  <2>3. HostAccessIsExclusive'
    BY <1>2 DEF vars, IInv, HostAccessIsExclusive, PendingTransfers, Queued
  <2>. QED  BY <2>1, <2>2, <2>3 DEF IInv, Counted
<1>. QED  BY <1>1, <1>2

(* The inductive invariant: there is a table of what each record of an     *)
(* event is behind, and every stream keeps to it.                          *)
THEOREM InductiveInvariant == Spec => []IInv
BY InitInv, NextInv, PTL DEF Spec

(* Every variable has its type: what streams queue are records, waits and  *)
(* copies, of buffers and of the callers' events.                          *)
THEOREM TypeCorrect == Spec => []TypeOK
<1>1. ASSUME IInv PROVE TypeOK
  <2>. Types /\ MarksAreOld
    BY <1>1 DEF IInv, Counted
  <2>1. ASSUME NEW s \in Streams, NEW i \in 1..Len(queue[s])
        PROVE  /\ queue[s][i].kind \in {"copy", "record", "wait"}
               /\ queue[s][i].on \in AllEvents
               /\ queue[s][i].mark \in Nat
    <3>1. queue[s][i] \in Operation
      BY ElementOfSeq DEF Types
    <3>. QED  BY <3>1 DEF Operation
  <2>2. recorded \in [AllEvents -> Nat]
    BY BoundsAssumption DEF Types, Marks
  <2>. QED  BY <2>1, <2>2 DEF TypeOK, Types
<1>. QED  BY <1>1, InductiveInvariant, PTL

(* Stream::copy_to_device and copy_to_host record the buffer's event after *)
(* the copy: while a transfer of the buffer is queued, so is the last      *)
(* record, for any number of streams that are ordered by events.           *)
THEOREM EventCovers == Spec => []EventCoversTransfers
<1>1. ASSUME IInv PROVE EventCoversTransfers
  <2>. PICK C \in Tables : Ordered(C)
    BY <1>1 DEF IInv
  <2>1. Counted
    BY <1>1 DEF IInv
  <2>. QED  BY <2>1, CompletedIsIdle DEF EventCoversTransfers
<1>. QED  BY <1>1, InductiveInvariant, PTL

(* with_slice, with_mut_slice and the drop of a pinned buffer wait for the *)
(* last record of its event only; no earlier transfer of the buffer is     *)
(* pending then, unless one of them was not recorded or not ordered.       *)
THEOREM AccessIsExclusive == Spec => []HostAccessIsExclusive
<1>1. IInv => HostAccessIsExclusive
  BY DEF IInv
<1>. QED  BY <1>1, InductiveInvariant, PTL
=============================================================================
