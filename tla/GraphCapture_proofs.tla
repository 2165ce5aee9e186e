------------------------- MODULE GraphCapture_proofs -------------------------
(* Theorems about GraphCapture, for every value of its constants.          *)
EXTENDS GraphCapture, SequenceTheorems, TLAPS

(* The stream s is taken by the capture call of g.                         *)
Takes(g, s) == state[g] = "capturing" /\ on[g] = s

(* The states of a call under way, or of a graph, that has a driver graph. *)
Going == {"capturing", "instantiating", "uploading", "live"}

(* A capture call under way and a live graph have a stream, and a driver   *)
(* graph that nothing else has; a call that has not begun has neither.     *)
HandlesAreDistinct ==
    /\ \A g \in Graphs : state[g] \in Going =>
           on[g] \in Streams /\ handle[g] \in Handles
    /\ \A g \in Graphs : handle[g] # NoHandle => handle[g] \in allocated
    /\ \A g, k \in Graphs :
           handle[g] = handle[k] /\ handle[g] # NoHandle => g = k

(* A stream captures just while one call has it, and for good after a call *)
(* that could not end its capture: the stream refuses later calls.         *)
CapturesAreCalls ==
    /\ \A g, k \in Graphs : \A s \in Streams : Takes(g, s) /\ Takes(k, s) => g = k
    /\ \A s \in Streams :
           capturing[s] # "none" <=> s \in leftOpen \/ \E g \in Graphs : Takes(g, s)
    /\ \A s \in leftOpen : \A g \in Graphs : ~Takes(g, s)

(* Resources are in one place: no two graphs, and no graph and the host,   *)
(* own the same buffer, and what a graph owns was not dropped.             *)
ResourcesAreExclusive ==
    \A g \in Graphs : \A b \in resources[g] :
        /\ life[b] = "owned"
        /\ \A other \in Graphs \ {g} : b \notin resources[other]

(* What a capture has taken so far is among the resources of its call, and *)
(* what its graph replays among those of the graph, except strays.         *)
WorkIsOwned ==
    /\ \A g \in Graphs :
           state[g] = "capturing" => captured[on[g]] \ resources[g] \subseteq strays
    /\ \A g \in Graphs :
           state[g] \in Going \ {"capturing"} => uses[g] \ resources[g] \subseteq strays

CaptureInv ==
    /\ TypeOK
    /\ HandlesAreDistinct
    /\ CapturesAreCalls
    /\ ResourcesAreExclusive
    /\ HandlesAreAccountedFor

OwnershipInv == CaptureInv /\ WorkIsOwned /\ ReplaysUseLiveMemory

-----------------------------------------------------------------------------
(* Type correctness.                                                       *)

(* A launch or a replay keeps the types of what it is queued or taken in.  *)
LEMMA SubmitTyped ==
    ASSUME TypeOK, NEW s \in Streams, NEW B \in SUBSET Buffers, Submit(s, B)
    PROVE  /\ queue' \in [Streams -> Seq(SUBSET Buffers)]
           /\ captured' \in [Streams -> SUBSET Buffers]
<1>1. queue[s] \in Seq(SUBSET Buffers) /\ captured[s] \in SUBSET Buffers
  BY DEF TypeOK
<1>2. Append(queue[s], B) \in Seq(SUBSET Buffers) /\ captured[s] \cup B \in SUBSET Buffers
  BY <1>1, AppendProperties
<1>3. \/ UNCHANGED queue
      \/ queue' = [queue EXCEPT ![s] = Append(queue[s], B)]
  BY DEF Submit, Enqueue
<1>4. \/ UNCHANGED captured
      \/ captured' = [captured EXCEPT ![s] = captured[s] \cup B]
  BY DEF Submit
<1>. QED  BY <1>2, <1>3, <1>4 DEF TypeOK

(* Dropping buffers keeps their type.                                      *)
LEMMA AbandonTyped ==
    ASSUME TypeOK, NEW B, Abandon(B)
    PROVE  life' \in [Buffers -> {"owned", "abandoned", "reclaimed"}]
BY DEF TypeOK, Abandon

(* A capture call keeps the types.                                         *)
LEMMA CaptureTyped ==
    ASSUME TypeOK, HandlesAreDistinct, NEW g \in Graphs, Capture(g)
    PROVE  TypeOK'
<1>. USE DEF graphVars
<1>1. ASSUME NEW s \in Streams, NEW R \in SUBSET Buffers, BeginCapture(g, s, R)
      PROVE  TypeOK'
  BY <1>1 DEF BeginCapture, TypeOK
<1>2. ASSUME NEW B \in SUBSET Buffers, CaptureLaunch(g, B)
      PROVE  TypeOK'
  <2>1. on[g] \in Streams /\ handle[g] \in Handles
    BY <1>2 DEF CaptureLaunch, HandlesAreDistinct, Going
  <2>2. /\ queue' \in [Streams -> Seq(SUBSET Buffers)]
        /\ captured' \in [Streams -> SUBSET Buffers]
    BY <1>2, <2>1, SubmitTyped DEF CaptureLaunch
  <2>3. nodes' \in SUBSET (Graphs \X Handles)
    BY <1>2, <2>1 DEF CaptureLaunch, TypeOK
  <2>. QED  BY <1>2, <2>2, <2>3 DEF CaptureLaunch, TypeOK
<1>3. ASSUME NEW b \in Buffers, CaptureDrop(g, b)
      PROVE  TypeOK'
  <2>1. resources' \in [Graphs -> SUBSET Buffers]
    BY <1>3 DEF CaptureDrop, TypeOK
  <2>2. /\ capturing' \in [Streams -> {"none", "active", "broken"}]
        /\ errorState' \in BOOLEAN
    <3>1. CASE UNCHANGED <<capturing, errorState>>
      BY <3>1 DEF TypeOK
    <3>2. CASE /\ capturing' = [s \in Streams |->
                     IF capturing[s] = "active" THEN "broken" ELSE capturing[s]]
               /\ errorState' = TRUE
      BY <3>2 DEF TypeOK
    <3>. QED  BY <1>3, <3>1, <3>2 DEF CaptureDrop
  <2>. QED  BY <1>3, <2>1, <2>2, AbandonTyped DEF CaptureDrop, TypeOK
<1>4. CASE EndUnbound(g)
  BY <1>4 DEF EndUnbound, Fail, TypeOK, HandlesAreDistinct, Going
<1>5. CASE EndFailed(g)
  BY <1>5 DEF EndFailed, Fail, TypeOK
<1>6. CASE EndCaptured(g)
  BY <1>6 DEF EndCaptured, TypeOK, HandlesAreDistinct, Going
<1>7. CASE Panic(g)
  BY <1>7, AbandonTyped DEF Panic, Fail, TypeOK, HandlesAreDistinct, Going
<1>8. CASE Instantiate(g)
  BY <1>8 DEF Instantiate, Destroy, Fail, TypeOK
<1>9. CASE Upload(g)
  BY <1>9 DEF Upload, Destroy, Fail, TypeOK
<1>. QED  BY <1>1, <1>2, <1>3, <1>4, <1>5, <1>6, <1>7, <1>8, <1>9 DEF Capture

(* So does a call on a graph.                                              *)
LEMMA GraphCallTyped ==
    ASSUME TypeOK, HandlesAreDistinct, NEW g \in Graphs, GraphCall(g)
    PROVE  TypeOK'
<1>. USE DEF graphVars
<1>1. CASE Replay(g)
  <2>1. on[g] \in Streams
    BY <1>1 DEF Replay, HandlesAreDistinct, Going
  <2>2. queue' \in [Streams -> Seq(SUBSET Buffers)]
    BY <1>1, <2>1, AppendProperties DEF Replay, Enqueue, TypeOK
  <2>. QED  BY <1>1, <2>2 DEF Replay, TypeOK
<1>2. CASE KernelNodes(g)
  BY <1>2 DEF KernelNodes, TypeOK, HandlesAreDistinct, Going
<1>3. ASSUME NEW n \in nodes, NEW old \in SUBSET Buffers,
             NEW new \in SUBSET Buffers, UpdateKernel(g, n, old, new)
      PROVE  TypeOK'
  BY <1>3 DEF UpdateKernel, TypeOK
<1>4. ASSUME NEW b \in Buffers, NEW c \in Buffers, NEW dropped \in BOOLEAN,
             WithResourcesMut(g, b, c, dropped)
      PROVE  TypeOK'
  <2>1. life' \in [Buffers -> {"owned", "abandoned", "reclaimed"}]
    BY <1>4, AbandonTyped DEF WithResourcesMut, TypeOK
  <2>. QED  BY <1>4, <2>1 DEF WithResourcesMut, TypeOK
<1>5. ASSUME NEW returned \in BOOLEAN, EndGraph(g, returned)
      PROVE  TypeOK'
  <2>1. life' \in [Buffers -> {"owned", "abandoned", "reclaimed"}]
    BY <1>5, AbandonTyped DEF EndGraph, TypeOK
  <2>. QED  BY <1>5, <2>1 DEF EndGraph, Destroy, TypeOK
<1>. QED  BY <1>1, <1>2, <1>3, <1>4, <1>5 DEF GraphCall

(* And every step.                                                         *)
LEMMA NextTyped ==
    ASSUME TypeOK, HandlesAreDistinct, [Next]_vars
    PROVE  TypeOK'
<1>. USE DEF graphVars
<1>1. ASSUME NEW g \in Graphs, Capture(g) \/ GraphCall(g)
      PROVE  TypeOK'
  BY <1>1, CaptureTyped, GraphCallTyped
<1>2. ASSUME NEW s \in Streams, NEW b \in Buffers, OtherLaunch(s, b)
      PROVE  TypeOK'
  BY <1>2, SubmitTyped DEF OtherLaunch, TypeOK
<1>3. ASSUME NEW b \in Buffers, DropBuffer(b) \/ Reclaim(b)
      PROVE  TypeOK'
  <2>1. life' \in [Buffers -> {"owned", "abandoned", "reclaimed"}]
    BY <1>3, AbandonTyped DEF DropBuffer, Reclaim, TypeOK
  <2>. QED  BY <1>3, <2>1 DEF DropBuffer, Reclaim, TypeOK
<1>4. CASE RecordError \/ ReportError
  BY <1>4 DEF RecordError, ReportError, TypeOK
<1>5. ASSUME NEW s \in Streams, StreamStep(s)
      PROVE  TypeOK'
  BY <1>5, HeadTailProperties DEF StreamStep, TypeOK
<1>6. CASE UNCHANGED vars
  BY <1>6 DEF vars, TypeOK
<1>. QED  BY <1>1, <1>2, <1>3, <1>4, <1>5, <1>6 DEF Next


-----------------------------------------------------------------------------
(* Captures and their driver graphs.                                       *)

(* What changes neither calls nor driver graphs keeps them right.          *)
LEMMA CapturesKept ==
    ASSUME UNCHANGED <<state, on, handle, allocated, executables, leftOpen>>
    PROVE  /\ HandlesAreDistinct => HandlesAreDistinct'
           /\ HandlesAreAccountedFor => HandlesAreAccountedFor'
           /\ CapturesAreCalls /\ UNCHANGED capturing => CapturesAreCalls'
BY DEF HandlesAreDistinct, HandlesAreAccountedFor, CapturesAreCalls, Takes

(* Every other step than the beginning and the end of a call.              *)
Elsewhere ==
    \/ \E g \in Graphs :
         \/ \E B \in SUBSET Buffers : CaptureLaunch(g, B)
         \/ Replay(g) \/ KernelNodes(g)
         \/ \E n \in nodes, old, new \in SUBSET Buffers : UpdateKernel(g, n, old, new)
         \/ \E b, c \in Buffers, dropped \in BOOLEAN : WithResourcesMut(g, b, c, dropped)
    \/ \E s \in Streams, b \in Buffers : OtherLaunch(s, b)
    \/ \E b \in Buffers : DropBuffer(b) \/ Reclaim(b)
    \/ RecordError \/ ReportError
    \/ \E s \in Streams : StreamStep(s)
    \/ UNCHANGED vars

(* The steps, those that touch no capture and no handle taken together.    *)
LEMMA NextCases ==
    ASSUME [Next]_vars
    PROVE  \/ \E g \in Graphs :
                \/ \E s \in Streams, R \in SUBSET Buffers : BeginCapture(g, s, R)
                \/ \E b \in Buffers : CaptureDrop(g, b)
                \/ EndUnbound(g) \/ EndFailed(g) \/ EndCaptured(g) \/ Panic(g)
                \/ Instantiate(g) \/ Upload(g)
                \/ \E returned \in BOOLEAN : EndGraph(g, returned)
           \/ Elsewhere
BY DEF Next, Capture, GraphCall, Elsewhere

(* What those leave alone.                                                 *)
LEMMA ElsewhereFrame ==
    ASSUME Elsewhere
    PROVE  UNCHANGED <<state, on, handle, allocated, executables, leftOpen, capturing>>
BY DEF Elsewhere, CaptureLaunch, Replay, KernelNodes, UpdateKernel,
       WithResourcesMut, OtherLaunch, DropBuffer, Reclaim, RecordError,
       ReportError, StreamStep, graphVars, vars

(* Driver graphs stay with one call each: a fresh one is nobody's, and one *)
(* that is destroyed was nobody else's.                                    *)
LEMMA NextKeepsHandles ==
    ASSUME TypeOK, HandlesAreDistinct, [Next]_vars
    PROVE  HandlesAreDistinct'
<1>. USE GraphConstants DEF HandlesAreDistinct, Going
<1>1. ASSUME NEW g \in Graphs, NEW s \in Streams, NEW R \in SUBSET Buffers,
             BeginCapture(g, s, R)
      PROVE  HandlesAreDistinct'
  <2>1. PICK h \in Handles \ allocated :
           handle' = [handle EXCEPT ![g] = h] /\ allocated' = allocated \cup {h}
    BY <1>1 DEF BeginCapture
  <2>2. /\ handle'[g] = h /\ \A k \in Graphs : k # g => handle'[k] = handle[k]
        /\ on'[g] = s /\ \A k \in Graphs : k # g => on'[k] = on[k] /\ state'[k] = state[k]
    BY <1>1, <2>1 DEF BeginCapture, TypeOK
  <2>. QED  BY <2>1, <2>2
<1>2. ASSUME NEW g \in Graphs, EndUnbound(g) \/ EndCaptured(g) \/ Panic(g)
      PROVE  HandlesAreDistinct'
  <2>1. /\ UNCHANGED <<on, handle, allocated>>
        /\ state[g] = "capturing" /\ \A k \in Graphs : k # g => state'[k] = state[k]
    BY <1>2 DEF EndUnbound, EndCaptured, Panic, Fail, TypeOK
  <2>. QED  BY <2>1
<1>3. ASSUME NEW g \in Graphs,
             EndFailed(g) \/ \E returned \in BOOLEAN : EndGraph(g, returned)
      PROVE  HandlesAreDistinct'
  <2>1. /\ UNCHANGED on /\ allocated' = allocated \ {handle[g]}
        /\ state[g] \in {"capturing", "live"} /\ state'[g] \in {"failed", "gone"}
        /\ handle'[g] = NoHandle
        /\ \A k \in Graphs : k # g => handle'[k] = handle[k] /\ state'[k] = state[k]
    BY <1>3 DEF EndFailed, EndGraph, Destroy, Fail, TypeOK
  <2>. QED  BY <2>1
<1>6. ASSUME NEW g \in Graphs, Instantiate(g) \/ Upload(g)
      PROVE  HandlesAreDistinct'
  <2>1. /\ state[g] \in Going /\ UNCHANGED on
        /\ \A k \in Graphs : k # g => handle'[k] = handle[k] /\ state'[k] = state[k]
        /\ \/ UNCHANGED <<handle, allocated>>
           \/ /\ allocated' = allocated \ {handle[g]} /\ state'[g] = "failed"
              /\ handle'[g] = NoHandle
    BY <1>6 DEF Instantiate, Upload, Destroy, Fail, TypeOK
  <2>. QED  BY <2>1
<1>4. ASSUME NEW g \in Graphs, NEW b \in Buffers, CaptureDrop(g, b)
      PROVE  HandlesAreDistinct'
  BY <1>4, CapturesKept DEF CaptureDrop, graphVars
<1>5. CASE Elsewhere
  BY <1>5, ElsewhereFrame, CapturesKept
<1>. QED  BY <1>1, <1>2, <1>3, <1>4, <1>5, <1>6, NextCases

(* Every driver graph that is left has a call that accounts for it.        *)
LEMMA NextAccounts ==
    ASSUME TypeOK, HandlesAreDistinct, HandlesAreAccountedFor, [Next]_vars
    PROVE  HandlesAreAccountedFor'
<1>. USE GraphConstants DEF HandlesAreAccountedFor
<1>. executables \subseteq Graphs
  BY DEF TypeOK
<1>1. ASSUME NEW g \in Graphs, NEW s \in Streams, NEW R \in SUBSET Buffers,
             BeginCapture(g, s, R)
      PROVE  HandlesAreAccountedFor'
  <2>1. PICK h \in Handles \ allocated :
           handle' = [handle EXCEPT ![g] = h] /\ allocated' = allocated \cup {h}
    BY <1>1 DEF BeginCapture
  <2>2. /\ handle'[g] = h /\ state[g] = "new" /\ state'[g] = "capturing"
        /\ \A k \in Graphs : k # g => /\ handle'[k] = handle[k] /\ state'[k] = state[k]
                                      /\ on'[k] = on[k]
        /\ leftOpen' = leftOpen /\ executables' = executables
    BY <1>1, <2>1 DEF BeginCapture, TypeOK
  <2>. QED  BY <2>1, <2>2
<1>2. ASSUME NEW g \in Graphs, EndUnbound(g) \/ EndCaptured(g) \/ Panic(g)
      PROVE  HandlesAreAccountedFor'
  <2>1. /\ UNCHANGED <<on, handle, allocated, executables>> /\ state[g] = "capturing"
        /\ \A k \in Graphs : k # g => state'[k] = state[k]
        /\ leftOpen \subseteq leftOpen'
        /\ state'[g] = "instantiating" \/ (state'[g] = "failed" /\ on[g] \in leftOpen')
    BY <1>2 DEF EndUnbound, EndCaptured, Panic, Fail, TypeOK
  <2>. QED  BY <2>1
<1>3. ASSUME NEW g \in Graphs,
             EndFailed(g) \/ \E returned \in BOOLEAN : EndGraph(g, returned)
      PROVE  HandlesAreAccountedFor'
  <2>1. /\ UNCHANGED <<on, leftOpen>> /\ allocated' = allocated \ {handle[g]}
        /\ executables' \subseteq executables
        /\ g \notin executables' \/ state[g] = "capturing"
        /\ \A k \in Graphs : k # g => handle'[k] = handle[k] /\ state'[k] = state[k]
    BY <1>3 DEF EndFailed, EndGraph, Destroy, Fail, TypeOK
  <2>. QED  BY <2>1
<1>6. ASSUME NEW g \in Graphs, Instantiate(g) \/ Upload(g)
      PROVE  HandlesAreAccountedFor'
  <2>1. /\ UNCHANGED <<on, leftOpen>>
        /\ \A k \in Graphs : k # g => handle'[k] = handle[k] /\ state'[k] = state[k]
        /\ \/ /\ UNCHANGED <<handle, allocated>> /\ state'[g] \in {"uploading", "live"}
              /\ executables' \subseteq executables \cup {g}
           \/ /\ allocated' = allocated \ {handle[g]}
              /\ executables' = executables \ {g}
    BY <1>6 DEF Instantiate, Upload, Destroy, Fail, TypeOK
  <2>. QED  BY <2>1
<1>4. ASSUME NEW g \in Graphs, NEW b \in Buffers, CaptureDrop(g, b)
      PROVE  HandlesAreAccountedFor'
  BY <1>4, CapturesKept DEF CaptureDrop, graphVars
<1>5. CASE Elsewhere
  BY <1>5, ElsewhereFrame, CapturesKept
<1>. QED  BY <1>1, <1>2, <1>3, <1>4, <1>5, <1>6, NextCases

(* A stream is taken by a call when it begins and let go when the call     *)
(* ends, or stays open.                                                    *)
LEMMA NextKeepsCalls ==
    ASSUME TypeOK, HandlesAreDistinct, CapturesAreCalls, [Next]_vars
    PROVE  CapturesAreCalls'
<1>. USE DEF CapturesAreCalls, Takes
<1>1. ASSUME NEW g \in Graphs, NEW s \in Streams, NEW R \in SUBSET Buffers,
             BeginCapture(g, s, R)
      PROVE  CapturesAreCalls'
  <2>1. /\ capturing[s] = "none" /\ capturing'[s] = "active"
        /\ \A r \in Streams : r # s => capturing'[r] = capturing[r]
        /\ state[g] = "new" /\ state'[g] = "capturing" /\ on'[g] = s
        /\ \A k \in Graphs : k # g => state'[k] = state[k] /\ on'[k] = on[k]
        /\ leftOpen' = leftOpen
    BY <1>1 DEF BeginCapture, TypeOK
  <2>2. s \notin leftOpen /\ \A k \in Graphs : ~Takes(k, s)
    BY <2>1
  <2>3. \A k \in Graphs, r \in Streams : Takes(k, r)' <=> Takes(k, r) \/ (k = g /\ r = s)
    BY <2>1
  <2>4. leftOpen \subseteq Streams
    BY DEF TypeOK
  <2>. QED  BY <2>1, <2>2, <2>3, <2>4
<1>2. ASSUME NEW g \in Graphs, EndUnbound(g) \/ Panic(g)
      PROVE  CapturesAreCalls'
  <2>1. /\ state[g] = "capturing" /\ state'[g] = "failed" /\ on[g] \in Streams
        /\ \A k \in Graphs : k # g => state'[k] = state[k]
        /\ UNCHANGED <<on, capturing>> /\ leftOpen' = leftOpen \cup {on[g]}
    BY <1>2 DEF EndUnbound, Panic, Fail, TypeOK, HandlesAreDistinct, Going
  <2>2. \A k \in Graphs, r \in Streams : Takes(k, r)' <=> Takes(k, r) /\ k # g
    BY <2>1
  <2>3. leftOpen \subseteq Streams
    BY DEF TypeOK
  <2>. QED  BY <2>1, <2>2, <2>3
<1>3. ASSUME NEW g \in Graphs, EndFailed(g) \/ EndCaptured(g)
      PROVE  CapturesAreCalls'
  <2>1. /\ state[g] = "capturing" /\ state'[g] \in {"failed", "instantiating"} /\ on[g] \in Streams
        /\ \A k \in Graphs : k # g => state'[k] = state[k]
        /\ UNCHANGED <<on, leftOpen>>
        /\ capturing' = [capturing EXCEPT ![on[g]] = "none"]
    BY <1>3 DEF EndFailed, EndCaptured, Fail, TypeOK, HandlesAreDistinct, Going
  <2>2. \A k \in Graphs, r \in Streams : Takes(k, r)' <=> Takes(k, r) /\ k # g
    BY <2>1
  <2>3. leftOpen \subseteq Streams /\ on[g] \notin leftOpen
    BY <2>1 DEF TypeOK
  <2>4. \A r \in Streams : capturing'[r] = IF r = on[g] THEN "none" ELSE capturing[r]
    BY <2>1 DEF TypeOK
  <2>. QED  BY <2>1, <2>2, <2>3, <2>4
<1>4. ASSUME NEW g \in Graphs,
             \/ Instantiate(g) \/ Upload(g)
             \/ \E returned \in BOOLEAN : EndGraph(g, returned)
      PROVE  CapturesAreCalls'
  <2>1. /\ state[g] # "capturing" /\ state'[g] # "capturing"
        /\ \A k \in Graphs : k # g => state'[k] = state[k]
        /\ UNCHANGED <<on, leftOpen, capturing>>
    BY <1>4 DEF EndGraph, Instantiate, Upload, Fail, TypeOK
  <2>. QED  BY <2>1
<1>5. ASSUME NEW g \in Graphs, NEW b \in Buffers, CaptureDrop(g, b)
      PROVE  CapturesAreCalls'
  <2>1. /\ UNCHANGED <<state, on, leftOpen>>
        /\ \A s \in Streams : capturing'[s] # "none" <=> capturing[s] # "none"
    BY <1>5 DEF CaptureDrop, graphVars, TypeOK
  <2>2. leftOpen \subseteq Streams
    BY DEF TypeOK
  <2>. QED  BY <2>1, <2>2
<1>6. CASE Elsewhere
  BY <1>6, ElsewhereFrame, CapturesKept
<1>. QED  BY <1>1, <1>2, <1>3, <1>4, <1>5, <1>6, NextCases


-----------------------------------------------------------------------------
(* Resources and memory.                                                   *)

(* Resources that go, or come from the host, leave the others exclusive.   *)
LEMMA ResourcesMove ==
    ASSUME TypeOK, ResourcesAreExclusive, NEW g \in Graphs, NEW R \in SUBSET Buffers,
           resources' = [resources EXCEPT ![g] = R],
           \A b \in R : b \in resources[g] \/ Owned(b),
           \A b \in R : life'[b] = life[b],
           \A b \in Buffers : life'[b] # life[b] => life[b] = "owned" /\
               (b \in resources[g] \/ \A k \in Graphs : b \notin resources[k])
    PROVE  ResourcesAreExclusive'
<1>1. /\ resources'[g] = R
      /\ \A k \in Graphs : k # g => resources'[k] = resources[k]
  BY DEF TypeOK
<1>2. \A k \in Graphs : resources[k] \subseteq Buffers
  BY DEF TypeOK
<1>3. ASSUME NEW k \in Graphs, NEW b \in resources'[k]
      PROVE  life'[b] = "owned"
  <2>1. CASE k = g
    BY <1>1, <1>3, <2>1 DEF ResourcesAreExclusive, Owned
  <2>2. CASE k # g
    BY <1>1, <1>2, <1>3, <2>2 DEF ResourcesAreExclusive
  <2>. QED  BY <2>1, <2>2
<1>4. ASSUME NEW k \in Graphs, NEW b \in resources'[k], NEW other \in Graphs \ {k}
      PROVE  b \notin resources'[other]
  BY <1>1, <1>4 DEF ResourcesAreExclusive, Owned
<1>. QED  BY <1>3, <1>4 DEF ResourcesAreExclusive

(* No step lets two owners have one buffer, or drops what a graph owns.    *)
LEMMA NextKeepsExclusive ==
    ASSUME TypeOK, ResourcesAreExclusive, [Next]_vars
    PROVE  ResourcesAreExclusive'
<1>1. ASSUME NEW g \in Graphs, NEW s \in Streams, NEW R \in SUBSET Buffers,
             BeginCapture(g, s, R)
      PROVE  ResourcesAreExclusive'
  BY <1>1, ResourcesMove DEF BeginCapture
<1>2. ASSUME NEW g \in Graphs, NEW b \in Buffers, CaptureDrop(g, b)
      PROVE  ResourcesAreExclusive'
  <2>1. /\ resources' = [resources EXCEPT ![g] = resources[g] \ {b}]
        /\ resources[g] \ {b} \in SUBSET Buffers
        /\ \A a \in Buffers : a # b => life'[a] = life[a]
        /\ b \in resources[g] /\ life[b] = "owned"
    BY <1>2 DEF CaptureDrop, Abandon, TypeOK, ResourcesAreExclusive
  <2>. QED  BY <2>1, ResourcesMove
<1>3. ASSUME NEW g \in Graphs,
             \/ EndUnbound(g) \/ EndFailed(g) \/ Panic(g)
             \/ \E returned \in BOOLEAN : EndGraph(g, returned)
      PROVE  ResourcesAreExclusive'
  <2>1. /\ resources' = [resources EXCEPT ![g] = {}]
        /\ \A a \in Buffers : life'[a] # life[a] => a \in resources[g]
    BY <1>3 DEF EndUnbound, EndFailed, Panic, EndGraph, Fail, Abandon, TypeOK
  <2>2. \A a \in Buffers : life'[a] # life[a] => life[a] = "owned" /\ a \in resources[g]
    BY <2>1 DEF ResourcesAreExclusive
  <2>3. {} \in SUBSET Buffers
    OBVIOUS
  <2>. QED  BY <2>1, <2>2, <2>3, ResourcesMove, Zenon
<1>4. ASSUME NEW g \in Graphs, NEW b \in Buffers, NEW c \in Buffers,
             NEW dropped \in BOOLEAN, WithResourcesMut(g, b, c, dropped)
      PROVE  ResourcesAreExclusive'
  <2>. DEFINE R == (resources[g] \ {b}) \cup {c}
  <2>1. /\ resources' = [resources EXCEPT ![g] = R]
        /\ b \in resources[g] /\ Owned(c)
        /\ \A a \in Buffers : a # b => life'[a] = life[a]
    BY <1>4 DEF WithResourcesMut, Abandon, TypeOK
  <2>2. R \in SUBSET Buffers /\ life[b] = "owned" /\ c # b
    BY <2>1 DEF TypeOK, Owned, ResourcesAreExclusive
  <2>3. \A a \in R : (a \in resources[g] \/ Owned(a)) /\ life'[a] = life[a]
    BY <2>1, <2>2
  <2>4. \A a \in Buffers : life'[a] # life[a] => life[a] = "owned" /\ a \in resources[g]
    BY <2>1, <2>2
  <2>. HIDE DEF R
  <2>. QED  BY <2>1, <2>2, <2>3, <2>4, ResourcesMove
<1>5. ASSUME NEW b \in Buffers, DropBuffer(b)
      PROVE  ResourcesAreExclusive'
  BY <1>5 DEF DropBuffer, Abandon, Owned, ResourcesAreExclusive, TypeOK
<1>6. ASSUME NEW b \in Buffers, Reclaim(b)
      PROVE  ResourcesAreExclusive'
  BY <1>6 DEF Reclaim, ResourcesAreExclusive, TypeOK
<1>7. ASSUME UNCHANGED <<resources, life>>
      PROVE  ResourcesAreExclusive'
  BY <1>7 DEF ResourcesAreExclusive
<1>10. ASSUME NEW g \in Graphs, Instantiate(g) \/ Upload(g)
      PROVE  ResourcesAreExclusive'
  <2>1. CASE UNCHANGED <<resources, life>>
    BY <1>7, <2>1
  <2>2. CASE resources' = [resources EXCEPT ![g] = {}] /\ life' = life
    BY <2>2 DEF ResourcesAreExclusive, TypeOK
  <2>. QED  BY <1>10, <2>1, <2>2 DEF Instantiate, Upload, Fail
<1>8. ASSUME NEW g \in Graphs,
             \/ \E B \in SUBSET Buffers : CaptureLaunch(g, B)
             \/ EndCaptured(g) \/ Replay(g) \/ KernelNodes(g)
             \/ \E n \in nodes, old, new \in SUBSET Buffers :
                    UpdateKernel(g, n, old, new)
      PROVE  ResourcesAreExclusive'
  BY <1>7, <1>8 DEF CaptureLaunch, EndCaptured, Replay, KernelNodes, UpdateKernel
<1>9. ASSUME \/ \E s \in Streams : StreamStep(s) \/ \E b \in Buffers : OtherLaunch(s, b)
             \/ RecordError \/ ReportError \/ UNCHANGED vars
      PROVE  ResourcesAreExclusive'
  BY <1>7, <1>9 DEF StreamStep, OtherLaunch, RecordError, ReportError, vars
<1>. QED  BY <1>1, <1>2, <1>3, <1>4, <1>5, <1>6, <1>8, <1>9, <1>10
          DEF Next, Capture, GraphCall

(* What a capture takes beyond its resources is astray, and so is what an  *)
(* exchange takes out of a graph that uses it: the rest stays owned.       *)
LEMMA NextKeepsWork ==
    ASSUME CaptureInv, WorkIsOwned, [Next]_vars
    PROVE  WorkIsOwned'
<1>. USE DEF WorkIsOwned, Going
<1>. TypeOK /\ HandlesAreDistinct /\ CapturesAreCalls
  BY DEF CaptureInv
<1>0. ASSUME UNCHANGED <<state, on, captured, resources, uses>>, strays \subseteq strays'
      PROVE  WorkIsOwned'
  BY <1>0
<1>1. ASSUME NEW g \in Graphs, NEW s \in Streams, NEW R \in SUBSET Buffers,
             BeginCapture(g, s, R)
      PROVE  WorkIsOwned'
  <2>1. /\ state'[g] = "capturing" /\ on'[g] = s /\ captured'[s] = {}
        /\ capturing[s] = "none" /\ uses' = uses /\ strays' = strays
        /\ \A r \in Streams : r # s => captured'[r] = captured[r]
        /\ \A k \in Graphs : k # g => /\ state'[k] = state[k] /\ on'[k] = on[k]
                                      /\ resources'[k] = resources[k]
    BY <1>1 DEF BeginCapture, TypeOK
  <2>2. ASSUME NEW k \in Graphs, k # g, state[k] = "capturing"
        PROVE  on[k] # s /\ on[k] \in Streams
    BY <2>1, <2>2 DEF CapturesAreCalls, Takes, HandlesAreDistinct
  <2>. QED  BY <2>1, <2>2
<1>2. ASSUME NEW g \in Graphs, NEW B \in SUBSET Buffers, CaptureLaunch(g, B)
      PROVE  WorkIsOwned'
  <2>1. /\ state[g] = "capturing" /\ B \subseteq resources[g] /\ on[g] \in Streams
        /\ UNCHANGED <<state, on, uses, resources, strays>>
        /\ \/ captured' = captured
           \/ captured' = [captured EXCEPT ![on[g]] = captured[on[g]] \cup B]
    BY <1>2 DEF CaptureLaunch, Submit, graphVars, HandlesAreDistinct
  <2>2. \A k \in Graphs : state[k] = "capturing" /\ k # g => on[k] # on[g]
    BY <2>1 DEF CapturesAreCalls, Takes
  <2>3. ASSUME NEW k \in Graphs, state[k] = "capturing"
        PROVE  captured'[on[k]] \ resources[k] \subseteq strays
    <3>1. captured \in [Streams -> SUBSET Buffers] /\ on[k] \in Streams
      BY <2>3 DEF TypeOK, HandlesAreDistinct
    <3>2. CASE k = g
      BY <2>1, <2>3, <3>1, <3>2
    <3>3. CASE k # g
      <4>1. on[k] # on[g]
        BY <2>2, <2>3, <3>3
      <4>. QED  BY <2>1, <2>3, <3>1, <4>1
    <3>. QED  BY <3>2, <3>3
  <2>. QED  BY <2>1, <2>3
<1>3. ASSUME NEW g \in Graphs, NEW b \in Buffers, CaptureDrop(g, b)
      PROVE  WorkIsOwned'
  <2>1. /\ UNCHANGED <<state, on, captured, uses>> /\ state[g] = "capturing"
        /\ resources'[g] = resources[g] \ {b}
        /\ \A k \in Graphs : k # g => resources'[k] = resources[k]
        /\ strays \subseteq strays' /\ (b \in captured[on[g]] => b \in strays')
    BY <1>3 DEF CaptureDrop, graphVars, TypeOK
  <2>. QED  BY <2>1
<1>4. ASSUME NEW g \in Graphs,
             \/ EndUnbound(g) \/ EndFailed(g) \/ Panic(g) \/ EndCaptured(g)
             \/ Instantiate(g) \/ Upload(g)
             \/ \E returned \in BOOLEAN : EndGraph(g, returned)
      PROVE  WorkIsOwned'
  <2>1. /\ state[g] \in Going /\ state'[g] # "capturing" /\ on' = on /\ strays' = strays
        /\ \A k \in Graphs : k # g => /\ state'[k] = state[k] /\ uses'[k] = uses[k]
                                      /\ resources'[k] = resources[k]
        /\ \A s \in Streams : captured'[s] = captured[s] \/ captured'[s] = {}
        /\ \/ state'[g] \in {"failed", "gone"}
           \/ /\ state[g] = "capturing" /\ uses'[g] = captured[on[g]]
              /\ resources'[g] = resources[g]
           \/ /\ state[g] # "capturing" /\ uses'[g] = uses[g]
              /\ resources'[g] = resources[g]
    BY <1>4 DEF EndUnbound, EndFailed, Panic, EndCaptured, Instantiate, Upload,
                Destroy, EndGraph, Fail, TypeOK
  <2>2. \A k \in Graphs : state[k] = "capturing" => on[k] \in Streams
    BY DEF HandlesAreDistinct
  <2>. QED  BY <2>1, <2>2
<1>5. ASSUME NEW g \in Graphs, NEW n \in nodes, NEW old \in SUBSET Buffers,
             NEW new \in SUBSET Buffers, UpdateKernel(g, n, old, new)
      PROVE  WorkIsOwned'
  <2>1. /\ UNCHANGED <<state, on, captured, resources, strays>>
        /\ new \subseteq resources[g] /\ state[g] = "live"
        /\ uses'[g] = (uses[g] \ old) \cup new
        /\ \A k \in Graphs : k # g => uses'[k] = uses[k]
    BY <1>5 DEF UpdateKernel, TypeOK
  <2>. QED  BY <2>1
<1>6. ASSUME NEW g \in Graphs, NEW b \in Buffers, NEW c \in Buffers,
             NEW dropped \in BOOLEAN, WithResourcesMut(g, b, c, dropped)
      PROVE  WorkIsOwned'
  <2>1. /\ UNCHANGED <<state, on, captured, uses>> /\ state[g] = "live"
        /\ resources'[g] = (resources[g] \ {b}) \cup {c}
        /\ \A k \in Graphs : k # g => resources'[k] = resources[k]
        /\ strays \subseteq strays' /\ (b \in uses[g] => b \in strays')
    BY <1>6 DEF WithResourcesMut, TypeOK, graphVars
  <2>. QED  BY <2>1
<1>7. ASSUME NEW s \in Streams, NEW b \in Buffers, OtherLaunch(s, b)
      PROVE  WorkIsOwned'
  <2>1. /\ UNCHANGED <<state, on, uses, resources>> /\ strays \subseteq strays'
        /\ \/ captured' = captured
           \/ captured' = [captured EXCEPT ![s] = captured[s] \cup {b}] /\ b \in strays'
    BY <1>7 DEF OtherLaunch, Submit, graphVars
  <2>2. captured \in [Streams -> SUBSET Buffers]
    BY DEF TypeOK
  <2>. QED  BY <2>1, <2>2 DEF HandlesAreDistinct
<1>8. ASSUME \/ \E g \in Graphs : Replay(g) \/ KernelNodes(g)
             \/ \E b \in Buffers : DropBuffer(b) \/ Reclaim(b)
             \/ \E s \in Streams : StreamStep(s)
             \/ RecordError \/ ReportError \/ UNCHANGED vars
      PROVE  WorkIsOwned'
  BY <1>0, <1>8 DEF Replay, KernelNodes, DropBuffer, Reclaim, StreamStep,
                    RecordError, ReportError, graphVars, vars
<1>. QED  BY <1>1, <1>2, <1>3, <1>4, <1>5, <1>6, <1>7, <1>8
          DEF Next, Capture, GraphCall


(* What is astray stays so.                                                *)
LEMMA StraysStay ==
    ASSUME [Next]_vars
    PROVE  strays \subseteq strays'
<1>1. ASSUME NEW g \in Graphs, Capture(g)
      PROVE  strays \subseteq strays'
  BY <1>1 DEF Capture, BeginCapture, CaptureLaunch, CaptureDrop, EndUnbound,
              EndFailed, EndCaptured, Instantiate, Upload, Panic
<1>2. ASSUME NEW g \in Graphs, GraphCall(g)
      PROVE  strays \subseteq strays'
  BY <1>2 DEF GraphCall, Replay, KernelNodes, UpdateKernel, WithResourcesMut, EndGraph
<1>. QED  BY <1>1, <1>2 DEF Next, OtherLaunch, DropBuffer, Reclaim, RecordError,
                            ReportError, StreamStep, vars

(* Replays and launches are queued on buffers that are owned or astray,    *)
(* and a buffer is given back when none is queued on it.                   *)
LEMMA NextKeepsReplays ==
    ASSUME CaptureInv, WorkIsOwned, ReplaysUseLiveMemory, [Next]_vars
    PROVE  ReplaysUseLiveMemory'
<1>. TypeOK /\ HandlesAreDistinct /\ ResourcesAreExclusive
  BY DEF CaptureInv
<1>0. strays \subseteq strays'
  BY StraysStay
<1>. USE <1>0
<1>1. ASSUME queue' = queue,
             \A b \in Buffers : life'[b] = "reclaimed" => life[b] = "reclaimed" \/ ~Mentioned(b)
      PROVE  ReplaysUseLiveMemory'
  BY <1>1 DEF ReplaysUseLiveMemory, Mentioned
<1>2. ASSUME NEW s \in Streams, NEW B \in SUBSET Buffers, life' = life,
             Enqueue(s, B), \A b \in B : life[b] = "owned" \/ b \in strays
      PROVE  ReplaysUseLiveMemory'
  <2>1. /\ Len(queue'[s]) = Len(queue[s]) + 1 /\ queue'[s][Len(queue'[s])] = B
        /\ \A i \in 1..Len(queue[s]) : queue'[s][i] = queue[s][i]
        /\ \A r \in Streams : r # s => queue'[r] = queue[r]
        /\ Len(queue[s]) \in Nat
    BY <1>2, AppendProperties DEF Enqueue, TypeOK
  <2>2. ASSUME NEW b \in Buffers, Mentioned(b)'
        PROVE  Mentioned(b) \/ b \in B
    <3>1. PICK r \in Streams : \E i \in 1..Len(queue'[r]) : b \in queue'[r][i]
      BY <2>2 DEF Mentioned
    <3>2. PICK i \in 1..Len(queue'[r]) : b \in queue'[r][i]
      BY <3>1
    <3>3. CASE r # s
      BY <2>1, <3>2, <3>3 DEF Mentioned
    <3>4. CASE r = s
      <4>1. i \in 1..Len(queue[s]) \/ i = Len(queue'[s])
        BY <2>1, <3>4
      <4>. QED  BY <2>1, <3>2, <3>4, <4>1 DEF Mentioned
    <3>. QED  BY <3>3, <3>4
  <2>. QED  BY <1>2, <2>2 DEF ReplaysUseLiveMemory
<1>3. ASSUME NEW g \in Graphs, NEW B \in SUBSET Buffers, CaptureLaunch(g, B)
      PROVE  ReplaysUseLiveMemory'
  <2>1. on[g] \in Streams /\ \A b \in B : life[b] = "owned"
    BY <1>3 DEF CaptureLaunch, HandlesAreDistinct, ResourcesAreExclusive, Going
  <2>. QED  BY <1>1, <1>2, <1>3, <2>1 DEF CaptureLaunch, Submit
<1>4. ASSUME NEW g \in Graphs, Replay(g)
      PROVE  ReplaysUseLiveMemory'
  <2>1. /\ on[g] \in Streams /\ uses[g] \in SUBSET Buffers
        /\ \A b \in uses[g] : life[b] = "owned" \/ b \in strays
    BY <1>4 DEF Replay, HandlesAreDistinct, ResourcesAreExclusive, WorkIsOwned,
                TypeOK, Going
  <2>. QED  BY <1>2, <1>4, <2>1 DEF Replay
<1>5. ASSUME NEW s \in Streams, NEW b \in Buffers, OtherLaunch(s, b)
      PROVE  ReplaysUseLiveMemory'
  BY <1>1, <1>2, <1>5 DEF OtherLaunch, Submit, Owned
<1>6. ASSUME NEW s \in Streams, StreamStep(s)
      PROVE  ReplaysUseLiveMemory'
  <2>1. /\ Len(queue'[s]) = Len(queue[s]) - 1 /\ Len(queue[s]) \in Nat
        /\ \A i \in 1..Len(queue'[s]) : queue'[s][i] = queue[s][i + 1]
        /\ \A r \in Streams : r # s => queue'[r] = queue[r]
        /\ life' = life
    BY <1>6, HeadTailProperties DEF StreamStep, TypeOK
  <2>2. ASSUME NEW b \in Buffers, Mentioned(b)'
        PROVE  Mentioned(b)
    <3>. PICK r \in Streams : \E i \in 1..Len(queue'[r]) : b \in queue'[r][i]
      BY <2>2 DEF Mentioned
    <3>1. PICK i \in 1..Len(queue'[r]) : b \in queue'[r][i]
      OBVIOUS
    <3>2. CASE r # s
      <4>1. queue'[r] = queue[r]
        BY <2>1, <3>2
      <4>. QED  BY <3>1, <4>1 DEF Mentioned
    <3>3. CASE r = s
      <4>1. i + 1 \in 1..Len(queue[s]) /\ b \in queue[s][i + 1]
        BY <2>1, <3>1, <3>3
      <4>. QED  BY <4>1 DEF Mentioned
    <3>. QED  BY <3>2, <3>3
  <2>. QED  BY <2>1, <2>2 DEF ReplaysUseLiveMemory
<1>7. ASSUME NEW b \in Buffers, Reclaim(b)
      PROVE  ReplaysUseLiveMemory'
  BY <1>1, <1>7 DEF Reclaim, TypeOK
<1>8. ASSUME queue' = queue, life' = life \/ \E B : Abandon(B)
      PROVE  ReplaysUseLiveMemory'
  BY <1>1, <1>8 DEF Abandon
<1>9. ASSUME NEW g \in Graphs,
             \/ \E s \in Streams, R \in SUBSET Buffers : BeginCapture(g, s, R)
             \/ \E b \in Buffers : CaptureDrop(g, b)
             \/ EndUnbound(g) \/ EndFailed(g) \/ EndCaptured(g) \/ Panic(g)
             \/ Instantiate(g) \/ Upload(g)
      PROVE  ReplaysUseLiveMemory'
  BY <1>8, <1>9 DEF BeginCapture, CaptureDrop, EndUnbound, EndFailed,
                    EndCaptured, Panic, Instantiate, Upload
<1>10. ASSUME NEW g \in Graphs,
             \/ KernelNodes(g)
             \/ \E n \in nodes, old, new \in SUBSET Buffers : UpdateKernel(g, n, old, new)
             \/ \E b, c \in Buffers, dropped \in BOOLEAN : WithResourcesMut(g, b, c, dropped)
             \/ \E returned \in BOOLEAN : EndGraph(g, returned)
      PROVE  ReplaysUseLiveMemory'
  BY <1>8, <1>10 DEF KernelNodes, UpdateKernel, WithResourcesMut, EndGraph
<1>11. ASSUME \/ \E b \in Buffers : DropBuffer(b)
              \/ RecordError \/ ReportError \/ UNCHANGED vars
      PROVE  ReplaysUseLiveMemory'
  BY <1>8, <1>11 DEF DropBuffer, RecordError, ReportError, vars
<1>. QED  BY <1>3, <1>4, <1>5, <1>6, <1>7, <1>9, <1>10, <1>11
          DEF Next, Capture, GraphCall

-----------------------------------------------------------------------------
(* Whatever callers do, the state of captures, driver graphs and resources *)
(* stays consistent, for any number of streams, graphs, handles and        *)
(* buffers.                                                                *)
THEOREM InductiveInvariant == Spec => []CaptureInv
<1>1. Init => CaptureInv
  <2>. SUFFICES ASSUME Init PROVE CaptureInv
    OBVIOUS
  <2>1. TypeOK
    <3>1. queue \in [Streams -> Seq(SUBSET Buffers)]
      BY EmptySeq DEF Init
    <3>. QED  BY <3>1 DEF Init, TypeOK
  <2>2. HandlesAreDistinct
    BY DEF Init, HandlesAreDistinct, Going
  <2>3. CapturesAreCalls
    BY DEF Init, CapturesAreCalls, Takes
  <2>4. ResourcesAreExclusive /\ HandlesAreAccountedFor
    BY DEF Init, ResourcesAreExclusive, HandlesAreAccountedFor
  <2>. QED  BY <2>1, <2>2, <2>3, <2>4 DEF CaptureInv
<1>2. CaptureInv /\ [Next]_vars => CaptureInv'
  BY NextTyped, NextKeepsHandles, NextKeepsCalls, NextKeepsExclusive,
     NextAccounts DEF CaptureInv
<1>. QED  BY <1>1, <1>2, PTL DEF Spec

(* Every variable keeps its type: in particular every driver graph that    *)
(* exists, and every node, is of a real handle.                            *)
THEOREM TypeCorrect == Spec => []TypeOK
<1>1. CaptureInv => TypeOK
  BY DEF CaptureInv
<1>. QED  BY <1>1, InductiveInvariant, PTL

(* A stream captures only during a capture call, except where a call could *)
(* not end its capture.                                                    *)
THEOREM CapturesEnd == Spec => []CaptureEndsWithItsCall
<1>1. CaptureInv => CaptureEndsWithItsCall
  BY DEF CaptureInv, CapturesAreCalls, CaptureEndsWithItsCall, Takes
<1>. QED  BY <1>1, InductiveInvariant, PTL

(* No driver graph is lost by any way a call or a graph may end, except    *)
(* with a capture that could not be ended.                                 *)
THEOREM GraphsAreDestroyed == Spec => []HandlesAreAccountedFor
<1>1. CaptureInv => HandlesAreAccountedFor
  BY DEF CaptureInv
<1>. QED  BY <1>1, InductiveInvariant, PTL

(* The ownership of resources extends to the work that was captured.       *)
LEMMA OwnershipInvariant == Spec => []OwnershipInv
<1>1. Init => WorkIsOwned /\ ReplaysUseLiveMemory
  BY DEF Init, WorkIsOwned, ReplaysUseLiveMemory
<1>2. CaptureInv /\ WorkIsOwned /\ ReplaysUseLiveMemory /\ [Next]_vars
          => WorkIsOwned' /\ ReplaysUseLiveMemory'
  BY NextKeepsWork, NextKeepsReplays
<1>. QED  BY <1>1, <1>2, InductiveInvariant, PTL DEF Spec, OwnershipInv

(* What a live graph replays is in its resources, also after updates of    *)
(* its nodes, stale ones included, except for strays: what another         *)
(* thread's launch, a drop or an exchange put outside them.                *)
THEOREM WorkRetained == Spec => []WorkIsRetained
<1>1. OwnershipInv => WorkIsRetained
  BY DEF OwnershipInv, WorkIsOwned, WorkIsRetained, Going
<1>. QED  BY <1>1, OwnershipInvariant, PTL

(* And no replay or launch runs on memory that was given back, whenever    *)
(* its graph was destroyed, except on strays.                              *)
THEOREM ReplaysAreSafe == Spec => []ReplaysUseLiveMemory
<1>1. OwnershipInv => ReplaysUseLiveMemory
  BY DEF OwnershipInv
<1>. QED  BY <1>1, OwnershipInvariant, PTL
=============================================================================
