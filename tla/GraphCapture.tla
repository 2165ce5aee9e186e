----------------------------- MODULE GraphCapture -----------------------------
(***************************************************************************)
(* CUDA graphs: Stream::capture_or_recover and Graph of src/graph.rs over  *)
(* sys/src/platform/graph.rs.  A capture call takes a resource value, lets *)
(* an operation queue work on the capturing stream, and turns what was     *)
(* captured into a graph that owns the resources.  Replays are queued on   *)
(* the capture stream, kernel nodes are rebound through node handles, and  *)
(* the resources come back with the graph's end.                           *)
(*                                                                         *)
(* Memory is what SafeReclaim promises: a dropped buffer is given back     *)
(* when no queued work uses it.                                            *)
(***************************************************************************)
EXTENDS Naturals, Sequences

CONSTANTS
    Streams,  \* CUDA streams of one context
    Graphs,   \* identities of capture calls and the graphs they make
    Handles,  \* driver graph handles; a destroyed one is used again
    Buffers,  \* device allocations
    NoStream, \* a graph without a stream yet
    NoHandle, \* a graph without a driver graph
    MaxQueue, \* bound: replays and launches waiting on one stream
    Failures  \* whether driver calls and operations may fail or panic

ASSUME GraphConstants ==
    /\ NoStream \notin Streams
    /\ NoHandle \notin Handles
    /\ Failures \in BOOLEAN
    /\ MaxQueue \in Nat

VARIABLES
    capturing,   \* capture state of each stream: none, active or broken
    captured,    \* buffers used by the work captured on each stream so far
    state,       \* where each capture call, then its graph, is in its life
    on,          \* the stream of each capture
    handle,      \* the driver graph of each capture
    allocated,   \* driver graphs that exist
    executables, \* captures whose executable graph exists
    uses,        \* buffers the executable graph refers to
    resources,   \* buffers inside the resource value of a capture or graph
    nodes,       \* KernelNode values: <<the capture they come from, handle>>
    life,        \* owned, abandoned or reclaimed
    queue,       \* buffers used by each replay or launch not yet run
    errorState,  \* an error the context holds for its next caller
    leftOpen,    \* history: streams whose capture call returned without ending it
    strays       \* history: buffers that captured work uses without an owner in the graph

vars == <<capturing, captured, state, on, handle, allocated, executables, uses,
          resources, nodes, life, queue, errorState, leftOpen, strays>>

graphVars == <<state, on, handle, allocated, executables, uses>>

Owned(b) == life[b] = "owned" /\ \A g \in Graphs : b \notin resources[g]

Enqueue(s, B) ==
    /\ Len(queue[s]) < MaxQueue
    /\ queue' = [queue EXCEPT ![s] = Append(@, B)]

Abandon(B) == life' = [b \in Buffers |-> IF b \in B THEN "abandoned" ELSE life[b]]

Mentioned(b) == \E s \in Streams : \E i \in 1..Len(queue[s]) : b \in queue[s][i]

-----------------------------------------------------------------------------

Init ==
    /\ capturing   = [s \in Streams |-> "none"]
    /\ captured    = [s \in Streams |-> {}]
    /\ state       = [g \in Graphs |-> "new"]
    /\ on          = [g \in Graphs |-> NoStream]
    /\ handle      = [g \in Graphs |-> NoHandle]
    /\ allocated   = {}
    /\ executables = {}
    /\ uses        = [g \in Graphs |-> {}]
    /\ resources   = [g \in Graphs |-> {}]
    /\ nodes       = {}
    /\ life        = [b \in Buffers |-> "owned"]
    /\ queue       = [s \in Streams |-> <<>>]
    /\ errorState  = FALSE
    /\ leftOpen    = {}
    /\ strays      = {}

(* A capture that got no driver graph is taken for a capture (mutant).     *)
BeginNullCapture(g, s, R) ==
    /\ state[g] = "new"
    /\ \A b \in R : Owned(b)
    /\ ~errorState
    /\ capturing[s] = "none"
    /\ allocated' = allocated \cup {NoHandle}
    /\ state' = [state EXCEPT ![g] = "capturing"]
    /\ on' = [on EXCEPT ![g] = s]
    /\ resources' = [resources EXCEPT ![g] = R]
    /\ capturing' = [capturing EXCEPT ![s] = "active"]
    /\ captured' = [captured EXCEPT ![s] = {}]
    /\ UNCHANGED <<handle, executables, uses, nodes, life, queue, errorState,
                   leftOpen, strays>>

(* capture_or_recover with the resources R up to the operation.  A stream  *)
(* that already captures refuses; a refused call returns the resources.    *)
BeginCapture(g, s, R) ==
    /\ state[g] = "new"
    /\ \A b \in R : Owned(b)
    /\ ~errorState
    /\ capturing[s] = "none"
    /\ \E h \in Handles \ allocated :
        /\ handle' = [handle EXCEPT ![g] = h]
        /\ allocated' = allocated \cup {h}
    /\ state' = [state EXCEPT ![g] = "capturing"]
    /\ on' = [on EXCEPT ![g] = s]
    /\ resources' = [resources EXCEPT ![g] = R]
    /\ capturing' = [capturing EXCEPT ![s] = "active"]
    /\ captured' = [captured EXCEPT ![s] = {}]
    /\ UNCHANGED <<executables, uses, nodes, life, queue, errorState,
                   leftOpen, strays>>

(* Kernel::launch on stream s: captured while s captures, queued otherwise.*)
Submit(s, B) ==
    \/ /\ capturing[s] = "active"
       /\ captured' = [captured EXCEPT ![s] = @ \cup B]
       /\ UNCHANGED queue
    \/ /\ capturing[s] = "none"
       /\ Enqueue(s, B)
       /\ UNCHANGED captured

(* The operation launches with its resources, and may keep the node of the *)
(* launch (launch_captured).                                               *)
CaptureLaunch(g, B) ==
    /\ state[g] = "capturing"
    /\ B \subseteq resources[g]
    /\ ~errorState
    /\ Submit(on[g], B)
    /\ \/ UNCHANGED nodes
       \/ nodes' = nodes \cup {<<g, handle[g]>>}
    /\ UNCHANGED <<capturing, graphVars, resources, life, errorState,
                   leftOpen, strays>>

(* The operation drops one of its buffers, what was captured of it         *)
(* notwithstanding.  When the drop has to wait for the context, the driver *)
(* refuses, breaks the capture, and the error is recorded.                 *)
CaptureDrop(g, b) ==
    /\ state[g] = "capturing"
    /\ b \in resources[g]
    /\ resources' = [resources EXCEPT ![g] = @ \ {b}]
    /\ Abandon({b})
    /\ strays' = IF b \in captured[on[g]] THEN strays \cup {b} ELSE strays
    /\ \/ UNCHANGED <<capturing, errorState>>
       \/ /\ Failures
          /\ capturing' = [s \in Streams |->
                 IF capturing[s] = "active" THEN "broken" ELSE capturing[s]]
          /\ errorState' = TRUE
    /\ UNCHANGED <<captured, graphVars, nodes, queue, leftOpen>>

(* A launch of another thread, with a buffer of its own: a stream that     *)
(* captures takes it too.                                                  *)
OtherLaunch(s, b) ==
    /\ Owned(b)
    /\ ~errorState
    /\ Submit(s, {b})
    /\ strays' = IF capturing[s] = "active" THEN strays \cup {b} ELSE strays
    /\ UNCHANGED <<capturing, graphVars, resources, nodes, life, errorState,
                   leftOpen>>

(* A call that ends without a graph returns its resources.                 *)
Fail(g) ==
    /\ state' = [state EXCEPT ![g] = "failed"]
    /\ resources' = [resources EXCEPT ![g] = {}]

(* end_capture binds the context first and gives up when that returns a    *)
(* recorded error: the stream goes on capturing.                           *)
EndUnbound(g) ==
    /\ state[g] = "capturing"
    /\ errorState
    /\ errorState' = FALSE
    /\ Fail(g)
    /\ leftOpen' = leftOpen \cup {on[g]}
    /\ UNCHANGED <<capturing, captured, on, handle, allocated, executables,
                   uses, nodes, life, queue, strays>>

(* A failing operation returns before the capture is ended (mutant).       *)
EndFailedEarly(g) ==
    /\ state[g] = "capturing"
    /\ ~errorState
    /\ Failures
    /\ Fail(g)
    /\ UNCHANGED <<capturing, captured, on, handle, allocated, executables,
                   uses, nodes, life, queue, errorState, leftOpen, strays>>

(* The driver ends the capture and there is no graph: it was broken, or    *)
(* the driver refuses or makes a null graph.                               *)
EndFailed(g) ==
    /\ state[g] = "capturing"
    /\ ~errorState
    /\ Failures \/ capturing[on[g]] = "broken"
    /\ Fail(g)
    /\ capturing' = [capturing EXCEPT ![on[g]] = "none"]
    /\ captured' = [captured EXCEPT ![on[g]] = {}]
    /\ allocated' = allocated \ {handle[g]}
    /\ handle' = [handle EXCEPT ![g] = NoHandle]
    /\ UNCHANGED <<on, executables, uses, nodes, life, queue, errorState,
                   leftOpen, strays>>

(* The driver ends the capture and there is a graph.                       *)
EndCaptured(g) ==
    /\ state[g] = "capturing"
    /\ ~errorState
    /\ capturing[on[g]] = "active"
    /\ state' = [state EXCEPT ![g] = "instantiating"]
    /\ capturing' = [capturing EXCEPT ![on[g]] = "none"]
    /\ uses' = [uses EXCEPT ![g] = captured[on[g]]]
    /\ captured' = [captured EXCEPT ![on[g]] = {}]
    /\ UNCHANGED <<on, handle, allocated, executables, resources, nodes, life,
                   queue, errorState, leftOpen, strays>>

(* The native graph of g is destroyed.                                     *)
Destroy(g) ==
    /\ executables' = executables \ {g}
    /\ allocated' = allocated \ {handle[g]}
    /\ handle' = [handle EXCEPT ![g] = NoHandle]
    /\ uses' = [uses EXCEPT ![g] = {}]

(* A driver graph that cannot be instantiated is kept (mutant).            *)
InstantiateLeaking(g) ==
    /\ state[g] = "instantiating"
    /\ Failures
    /\ Fail(g)
    /\ handle' = [handle EXCEPT ![g] = NoHandle]
    /\ uses' = [uses EXCEPT ![g] = {}]
    /\ UNCHANGED <<capturing, captured, on, allocated, executables, nodes,
                   life, queue, errorState, leftOpen, strays>>

(* Instantiation; when it fails, the driver graph is destroyed.            *)
Instantiate(g) ==
    /\ state[g] = "instantiating"
    /\ \/ /\ state' = [state EXCEPT ![g] = "uploading"]
          /\ executables' = executables \cup {g}
          /\ UNCHANGED <<handle, allocated, uses, resources>>
       \/ Failures /\ Fail(g) /\ Destroy(g)
    /\ UNCHANGED <<capturing, captured, on, nodes, life, queue, errorState,
                   leftOpen, strays>>

(* The upload ends the call.  When it fails, or the operation had failed,  *)
(* the executable and the driver graph are destroyed.                      *)
Upload(g) ==
    /\ state[g] = "uploading"
    /\ \/ /\ state' = [state EXCEPT ![g] = "live"]
          /\ UNCHANGED <<handle, allocated, executables, uses, resources>>
       \/ Failures /\ Fail(g) /\ Destroy(g)
    /\ UNCHANGED <<capturing, captured, on, nodes, life, queue, errorState,
                   leftOpen, strays>>

(* The operation panics: the resources are dropped, the capture is not     *)
(* ended.                                                                  *)
Panic(g) ==
    /\ Failures
    /\ state[g] = "capturing"
    /\ Fail(g)
    /\ Abandon(resources[g])
    /\ leftOpen' = leftOpen \cup {on[g]}
    /\ UNCHANGED <<capturing, captured, on, handle, allocated, executables,
                   uses, nodes, queue, errorState, strays>>

-----------------------------------------------------------------------------

(* Graph::launch, on the capture stream only.                              *)
Replay(g) ==
    /\ state[g] = "live"
    /\ ~errorState
    /\ capturing[on[g]] = "none"
    /\ Enqueue(on[g], uses[g])
    /\ UNCHANGED <<capturing, captured, graphVars, resources, nodes, life,
                   errorState, leftOpen, strays>>

(* Graph::kernel_nodes.                                                    *)
KernelNodes(g) ==
    /\ state[g] = "live"
    /\ ~errorState
    /\ nodes' = nodes \cup {<<g, handle[g]>>}
    /\ UNCHANGED <<capturing, captured, graphVars, resources, life, queue,
                   errorState, leftOpen, strays>>

(* New arguments come from anywhere (mutant).                              *)
UpdateFromAnywhere(g, n, old, new) ==
    /\ state[g] = "live"
    /\ n[2] = handle[g]
    /\ ~errorState
    /\ uses' = [uses EXCEPT ![g] = (@ \ old) \cup new]
    /\ UNCHANGED <<capturing, captured, state, on, handle, allocated,
                   executables, resources, nodes, life, queue, errorState,
                   leftOpen, strays>>

(* Graph::update_kernel: the node's handle is compared, the new arguments  *)
(* come from the resources, and replace those of one kernel.               *)
UpdateKernel(g, n, old, new) ==
    /\ state[g] = "live"
    /\ n[2] = handle[g]
    /\ ~errorState
    /\ old \subseteq uses[g]
    /\ new \subseteq resources[g]
    /\ uses' = [uses EXCEPT ![g] = (@ \ old) \cup new]
    /\ UNCHANGED <<capturing, captured, state, on, handle, allocated,
                   executables, resources, nodes, life, queue, errorState,
                   leftOpen, strays>>

(* Graph::with_resources_mut: the closure exchanges a buffer of the        *)
(* resources for another, captured kernels notwithstanding; the old one is *)
(* moved out, or dropped at once.                                          *)
WithResourcesMut(g, b, c, dropped) ==
    /\ state[g] = "live"
    /\ b \in resources[g]
    /\ Owned(c)
    /\ resources' = [resources EXCEPT ![g] = (@ \ {b}) \cup {c}]
    /\ strays' = IF b \in uses[g] THEN strays \cup {b} ELSE strays
    /\ IF dropped THEN Abandon({b}) ELSE UNCHANGED life
    /\ UNCHANGED <<capturing, captured, graphVars, nodes, queue, errorState,
                   leftOpen>>

(* The resources go before the native graph does (mutant).                 *)
EndGraphLate(g, returned) ==
    /\ state[g] = "live"
    /\ resources' = [resources EXCEPT ![g] = {}]
    /\ IF returned THEN UNCHANGED life ELSE Abandon(resources[g])
    /\ UNCHANGED <<capturing, captured, graphVars, nodes, queue, errorState,
                   leftOpen, strays>>

(* The native graph is destroyed, queued replays notwithstanding; then the *)
(* resources are dropped, or returned by into_resources.                   *)
EndGraph(g, returned) ==
    /\ state[g] = "live"
    /\ state' = [state EXCEPT ![g] = "gone"]
    /\ Destroy(g)
    /\ resources' = [resources EXCEPT ![g] = {}]
    /\ IF returned THEN UNCHANGED life ELSE Abandon(resources[g])
    /\ UNCHANGED <<capturing, captured, on, nodes, queue, errorState,
                   leftOpen, strays>>

DropBuffer(b) ==
    /\ Owned(b)
    /\ Abandon({b})
    /\ UNCHANGED <<capturing, captured, graphVars, resources, nodes, queue,
                   errorState, leftOpen, strays>>

(* A drop elsewhere in the process records an error; any call that binds   *)
(* the context takes it and returns it.                                    *)
RecordError ==
    /\ Failures /\ ~errorState
    /\ errorState' = TRUE
    /\ UNCHANGED <<capturing, captured, graphVars, resources, nodes, life,
                   queue, leftOpen, strays>>

ReportError ==
    /\ errorState
    /\ errorState' = FALSE
    /\ UNCHANGED <<capturing, captured, graphVars, resources, nodes, life,
                   queue, leftOpen, strays>>

Reclaim(b) ==
    /\ life[b] = "abandoned"
    /\ ~Mentioned(b)
    /\ life' = [life EXCEPT ![b] = "reclaimed"]
    /\ UNCHANGED <<capturing, captured, graphVars, resources, nodes, queue,
                   errorState, leftOpen, strays>>

StreamStep(s) ==
    /\ queue[s] # <<>>
    /\ queue' = [queue EXCEPT ![s] = Tail(@)]
    /\ UNCHANGED <<capturing, captured, graphVars, resources, nodes, life,
                   errorState, leftOpen, strays>>

Capture(g) ==
    \/ \E s \in Streams, R \in SUBSET Buffers : BeginCapture(g, s, R)
    \/ \E B \in SUBSET Buffers : CaptureLaunch(g, B)
    \/ \E b \in Buffers : CaptureDrop(g, b)
    \/ EndUnbound(g) \/ EndFailed(g) \/ EndCaptured(g) \/ Panic(g)
    \/ Instantiate(g) \/ Upload(g)

GraphCall(g) ==
    \/ Replay(g) \/ KernelNodes(g)
    \/ \E n \in nodes, old, new \in SUBSET Buffers : UpdateKernel(g, n, old, new)
    \/ \E b, c \in Buffers, dropped \in BOOLEAN : WithResourcesMut(g, b, c, dropped)
    \/ \E returned \in BOOLEAN : EndGraph(g, returned)

Next ==
    \/ \E g \in Graphs : Capture(g) \/ GraphCall(g)
    \/ \E s \in Streams, b \in Buffers : OtherLaunch(s, b)
    \/ \E b \in Buffers : DropBuffer(b) \/ Reclaim(b)
    \/ RecordError \/ ReportError
    \/ \E s \in Streams : StreamStep(s)

Spec == Init /\ [][Next]_vars

-----------------------------------------------------------------------------

(* Every variable has its type; a driver graph that exists is a real one.  *)
TypeOK ==
    /\ capturing \in [Streams -> {"none", "active", "broken"}]
    /\ captured \in [Streams -> SUBSET Buffers]
    /\ state \in [Graphs -> {"new", "capturing", "instantiating", "uploading",
                            "live", "failed", "gone"}]
    /\ on \in [Graphs -> Streams \cup {NoStream}]
    /\ handle \in [Graphs -> Handles \cup {NoHandle}]
    /\ allocated \in SUBSET Handles
    /\ executables \in SUBSET Graphs
    /\ uses \in [Graphs -> SUBSET Buffers]
    /\ resources \in [Graphs -> SUBSET Buffers]
    /\ nodes \in SUBSET (Graphs \X Handles)
    /\ life \in [Buffers -> {"owned", "abandoned", "reclaimed"}]
    /\ queue \in [Streams -> Seq(SUBSET Buffers)]
    /\ errorState \in BOOLEAN
    /\ leftOpen \in SUBSET Streams
    /\ strays \in SUBSET Buffers

(* What the documentation of Graph says: a graph owns every resource that  *)
(* its captured work uses.                                                 *)
GraphOwnsItsWork ==
    \A g \in Graphs : state[g] = "live" => uses[g] \subseteq resources[g]

(* What a live graph replays is among its resources, also after updates    *)
(* through its own nodes or through stale ones of a graph whose handle it  *)
(* has.  Excepted by name are the strays: buffers that another thread's    *)
(* launch brought into a capture, that the operation dropped after         *)
(* capturing them, or that with_resources_mut took out of a graph's use.   *)
WorkIsRetained ==
    \A g \in Graphs : state[g] = "live" => uses[g] \ resources[g] \subseteq strays

(* A replay never runs on memory that was given back, also one queued      *)
(* before its graph was destroyed or its resources were exchanged; nobody  *)
(* keeps the strays for it.                                                *)
ReplaysUseLiveMemory ==
    \A b \in Buffers \ strays : life[b] = "reclaimed" => ~Mentioned(b)

(* A stream captures only while a capture call is under way on it, except  *)
(* after a call that could not end its capture.                            *)
CaptureEndsWithItsCall ==
    \A s \in Streams \ leftOpen :
        capturing[s] # "none" => \E g \in Graphs : state[g] = "capturing" /\ on[g] = s

(* Every driver graph, and every executable, belongs to a call under way   *)
(* or a live graph; a driver graph may also be left behind by a call that  *)
(* could not end its capture.                                              *)
HandlesAreAccountedFor ==
    /\ \A h \in allocated : \E g \in Graphs :
           /\ handle[g] = h
           /\ \/ state[g] \in {"capturing", "instantiating", "uploading", "live"}
              \/ state[g] = "failed" /\ on[g] \in leftOpen
    /\ \A g \in executables : state[g] \in {"uploading", "live"}
=============================================================================
