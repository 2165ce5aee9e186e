# mircuda: a formal model

TLA+ models of mircuda, a Rust library over the CUDA driver, with TLC runs and
machine-checked proofs. Paths below are relative to the repository root; `sys/` is
the unsafe layer (`mircuda-sys`), `src/` the safe facade.

## Inventory

| Component | State | Operations | Model |
|---|---|---|---|
| device memory (`src/memory`, `sys/src/platform/memory`) | an allocation, its stream, shared handles and views, a cross-stream flag; an error held by the context | allocate, view, copy, launch, lend to foreign code, drop | `DeviceMemory` |
| pinned transfers, events (`memory/transfer.rs`, `event.rs`) | one event per pinned buffer | copy to and from the device, host access, record, wait, drop | `PinnedTransfers` |
| compiler and caches (`src/compiler`, `sys/src/platform/compiler`) | module map under a mutex, atomic counters, an artifact directory | compile, load PTX, read and write artifacts, statistics | `CompileCache` |
| graphs (`src/graph.rs`, `sys/src/platform/graph.rs`) | capture state of a stream, graph and executable handles, owned resources | capture, end, replay, nodes, update, exchange resources, destroy | `GraphCapture` |
| cuBLAS and cuBLASLt plans (`vendor/`, `sys/native/cublas*`) | leases of a handle and workspace per context and stream, math mode, launch mutex; shape | create, execute, drop | `CublasLeases`, `VendorShapes` with `Plans` |
| CUTLASS plans (`cutlass/`, `sys/native/*_sm*.cu`, `flash_attn2_bf16.cu`) | a native plan with pointer tables and a workspace on the device; shape | create, execute, drop | `PlanShapes`, `GroupedShapes`, `AttentionShapes` with `Plans` |
| Marlin MoE (`marlin/`, `sys/native/marlin`) | none between calls; route tables inside a kernel | repack, prepare scale factors, prepare routes, multiply | `MarlinShapes`, `MoeRoutes` with `Plans` |
| MXFP8 projections (`mxfp8/`, `kernels/mxfp8.cu`) | a scratch that several share under mutexes | quantize, swizzle, multiply, gather, embed | `KernelShapes` with `Plans` |
| typed launches (`launch.rs`, `source.rs`) | none | check arguments, launch | in `KernelShapes`, `DeviceMemory` |
| foreign interop (`interop.rs`) | none | lend a pointer or a handle | in `DeviceMemory` |
| memory pool policy, compile keys, driver queries, profiler, errors, stub, build | little or none | | not modelled, see the end |

How they meet: every component queues work on a `Stream`; launches, copies, plans
and graphs use `DeviceBuffer`s and rely on the drop to outlive queued work; any
failing drop records its error in the context, where the next call that binds the
context takes it; captures turn queued work into a graph; plans share native handles
through a registry; compilers share a directory across processes.

What is hard: the drop of a buffer races with work that other threads queue and
waits while they go on; a recorded error surfaces in an unrelated call and can
replace a wait; streams run in any interleaving and wait for each other's events;
compile calls hold a mutex across slow steps any of which may fail, and processes
die between two file operations; a capture must end however its operation ends;
driver handles are used again after destruction; the last of several plans destroys
what they shared; a plan is built in up to thirteen steps that fail one by one;
launch errors of a thread stay until some call reads them; operand sizes are checked
in two layers with different arithmetic; the warps of one kernel run in any order.

What makes each correct: device memory is given back once and not while in use; the
host touches pinned memory only when the device does not; a module is loaded once
per key, artifacts under their names are whole and what is removed is written anew,
statistics are never ahead of the entries, every call ends; a graph owns what it
replays, replays find their memory, and every driver graph is destroyed; a shared
native handle lives exactly as long as a plan leases it, is used by one launch at a
time and in the launch's math mode; a kernel that the checks let through stays inside
its operands and works on those of its own call; what a plan allocated is given back
behind its work; routed rows end up in one order however the kernel was scheduled.

## Modules

`SafeReclaim` is the abstract promise of device memory: an allocation is reclaimed
only when it has no owner and no worker uses it. `DeviceMemory` implements it
(`Reclaiming`, an INSTANCE with a refinement mapping), and `GraphCapture` builds on
the promise instead of on queues and flags.

**DeviceMemory.** Host calls append operations (`Alloc`, `Use`, `Free`) to FIFO
queues and `StreamStep` is the device. A call borrows the handles of its buffers, so
the last handle cannot be dropped inside it and calls are atomic. The drop is not:
`BeginDrain` samples what the context synchronization waits for, other threads go
on, `FinishDrain` frees. `DropUnderError` and `DrainFails` are the paths on which
the free is queued without the wait. `unsynced` is a history variable that names the
buffers freed that way. Byte ranges are left out: a call with bad ranges returns
before it changes anything.

**PinnedTransfers.** A transfer queues a copy and a record of the buffer's one
event. `behind`, `carried` and `loose` are history: what the end of a stream and an
event are ordered behind, and the buffers for which a transfer was queued that is
neither recorded nor ordered behind the previous ones. Callers' events and stream
waits order streams; a wait is for the record that is the event's latest when it is
queued, as the driver has it, so waits cannot wait for each other.

**CompileCache.** Every call is a thread's walk through `step`; the mutex (`holder`)
is held from lookup to insertion. Each file operation is a step of its own; `Crash`
kills a compiler's process at any step, `Corrupt` damages an artifact from outside,
and the directory may hold artifacts of earlier processes. A miss is counted after
the mutex was released, as in the code. `Failures` is the set of operations that may
fail: NVRTC, loading of PTX, and reading, loading, removing and writing of artifacts.
Keys are opaque.

**GraphCapture.** A capture call begins, launches, possibly drops some of its
buffers, and ends in one of the code's ways: captured, failed, panicked, or unable
to end because the context held an error. Driver handles are reused after
destruction: a graph is destroyed when its instantiation or its upload fails, or with
its `Graph`. Other threads may launch on any stream at any time (`OtherLaunch`), the
operation may drop what it captured (`CaptureDrop`), and `with_resources_mut` may
exchange what a graph replays (`WithResourcesMut`). The code prevents none of these;
`strays` is a history variable that names the buffers concerned. `UpdateKernel`
accepts a node by handle comparison as the code does, also a stale one whose handle
was used again; the buffers it binds come from the updated graph's resources.
Replaying a graph into another capture, and pinned copies inside captures, are left
out.

**CublasLeases.** `entries` is the registry, keyed by family and stream. Acquisition
and release are atomic, as they run under the registry's mutex; an execute walks
through the steps of `with_math_mode` under the launch mutex of its entry, each of
which may fail.

**Plans.** A plan, a Marlin call and a typed launch have much in common: a
constructor that checks a shape, a creation in steps, a call that checks operands in
two layers and queues kernels, a drop. `Plans` has these once, as `Create`, `Call`,
`Drop`. A kind of plan is a record that says how it differs: `PlanKinds` puts it
together from the native side (the steps of its creation that reach the device, the
kernels of a call, how launch errors come back) and from five operators on its
dimensions, `..Spec`, `..Create`, `..Lengths`, `..Sizes` and `..Execute`: what the
facade's constructor accepts, what can be created, what the facade and the layer
below demand of each operand, and the order of the checks with the bytes that the
kernel touches. These are in `PlanShapes` (one matrix), `GroupedShapes` (groups of
rows), `AttentionShapes`, `VendorShapes` (cuBLAS), `MarlinShapes` and `KernelShapes`
(kernels that the facade compiles). Arithmetic is as wide as the program's and fails
as it does: checked to an error, to zero or to saturation, or wrapping; the kernels'
signed index products, of 32 bits, either fit or leave their operand `Astray`
(`Indexed`), which stands for an offset of no defined value. Unsigned ones wrap and
so stay inside; they are exact here. A creation that binds a context may fail after
any number of its steps, at the next of them or at a check in between.

`Plans` demands little of the kinds it is given (`WorldsAreKnown`): every call checks
its buffers and its stream or context; a call that uses memory of a plan demands the
plan's stream; a product that finds its operands in tables is launched right after
the kernel that sets them. TLC evaluates this on every shape that the runs have, and
the theorems of `Plans_proofs` use nothing else of the kinds. Of routes they demand
that there are experts (`validate_geometry` of `marlin/spec.rs`), that a block has a
size (`moe_block_size` there), and that rows select by numbers, as `uint32_t` are
(`RoutesAreKnown`).

The state of `Plans` is what the plans of a few slots allocated (`held`) and what
exists on the device (`resident`), the queues of two streams, whose operands the
pointer tables of a plan and the shared scratch hold (`tables`, `scratch`), the
launch error that waits in each thread (`pending`), and where a thread is in a
projection and which locks it has (`doing`, `locks`). `last` is the latest call: the
lengths and streams of its operands, those marked as used across streams, and the
check that refused it. `misread` and `strays` are history.

**MoeRoutes** is the kernel `prepare_routes` of `native/marlin/repack.cu` as one
block of threads in warps: zeroing and counting without a barrier in between, the
offsets by a parallel scan whose stride doubles or by a serial loop (both recursive
functions), rows placed by atomic ranks in any order, and the sort of each expert's
places, which is any loop of exchanges: the nondecreasing arrangement of the same
rows. `Plans` runs it as the kernel it queued.

The `MC*` modules add instances only. Definitions marked "(mutant)" are deliberately
wrong variants that show a property can fail; no specification uses them.

## Runs

All runs use `CHECK_DEADLOCK FALSE`: identities and calls are bounded, so a system
that has used them up stops.

| Run | Question | Bounds |
|---|---|---|
| `DeviceMemory` | is memory given back once and only when unused, with failing driver calls; is `IInv` an invariant | 2 buffers, 2 streams of one context and 1 of another, 2 handles, queues of 2 |
| `DeviceMemoryReclaim` | is it `SafeReclaim`; is every dropped allocation given back | the same, no driver faults |
| `DeviceMemoryUnsynced` (violation) | does every drop wait for uses on other streams | 1 context |
| `PinnedTransfers` | does a buffer's one event stand for all its transfers; exclusive host access | 1 buffer, 2 streams, 1 caller event, 2 records, queues of 3 |
| `PinnedTransfersTwoStreams` (violation) | does access follow all prior transfers | queues of 4 |
| `CompileCache` | one load per key, whole artifacts, calls end | 2 threads on one compiler, 1 on another, 1 key of each sort, 1 crash, failures |
| `CompileCacheShared` | statistics read while others count; is what was removed written anew | the same with a reader; reading, loading and removing may fail; no crash |
| `GraphCapture` | ownership, memory of replays, captures end, no graph or executable leaks | 2 graphs, 2 handles, 2 buffers, 2 streams, queues of 1 |
| `GraphCaptureOtherThread` (violation) | does a graph own everything it captured when threads share the stream | 2 streams, one shared |
| `CublasLeases` | are shared handles alive, exclusive and in the right mode; do executes end | 3 plans on 1 stream, 2 handles, 2 workspaces, 1 execute each, queue of 2, another context current at drops, failures |
| `Plans` | do launched kernels stay inside their operands; do the layers agree; are operands of other streams marked; is memory of plans alive while used and given back; does work read its own call; do projections end; are routes buckets, inside the buffer | 32 kinds of plans and calls in 415 shapes with one call; plans with tables called twice; 2 projections on 1 scratch by 2 threads; 3 rows that select among up to 3 experts |
| `PlansRoutes` (violation) | are routes independent of scheduling | 2 threads in warps of 1, blocks of 2 rows |

The bounds are enough for the cases that matter: two buffers used by one operation,
a use on the home stream, on a sibling and on a stream of another context, a view
outliving its root, two records of one event, a compiler that removes what another
has written in the place of the artifact both rejected, while a third call waits for
a mutex, a replay still queued when its graph ends, a driver handle reused by a
second graph.

In `Plans` the words are shorter than the program's 31, 32 and 64 bits in the same
proportion, 13, 14 and 28 bits, and a grid has 127 blocks for 65535, so that shapes
at the limits of an i32, with products that do not fit, are small numbers; tile
sizes are the real ones. A call is offered operands that suit all checks, and
operands with one thing amiss: one element more or less, another stream, a stream of
another context, a failing bind. `RowCounts` are the row offsets that a caller's
device arrays may hold. One allocation stands for the twelve tables of a grouped
plan, since each may fail. The kernel that sorts routes has two threads for its 256
and warps of one, so that three experts take the serial loop and fewer the scan.

**Fairness.** `DeviceMemory`: the device runs queued work and a drop whose
synchronization is over returns; no call of a user is fair. `CompileCache`: a thread
inside a call goes on, and takes the mutex when it stays free; calls are finitely
many, so a fair mutex is not assumed. `CublasLeases`: a thread inside an execute
goes on, and takes the launch mutex when it stays free; executes are finitely many.
`Plans`: a thread inside a projection goes on, and takes a lock when it stays free;
the calls before it are finitely many. Nothing requires callers to make progress.

**What the violations show.** The drop of a `DeviceBuffer` frees even if the context
synchronization returned an error, and `CudaContext::synchronize` returns a recorded
error before it waits: memory used on another stream may be given back under that
work. A pinned buffer has one event, so access waits for the latest transfer only. A
stream may be shared by threads, and a capture takes the launches of all of them.
`prepare_routes` adds to counts (`repack.cu:198`) that another warp may not have
zeroed yet (188-191), so a count may be lost, and the order of rows depends on
scheduling after all.

**Excepted by name.** Properties of `Plans` except what the code does nothing about:
`LaunchFits` the operands that are `Astray`. These are, first, operands whose index
product does not fit a signed word of 32 bits, as `group * n * k` of
`variable_grouped_bf16_sm120.cu:28` for a bank of more than 2^31 elements, which the
host accepts because it narrows single dimensions and counts lengths in usize; the
vector kernels, the grouped FP4 kernels, the strides of attention and Marlin's banks
and routes have such products too. Second, the query, output and sums of paged
attention when the kernel counts more rows than there are tokens, as the decoding
path of `flash_attn2_bf16.cu:21` does with fewer tokens than sequences; and the
partial results of split attention when a row for each sequence and step of the
longest is more than there are tokens, for FlashAttention lays them out so. Further,
`BuffersAreFlagged` the two buffers of partial results of split attention
(`fmha/paged/split.rs`), which no check ties to the stream although a comment says
that all buffers were validated; `WorkReadsItsOwnCall` a group whose selected weight
is out of range, which keeps the pointers of the previous call, and what projections
leave in the scratch that are called on a stream not the plan's, since they quantize
before the plan refuses them. `HostAccessIsExclusive` excepts pinned buffers after a
failure (`loose`), `NoUseAfterFree` memory freed without the wait (`unsynced`), and
`WorkIsRetained` and `ReplaysUseLiveMemory` except `strays`. `RemovedIsReplaced` is
stated where NVRTC and writing do not fail, since such failures leave a key without
an artifact until its next call.

**Seen on the way, and not claimed.** `load_ptx` counts a miss
(`precompiled.rs:32`), though `compiler/mod.rs:42-47` documents misses as the number
of NVRTC compilations. The decoding path of `flash_attn2_bf16.cu` (at most one query
for each sequence) ignores the sliding window of `cutlass/fmha`. A GEMM's leading
dimension is any usize in the facade and an int in cuBLAS; `VendorShapes` takes the
int. The Marlin product does not check the lengths of the sorted rows and expert
ids, nor what they hold.

## Proofs

Theorems hold for every number of contexts, streams, buffers, plans, handles,
threads and keys, and every bound. Each proofs module has the same shape: an
invariant `IInv` (`CaptureInv` and `OwnershipInv` for graphs) that implies the
properties and is inductive, found by letting TLC check it first; one lemma per
conjunct or per action that can disturb it; `InductiveInvariant`, `Spec => []IInv`;
and one theorem per property that the runs check.

### Device memory

In `DeviceMemory_proofs`:

- `TypeCorrect`: `TypeOK`, with `HomeIsSet`; `InductiveInvariant`.
- `MemorySafe`: `Spec => []NoUseAfterFree`.
- `FreedByTheLastDrop`: `Spec => []FreedOnce`.
- `ImplementsSafeReclaim`: with `DriverFaults = FALSE`, `Spec => ReclaimsSafely`.

`NoUseAfterFree` is not inductive: that a released buffer has no queued uses needs
that a free is the last mention on its stream (`FreeIsLast`), that other streams
have no uses once the drop is done (`DroppedIsLocal`), which needs that the uses
pending during the wait are among those it waits for (`DrainCoversUses`), which in
turn needs that a buffer used elsewhere is flagged (`QueuedSoundly`), foreign uses
included (`ExportedIsFlagged`). Queue lemmas (`EnqueueEffect`, `StepEffect`) say
what a step does to positions in a queue, and there is one preservation lemma per
action. `FreedOnce` follows from the same order of work, which puts a free last on
the allocation stream, with `HandlesAreHeld`: handles are left exactly while the
phase is `held`. The refinement maps every call to `Begin`, a drop to `Abandon`, the
device running a free to `Reclaim`, other steps to `Finish` or a stutter.
Assumptions are those named in `DeviceMemory`: streams have a context, `NoStream` is
no stream, bounds are naturals.

### Pinned memory

In `PinnedTransfers_proofs`:

- `TypeCorrect`: `TypeOK`; `InductiveInvariant`.
- `EventCovers`: `Spec => []EventCoversTransfers`.
- `AccessIsExclusive`: `Spec => []HostAccessIsExclusive`.

A host access waits for one event, and the question is why no transfer of the buffer
can outlive it. What a record of an event is behind was settled when it was queued:
everything its stream was behind then. Variables keep that for the last record of
an event only (`carried`), while older records may still be queued and waited for.
The invariant therefore says that there is a table `C`, of what every record of
every event is behind, with which the queues are in order (`Ordered`): the transfers
behind a queued record come before it on its stream, or before a record that its
stream waits for earlier (`RecordsAreBehind`), likewise for what a stream is behind
at its end (`EndsAreBehind`), and what a completed record was behind is done
(`CompletedIsDone`). A step that queues a record gives the table one more column,
every other step keeps it. Besides, a transfer has a number of its own
(`TransfersAreDistinct`) that is no newer than the last record (`MarksAreOld`), and
the last record of a buffer's event is behind all its transfers
(`LastIsBehindAll`). The last one is what the code's order of wait, copy and record
achieves, and what breaks for the `loose` buffers that the properties except.

### Compiler and module cache

In `CompileCache_proofs`:

- `TypeCorrect`: `TypeOK`; `InductiveInvariant`.
- `LoadsOnce`: `Spec => []OneLoadPerKey`.
- `WholeArtifacts`: `Spec => []ArtifactsAreWhole`.
- `SnapshotsAreBehind`: `Spec => []SnapshotCountsLoaded`.

A key that a thread found missing stays missing until that thread retains it,
because only the holder of the compiler's mutex is between the lookup and the
insertion (`InsideHoldsMutex`, `LoadingIsMissing`); a key was loaded once if it is
retained and never otherwise (`LoadedIsRetained`). Misses are counted after the
mutex is released, so the counters lag by the threads that have retained and not yet
counted (`LoadsAddUp`): every step moves a thread into or out of that set together
with an entry or a counter (`SumIsKept`). A reader that takes the entries last is
behind, because counters only grow (`ReadersLag`). Writers of other processes are
covered: artifacts are whole since only what was written completely is renamed into
place (`PublishedIsWhole`). The proof showed that the module must assume some key to
exist: without keys the initial value of `key` has no type.

### Graphs

In `GraphCapture_proofs`:

- `TypeCorrect`: `TypeOK`; `InductiveInvariant` (of `CaptureInv`).
- `CapturesEnd`: `Spec => []CaptureEndsWithItsCall`.
- `GraphsAreDestroyed`: `Spec => []HandlesAreAccountedFor`.
- `WorkRetained`: `Spec => []WorkIsRetained`.
- `ReplaysAreSafe`: `Spec => []ReplaysUseLiveMemory`.

All of them hold whatever callers and other threads do. A stream captures just while
one call has it, or for good after a call that could not end its capture
(`CapturesAreCalls`), and no two graphs have one driver graph (`HandlesAreDistinct`).
For the last two the invariant adds that what is captured so far, and what an
executable refers to, is among the resources of the call or is stray (`WorkIsOwned`),
and that a buffer in the resources of a graph was not dropped and is in no other
(`ResourcesAreExclusive`, which is Rust's ownership and proves nothing of the code by
itself). A replay that is queued when its graph ends is safe since what it uses is
then given back no sooner than `SafeReclaim` allows. `GraphCaptureOtherThread` shows
how a stray comes about.

### cuBLAS plans

In `CublasLeases_proofs`:

- `TypeCorrect`: `TypeOK`; `InductiveInvariant`.
- `HandlesAreLeased`: `Spec => []HandlesLiveWithLeases`.
- `LaunchesExclude`: `Spec => []HandleIsExclusive`.
- `ModesAreRight`: `Spec => []LaunchesInItsMode`.
- `ProductsHaveWorkspaces`: `Spec => []WorkspaceOutlivesWork`.

That handles live with leases is not inductive: the registry only counts. `IInv`
says what it counts (`LeasesCounted`: the leases of a key are as many as the plans
that hold one), that plans hold copies of what their entry has
(`PlansShareEntries`), and that an entry has a handle of its own while its count is
not zero (`EntriesOwnHandles`). Exclusive use follows from the launch mutex of the
entry (`LaunchesHoldMutex`) only because two entries never share a handle. For the
modes one needs besides that a handle is in default mode just while one product of
F32 has it so, and that such a product found the tensor mode and will restore it
(`ModesKept`). The only assumption beyond those of the module's other constants is
that there are finitely many plans (`FinitelyManyPlans`), as cardinalities are taken
of them. For workspaces `WorkspaceInv` orders the queues: the operations on one
workspace are on one stream (`WorkspacesStay`), nothing follows its free
(`FreesAreLast`), an entry's workspace is its own, is not being freed
(`EntriesOwnWorkspaces`) and exists by the end of its stream's queue
(`EntriesAreBacked`), so that a product queued there finds it (`ProductsAreBacked`).
A workspace that a refused free lost is never given to another entry, because it
stays resident.

### Plans

In `Plans_proofs`, for every set of worlds that `WorldsAreKnown` allows: any number
of plans and threads, any kinds, any number of calls.

- `TypeCorrect`: `TypeOK`; `InductiveInvariant`.
- `BuffersFlagged`: `Spec => []BuffersAreFlagged`.
- `WorkIsBacked`: `Spec => []WorkUsesLiveMemory`.
- `NothingLeaks`: `Spec => []NothingIsLeaked`.
- `ProductsReadOwnCalls`: `Spec => []WorkReadsItsOwnCall`.

`IInv` has three parts, each with its own preservation lemmas (`..KeepsBase`,
`..KeepsMemory`, `..KeepsReads`). `BaseInv` has the types and says that work on the
other stream needs no plan's memory (`OthersNeedNothing`), because a call that uses
such memory checks its stream first. Whether a call was let through is the first
failing check of a sequence; that this names a check, and that none failing means
all passed, are `RefusedIsNamed` and `LetThrough`, by the least element of a set of
naturals (`LeastElement`). That the loop has marked every buffer of a call that is
let through (`BuffersAreFlagged`) then needs only that its checks contain the loop,
at whatever place the kind has it.

`MemoryInv` puts the plan's stream in order: what an operation needs exists or is
allocated ahead of it (`NeedsAreProvided`), and nothing behind a free needs what it
frees (`FreesAreLast`). For what is left at the end one needs both directions: what
plans hold will exist when the queue has run, and no free of it is queued
(`HeldIsProvided`); anything else that will exist has its free queued
(`OthersAreFreed`). The second is what a creation owes that fails half way.

`ReadInv` is about the operands of a product. With tables, the operation before it
is the setup of the same call, or that has just run (`TablesAreSet`), which uses
that a launch error never lets the product run without its setup. With a scratch,
the last quantization ahead of the product is of its own call or of a stray
(`ProductsAreLoaded`). To keep that, the invariant says the same of a projection
whose product is not queued yet (`ProjectionsAreLoaded`), and that such a
projection holds the lock of the scratch (`ScratchIsLocked`), so that no other
quantizes in between. The scratch of strays is excepted as in the property.

### Routes

In `MoeRoutes_proofs`, for every number of threads, warp size, number of experts and
rows, block size and selection, as long as `RoutesAreKnown`:

- `RoutesInductive`: `Spec => []RouteInv`.
- `RoutesInBounds`: `Spec => []RoutesStayInBounds`.
- `RoutesBuckets`: `Spec => []RoutesAreBuckets`.

`RouteInv` says that the kernel is idle or keeps two books. `BoundsInv` holds also
when counts are lost: a count is at most the rows of its expert that were counted,
because zeroing only lowers it (`CountsAreOfRows`); the rank of an expert is the
number of its rows placed (`RanksArePlaced`), whatever its count; and from its offset
on an expert has room for all of its rows in the buffer that the facade sizes, as the
blocks have (`OffsetsFit`).

That the offsets fit is what the loops compute. The serial loop holds prefix sums of
whole blocks (`SerialAdds`). After n rounds the scan holds, for each expert, the sum
of the last `Stride[n]` experts' blocks (`ScanAdds`), and the strides reach the
number of experts (`StridesDouble`); so both give the same offsets (`OffsetsAdd`),
each at most the rows of the lower experts and a block less one for each of them
(`OffsetsAreBounded`).

`SortedInv` is for launches that lost no count. Offsets are then exactly the whole
blocks of the lower experts (`ExactOffsets`), so blocks of different experts are
apart and the search for a block's expert finds the one that owns it
(`BlockExpertIs`). Every place that was given out holds a row of its expert that was
placed, different places different rows, and all else is filler (`PlacesHoldRows`).
When all are placed an expert's places hold exactly its rows; sorting different
rows puts each behind those below it (`SortOrders`), which is its bucket
(`SortFillsBuckets`).

The library's induction theorems take an operator as a parameter, which the provers
cannot instantiate. `Induction` states it for a set of naturals instead, from the
least element of those outside it, and `Recursion` that a recursive function on
`0..n` satisfies its equation.

### Kinds of plans and calls

In `PlanKinds_proofs`, for all 32 kinds, every shape whose dimensions are any usize
and every width of words that `WordWidths` allows:

- `LaunchesFit`: if `ShapesAreKinds`, `Spec => []LaunchFits`, for every operand that
  is not `Astray`.
- `LayersCountAlike`: if `ShapesAreKinds`, `Spec => []LayersAgree`.

`ShapesAreKinds` says that the shapes of the worlds are built by the kinds of
`PlanKinds` from dimensions in the sets given there (`DenseDims` and so on: any usize,
elements of two or four bytes, for Marlin the tiles that its configurations have and
blocks of at most 64 rows). The assumption `ShapesAreOfKinds` of `MCPlans` has TLC
evaluate it for the shapes of the run. The worlds of the model may hold any of these
shapes together.

The argument has two halves, one for any shape and one for each kind. A shape is
`Sound` if each of its operands suits (`Suits`): what the facade and the layer below
demand of it are lengths in words; the two agree, or the facade leaves the operand
to that layer; and one of the demands covers the bytes that the kernel touches, if
the checks of the numbers accept the call. `LetThroughFits` and `RefusedAgrees` show
for any sound shape what the two properties say of one call, whatever the order of
its checks and for operands of any whole number of elements (`Given`), not only
those that suit or are one element off; `InputsAreGiven` says that these are among
them, and `StepKeepsCalls` that no other step records a call, with `IInv` of
`Plans_proofs`.

That a kind is sound is one lemma each (`DenseIsSound` to `OneIsSound`). They rest on
lemmas about products that may overflow: `Mul` and `Add` of numbers that fit are the
number or `Over` (`MulIsChecked`, `MulChecks`, `AddChecks`), what remains after a
check of less than the product (`Fits`, `TimesFits`), and what an operand is that is
measured by a product of two or three numbers, checked to an error, to zero, to
saturation or not at all (`ProductSuits`, `CheckedProductSuits`,
`SaturatedProductSuits`, `WrappedProductSuits`, `TypedProductSuits`). Where the
kernel's count is not the facade's, a lemma relates them: scale factors in tiles
(`ScaleExtentFits`, `MxScalesCount`, `TilesCount`), the rows of groups at any
partition a caller may have on the device (`PartitionsFit`), views of a GEMM whose
leading dimension is cut to an int (`TakenIsLess`), pages and blocks
(`BlocksSuffice`), repacked banks (`BankIsTiled`, `LogicalBankFits`,
`SourceRowsSuffice`), padded routes (`BlocksAreEnough`) and reductions
(`ReductionSuits`).

An operand that may be `Astray` suits if the bytes suit that it has otherwise
(`WithinSuits`, `IndexedSuits`): the theorems say of such an operand only that it is
demanded alike by both layers, and of all others that the kernel stays inside.

Assumed besides the widths is that a partition may leave every group empty
(`GroupsMayBeEmpty`); that an i32 holds 1023 (`WordWidths`) lets the tiles of real
sizes fit the words of the run. Two kinds have a condition of their own in their
dimensions: the partial results of split attention are counted in words
(`SplitDims`), since the demand saturates above, where no buffer is as long; and the
routes of a Marlin product were prepared for its shape (`MoeDims`), which nothing in
the product checks. What a vendored kernel of CUTLASS, FlashAttention, Marlin or
cuBLAS does inside is not modelled: it is taken to touch what its arguments describe.

### Only model-checked

Liveness is out of the prover's reach (`DroppedIsReclaimed`,
`CallsEnd`, `RemovedIsReplaced`, `ExecutesEnd`, `ProjectionsEnd`). The runs that
expect a violation state claims of comments that the code does not keep; there is
nothing to prove of them. Every other property of the passing runs is a theorem.

## Plan

1. Pinned copies inside captures, once it is known what the driver makes of a wait
   for a captured event.

## Not modelled

- What kernels compute, the layout of repacked weights and the choice among kernels:
  data-parallel arithmetic on values that no property tells apart. The bytes they
  touch are modelled.
- Vendored Marlin headers: third-party code kept as it came.
- Memory pool policy: one number passed to the driver.
- Compile keys and options: strings that are concatenated and hashed; keys are
  opaque. Headers that an include directory names are not part of a key.
- Contexts, streams and device queries, profiler ranges, errors, the stub platform:
  no state, or a flag over two driver calls.
- Build scripts and macros: they run before the program.
- The inside of the driver, cuBLAS and NVRTC: modelled by how they are used, with
  every call that reports errors failing at any time.
