----------------------------- MODULE CompileCache -----------------------------
(***************************************************************************)
(* The module cache of src/compiler: Compiler::compile, Compiler::load_ptx *)
(* and Compiler::cache_stats, over the artifact directory of cache.rs that *)
(* several compilers, in one process or in many, may share.                *)
(*                                                                         *)
(* A compiler's mutex is held from the lookup to the insertion, NVRTC and  *)
(* file operations included; its counters are atomics beside it.  Calls of *)
(* different compilers meet in the directory only, where each file         *)
(* operation is a step.  A process may die between any two of them.        *)
(***************************************************************************)
EXTENDS Naturals, FiniteSets

CONSTANTS
    Compilers,    \* Compiler values, each in a process of its own
    Threads,      \* threads that compile or load
    Readers,      \* threads that read the statistics
    CompilerOf,   \* the compiler each thread and reader uses
    Persistent,   \* compilers with an artifact directory
    SourceKeys,   \* cache keys of CUDA sources
    PtxKeys,      \* cache keys of embedded PTX
    Nobody,       \* no thread holds the mutex
    MaxCalls,     \* bound: calls started by each thread
    MaxCrashes,   \* bound: process deaths
    Corruptible,  \* source keys whose artifact may be damaged once from outside
    Failures      \* the operations that may fail

Operations == {"nvrtc", "ptx", "read", "load", "remove", "write"}

Keys == SourceKeys \cup PtxKeys

ASSUME CompilerOfAssumption == CompilerOf \in [Threads \cup Readers -> Compilers]
ASSUME KeysAssumption    == SourceKeys \cap PtxKeys = {} /\ Keys # {}
ASSUME NobodyAssumption  == Nobody \notin Threads
ASSUME SubsetsAssumption == Persistent \subseteq Compilers /\ Corruptible \subseteq SourceKeys
ASSUME BoundsAssumption  == MaxCalls \in Nat /\ MaxCrashes \in Nat
ASSUME FailuresAssumption == Failures \subseteq Operations

VARIABLES
    holder,    \* the thread that holds each compiler's mutex
    memory,    \* keys of the modules each compiler retains
    counters,  \* hits, persistentHits, misses, persistentErrors of a compiler
    disk,      \* the artifact under each source key: absent, whole or torn
    step,      \* where each thread is in its call
    key,       \* the key of its call
    temporary, \* its temporary file: none, torn or whole
    calls,     \* how many calls each thread started
    reading,   \* where each reader is in cache_stats
    snapshot,  \* what it has read
    loaded,    \* history: modules each compiler loaded and kept, by key
    damaged,   \* history: artifacts damaged from outside
    crashes    \* history: process deaths

vars == <<holder, memory, counters, disk, step, key, temporary, calls, reading,
          snapshot, loaded, damaged, crashes>>

Steps == {"idle", "waiting", "lookup", "read", "load", "hit", "persistentHit",
          "reject", "build", "ptx", "create", "write", "publish", "insert", "count"}

ReaderSteps == {"idle", "persistentHits", "misses", "entries", "done"}

Zero == [hits |-> 0, persistentHits |-> 0, misses |-> 0, persistentErrors |-> 0]

EmptySnapshot == [hits |-> 0, persistentHits |-> 0, misses |-> 0, entries |-> 0]

Home(t) == CompilerOf[t]

Bump(c, names) ==
    [n \in DOMAIN Zero |-> IF n \in names THEN counters[c][n] + 1 ELSE counters[c][n]]

Count(c, names) == counters' = [counters EXCEPT ![c] = Bump(c, names)]

Go(t, next) == step' = [step EXCEPT ![t] = next]

Unlock(c) == holder' = [holder EXCEPT ![c] = Nobody]

(* The call ends and its guard goes out of scope.                          *)
Return(t) == Go(t, "idle") /\ Unlock(Home(t))

Retain(t) ==
    /\ memory' = [memory EXCEPT ![Home(t)] = @ \cup {key[t]}]
    /\ loaded' = [loaded EXCEPT ![Home(t)][key[t]] = @ + 1]

-----------------------------------------------------------------------------

(* The directory outlives processes: an earlier one may have left any      *)
(* artifact, whole or damaged since.                                       *)
Init ==
    /\ holder    = [c \in Compilers |-> Nobody]
    /\ memory    = [c \in Compilers |-> {}]
    /\ counters  = [c \in Compilers |-> Zero]
    /\ damaged   \in SUBSET Corruptible
    /\ disk      \in [SourceKeys -> {"absent", "whole", "torn"}]
    /\ damaged   = {k \in SourceKeys : disk[k] = "torn"}
    /\ step      = [t \in Threads |-> "idle"]
    /\ key       = [t \in Threads |-> CHOOSE k \in Keys : TRUE]
    /\ temporary = [t \in Threads |-> "none"]
    /\ calls     = [t \in Threads |-> 0]
    /\ reading   = [r \in Readers |-> "idle"]
    /\ snapshot  = [r \in Readers |-> EmptySnapshot]
    /\ loaded    = [c \in Compilers |-> [k \in Keys |-> 0]]
    /\ crashes   = 0

(* Compiler::compile and load_ptx compute the key and reach for the mutex. *)
Call(t, k) ==
    /\ step[t] = "idle"
    /\ calls[t] < MaxCalls
    /\ calls' = [calls EXCEPT ![t] = @ + 1]
    /\ key' = [key EXCEPT ![t] = k]
    /\ Go(t, "waiting")
    /\ UNCHANGED <<holder, memory, counters, disk, temporary, reading,
                   snapshot, loaded, damaged, crashes>>

(* Calls of one compiler do not exclude each other (mutant).               *)
LockShared(t) ==
    /\ step[t] = "waiting"
    /\ holder' = [holder EXCEPT ![Home(t)] = t]
    /\ Go(t, "lookup")
    /\ UNCHANGED <<memory, counters, disk, key, temporary, calls, reading,
                   snapshot, loaded, damaged, crashes>>

Lock(t) ==
    /\ step[t] = "waiting"
    /\ holder[Home(t)] = Nobody
    /\ holder' = [holder EXCEPT ![Home(t)] = t]
    /\ Go(t, "lookup")
    /\ UNCHANGED <<memory, counters, disk, key, temporary, calls, reading,
                   snapshot, loaded, damaged, crashes>>

(* A memory hit is counted under the mutex and ends the call.              *)
Lookup(t) ==
    /\ step[t] = "lookup"
    /\ \/ /\ key[t] \in memory[Home(t)]
          /\ Count(Home(t), {"hits"})
          /\ Return(t)
       \/ /\ key[t] \notin memory[Home(t)]
          /\ Go(t, IF key[t] \in PtxKeys THEN "ptx"
                   ELSE IF Home(t) \in Persistent THEN "read" ELSE "build")
          /\ UNCHANGED <<holder, counters>>
    /\ UNCHANGED <<memory, disk, key, temporary, calls, reading, snapshot,
                   loaded, damaged, crashes>>

(* A failing load keeps the mutex (mutant).                                *)
LoadPtxLocked(t) ==
    /\ step[t] = "ptx"
    /\ Go(t, "insert") \/ ("ptx" \in Failures /\ Go(t, "idle"))
    /\ UNCHANGED <<holder, memory, counters, disk, key, temporary, calls,
                   reading, snapshot, loaded, damaged, crashes>>

(* load_ptx: the embedded module is loaded, or the call fails.             *)
LoadPtx(t) ==
    /\ step[t] = "ptx"
    /\ \/ Go(t, "insert") /\ UNCHANGED holder
       \/ "ptx" \in Failures /\ Return(t)
    /\ UNCHANGED <<memory, counters, disk, key, temporary, calls, reading,
                   snapshot, loaded, damaged, crashes>>

(* ArtifactCache::read: absence is no error, any other failure is counted. *)
(* A torn image is rejected, by the check of its first bytes or by a load  *)
(* that fails; a whole one is loaded.                                      *)
ReadArtifact(t) ==
    /\ step[t] = "read"
    /\ \/ disk[key[t]] = "absent" /\ Go(t, "build") /\ UNCHANGED counters
       \/ "read" \in Failures /\ Go(t, "build") /\ Count(Home(t), {"persistentErrors"})
       \/ disk[key[t]] = "whole" /\ Go(t, "load") /\ UNCHANGED counters
       \/ disk[key[t]] = "torn" /\ Go(t, "reject") /\ UNCHANGED counters
    /\ UNCHANGED <<holder, memory, disk, key, temporary, calls, reading,
                   snapshot, loaded, damaged, crashes>>

(* The rest of load_persistent: any failure to load, also one that has     *)
(* nothing to do with the image, rejects the artifact.                     *)
LoadArtifact(t) ==
    /\ step[t] = "load"
    /\ \/ Retain(t) /\ Go(t, "hit")
       \/ "load" \in Failures /\ Go(t, "reject") /\ UNCHANGED <<memory, loaded>>
    /\ UNCHANGED <<holder, counters, disk, key, temporary, calls, reading,
                   snapshot, damaged, crashes>>

(* A persistent hit is counted twice, one counter after the other, before  *)
(* the mutex is released.                                                  *)
CountPersistentHit(t) ==
    /\ step[t] \in {"hit", "persistentHit"}
    /\ \/ step[t] = "hit" /\ Count(Home(t), {"hits"})
          /\ Go(t, "persistentHit") /\ UNCHANGED holder
       \/ step[t] = "persistentHit" /\ Count(Home(t), {"persistentHits"}) /\ Return(t)
    /\ UNCHANGED <<memory, disk, key, temporary, calls, reading, snapshot,
                   loaded, damaged, crashes>>

(* A rejected artifact fails the call (mutant).                            *)
RejectAndFail(t) ==
    /\ step[t] = "reject"
    /\ Return(t)
    /\ disk' = [disk EXCEPT ![key[t]] = "absent"]
    /\ Count(Home(t), {"persistentErrors"})
    /\ UNCHANGED <<memory, key, temporary, calls, reading, snapshot, loaded,
                   damaged, crashes>>

(* reject_persistent removes whatever the directory now holds.             *)
Reject(t) ==
    /\ step[t] = "reject"
    /\ Go(t, "build")
    /\ \/ /\ disk' = [disk EXCEPT ![key[t]] = "absent"]
          /\ Count(Home(t), {"persistentErrors"})
       \/ /\ "remove" \in Failures
          /\ counters' = [counters EXCEPT ![Home(t)].persistentErrors = @ + 2]
          /\ UNCHANGED disk
    /\ UNCHANGED <<holder, memory, key, temporary, calls, reading, snapshot,
                   loaded, damaged, crashes>>

(* NVRTC compiles the source and the driver loads the image.               *)
Build(t) ==
    /\ step[t] = "build"
    /\ \/ /\ Go(t, IF Home(t) \in Persistent THEN "create" ELSE "insert")
          /\ UNCHANGED holder
       \/ "nvrtc" \in Failures /\ Return(t)
    /\ UNCHANGED <<memory, counters, disk, key, temporary, calls, reading,
                   snapshot, loaded, damaged, crashes>>

(* ArtifactCache::write, in its steps: a temporary of a name of its own is *)
(* created, filled and synchronized, and takes the artifact's name.  A     *)
(* failure is counted, leaves the temporary, and ends the write.           *)
WriteStep(t, from, next) ==
    /\ step[t] = from
    /\ \/ /\ Go(t, next)
          /\ temporary' = [temporary EXCEPT ![t] = IF from = "create" THEN "torn" ELSE "whole"]
          /\ UNCHANGED counters
       \/ "write" \in Failures /\ Go(t, "insert") /\ Count(Home(t), {"persistentErrors"})
          /\ UNCHANGED temporary
    /\ UNCHANGED <<holder, memory, disk, key, calls, reading, snapshot, loaded,
                   damaged, crashes>>

(* The temporary is published as it was created (mutant).                  *)
CreateAndPublish(t) == WriteStep(t, "create", "publish")

CreateTemporary(t) == WriteStep(t, "create", "write")
WriteTemporary(t)  == WriteStep(t, "write", "publish")

(* The temporary is removed before the rename (mutant).                    *)
PublishRemoved(t) ==
    /\ step[t] = "publish"
    /\ Go(t, "insert")
    /\ temporary' = [temporary EXCEPT ![t] = "none"]
    /\ disk' = [disk EXCEPT ![key[t]] = temporary'[t]]
    /\ UNCHANGED <<holder, memory, counters, key, calls, reading, snapshot,
                   loaded, damaged, crashes>>

(* The rename replaces an existing artifact.  When it fails and the name   *)
(* exists all the same, the temporary is removed and nothing is counted    *)
(* unless that fails too.                                                  *)
Publish(t) ==
    /\ step[t] = "publish"
    /\ Go(t, "insert")
    /\ \/ /\ disk' = [disk EXCEPT ![key[t]] = temporary[t]]
          /\ temporary' = [temporary EXCEPT ![t] = "none"]
          /\ UNCHANGED counters
       \/ /\ "write" \in Failures /\ disk[key[t]] # "absent"
          /\ temporary' = [temporary EXCEPT ![t] = "none"]
          /\ UNCHANGED <<disk, counters>>
       \/ /\ "write" \in Failures
          /\ Count(Home(t), {"persistentErrors"})
          /\ UNCHANGED <<disk, temporary>>
    /\ UNCHANGED <<holder, memory, key, calls, reading, snapshot, loaded,
                   damaged, crashes>>

(* The module is retained and the mutex released; the miss is counted      *)
(* after that.                                                             *)
Insert(t) ==
    /\ step[t] = "insert"
    /\ Retain(t)
    /\ Unlock(Home(t))
    /\ Go(t, "count")
    /\ UNCHANGED <<counters, disk, key, temporary, calls, reading, snapshot,
                   damaged, crashes>>

CountMiss(t) ==
    /\ step[t] = "count"
    /\ Count(Home(t), {"misses"})
    /\ Go(t, "idle")
    /\ UNCHANGED <<holder, memory, disk, key, temporary, calls, reading,
                   snapshot, loaded, damaged, crashes>>

(* Compiler::cache_stats reads one counter after the other, then takes the *)
(* mutex for the number of entries.                                        *)
ReadCounter(r, name, next) ==
    /\ snapshot' = [snapshot EXCEPT ![r][name] = counters[Home(r)][name]]
    /\ reading' = [reading EXCEPT ![r] = next]

(* The number of entries is read first (mutant).                           *)
ReadStatsEntriesFirst(r) ==
    /\ \/ /\ reading[r] = "idle"
          /\ holder[Home(r)] = Nobody
          /\ snapshot' = [snapshot EXCEPT ![r].entries = Cardinality(memory[Home(r)])]
          /\ reading' = [reading EXCEPT ![r] = "persistentHits"]
       \/ reading[r] = "persistentHits" /\ ReadCounter(r, "persistentHits", "misses")
       \/ reading[r] = "misses" /\ ReadCounter(r, "misses", "done")
    /\ UNCHANGED <<holder, memory, counters, disk, step, key, temporary, calls,
                   loaded, damaged, crashes>>

ReadStats(r) ==
    /\ \/ reading[r] = "idle" /\ ReadCounter(r, "hits", "persistentHits")
       \/ reading[r] = "persistentHits" /\ ReadCounter(r, "persistentHits", "misses")
       \/ reading[r] = "misses" /\ ReadCounter(r, "misses", "entries")
       \/ /\ reading[r] = "entries"
          /\ holder[Home(r)] = Nobody
          /\ snapshot' = [snapshot EXCEPT ![r].entries = Cardinality(memory[Home(r)])]
          /\ reading' = [reading EXCEPT ![r] = "done"]
       \/ /\ reading[r] = "done"
          /\ snapshot' = [snapshot EXCEPT ![r] = EmptySnapshot]
          /\ reading' = [reading EXCEPT ![r] = "idle"]
    /\ UNCHANGED <<holder, memory, counters, disk, step, key, temporary, calls,
                   loaded, damaged, crashes>>

-----------------------------------------------------------------------------

(* A process dies, with its compiler; its temporaries stay behind under    *)
(* names that nobody looks up.                                             *)
Crash(c) ==
    LET mine    == {t \in Threads : Home(t) = c}
        readers == {r \in Readers : Home(r) = c}
    IN
    /\ crashes < MaxCrashes
    /\ crashes' = crashes + 1
    /\ holder' = [holder EXCEPT ![c] = Nobody]
    /\ memory' = [memory EXCEPT ![c] = {}]
    /\ counters' = [counters EXCEPT ![c] = Zero]
    /\ step' = [t \in Threads |-> IF t \in mine THEN "idle" ELSE step[t]]
    /\ temporary' = [t \in Threads |-> IF t \in mine THEN "none" ELSE temporary[t]]
    /\ reading' = [r \in Readers |-> IF r \in readers THEN "idle" ELSE reading[r]]
    /\ snapshot' = [r \in Readers |-> IF r \in readers THEN EmptySnapshot ELSE snapshot[r]]
    /\ loaded' = [loaded EXCEPT ![c] = [k \in Keys |-> 0]]
    /\ UNCHANGED <<disk, key, calls, damaged>>

(* An artifact is damaged by something other than the program.             *)
Corrupt(k) ==
    /\ k \in Corruptible \ damaged
    /\ disk[k] = "whole"
    /\ disk' = [disk EXCEPT ![k] = "torn"]
    /\ damaged' = damaged \cup {k}
    /\ UNCHANGED <<holder, memory, counters, step, key, temporary, calls,
                   reading, snapshot, loaded, crashes>>

Advance(t) ==
    \/ Lookup(t) \/ LoadPtx(t) \/ ReadArtifact(t) \/ LoadArtifact(t)
    \/ CountPersistentHit(t) \/ Reject(t) \/ Build(t) \/ CreateTemporary(t)
    \/ WriteTemporary(t) \/ Publish(t) \/ Insert(t) \/ CountMiss(t)

Next ==
    \/ \E t \in Threads : Lock(t) \/ Advance(t) \/ \E k \in Keys : Call(t, k)
    \/ \E r \in Readers : ReadStats(r)
    \/ \E c \in Compilers : Crash(c)
    \/ \E k \in SourceKeys : Corrupt(k)

Spec == Init /\ [][Next]_vars

(* A thread in a call goes on, and takes the mutex once it stays free.  No *)
(* fair mutex is assumed: calls are finitely many.                         *)
Fairness ==
    \A t \in Threads : WF_vars(Advance(t)) /\ WF_vars(Lock(t))

FairSpec == Spec /\ Fairness

-----------------------------------------------------------------------------

(* Every variable has its type; in particular only what was written        *)
(* completely or partly takes an artifact's name, and never a file that is *)
(* gone.                                                                   *)
TypeOK ==
    /\ holder \in [Compilers -> Threads \cup {Nobody}]
    /\ memory \in [Compilers -> SUBSET Keys]
    /\ counters \in [Compilers -> [DOMAIN Zero -> Nat]]
    /\ disk \in [SourceKeys -> {"absent", "whole", "torn"}]
    /\ step \in [Threads -> Steps]
    /\ key \in [Threads -> Keys]
    /\ temporary \in [Threads -> {"none", "torn", "whole"}]
    /\ calls \in [Threads -> 0..MaxCalls]
    /\ reading \in [Readers -> ReaderSteps]
    /\ snapshot \in [Readers -> [DOMAIN EmptySnapshot -> Nat]]
    /\ loaded \in [Compilers -> [Keys -> Nat]]
    /\ damaged \in SUBSET Corruptible
    /\ crashes \in 0..MaxCrashes

(* A module is loaded once per compiler and key, however many threads ask  *)
(* for it at the same time, and is never loaded again while retained.      *)
OneLoadPerKey == \A c \in Compilers, k \in Keys : loaded[c][k] <= 1

(* What a reader finds under an artifact's name was written completely,    *)
(* also after a writer died between two steps, unless it was damaged.      *)
ArtifactsAreWhole ==
    \A k \in SourceKeys : disk[k] = "torn" => k \in damaged

(* Statistics read while other threads compile never count more loads than *)
(* there are entries, because the number of entries is read last.  Loads   *)
(* are persistent hits and misses; load_ptx counts a miss as well, though  *)
(* NVRTC, whose compilations misses are documented to number, is not run.  *)
SnapshotCountsLoaded ==
    \A r \in Readers : reading[r] = "done" =>
        snapshot[r].misses + snapshot[r].persistentHits <= snapshot[r].entries

(* Every call ends, whatever fails: no path keeps the mutex.               *)
CallsEnd == \A t \in Threads : step[t] = "waiting" ~> step[t] = "idle"

(* What reject_persistent removes is written anew: a damaged artifact, one *)
(* that another compiler has just written in its place, and a sound one    *)
(* whose load failed.  Stated where NVRTC and writing do not fail: such    *)
(* failures leave the key without an artifact for the next call.           *)
RemovedIsReplaced ==
    \A k \in SourceKeys :
        [](disk[k] # "absent" => [](disk[k] = "absent" => <>(disk[k] = "whole")))
=============================================================================
