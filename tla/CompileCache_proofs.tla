------------------------- MODULE CompileCache_proofs -------------------------
(* Theorems about CompileCache, for every value of its constants.          *)
EXTENDS CompileCache, FiniteSetTheorems, TLAPS

(***************************************************************************)
(* The argument.  Only the holder of a compiler's mutex is between the     *)
(* lookup and the insertion, so the key it found missing stays missing     *)
(* until it retains the module itself.  A retained module is counted later *)
(* by the thread that retained it; the threads that have not counted yet   *)
(* make up the difference between the entries and the counters.            *)
(***************************************************************************)
Names == {"hits", "persistentHits", "misses", "persistentErrors"}

(* Where a thread holds the mutex; where its module is still to be         *)
(* retained; where the module is retained and not counted.                 *)
Inside  == {"lookup", "read", "load", "hit", "persistentHit", "reject", "build",
            "ptx", "create", "write", "publish", "insert"}
Loading == Inside \ {"lookup", "hit", "persistentHit"}
Saving  == {"hit", "persistentHit", "count"}

Uncounted(c) == {t \in Threads : Home(t) = c /\ step[t] \in Saving}

InsideHoldsMutex ==
    \A t \in Threads : step[t] \in Inside => holder[Home(t)] = t

LoadingIsMissing ==
    \A t \in Threads : step[t] \in Loading => key[t] \notin memory[Home(t)]

LoadedIsRetained ==
    \A c \in Compilers, k \in Keys : loaded[c][k] = IF k \in memory[c] THEN 1 ELSE 0

PublishedIsWhole ==
    \A t \in Threads : step[t] = "publish" => temporary[t] = "whole"

(* Finitely many modules are retained, by finitely many threads that have  *)
(* not counted theirs.                                                     *)
OnlyFinitelyMany ==
    \A c \in Compilers : IsFiniteSet(memory[c]) /\ IsFiniteSet(Uncounted(c))

(* The modules that a compiler retains are those it counted as loads, and  *)
(* those whose thread has not counted yet.                                 *)
LoadsAddUp ==
    \A c \in Compilers :
        Cardinality(memory[c]) =
            counters[c].misses + counters[c].persistentHits + Cardinality(Uncounted(c))

(* What a reader has read so far is not ahead of the counters.             *)
Lags(r) ==
    LET now  == counters[Home(r)]
        read == snapshot[r]
    IN  /\ reading[r] = "misses" => read.persistentHits <= now.persistentHits
        /\ reading[r] = "entries" =>
               read.misses + read.persistentHits <= now.misses + now.persistentHits
        /\ reading[r] = "done" => read.misses + read.persistentHits <= read.entries

ReadersLag == \A r \in Readers : Lags(r)

IInv ==
    /\ TypeOK
    /\ PublishedIsWhole /\ ArtifactsAreWhole
    /\ InsideHoldsMutex /\ LoadingIsMissing /\ LoadedIsRetained
    /\ OnlyFinitelyMany /\ LoadsAddUp
    /\ ReadersLag


-----------------------------------------------------------------------------
(* Counters.                                                               *)

(* The counters and a snapshot, as they start.                             *)
LEMMA NamesOfZero ==
    /\ DOMAIN Zero = Names /\ Zero \in [Names -> Nat]
    /\ \A n \in Names : Zero[n] = 0
    /\ DOMAIN EmptySnapshot = {"hits", "persistentHits", "misses", "entries"}
    /\ EmptySnapshot \in [DOMAIN EmptySnapshot -> Nat]
    /\ EmptySnapshot.misses = 0 /\ EmptySnapshot.persistentHits = 0 /\ EmptySnapshot.entries = 0
BY DEF Zero, EmptySnapshot, Names

CountersTyped == counters \in [Compilers -> [Names -> Nat]]

(* Counting changes the named counters of one compiler by one.             *)
LEMMA CountEffect ==
    ASSUME CountersTyped, NEW c \in Compilers, NEW names, Count(c, names)
    PROVE  /\ CountersTyped'
           /\ \A n \in Names : counters'[c][n] =
                  IF n \in names THEN counters[c][n] + 1 ELSE counters[c][n]
           /\ \A d \in Compilers : d # c => counters'[d] = counters[d]
<1>1. Bump(c, names) = [n \in Names |-> IF n \in names THEN counters[c][n] + 1
                                        ELSE counters[c][n]]
  BY NamesOfZero DEF Bump
<1>2. counters[c] \in [Names -> Nat]
  BY DEF CountersTyped
<1>3. Bump(c, names) \in [Names -> Nat]
  BY <1>1, <1>2
<1>. QED  BY <1>1, <1>3 DEF Count, CountersTyped

(* Neither misses nor persistent hits are counted.                         *)
SameLoads ==
    \A c \in Compilers : /\ counters'[c].misses = counters[c].misses
                         /\ counters'[c].persistentHits = counters[c].persistentHits

(* One of them is, for compiler c.                                         *)
OneMoreLoad(c) ==
    /\ counters'[c].misses + counters'[c].persistentHits
           = counters[c].misses + counters[c].persistentHits + 1
    /\ counters[c].misses <= counters'[c].misses
    /\ counters[c].persistentHits <= counters'[c].persistentHits
    /\ \A d \in Compilers : d # c => counters'[d] = counters[d]

(* A hit or an error of persistence leaves the loads as counted.           *)
LEMMA CountOther ==
    ASSUME CountersTyped, NEW c \in Compilers, NEW n \in {"hits", "persistentErrors"},
           Count(c, {n})
    PROVE  CountersTyped' /\ SameLoads
<1>1. /\ CountersTyped'
      /\ \A m \in Names : m # n => counters'[c][m] = counters[c][m]
      /\ \A d \in Compilers : d # c => counters'[d] = counters[d]
  BY CountEffect
<1>. QED  BY <1>1 DEF SameLoads, Names

(* A miss or a persistent hit is one more load.                            *)
LEMMA CountLoad ==
    ASSUME CountersTyped, NEW c \in Compilers, NEW n \in {"misses", "persistentHits"},
           Count(c, {n})
    PROVE  CountersTyped' /\ OneMoreLoad(c)
<1>1. /\ CountersTyped'
      /\ counters'[c][n] = counters[c][n] + 1
      /\ \A m \in Names : m # n => counters'[c][m] = counters[c][m]
      /\ \A d \in Compilers : d # c => counters'[d] = counters[d]
  BY CountEffect DEF Names
<1>2. counters[c].misses \in Nat /\ counters[c].persistentHits \in Nat
  BY DEF CountersTyped, Names
<1>3. CASE n = "misses"
  BY <1>1, <1>2, <1>3 DEF OneMoreLoad, Names
<1>4. CASE n = "persistentHits"
  BY <1>1, <1>2, <1>4 DEF OneMoreLoad, Names
<1>. QED  BY <1>1, <1>3, <1>4

(* So do two errors of persistence at once leave the loads.                *)
LEMMA TwoErrors ==
    ASSUME CountersTyped, NEW c \in Compilers,
           counters' = [counters EXCEPT ![c].persistentErrors = @ + 2]
    PROVE  CountersTyped' /\ SameLoads
<1>1. counters[c] \in [Names -> Nat] /\ "persistentErrors" \in Names
  BY DEF CountersTyped, Names
<1>. PICK two : two = [counters[c] EXCEPT !["persistentErrors"] = @ + 2]
  OBVIOUS
<1>2. /\ two \in [Names -> Nat] /\ counters' = [counters EXCEPT ![c] = two]
      /\ \A m \in Names : m # "persistentErrors" => two[m] = counters[c][m]
  <2>1. /\ two \in [Names -> Nat]
        /\ \A m \in Names : m # "persistentErrors" => two[m] = counters[c][m]
    BY <1>1
  <2>2. counters' = [counters EXCEPT ![c] = two]
    OBVIOUS
  <2>. QED  BY <2>1, <2>2
<1>. QED  BY <1>2 DEF CountersTyped, SameLoads, Names

-----------------------------------------------------------------------------
(* What a step of a call does.                                             *)

(* Nothing is retained and no load is counted.                             *)
Quietly(t, n) ==
    /\ UNCHANGED <<memory, loaded>> /\ SameLoads
    /\ step[t] \in Saving <=> n \in Saving

Retaining(t, n) ==
    /\ Retain(t) /\ UNCHANGED counters
    /\ step[t] \in Loading /\ n \in Saving

Counting(t, n) ==
    /\ UNCHANGED <<memory, loaded>> /\ OneMoreLoad(Home(t))
    /\ step[t] \in Saving /\ n \notin Saving

Moves(t, n) ==
    /\ n \in Steps /\ Go(t, n)
    /\ Quietly(t, n) \/ Retaining(t, n) \/ Counting(t, n)
    /\ UNCHANGED <<reading, snapshot, calls, crashes, damaged>>

(* The mutex and the key change hands only in its own compiler.            *)
Excludes(t, n) ==
    /\ n \in Inside => step[t] \in Inside /\ UNCHANGED holder
    /\ UNCHANGED holder \/ (step[t] \in Inside /\ Unlock(Home(t)))
    /\ n \in Loading => key[t] \notin memory'[Home(t)] /\ step[t] \in Inside
    /\ UNCHANGED key

Files(t, n) ==
    /\ disk' \in [SourceKeys -> {"absent", "whole", "torn"}]
    /\ temporary' \in [Threads -> {"none", "torn", "whole"}]
    /\ n = "publish" => temporary'[t] = "whole"
    /\ \A u \in Threads : u # t => temporary'[u] = temporary[u]
    /\ \A k \in SourceKeys : disk'[k] = "torn" => disk[k] = "torn"

Acts(t, n) ==
    /\ CountersTyped' /\ Moves(t, n) /\ Excludes(t, n) /\ Files(t, n)
    /\ n = "publish" => step[t] = "write"

SomehowActs(t) == \E n \in Steps : Acts(t, n)

(* Every thread and every reader is of a compiler.                         *)
LEMMA HomeTyped == \A t \in Threads \cup Readers : Home(t) \in Compilers
BY CompilerOfAssumption DEF Home

(* The types that the proofs below use.                                    *)
LEMMA TypesUsed ==
    ASSUME TypeOK
    PROVE  /\ CountersTyped
           /\ disk \in [SourceKeys -> {"absent", "whole", "torn"}]
           /\ temporary \in [Threads -> {"none", "torn", "whole"}]
           /\ step \in [Threads -> Steps] /\ key \in [Threads -> Keys]
           /\ memory \in [Compilers -> SUBSET Keys]
           /\ loaded \in [Compilers -> [Keys -> Nat]]
BY NamesOfZero DEF TypeOK, CountersTyped

(* Counters that stay count the same loads.                                *)
LEMMA UnchangedLoads ==
    ASSUME CountersTyped, UNCHANGED counters
    PROVE  CountersTyped' /\ SameLoads
BY DEF CountersTyped, SameLoads

(* Every step of a call is one of the kinds of SomehowActs.                *)
LEMMA AdvanceEffect ==
    ASSUME TypeOK, PublishedIsWhole, LoadingIsMissing, NEW t \in Threads, Advance(t)
    PROVE  SomehowActs(t)
<1>. /\ Home(t) \in Compilers /\ CountersTyped
     /\ disk \in [SourceKeys -> {"absent", "whole", "torn"}]
     /\ temporary \in [Threads -> {"none", "torn", "whole"}]
     /\ memory \in [Compilers -> SUBSET Keys]
  BY HomeTyped, TypesUsed
<1>. USE DEF Steps, Inside, Loading, Saving
<1>1. CASE Lookup(t)
  <2>1. CASE key[t] \in memory[Home(t)] /\ Count(Home(t), {"hits"}) /\ Return(t)
    <3>1. CountersTyped' /\ SameLoads
      BY <2>1, CountOther
    <3>. QED  BY <1>1, <2>1, <3>1
              DEF Lookup, Return, SomehowActs, Acts, Moves, Quietly, Excludes, Files
  <2>2. CASE key[t] \notin memory[Home(t)] /\ UNCHANGED <<holder, counters>>
    <3>1. PICK n \in {"ptx", "read", "build"} : Go(t, n)
      BY <1>1, <2>2 DEF Lookup, Return
    <3>2. CountersTyped' /\ SameLoads
      BY <2>2, UnchangedLoads
    <3>. QED  BY <1>1, <2>2, <3>1, <3>2 DEF Lookup, SomehowActs, Acts, Moves, Quietly, Excludes,
                                            Files
  <2>. QED  BY <1>1, <2>1, <2>2 DEF Lookup
<1>2. CASE LoadPtx(t)
  <2>1. CountersTyped' /\ SameLoads
    BY <1>2, UnchangedLoads DEF LoadPtx
  <2>2. CASE Go(t, "insert") /\ UNCHANGED holder
    BY <1>2, <2>1, <2>2 DEF LoadPtx, SomehowActs, Acts, Moves, Quietly, Excludes, Files,
                            LoadingIsMissing
  <2>3. CASE Return(t)
    BY <1>2, <2>1, <2>3 DEF LoadPtx, Return, SomehowActs, Acts, Moves, Quietly, Excludes, Files
  <2>. QED  BY <1>2, <2>2, <2>3 DEF LoadPtx
<1>3. CASE ReadArtifact(t)
  <2>1. PICK n \in {"build", "load", "reject"} : Go(t, n)
    BY <1>3 DEF ReadArtifact
  <2>2. CountersTyped' /\ SameLoads
    BY <1>3, UnchangedLoads, CountOther DEF ReadArtifact
  <2>. QED  BY <1>3, <2>1, <2>2
            DEF ReadArtifact, SomehowActs, Acts, Moves, Quietly, Excludes, Files, LoadingIsMissing
<1>4. CASE LoadArtifact(t)
  <2>1. CountersTyped' /\ SameLoads
    BY <1>4, UnchangedLoads DEF LoadArtifact
  <2>2. CASE Retain(t) /\ Go(t, "hit")
    BY <1>4, <2>1, <2>2 DEF LoadArtifact, SomehowActs, Acts, Moves, Retaining, Excludes, Files
  <2>3. CASE Go(t, "reject") /\ UNCHANGED <<memory, loaded>>
    BY <1>4, <2>1, <2>3
       DEF LoadArtifact, SomehowActs, Acts, Moves, Quietly, Excludes, Files, LoadingIsMissing
  <2>. QED  BY <1>4, <2>2, <2>3 DEF LoadArtifact
<1>5. CASE CountPersistentHit(t)
  <2>1. CASE step[t] = "hit" /\ Count(Home(t), {"hits"}) /\ Go(t, "persistentHit")
             /\ UNCHANGED holder
    <3>1. CountersTyped' /\ SameLoads
      BY <2>1, CountOther
    <3>. QED  BY <1>5, <2>1, <3>1
              DEF CountPersistentHit, SomehowActs, Acts, Moves, Quietly, Excludes, Files
  <2>2. CASE step[t] = "persistentHit" /\ Count(Home(t), {"persistentHits"}) /\ Return(t)
    <3>1. CountersTyped' /\ OneMoreLoad(Home(t))
      BY <2>2, CountLoad
    <3>. QED  BY <1>5, <2>2, <3>1
              DEF CountPersistentHit, Return, SomehowActs, Acts, Moves, Counting, Excludes, Files
  <2>. QED  BY <1>5, <2>1, <2>2 DEF CountPersistentHit
<1>6. CASE Reject(t)
  <2>1. CountersTyped' /\ SameLoads
    BY <1>6, CountOther, TwoErrors DEF Reject
  <2>2. /\ disk' \in [SourceKeys -> {"absent", "whole", "torn"}]
        /\ \A k \in SourceKeys : disk'[k] = "torn" => disk[k] = "torn"
    BY <1>6 DEF Reject
  <2>. QED  BY <1>6, <2>1, <2>2
            DEF Reject, SomehowActs, Acts, Moves, Quietly, Excludes, Files, LoadingIsMissing
<1>7. CASE Build(t)
  <2>1. CountersTyped' /\ SameLoads
    BY <1>7, UnchangedLoads DEF Build
  <2>2. CASE Return(t)
    BY <1>7, <2>1, <2>2 DEF Build, Return, SomehowActs, Acts, Moves, Quietly, Excludes, Files
  <2>3. CASE ~Return(t)
    <3>1. PICK n \in {"create", "insert"} : Go(t, n)
      BY <1>7, <2>3 DEF Build
    <3>. QED  BY <1>7, <2>1, <2>3, <3>1
              DEF Build, SomehowActs, Acts, Moves, Quietly, Excludes, Files, LoadingIsMissing
  <2>. QED  BY <2>2, <2>3
<1>8. ASSUME NEW from, NEW next, WriteStep(t, from, next),
             \/ from = "create" /\ next = "write"
             \/ from = "write" /\ next = "publish"
      PROVE  SomehowActs(t)
  <2>1. CountersTyped' /\ SameLoads
    BY <1>8, UnchangedLoads, CountOther DEF WriteStep
  <2>2. CASE Go(t, next) /\
             temporary' = [temporary EXCEPT ![t] = IF from = "create" THEN "torn" ELSE "whole"]
    BY <1>8, <2>1, <2>2 DEF WriteStep, SomehowActs, Acts, Moves, Quietly, Excludes, Files,
                            LoadingIsMissing
  <2>3. CASE Go(t, "insert") /\ UNCHANGED temporary
    BY <1>8, <2>1, <2>3 DEF WriteStep, SomehowActs, Acts, Moves, Quietly, Excludes, Files,
                            LoadingIsMissing
  <2>. QED  BY <1>8, <2>2, <2>3 DEF WriteStep
<1>9. CASE Publish(t)
  <2>1. CountersTyped' /\ SameLoads
    BY <1>9, UnchangedLoads, CountOther DEF Publish
  <2>2. /\ disk' \in [SourceKeys -> {"absent", "whole", "torn"}]
        /\ \A k \in SourceKeys : disk'[k] = "torn" => disk[k] = "torn"
    <3>1. temporary[t] = "whole"
      BY <1>9 DEF Publish, PublishedIsWhole
    <3>. QED  BY <1>9, <3>1 DEF Publish
  <2>3. /\ temporary' \in [Threads -> {"none", "torn", "whole"}]
        /\ \A u \in Threads : u # t => temporary'[u] = temporary[u]
    BY <1>9 DEF Publish
  <2>. QED  BY <1>9, <2>1, <2>2, <2>3
            DEF Publish, SomehowActs, Acts, Moves, Quietly, Excludes, Files, LoadingIsMissing
<1>10. CASE Insert(t)
  <2>1. CountersTyped' /\ SameLoads
    BY <1>10, UnchangedLoads DEF Insert
  <2>. QED  BY <1>10, <2>1 DEF Insert, SomehowActs, Acts, Moves, Retaining, Excludes, Files
<1>11. CASE CountMiss(t)
  <2>1. CountersTyped' /\ OneMoreLoad(Home(t))
    BY <1>11, CountLoad DEF CountMiss
  <2>. QED  BY <1>11, <2>1 DEF CountMiss, SomehowActs, Acts, Moves, Counting, Excludes, Files
<1>12. CASE CreateTemporary(t)
  BY <1>8, <1>12 DEF CreateTemporary
<1>13. CASE WriteTemporary(t)
  BY <1>8, <1>13 DEF WriteTemporary
<1>. QED  BY <1>1, <1>2, <1>3, <1>4, <1>5, <1>6, <1>7, <1>9, <1>10, <1>11, <1>12, <1>13
          DEF Advance


-----------------------------------------------------------------------------
(* Types.                                                                  *)

(* Retaining a module keeps the types.                                     *)
LEMMA RetainTyped ==
    ASSUME TypeOK, NEW t \in Threads, Retain(t)
    PROVE  /\ memory' \in [Compilers -> SUBSET Keys]
           /\ loaded' \in [Compilers -> [Keys -> Nat]]
<1>1. Home(t) \in Compilers /\ key[t] \in Keys
  BY HomeTyped DEF TypeOK
<1>2. loaded[Home(t)] \in [Keys -> Nat] /\ memory[Home(t)] \in SUBSET Keys
  BY <1>1 DEF TypeOK
<1>. QED  BY <1>1, <1>2 DEF Retain, TypeOK

(* Reading statistics keeps the types.                                     *)
LEMMA ReadStatsTyped ==
    ASSUME TypeOK, OnlyFinitelyMany, NEW r \in Readers, ReadStats(r)
    PROVE  /\ reading' \in [Readers -> ReaderSteps]
           /\ snapshot' \in [Readers -> [DOMAIN EmptySnapshot -> Nat]]
<1>. DEFINE D == {"hits", "persistentHits", "misses", "entries"}
<1>1. /\ Home(r) \in Compilers /\ snapshot \in [Readers -> [D -> Nat]]
      /\ reading \in [Readers -> ReaderSteps] /\ D = DOMAIN EmptySnapshot
      /\ EmptySnapshot \in [D -> Nat]
  BY HomeTyped, NamesOfZero DEF TypeOK
<1>2. /\ Cardinality(memory[Home(r)]) \in Nat
      /\ \A n \in {"hits", "persistentHits", "misses"} : counters[Home(r)][n] \in Nat
  BY <1>1, FS_CardinalityType, TypesUsed DEF OnlyFinitelyMany, CountersTyped, Names
<1>3. ASSUME NEW n \in D, NEW v \in Nat, snapshot' = [snapshot EXCEPT ![r][n] = v]
      PROVE  snapshot' \in [Readers -> [D -> Nat]]
  <2>1. snapshot[r] \in [D -> Nat]
    BY <1>1
  <2>. QED  BY <1>1, <1>3, <2>1
<1>4. snapshot' \in [Readers -> [D -> Nat]]
  <2>1. CASE reading[r] = "done"
    BY <1>1, <2>1 DEF ReadStats
  <2>2. CASE reading[r] = "entries"
    BY <1>2, <1>3, <2>2 DEF ReadStats
  <2>3. CASE reading[r] \in {"idle", "persistentHits", "misses"}
    BY <1>2, <1>3, <2>3 DEF ReadStats, ReadCounter
  <2>. QED  BY <1>1, <2>1, <2>2, <2>3 DEF ReaderSteps
<1>5. reading' \in [Readers -> ReaderSteps]
  BY <1>1 DEF ReadStats, ReadCounter, ReaderSteps
<1>. QED  BY <1>1, <1>4, <1>5

(* Every step keeps every type.                                            *)
LEMMA NextTyped ==
    ASSUME TypeOK, PublishedIsWhole, LoadingIsMissing, OnlyFinitelyMany, [Next]_vars
    PROVE  TypeOK'
<1>. /\ CountersTyped /\ DOMAIN Zero = Names
     /\ \A t \in Threads \cup Readers : Home(t) \in Compilers
     /\ \A k \in SourceKeys : k \in Keys
  BY HomeTyped, TypesUsed, NamesOfZero DEF Keys
<1>1. ASSUME NEW t \in Threads, Advance(t)
      PROVE  TypeOK'
  <2>1. PICK n \in Steps : Acts(t, n)
    BY <1>1, AdvanceEffect DEF SomehowActs
  <2>2. memory' \in [Compilers -> SUBSET Keys] /\ loaded' \in [Compilers -> [Keys -> Nat]]
    BY <2>1, RetainTyped DEF Acts, Moves, Quietly, Retaining, Counting, TypeOK
  <2>3. /\ step' \in [Threads -> Steps]
        /\ holder' \in [Compilers -> Threads \cup {Nobody}]
    BY <2>1 DEF Acts, Moves, Excludes, Go, Unlock, TypeOK
  <2>4. /\ counters' \in [Compilers -> [DOMAIN Zero -> Nat]]
        /\ disk' \in [SourceKeys -> {"absent", "whole", "torn"}]
        /\ temporary' \in [Threads -> {"none", "torn", "whole"}]
        /\ UNCHANGED <<key, reading, snapshot, calls, crashes, damaged>>
    BY <2>1 DEF Acts, Moves, Excludes, Files, CountersTyped
  <2>. QED  BY <2>2, <2>3, <2>4 DEF TypeOK
<1>2. ASSUME NEW t \in Threads, Lock(t)
      PROVE  TypeOK'
  BY <1>2 DEF Lock, Go, Steps, TypeOK
<1>3. ASSUME NEW t \in Threads, NEW k \in Keys, Call(t, k)
      PROVE  TypeOK'
  <2>1. calls' \in [Threads -> 0..MaxCalls]
    BY <1>3, BoundsAssumption DEF Call, TypeOK
  <2>. QED  BY <1>3, <2>1 DEF Call, Go, Steps, TypeOK
<1>4. ASSUME NEW r \in Readers, ReadStats(r)
      PROVE  TypeOK'
  <2>1. UNCHANGED <<holder, memory, counters, disk, step, key, temporary, calls,
                    loaded, damaged, crashes>>
    BY <1>4 DEF ReadStats
  <2>. QED  BY <1>4, <2>1, ReadStatsTyped DEF TypeOK
<1>5. ASSUME NEW c \in Compilers, Crash(c)
      PROVE  TypeOK'
  <2>1. /\ holder' \in [Compilers -> Threads \cup {Nobody}]
        /\ memory' \in [Compilers -> SUBSET Keys]
    BY <1>5 DEF Crash, TypeOK
  <2>2. counters' \in [Compilers -> [DOMAIN Zero -> Nat]]
    BY <1>5, NamesOfZero DEF Crash, TypeOK
  <2>3. step' \in [Threads -> Steps] /\ temporary' \in [Threads -> {"none", "torn", "whole"}]
    BY <1>5 DEF Crash, Steps, TypeOK
  <2>4. reading' \in [Readers -> ReaderSteps]
    BY <1>5 DEF Crash, ReaderSteps, TypeOK
  <2>5. snapshot' \in [Readers -> [DOMAIN EmptySnapshot -> Nat]]
    BY <1>5, NamesOfZero DEF Crash, TypeOK
  <2>6. loaded' \in [Compilers -> [Keys -> Nat]]
    BY <1>5 DEF Crash, TypeOK
  <2>7. crashes' \in 0..MaxCrashes /\ UNCHANGED <<disk, key, calls, damaged>>
    BY <1>5, BoundsAssumption DEF Crash, TypeOK
  <2>. QED  BY <2>1, <2>2, <2>3, <2>4, <2>5, <2>6, <2>7 DEF TypeOK
<1>6. ASSUME NEW k \in SourceKeys, Corrupt(k)
      PROVE  TypeOK'
  BY <1>6 DEF Corrupt, TypeOK
<1>7. CASE UNCHANGED vars
  BY <1>7 DEF vars, TypeOK
<1>. QED  BY <1>1, <1>2, <1>3, <1>4, <1>5, <1>6, <1>7 DEF Next

-----------------------------------------------------------------------------
(* Artifacts.                                                              *)

(* Every step keeps artifacts whole: only what was written completely is   *)
(* published.                                                              *)
LEMMA ArtifactsStayWhole ==
    ASSUME TypeOK, PublishedIsWhole, LoadingIsMissing, ArtifactsAreWhole, [Next]_vars
    PROVE  PublishedIsWhole' /\ ArtifactsAreWhole'
<1>1. ASSUME NEW t \in Threads, Advance(t)
      PROVE  PublishedIsWhole' /\ ArtifactsAreWhole'
  <2>1. PICK n \in Steps : Acts(t, n)
    BY <1>1, AdvanceEffect DEF SomehowActs
  <2>2. step' = [step EXCEPT ![t] = n] /\ step \in [Threads -> Steps] /\ UNCHANGED damaged
    BY <2>1 DEF Acts, Moves, Go, TypeOK
  <2>3. /\ n = "publish" => temporary'[t] = "whole"
        /\ \A u \in Threads : u # t => temporary'[u] = temporary[u]
        /\ \A k \in SourceKeys : disk'[k] = "torn" => disk[k] = "torn"
    BY <2>1 DEF Acts, Files
  <2>. QED  BY <2>2, <2>3 DEF PublishedIsWhole, ArtifactsAreWhole
<1>2. ASSUME NEW t \in Threads, Lock(t) \/ \E k \in Keys : Call(t, k)
      PROVE  PublishedIsWhole' /\ ArtifactsAreWhole'
  <2>1. UNCHANGED <<temporary, disk, damaged>>
    BY <1>2 DEF Lock, Call
  <2>2. \A u \in Threads : step'[u] = "publish" => step[u] = "publish"
    BY <1>2 DEF Lock, Call, Go, TypeOK
  <2>. QED  BY <2>1, <2>2 DEF PublishedIsWhole, ArtifactsAreWhole
<1>3. ASSUME NEW r \in Readers, ReadStats(r)
      PROVE  PublishedIsWhole' /\ ArtifactsAreWhole'
  BY <1>3 DEF ReadStats, PublishedIsWhole, ArtifactsAreWhole
<1>4. ASSUME NEW c \in Compilers, Crash(c)
      PROVE  PublishedIsWhole' /\ ArtifactsAreWhole'
  BY <1>4 DEF Crash, PublishedIsWhole, ArtifactsAreWhole
<1>5. ASSUME NEW k \in SourceKeys, Corrupt(k)
      PROVE  PublishedIsWhole' /\ ArtifactsAreWhole'
  BY <1>5 DEF Corrupt, PublishedIsWhole, ArtifactsAreWhole, TypeOK
<1>6. CASE UNCHANGED vars
  BY <1>6 DEF vars, PublishedIsWhole, ArtifactsAreWhole
<1>. QED  BY <1>1, <1>2, <1>3, <1>4, <1>5, <1>6 DEF Next

-----------------------------------------------------------------------------
(* The mutex.                                                              *)

MutexInv == InsideHoldsMutex /\ LoadingIsMissing /\ LoadedIsRetained

(* Every step keeps the mutex with the thread inside, and what it found    *)
(* missing missing.                                                        *)
LEMMA MutexIsKept ==
    ASSUME TypeOK, PublishedIsWhole, MutexInv, [Next]_vars
    PROVE  MutexInv'
<1>. /\ InsideHoldsMutex /\ LoadingIsMissing /\ LoadedIsRetained
     /\ \A t \in Threads : Home(t) \in Compilers /\ t # Nobody /\ key[t] \in Keys
     /\ step \in [Threads -> Steps] /\ key \in [Threads -> Keys]
     /\ holder \in [Compilers -> Threads \cup {Nobody}]
     /\ memory \in [Compilers -> SUBSET Keys] /\ loaded \in [Compilers -> [Keys -> Nat]]
  BY HomeTyped, NobodyAssumption DEF MutexInv, TypeOK
<1>1. ASSUME NEW t \in Threads, Advance(t)
      PROVE  MutexInv'
  <2>1. PICK n \in Steps : Acts(t, n)
    BY <1>1, AdvanceEffect DEF SomehowActs
  <2>2. /\ step' = [step EXCEPT ![t] = n] /\ key' = key
        /\ n \in Inside => step[t] \in Inside /\ holder' = holder
        /\ holder' = holder \/ (step[t] \in Inside /\ holder' = [holder EXCEPT ![Home(t)] = Nobody])
        /\ n \in Loading => key[t] \notin memory'[Home(t)] /\ step[t] \in Inside
    BY <2>1 DEF Acts, Moves, Excludes, Go, Unlock
  <2>3. \/ UNCHANGED <<memory, loaded>>
        \/ Retain(t) /\ step[t] \in Loading
    BY <2>1 DEF Acts, Moves, Quietly, Retaining, Counting
  <2>4. InsideHoldsMutex'
    <3>1. SUFFICES ASSUME NEW u \in Threads, step'[u] \in Inside
                   PROVE  holder'[Home(u)] = u
      BY DEF InsideHoldsMutex, Home
    <3>2. step[u] \in Inside /\ holder[Home(u)] = u
      BY <2>2, <3>1 DEF InsideHoldsMutex
    <3>3. CASE u = t
      BY <2>2, <3>1, <3>2, <3>3
    <3>4. CASE u # t
      <4>1. step[t] \in Inside => Home(u) # Home(t)
        BY <3>2, <3>4 DEF InsideHoldsMutex
      <4>. QED  BY <2>2, <3>2, <4>1
    <3>. QED  BY <3>3, <3>4
  <2>5. LoadingIsMissing'
    <3>1. SUFFICES ASSUME NEW u \in Threads, step'[u] \in Loading
                   PROVE  key[u] \notin memory'[Home(u)]
      BY <2>2 DEF LoadingIsMissing, Home
    <3>2. CASE u = t
      BY <2>2, <3>1, <3>2
    <3>3. CASE u # t
      <4>1. step[u] \in Loading
        BY <2>2, <3>1, <3>3
      <4>2. key[u] \notin memory[Home(u)] /\ holder[Home(u)] = u
        BY <4>1 DEF LoadingIsMissing, InsideHoldsMutex, Loading
      <4>3. step[t] \in Loading => Home(u) # Home(t)
        BY <3>3, <4>2 DEF InsideHoldsMutex, Loading
      <4>. QED  BY <2>3, <4>2, <4>3 DEF Retain
    <3>. QED  BY <3>2, <3>3
  <2>6. LoadedIsRetained'
    <3>1. CASE UNCHANGED <<memory, loaded>>
      BY <3>1 DEF LoadedIsRetained
    <3>2. CASE Retain(t) /\ step[t] \in Loading
      <4>1. key[t] \notin memory[Home(t)] /\ loaded[Home(t)][key[t]] = 0
        BY <3>2 DEF LoadingIsMissing, LoadedIsRetained
      <4>2. ASSUME NEW c \in Compilers, NEW k \in Keys
            PROVE  loaded'[c][k] = IF k \in memory'[c] THEN 1 ELSE 0
        <5>1. loaded[c][k] = IF k \in memory[c] THEN 1 ELSE 0
          BY DEF LoadedIsRetained
        <5>2. CASE c = Home(t) /\ k = key[t]
          BY <3>2, <4>1, <5>2 DEF Retain
        <5>3. CASE ~(c = Home(t) /\ k = key[t])
          BY <3>2, <5>1, <5>3 DEF Retain
        <5>. QED  BY <5>2, <5>3
      <4>. QED  BY <4>2 DEF LoadedIsRetained
    <3>. QED  BY <2>3, <3>1, <3>2
  <2>. QED  BY <2>4, <2>5, <2>6 DEF MutexInv
<1>2. ASSUME NEW t \in Threads, Lock(t)
      PROVE  MutexInv'
  <2>1. /\ holder[Home(t)] = Nobody /\ holder' = [holder EXCEPT ![Home(t)] = t]
        /\ step' = [step EXCEPT ![t] = "lookup"]
        /\ UNCHANGED <<key, memory, loaded>>
    BY <1>2 DEF Lock, Go
  <2>2. InsideHoldsMutex'
    <3>1. SUFFICES ASSUME NEW u \in Threads, step'[u] \in Inside
                   PROVE  holder'[Home(u)] = u
      BY DEF InsideHoldsMutex, Home
    <3>2. CASE u = t
      BY <2>1, <3>2
    <3>3. CASE u # t
      <4>1. holder[Home(u)] = u
        BY <2>1, <3>1, <3>3 DEF InsideHoldsMutex
      <4>. QED  BY <2>1, <4>1
    <3>. QED  BY <3>2, <3>3
  <2>3. LoadingIsMissing'
    BY <2>1 DEF LoadingIsMissing, Loading, Home
  <2>4. LoadedIsRetained'
    BY <2>1 DEF LoadedIsRetained
  <2>. QED  BY <2>2, <2>3, <2>4 DEF MutexInv
<1>3. ASSUME NEW t \in Threads, NEW k \in Keys, Call(t, k)
      PROVE  MutexInv'
  <2>1. /\ step' = [step EXCEPT ![t] = "waiting"] /\ key' = [key EXCEPT ![t] = k]
        /\ UNCHANGED <<holder, memory, loaded>>
    BY <1>3 DEF Call, Go
  <2>. QED  BY <2>1 DEF MutexInv, InsideHoldsMutex, LoadingIsMissing, LoadedIsRetained,
                        Inside, Loading, Home
<1>4. ASSUME NEW r \in Readers, ReadStats(r)
      PROVE  MutexInv'
  BY <1>4 DEF ReadStats, MutexInv, InsideHoldsMutex, LoadingIsMissing, LoadedIsRetained, Home
<1>5. ASSUME NEW c \in Compilers, Crash(c)
      PROVE  MutexInv'
  <2>1. /\ \A u \in Threads : step'[u] = IF Home(u) = c THEN "idle" ELSE step[u]
        /\ holder' = [holder EXCEPT ![c] = Nobody] /\ memory' = [memory EXCEPT ![c] = {}]
        /\ loaded' = [loaded EXCEPT ![c] = [k \in Keys |-> 0]] /\ UNCHANGED key
    BY <1>5 DEF Crash
  <2>2. InsideHoldsMutex'
    BY <2>1 DEF InsideHoldsMutex, Inside, Home
  <2>3. LoadingIsMissing'
    BY <2>1 DEF LoadingIsMissing, Inside, Loading, Home
  <2>4. LoadedIsRetained'
    BY <2>1 DEF LoadedIsRetained
  <2>. QED  BY <2>2, <2>3, <2>4 DEF MutexInv
<1>6. ASSUME NEW k \in SourceKeys, Corrupt(k)
      PROVE  MutexInv'
  BY <1>6 DEF Corrupt, MutexInv, InsideHoldsMutex, LoadingIsMissing, LoadedIsRetained, Home
<1>7. CASE UNCHANGED vars
  BY <1>7 DEF vars, MutexInv, InsideHoldsMutex, LoadingIsMissing, LoadedIsRetained, Home
<1>. QED  BY <1>1, <1>2, <1>3, <1>4, <1>5, <1>6, <1>7 DEF Next


-----------------------------------------------------------------------------
(* Statistics.                                                             *)

Loads(c) == counters[c].misses + counters[c].persistentHits

AddsUp(c) ==
    /\ IsFiniteSet(memory[c]) /\ IsFiniteSet(Uncounted(c))
    /\ Cardinality(memory[c]) = Loads(c) + Cardinality(Uncounted(c))

(* The sum, compiler by compiler.                                          *)
LEMMA AddsUpMeans ==
    (\A c \in Compilers : AddsUp(c)) <=> OnlyFinitelyMany /\ LoadsAddUp
BY DEF AddsUp, Loads, OnlyFinitelyMany, LoadsAddUp

(* The counters of loads are natural numbers.                              *)
LEMMA CountersAreNat ==
    ASSUME CountersTyped, NEW c \in Compilers
    PROVE  /\ counters[c].misses \in Nat /\ counters[c].persistentHits \in Nat
           /\ Loads(c) \in Nat
BY DEF CountersTyped, Names, Loads

(* The threads that have not counted, when one of them moves.              *)
LEMMA UncountedMoves ==
    ASSUME TypeOK, NEW t \in Threads, NEW n \in Steps, Go(t, n), NEW c \in Compilers
    PROVE  /\ c # Home(t) \/ (step[t] \in Saving <=> n \in Saving) =>
                  Uncounted(c)' = Uncounted(c)
           /\ c = Home(t) /\ n \in Saving => Uncounted(c)' = Uncounted(c) \cup {t}
           /\ c = Home(t) /\ n \notin Saving => Uncounted(c)' = Uncounted(c) \ {t}
<1>1. step' = [step EXCEPT ![t] = n] /\ step \in [Threads -> Steps]
  BY DEF Go, TypeOK
<1>2. /\ step'[t] = n
      /\ \A u \in Threads : u # t => step'[u] = step[u]
      /\ Uncounted(c)' = {u \in Threads : Home(u) = c /\ step'[u] \in Saving}
  BY <1>1 DEF Uncounted, Home, Saving
<1>3. ASSUME c # Home(t) \/ (step[t] \in Saving <=> n \in Saving)
      PROVE  Uncounted(c)' = Uncounted(c)
  <2>1. \A u \in Threads : Home(u) = c => (step'[u] \in Saving <=> step[u] \in Saving)
    BY <1>2, <1>3
  <2>. QED  BY <1>2, <2>1 DEF Uncounted
<1>4. ASSUME c = Home(t), n \in Saving
      PROVE  Uncounted(c)' = Uncounted(c) \cup {t}
  BY <1>2, <1>4 DEF Uncounted
<1>5. ASSUME c = Home(t), n \notin Saving
      PROVE  Uncounted(c)' = Uncounted(c) \ {t}
  BY <1>2, <1>5 DEF Uncounted
<1>. QED  BY <1>3, <1>4, <1>5

(* A call that goes on keeps the sum.                                      *)
LEMMA MoveAddsUp ==
    ASSUME TypeOK, LoadingIsMissing, NEW t \in Threads, NEW n \in Steps, Acts(t, n),
           NEW c \in Compilers, AddsUp(c)
    PROVE  AddsUp(c)'
<1>. CountersTyped /\ Home(t) \in Compilers /\ memory \in [Compilers -> SUBSET Keys] /\ Go(t, n)
  BY TypesUsed, HomeTyped DEF Acts, Moves
<1>. DEFINE M == Cardinality(memory[c])
            U == Cardinality(Uncounted(c))
<1>1. /\ M \in Nat /\ U \in Nat /\ Loads(c) \in Nat
      /\ IsFiniteSet(memory[c]) /\ IsFiniteSet(Uncounted(c)) /\ M = Loads(c) + U
  BY CountersAreNat, FS_CardinalityType DEF AddsUp
<1>2. CASE Quietly(t, n)
  <2>1. Uncounted(c)' = Uncounted(c)
    BY <1>2, UncountedMoves DEF Quietly
  <2>2. memory'[c] = memory[c] /\ Loads(c)' = Loads(c)
    BY <1>2 DEF Quietly, SameLoads, Loads
  <2>. QED  BY <1>1, <2>1, <2>2 DEF AddsUp
<1>3. CASE Retaining(t, n)
  <2>1. Loads(c)' = Loads(c)
    BY <1>3 DEF Retaining, Loads
  <2>2. CASE c # Home(t)
    <3>1. memory'[c] = memory[c] /\ Uncounted(c)' = Uncounted(c)
      BY <1>3, <2>2, UncountedMoves DEF Retaining, Retain
    <3>. QED  BY <1>1, <2>1, <3>1 DEF AddsUp
  <2>3. CASE c = Home(t)
    <3>1. /\ memory'[c] = memory[c] \cup {key[t]} /\ key[t] \notin memory[c]
          /\ Uncounted(c)' = Uncounted(c) \cup {t} /\ t \notin Uncounted(c)
      BY <1>3, <2>3, UncountedMoves
         DEF Retaining, Retain, LoadingIsMissing, Uncounted, Loading, Inside, Saving
    <3>2. IsFiniteSet(memory'[c]) /\ Cardinality(memory'[c]) = M + 1
      BY <1>1, <3>1, FS_AddElement
    <3>3. IsFiniteSet(Uncounted(c)') /\ Cardinality(Uncounted(c)') = U + 1
      BY <1>1, <3>1, FS_AddElement
    <3>. QED  BY <1>1, <2>1, <3>2, <3>3 DEF AddsUp
  <2>. QED  BY <2>2, <2>3
<1>4. CASE Counting(t, n)
  <2>1. memory'[c] = memory[c]
    BY <1>4 DEF Counting
  <2>2. CASE c # Home(t)
    <3>1. Loads(c)' = Loads(c) /\ Uncounted(c)' = Uncounted(c)
      BY <1>4, <2>2, UncountedMoves DEF Counting, OneMoreLoad, Loads
    <3>. QED  BY <1>1, <2>1, <3>1 DEF AddsUp
  <2>3. CASE c = Home(t)
    <3>1. /\ Loads(c)' = Loads(c) + 1
          /\ Uncounted(c)' = Uncounted(c) \ {t} /\ t \in Uncounted(c)
      BY <1>4, <2>3, UncountedMoves DEF Counting, OneMoreLoad, Loads, Uncounted
    <3>2. IsFiniteSet(Uncounted(c)') /\ Cardinality(Uncounted(c)') = U - 1
      BY <1>1, <3>1, FS_RemoveElement
    <3>. QED  BY <1>1, <2>1, <3>1, <3>2 DEF AddsUp
  <2>. QED  BY <2>2, <2>3
<1>. QED  BY <1>2, <1>3, <1>4 DEF Acts, Moves

(* Every step keeps the sum.                                               *)
LEMMA SumIsKept ==
    ASSUME TypeOK, PublishedIsWhole, LoadingIsMissing, [Next]_vars,
           NEW c \in Compilers, AddsUp(c)
    PROVE  AddsUp(c)'
<1>1. ASSUME NEW t \in Threads, Advance(t)
      PROVE  AddsUp(c)'
  BY <1>1, AdvanceEffect, MoveAddsUp DEF SomehowActs
<1>2. ASSUME UNCHANGED <<memory, counters>>, Uncounted(c)' = Uncounted(c)
      PROVE  AddsUp(c)'
  BY <1>2 DEF AddsUp, Loads
<1>3. ASSUME NEW t \in Threads, Lock(t) \/ \E k \in Keys : Call(t, k)
      PROVE  AddsUp(c)'
  <2>1. /\ UNCHANGED <<memory, counters>> /\ step[t] \notin Saving
        /\ Go(t, "waiting") \/ Go(t, "lookup")
    BY <1>3 DEF Lock, Call, Saving
  <2>2. "waiting" \notin Saving /\ "lookup" \notin Saving /\ "waiting" \in Steps
        /\ "lookup" \in Steps
    BY DEF Saving, Steps
  <2>3. Uncounted(c)' = Uncounted(c)
    BY <2>1, <2>2, UncountedMoves
  <2>. QED  BY <1>2, <2>1, <2>3
<1>4. ASSUME NEW r \in Readers, ReadStats(r)
      PROVE  AddsUp(c)'
  BY <1>2, <1>4 DEF ReadStats, Uncounted, Home
<1>5. ASSUME NEW d \in Compilers, Crash(d)
      PROVE  AddsUp(c)'
  <2>. TypeOK /\ CountersTyped
    BY TypesUsed
  <2>1. /\ \A u \in Threads : step'[u] = IF Home(u) = d THEN "idle" ELSE step[u]
        /\ memory' = [memory EXCEPT ![d] = {}] /\ counters' = [counters EXCEPT ![d] = Zero]
    BY <1>5 DEF Crash
  <2>2. Uncounted(c)' = {u \in Threads : Home(u) = c /\ step'[u] \in Saving}
    BY DEF Uncounted, Home, Saving
  <2>3. CASE c = d
    <3>1. Uncounted(c)' = {}
      BY <2>1, <2>2, <2>3 DEF Saving
    <3>2. memory'[c] = {} /\ counters'[c] = Zero
      BY <2>1, <2>3 DEF TypeOK
    <3>3. Loads(c)' = 0
      BY <3>2 DEF Loads, Zero
    <3>. QED  BY <3>1, <3>2, <3>3, FS_EmptySet DEF AddsUp
  <2>4. CASE c # d
    <3>1. Uncounted(c)' = Uncounted(c)
      BY <2>1, <2>2, <2>4 DEF Uncounted
    <3>2. memory'[c] = memory[c] /\ Loads(c)' = Loads(c)
      BY <2>1, <2>4 DEF Loads, TypeOK
    <3>. QED  BY <3>1, <3>2 DEF AddsUp
  <2>. QED  BY <2>3, <2>4
<1>6. ASSUME NEW k \in SourceKeys, Corrupt(k)
      PROVE  AddsUp(c)'
  BY <1>2, <1>6 DEF Corrupt, Uncounted, Home
<1>7. CASE UNCHANGED vars
  BY <1>2, <1>7 DEF vars, Uncounted, Home
<1>. QED  BY <1>1, <1>3, <1>4, <1>5, <1>6, <1>7 DEF Next

(* The counters of loads only grow while a compiler lives.                 *)
LoadsGrow(c) ==
    /\ counters[c].misses <= counters'[c].misses
    /\ counters[c].persistentHits <= counters'[c].persistentHits

(* A reader stays behind while the counters grow.                          *)
LEMMA LagStays ==
    ASSUME TypeOK, NEW r \in Readers, Lags(r), LoadsGrow(Home(r)), CountersTyped',
           reading'[r] = reading[r], snapshot'[r] = snapshot[r]
    PROVE  Lags(r)'
<1>1. /\ Home(r) \in Compilers /\ CountersTyped
      /\ snapshot[r].misses \in Nat /\ snapshot[r].persistentHits \in Nat
  <2>1. snapshot[r] \in [DOMAIN EmptySnapshot -> Nat]
    BY DEF TypeOK
  <2>. QED  BY <2>1, HomeTyped, TypesUsed, NamesOfZero
<1>2. /\ counters[Home(r)].misses \in Nat /\ counters[Home(r)].persistentHits \in Nat
      /\ counters'[Home(r)].misses \in Nat /\ counters'[Home(r)].persistentHits \in Nat
  BY <1>1 DEF CountersTyped, Names
<1>. QED  BY <1>1, <1>2 DEF Lags, LoadsGrow, Home

(* What a reader reads next is not ahead of the counters, and the entries  *)
(* that it reads last are not behind them.                                 *)
LEMMA ReadLags ==
    ASSUME TypeOK, NEW r \in Readers, Lags(r), AddsUp(Home(r)), ReadStats(r)
    PROVE  Lags(r)' /\ \A q \in Readers : q # r =>
               reading'[q] = reading[q] /\ snapshot'[q] = snapshot[q]
<1>. DEFINE c == Home(r)
            D == {"hits", "persistentHits", "misses", "entries"}
<1>1. /\ c \in Compilers /\ Loads(c) \in Nat /\ UNCHANGED <<counters, memory>>
      /\ counters[c].misses \in Nat /\ counters[c].persistentHits \in Nat
      /\ snapshot \in [Readers -> [D -> Nat]] /\ reading \in [Readers -> ReaderSteps]
  BY HomeTyped, TypesUsed, CountersAreNat, NamesOfZero DEF ReadStats, TypeOK
<1>2. /\ Loads(c) <= Cardinality(memory[c]) /\ Cardinality(memory[c]) \in Nat
      /\ Cardinality(Uncounted(c)) \in Nat
  BY <1>1, FS_CardinalityType DEF AddsUp
<1>3. \A q \in Readers : q # r => reading'[q] = reading[q] /\ snapshot'[q] = snapshot[q]
  BY <1>1 DEF ReadStats, ReadCounter
<1>4. snapshot[r] \in [D -> Nat]
  BY <1>1
<1>5. CASE reading[r] = "idle" /\ ReadCounter(r, "hits", "persistentHits")
  BY <1>1, <1>5 DEF ReadCounter, Lags, Home
<1>6. CASE reading[r] = "persistentHits" /\ ReadCounter(r, "persistentHits", "misses")
  <2>1. /\ reading'[r] = "misses" /\ counters'[c] = counters[c]
        /\ snapshot'[r].persistentHits = counters[c].persistentHits
    BY <1>1, <1>4, <1>6 DEF ReadCounter
  <2>. QED  BY <1>1, <1>3, <2>1 DEF Lags, Home
<1>7. CASE reading[r] = "misses" /\ ReadCounter(r, "misses", "entries")
  <2>1. /\ reading'[r] = "entries" /\ counters'[c] = counters[c]
        /\ snapshot'[r].persistentHits = snapshot[r].persistentHits
        /\ snapshot'[r].misses = counters[c].misses
    BY <1>1, <1>4, <1>7 DEF ReadCounter
  <2>2. snapshot[r].persistentHits <= counters[c].persistentHits
    BY <1>7 DEF Lags
  <2>. QED  BY <1>1, <1>3, <1>4, <2>1, <2>2 DEF Lags, Home
<1>8. CASE /\ reading[r] = "entries"
           /\ snapshot' = [snapshot EXCEPT ![r].entries = Cardinality(memory[Home(r)])]
           /\ reading' = [reading EXCEPT ![r] = "done"]
  <2>1. /\ reading'[r] = "done"
        /\ snapshot'[r].persistentHits = snapshot[r].persistentHits
        /\ snapshot'[r].misses = snapshot[r].misses
        /\ snapshot'[r].entries = Cardinality(memory[c])
    BY <1>1, <1>4, <1>8
  <2>2. snapshot[r].misses + snapshot[r].persistentHits <= Loads(c)
    BY <1>8 DEF Lags, Loads
  <2>. QED  BY <1>2, <1>1, <1>3, <1>4, <2>1, <2>2 DEF Lags, Home
<1>9. CASE reading[r] = "done" /\ reading' = [reading EXCEPT ![r] = "idle"]
  BY <1>1, <1>3, <1>9 DEF Lags, Home
<1>. QED  BY <1>3, <1>5, <1>6, <1>7, <1>8, <1>9 DEF ReadStats

(* Every step keeps every reader behind.                                   *)
LEMMA ReadersStayBehind ==
    ASSUME TypeOK, PublishedIsWhole, LoadingIsMissing, OnlyFinitelyMany, LoadsAddUp,
           ReadersLag, [Next]_vars
    PROVE  ReadersLag'
<1>. /\ \A c \in Compilers : AddsUp(c)
     /\ CountersTyped /\ \A r \in Threads \cup Readers : Home(r) \in Compilers
     /\ \A c \in Compilers : counters[c].misses \in Nat /\ counters[c].persistentHits \in Nat
  BY AddsUpMeans, TypesUsed, HomeTyped, CountersAreNat
<1>1. CountersTyped'
  BY NextTyped, NamesOfZero DEF TypeOK, CountersTyped
<1>2. ASSUME UNCHANGED <<reading, snapshot>>, \A c \in Compilers : LoadsGrow(c)
      PROVE  ReadersLag'
  BY <1>1, <1>2, LagStays DEF ReadersLag
<1>3. ASSUME NEW t \in Threads, Advance(t)
      PROVE  ReadersLag'
  <2>1. PICK n \in Steps : Acts(t, n)
    BY <1>3, AdvanceEffect DEF SomehowActs
  <2>2. SameLoads \/ OneMoreLoad(Home(t)) \/ UNCHANGED counters
    BY <2>1 DEF Acts, Moves, Quietly, Retaining, Counting
  <2>3. \A c \in Compilers : LoadsGrow(c)
    <3>1. ASSUME NEW c \in Compilers
          PROVE  LoadsGrow(c)
      <4>1. CASE SameLoads
        BY <4>1 DEF SameLoads, LoadsGrow
      <4>2. CASE OneMoreLoad(Home(t))
        BY <4>2 DEF OneMoreLoad, LoadsGrow
      <4>3. CASE UNCHANGED counters
        BY <4>3 DEF LoadsGrow
      <4>. QED  BY <2>2, <4>1, <4>2, <4>3
    <3>. QED  BY <3>1
  <2>. QED  BY <1>2, <2>1, <2>3 DEF Acts, Moves
<1>4. ASSUME UNCHANGED counters
      PROVE  \A c \in Compilers : LoadsGrow(c)
  BY <1>4 DEF LoadsGrow
<1>5. ASSUME NEW t \in Threads, Lock(t) \/ \E k \in Keys : Call(t, k)
      PROVE  ReadersLag'
  BY <1>2, <1>4, <1>5 DEF Lock, Call
<1>6. ASSUME NEW r \in Readers, ReadStats(r)
      PROVE  ReadersLag'
  <2>1. \A c \in Compilers : LoadsGrow(c)
    BY <1>4, <1>6 DEF ReadStats
  <2>2. Lags(r)' /\ \A q \in Readers : q # r =>
            reading'[q] = reading[q] /\ snapshot'[q] = snapshot[q]
    BY <1>6, ReadLags DEF ReadersLag
  <2>. QED  BY <1>1, <2>1, <2>2, LagStays DEF ReadersLag
<1>7. ASSUME NEW c \in Compilers, Crash(c)
      PROVE  ReadersLag'
  <2>1. /\ \A r \in Readers : reading'[r] = IF Home(r) = c THEN "idle" ELSE reading[r]
        /\ \A r \in Readers : snapshot'[r] = IF Home(r) = c THEN EmptySnapshot ELSE snapshot[r]
        /\ counters' = [counters EXCEPT ![c] = Zero]
    BY <1>7 DEF Crash
  <2>2. ASSUME NEW r \in Readers
        PROVE  Lags(r)'
    <3>1. CASE Home(r) = c
      BY <2>1, <3>1 DEF Lags, Home
    <3>2. CASE Home(r) # c
      <4>1. counters'[Home(r)] = counters[Home(r)]
        BY <2>1, <3>2 DEF CountersTyped
      <4>2. LoadsGrow(Home(r))
        BY <4>1 DEF LoadsGrow
      <4>. QED  BY <1>1, <2>1, <3>2, <4>2, LagStays DEF ReadersLag
    <3>. QED  BY <3>1, <3>2
  <2>. QED  BY <2>2 DEF ReadersLag
<1>8. ASSUME NEW k \in SourceKeys, Corrupt(k)
      PROVE  ReadersLag'
  BY <1>2, <1>4, <1>8 DEF Corrupt
<1>9. CASE UNCHANGED vars
  BY <1>2, <1>4, <1>9 DEF vars
<1>. QED  BY <1>3, <1>5, <1>6, <1>7, <1>8, <1>9 DEF Next


-----------------------------------------------------------------------------
(* The theorems.                                                           *)

(* The invariant holds initially.                                          *)
LEMMA InitInv == Init => IInv
<1>. SUFFICES ASSUME Init PROVE IInv
  OBVIOUS
<1>1. TypeOK
  <2>1. (CHOOSE k \in Keys : TRUE) \in Keys
    BY KeysAssumption
  <2>2. counters \in [Compilers -> [DOMAIN Zero -> Nat]]
    BY NamesOfZero DEF Init
  <2>3. snapshot \in [Readers -> [DOMAIN EmptySnapshot -> Nat]]
    BY NamesOfZero DEF Init
  <2>4. calls \in [Threads -> 0..MaxCalls] /\ crashes \in 0..MaxCrashes
    BY BoundsAssumption DEF Init
  <2>5. /\ step \in [Threads -> Steps] /\ reading \in [Readers -> ReaderSteps]
        /\ key \in [Threads -> Keys] /\ temporary \in [Threads -> {"none", "torn", "whole"}]
    BY <2>1 DEF Init, Steps, ReaderSteps
  <2>6. /\ holder \in [Compilers -> Threads \cup {Nobody}]
        /\ memory \in [Compilers -> SUBSET Keys] /\ loaded \in [Compilers -> [Keys -> Nat]]
        /\ disk \in [SourceKeys -> {"absent", "whole", "torn"}]
        /\ damaged \in SUBSET Corruptible
    BY DEF Init
  <2>. QED  BY <2>2, <2>3, <2>4, <2>5, <2>6 DEF TypeOK
<1>2. PublishedIsWhole /\ ArtifactsAreWhole
  BY DEF Init, PublishedIsWhole, ArtifactsAreWhole
<1>3. InsideHoldsMutex /\ LoadingIsMissing /\ LoadedIsRetained
  BY HomeTyped DEF Init, InsideHoldsMutex, LoadingIsMissing, LoadedIsRetained, Inside, Loading
<1>4. ASSUME NEW c \in Compilers
      PROVE  AddsUp(c)
  <2>1. memory[c] = {} /\ Uncounted(c) = {} /\ counters[c] = Zero
    BY DEF Init, Uncounted, Saving
  <2>2. Loads(c) = 0
    BY <2>1 DEF Loads, Zero
  <2>. QED  BY <2>1, <2>2, FS_EmptySet DEF AddsUp
<1>5. ReadersLag
  BY DEF Init, ReadersLag, Lags
<1>. QED  BY <1>1, <1>2, <1>3, <1>4, <1>5, AddsUpMeans DEF IInv

(* Every step keeps the invariant.                                         *)
LEMMA NextInv == IInv /\ [Next]_vars => IInv'
<1>. SUFFICES ASSUME IInv, [Next]_vars PROVE IInv'
  OBVIOUS
<1>1. TypeOK'
  BY NextTyped DEF IInv
<1>2. PublishedIsWhole' /\ ArtifactsAreWhole'
  BY ArtifactsStayWhole DEF IInv
<1>3. InsideHoldsMutex' /\ LoadingIsMissing' /\ LoadedIsRetained'
  BY MutexIsKept DEF IInv, MutexInv
<1>4. OnlyFinitelyMany' /\ LoadsAddUp'
  <2>1. \A c \in Compilers : AddsUp(c)
    BY AddsUpMeans DEF IInv
  <2>2. \A c \in Compilers : AddsUp(c)'
    BY <2>1, SumIsKept DEF IInv
  <2>. QED  BY <2>2 DEF AddsUp, Loads, OnlyFinitelyMany, LoadsAddUp
<1>5. ReadersLag'
  BY ReadersStayBehind DEF IInv
<1>. QED  BY <1>1, <1>2, <1>3, <1>4, <1>5 DEF IInv

(* The inductive invariant: who is past the lookup holds the mutex, and    *)
(* what it loads is not yet retained.                                      *)
THEOREM InductiveInvariant == Spec => []IInv
BY InitInv, NextInv, PTL DEF Spec

(* Every variable has its type; only what was written takes an artifact's  *)
(* name.                                                                   *)
THEOREM TypeCorrect == Spec => []TypeOK
<1>1. IInv => TypeOK
  BY DEF IInv
<1>. QED  BY <1>1, InductiveInvariant, PTL

(* Compiler::compile and load_ptx load a module once per compiler and key, *)
(* with any number of threads and failures.                                *)
THEOREM LoadsOnce == Spec => []OneLoadPerKey
<1>1. IInv => OneLoadPerKey
  BY DEF IInv, LoadedIsRetained, OneLoadPerKey
<1>. QED  BY <1>1, InductiveInvariant, PTL

(* ArtifactCache::write publishes complete files only, whichever processes *)
(* die between its steps.                                                  *)
THEOREM WholeArtifacts == Spec => []ArtifactsAreWhole
<1>1. IInv => ArtifactsAreWhole
  BY DEF IInv
<1>. QED  BY <1>1, InductiveInvariant, PTL

(* Compiler::cache_stats never reports more loads than entries, whatever   *)
(* other threads do while it reads.                                        *)
THEOREM SnapshotsAreBehind == Spec => []SnapshotCountsLoaded
<1>1. IInv => SnapshotCountsLoaded
  BY DEF IInv, ReadersLag, Lags, SnapshotCountsLoaded
<1>. QED  BY <1>1, InductiveInvariant, PTL
=============================================================================
