------------------------- MODULE CublasLeases_proofs -------------------------
(* Theorems about CublasLeases, for every value of its constants.          *)
EXTENDS CublasLeases, FiniteSetTheorems, SequenceTheorems, TLAPS

(* The plans that hold a lease of an entry.                                *)
Holders(k) == {p \in Leasing : KeyOf(p) = k}

(* Plans whose product was put in default mode.                            *)
Switched(q) == single[q] /\ phase[q] \in {"launch", "restore"}

(* The registry counts the plans that hold a lease.                        *)
LeasesCounted == \A k \in Keys : entries[k].leases = Cardinality(Holders(k))

(* A plan has a copy of the lease of its entry, in its stream's context.   *)
PlansShareEntries ==
    \A p \in Leasing :
        /\ stream[p] \in Streams
        /\ lease[p].context = Home(p)
        /\ lease[p].handle = entries[KeyOf(p)].handle
        /\ lease[p].workspace = entries[KeyOf(p)].workspace

(* Each entry that is leased has a native handle to itself, and a          *)
(* workspace if it is of cuBLASLt; no other handle exists.                 *)
EntriesOwnHandles ==
    /\ \A k \in Keys : entries[k].leases # 0 =>
           /\ entries[k].handle \in alive
           /\ k[1] = "lt" => entries[k].workspace \in Workspaces
    /\ \A k, l \in Keys :
           /\ entries[k].leases # 0 /\ entries[l].leases # 0
           /\ entries[k].handle = entries[l].handle
           => k = l
    /\ \A h \in alive : \E k \in Keys :
           entries[k].leases # 0 /\ entries[k].handle = h

(* A plan inside a launch holds the mutex of its entry, and only a product *)
(* of F32 reads, sets and restores the mode.                               *)
LaunchesHoldMutex ==
    \A p \in Plans : phase[p] \in Launching =>
        /\ launching[KeyOf(p)] = p
        /\ phase[p] # "launch" => single[p]

(* A handle is in default mode just while a product of F32 has it so, and  *)
(* what that product found before is the tensor mode.                      *)
ModesKept ==
    \A p \in Leasing : lease[p].handle \notin stuck =>
        /\ Switched(p) => mode[lease[p].handle] = "default"
        /\ Switched(p) \/ phase[p] = "set" => saved[p] = "tensor"
        /\ (\A q \in Leasing :
               lease[q].handle = lease[p].handle => ~Switched(q))
           => mode[lease[p].handle] = "tensor"

LeaseInv == LeasesCounted /\ PlansShareEntries /\ EntriesOwnHandles

Pending(s) == 1..Len(queue[s])

(* The entries of cuBLASLt that are leased.                                *)
LtEntries == {k \in Keys : k[1] = "lt" /\ entries[k].leases # 0}

(* A workspace exists once the first n operations of a stream have run.    *)
Backed(w, s, n) == w \in resident \/ \E j \in 1..n : queue[s][j] = Op("alloc", w)

(* The operations on a workspace are queued on one stream.                 *)
WorkspacesStay ==
    \A s, t \in Streams : \A i \in Pending(s), j \in Pending(t) :
        queue[s][i].on = queue[t][j].on => s = t

(* Nothing that uses a workspace is behind its free.                       *)
FreesAreLast ==
    \A s \in Streams : \A i, j \in Pending(s) :
        queue[s][i].kind = "free" /\ i < j => queue[s][j].on # queue[s][i].on

(* The allocation of a product's workspace has run or runs before it.      *)
ProductsAreBacked ==
    \A s \in Streams : \A i \in Pending(s) :
        queue[s][i].kind = "product" => Backed(queue[s][i].on, s, i)

(* A leased entry has a workspace to itself, whose operations are queued   *)
(* on the entry's stream and do not free it.                               *)
EntriesOwnWorkspaces ==
    /\ \A k, l \in LtEntries : entries[k].workspace = entries[l].workspace => k = l
    /\ \A k \in LtEntries : \A s \in Streams : \A i \in Pending(s) :
           queue[s][i].on = entries[k].workspace =>
               s = k[3] /\ queue[s][i].kind # "free"

(* The workspace of a leased entry exists, or is about to.                 *)
EntriesAreBacked ==
    \A k \in LtEntries : Backed(entries[k].workspace, k[3], Len(queue[k[3]]))

QueueInv     == WorkspacesStay /\ FreesAreLast /\ ProductsAreBacked
WorkspaceInv == QueueInv /\ EntriesOwnWorkspaces /\ EntriesAreBacked

IInv == TypeOK /\ LeaseInv /\ LaunchesHoldMutex /\ ModesKept /\ WorkspaceInv

-----------------------------------------------------------------------------
(* Leases.                                                                 *)

(* Any plans are finitely many.                                            *)
LEMMA PlansCounted ==
    ASSUME NEW S \in SUBSET Plans
    PROVE  /\ IsFiniteSet(S)
           /\ Cardinality(S) \in 0..Cardinality(Plans)
           /\ Cardinality(S) = 0 <=> S = {}
BY FinitelyManyPlans, FS_Subset, FS_CardinalityType, FS_EmptySet

(* A plan that holds a lease has a key, whose entry counts it and has a    *)
(* handle that exists.                                                     *)
LEMMA HolderHasEntry ==
    ASSUME TypeOK, LeaseInv, NEW p \in Leasing
    PROVE  /\ p \in Plans
           /\ KeyOf(p) \in Keys
           /\ p \in Holders(KeyOf(p))
           /\ entries[KeyOf(p)].leases # 0
           /\ lease[p].handle \in alive
           /\ lease[p].handle = entries[KeyOf(p)].handle
<1>1. p \in Plans
  BY DEF Leasing
<1>2. KeyOf(p) \in Keys
  BY <1>1, LeaseConstants DEF KeyOf, Keys, Home, TypeOK, LeaseInv, PlansShareEntries
<1>3. p \in Holders(KeyOf(p))
  BY DEF Holders
<1>4. Holders(KeyOf(p)) \in SUBSET Plans
  BY DEF Holders, Leasing
<1>5. entries[KeyOf(p)].leases # 0
  BY <1>2, <1>3, <1>4, PlansCounted DEF LeaseInv, LeasesCounted
<1>. QED  BY <1>1, <1>2, <1>3, <1>5 DEF LeaseInv, PlansShareEntries, EntriesOwnHandles

(* Plans of one handle have one key.                                       *)
LEMMA HandleHasOneKey ==
    ASSUME TypeOK, LeaseInv, NEW p \in Leasing, NEW q \in Leasing,
           lease[p].handle = lease[q].handle
    PROVE  KeyOf(p) = KeyOf(q)
BY HolderHasEntry DEF LeaseInv, EntriesOwnHandles

(* What only moves plans that keep their leases keeps the registry right.  *)
LEMMA LeasesKept ==
    ASSUME TypeOK, LeaseInv, Leasing' = Leasing,
           UNCHANGED <<entries, alive, family, stream, lease>>
    PROVE  LeaseInv'
<1>1. \A p : KeyOf(p)' = KeyOf(p) /\ Home(p)' = Home(p)
  BY DEF KeyOf, Home
<1>2. \A k : Holders(k)' = Holders(k)
  BY <1>1 DEF Holders
<1>3. LeasesCounted'
  BY <1>2 DEF LeaseInv, LeasesCounted
<1>4. PlansShareEntries'
  BY <1>1 DEF LeaseInv, PlansShareEntries
<1>5. EntriesOwnHandles'
  BY DEF LeaseInv, EntriesOwnHandles
<1>. QED  BY <1>3, <1>4, <1>5 DEF LeaseInv

(* What a creation that acquired its lease changes.                        *)
Acquired(p, k, f, s) ==
    /\ phase[p] = "new" /\ k = <<f, ContextOf[s], s>>
    /\ Acquire(k, s)
    /\ family' = [family EXCEPT ![p] = f]
    /\ stream' = [stream EXCEPT ![p] = s]
    /\ lease' = [lease EXCEPT ![p] =
           [handle |-> entries'[k].handle, workspace |-> entries'[k].workspace,
            context |-> ContextOf[s]]]
    /\ Go(p, IF f = "lt" THEN "preparing" ELSE "ready")

(* The plan becomes a holder of the entry's lease; nobody else does.       *)
LEMMA AcquiredHolders ==
    ASSUME TypeOK, NEW p \in Plans, NEW f \in Families, NEW s \in Streams,
           NEW k \in Keys, Acquired(p, k, f, s)
    PROVE  /\ p \notin Leasing
           /\ Leasing' = Leasing \cup {p}
           /\ KeyOf(p)' = k /\ Home(p)' = ContextOf[s]
           /\ \A q \in Leasing : KeyOf(q)' = KeyOf(q) /\ Home(q)' = Home(q)
           /\ Holders(k)' = Holders(k) \cup {p}
           /\ \A l : l # k => Holders(l)' = Holders(l)
<1>1. p \notin Leasing /\ Leasing' = Leasing \cup {p}
  BY DEF Leasing, Launching, Acquired, Go, TypeOK
<1>2. KeyOf(p)' = k /\ Home(p)' = ContextOf[s]
  BY DEF KeyOf, Home, Acquired, TypeOK
<1>3. \A q \in Leasing : KeyOf(q)' = KeyOf(q) /\ Home(q)' = Home(q)
  BY <1>1 DEF KeyOf, Home, Acquired, TypeOK, Leasing
<1>4. /\ Holders(k)' = Holders(k) \cup {p}
      /\ \A l : l # k => Holders(l)' = Holders(l)
  BY <1>1, <1>2, <1>3 DEF Holders
<1>. QED  BY <1>1, <1>2, <1>3, <1>4

(* The registry stays right when a lease is acquired.                      *)
LEMMA AcquiredKeepsLeases ==
    ASSUME TypeOK, LeaseInv, NEW p \in Plans, NEW f \in Families,
           NEW s \in Streams, NEW k \in Keys, Acquired(p, k, f, s)
    PROVE  LeaseInv'
<1>1. /\ p \notin Leasing
      /\ Leasing' = Leasing \cup {p}
      /\ KeyOf(p)' = k /\ Home(p)' = ContextOf[s]
      /\ \A q \in Leasing : KeyOf(q)' = KeyOf(q) /\ Home(q)' = Home(q)
      /\ Holders(k)' = Holders(k) \cup {p}
      /\ \A l : l # k => Holders(l)' = Holders(l)
  BY AcquiredHolders
<1>2. /\ IsFiniteSet(Holders(k)) /\ Cardinality(Holders(k)) \in Nat
      /\ p \notin Holders(k)
      /\ entries[k].leases = Cardinality(Holders(k))
  <2>1. Holders(k) \in SUBSET Plans /\ p \notin Holders(k)
    BY <1>1 DEF Holders, Leasing
  <2>2. Cardinality(Plans) \in Nat
    BY FinitelyManyPlans, FS_CardinalityType
  <2>. QED  BY <2>1, <2>2, PlansCounted DEF LeaseInv, LeasesCounted
<1>3. Cardinality(Holders(k)') = Cardinality(Holders(k)) + 1
  <2>1. Holders(k)' = Holders(k) \cup {p}
    BY <1>1
  <2>2. IsFiniteSet(Holders(k)) /\ p \notin Holders(k)
    BY <1>2
  <2>3. Cardinality(Holders(k) \cup {p}) = Cardinality(Holders(k)) + 1
    BY <2>2, FS_AddElement
  <2>. QED  BY <2>1, <2>3
<1>4. k[1] = f
  BY DEF Acquired
<1>5. CASE entries[k].leases = 0
  <2>1. Create(k, s)
    BY <1>5 DEF Acquired, Acquire
  <2>2. PICK h \in Handles \ alive, w \in Workspaces \cup {None} :
           /\ alive' = alive \cup {h}
           /\ k[1] = "lt" => w \in Workspaces
           /\ entries' = [entries EXCEPT ![k] =
                  [handle |-> h, workspace |-> w, leases |-> 1]]
    BY <2>1 DEF Create
  <2>3. /\ entries'[k] = [handle |-> h, workspace |-> w, leases |-> 1]
        /\ \A l \in Keys : l # k => entries'[l] = entries[l]
    BY <2>2 DEF TypeOK
  <2>4. LeasesCounted'
    <3>1. entries'[k].leases = Cardinality(Holders(k)')
      BY <1>2, <1>3, <1>5, <2>3
    <3>2. \A l \in Keys : l # k => Holders(l)' = Holders(l) /\ entries'[l] = entries[l]
      BY <1>1, <2>3
    <3>3. \A l \in Keys : entries[l].leases = Cardinality(Holders(l))
      BY DEF LeaseInv, LeasesCounted
    <3>4. \A l \in Keys : entries'[l].leases = Cardinality(Holders(l)')
      BY <3>1, <3>2, <3>3, Zenon
    <3>. QED  BY <3>4 DEF LeasesCounted
  <2>5. PlansShareEntries'
    <3>1. stream'[p] = s /\ \A q \in Leasing : q # p =>
              stream'[q] = stream[q] /\ lease'[q] = lease[q]
      BY DEF Acquired, TypeOK, Leasing
    <3>2. lease'[p] = [handle |-> h, workspace |-> w, context |-> ContextOf[s]]
      BY <2>3 DEF Acquired, TypeOK
    <3>3. \A q \in Leasing : q # p /\ KeyOf(q) # k /\ KeyOf(q) \in Keys
      BY <1>1, <1>5, HolderHasEntry
    <3>. QED  BY <1>1, <2>3, <3>1, <3>2, <3>3
              DEF LeaseInv, PlansShareEntries
  <2>6. EntriesOwnHandles'
    <3>1. \A l \in Keys : entries'[l].leases # 0 =>
              /\ entries'[l].handle \in alive'
              /\ l[1] = "lt" => entries'[l].workspace \in Workspaces
      BY <2>2, <2>3 DEF LeaseInv, EntriesOwnHandles
    <3>2. \A l, j \in Keys :
              /\ entries'[l].leases # 0 /\ entries'[j].leases # 0
              /\ entries'[l].handle = entries'[j].handle
              => l = j
      BY <2>2, <2>3 DEF LeaseInv, EntriesOwnHandles
    <3>3. \A g \in alive' : \E l \in Keys :
              entries'[l].leases # 0 /\ entries'[l].handle = g
      BY <1>5, <2>2, <2>3 DEF LeaseInv, EntriesOwnHandles
    <3>. QED  BY <3>1, <3>2, <3>3 DEF EntriesOwnHandles
  <2>. QED  BY <2>4, <2>5, <2>6 DEF LeaseInv
<1>6. CASE entries[k].leases # 0
  <2>1. /\ entries' = [entries EXCEPT ![k].leases = entries[k].leases + 1]
        /\ alive' = alive
    BY <1>6 DEF Acquired, Acquire, Share
  <2>2. /\ entries'[k].leases = entries[k].leases + 1
        /\ \A l \in Keys : /\ entries'[l].handle = entries[l].handle
                           /\ entries'[l].workspace = entries[l].workspace
                           /\ l # k => entries'[l] = entries[l]
        /\ \A l \in Keys : entries'[l].leases # 0 => entries[l].leases # 0
    BY <1>6, <2>1 DEF TypeOK
  <2>3. LeasesCounted'
    <3>1. entries'[k].leases = Cardinality(Holders(k)')
      BY <1>2, <1>3, <2>2
    <3>2. \A l \in Keys : l # k => Holders(l)' = Holders(l) /\ entries'[l] = entries[l]
      BY <1>1, <2>2
    <3>3. \A l \in Keys : entries[l].leases = Cardinality(Holders(l))
      BY DEF LeaseInv, LeasesCounted
    <3>4. \A l \in Keys : entries'[l].leases = Cardinality(Holders(l)')
      BY <3>1, <3>2, <3>3, Zenon
    <3>. QED  BY <3>4 DEF LeasesCounted
  <2>4. PlansShareEntries'
    <3>1. stream'[p] = s /\ \A q \in Leasing : q # p =>
              stream'[q] = stream[q] /\ lease'[q] = lease[q]
      BY DEF Acquired, TypeOK, Leasing
    <3>2. lease'[p] = [handle |-> entries'[k].handle,
                       workspace |-> entries'[k].workspace,
                       context |-> ContextOf[s]]
      BY DEF Acquired, TypeOK
    <3>3. \A q \in Leasing : q # p /\ KeyOf(q) \in Keys
      BY <1>1, HolderHasEntry
    <3>. QED  BY <1>1, <2>2, <3>1, <3>2, <3>3
              DEF LeaseInv, PlansShareEntries
  <2>5. EntriesOwnHandles'
    BY <1>2, <2>1, <2>2, <1>6 DEF LeaseInv, EntriesOwnHandles
  <2>. QED  BY <2>3, <2>4, <2>5 DEF LeaseInv
<1>. QED  BY <1>5, <1>6

(* A plan that is released holds no lease any more; all others do.         *)
LEMMA ReleasedHolders ==
    ASSUME TypeOK, LeaseInv, NEW p \in Leasing, NEW c, Release(p, c),
           NEW k, k = KeyOf(p)
    PROVE  /\ Leasing' = Leasing \ {p}
           /\ UNCHANGED <<family, stream>>
           /\ \A q \in Leasing' :
                  /\ KeyOf(q)' = KeyOf(q) /\ Home(q)' = Home(q)
                  /\ lease'[q] = lease[q]
           /\ Holders(k)' = Holders(k) \ {p}
           /\ \A l : l # k => Holders(l)' = Holders(l)
<1>1. Leasing' = Leasing \ {p} /\ p \in Plans
  BY DEF Leasing, Launching, Release, Go, TypeOK
<1>2. UNCHANGED <<family, stream>>
  BY DEF Release, plan
<1>3. \A q \in Leasing' : /\ KeyOf(q)' = KeyOf(q) /\ Home(q)' = Home(q)
                          /\ lease'[q] = lease[q]
  BY <1>1, <1>2 DEF KeyOf, Home, Release, TypeOK, Leasing
<1>4. /\ Holders(k)' = Holders(k) \ {p}
      /\ \A l : l # k => Holders(l)' = Holders(l)
  BY <1>1, <1>3 DEF Holders
<1>. QED  BY <1>1, <1>2, <1>3, <1>4

(* The registry stays right when a lease is given back.                    *)
LEMMA ReleaseKeepsLeases ==
    ASSUME TypeOK, LeaseInv, NEW p \in Leasing, NEW c, Release(p, c)
    PROVE  LeaseInv'
<1>0. PICK k \in Keys : k = KeyOf(p)
  BY HolderHasEntry
<1>1. /\ Leasing' = Leasing \ {p}
      /\ UNCHANGED <<family, stream>>
      /\ \A q \in Leasing' : /\ KeyOf(q)' = KeyOf(q) /\ Home(q)' = Home(q)
                             /\ lease'[q] = lease[q]
      /\ Holders(k)' = Holders(k) \ {p}
      /\ \A l : l # k => Holders(l)' = Holders(l)
  BY <1>0, ReleasedHolders
<1>2. /\ k \in Keys /\ p \in Holders(k)
      /\ entries[k].leases # 0 /\ entries[k].handle \in alive
  BY <1>0, HolderHasEntry
<1>3. IsFiniteSet(Holders(k)) /\ entries[k].leases = Cardinality(Holders(k))
  <2>1. Holders(k) \in SUBSET Plans
    BY DEF Holders, Leasing
  <2>. QED  BY <1>2, <2>1, PlansCounted DEF LeaseInv, LeasesCounted
<1>4. Cardinality(Holders(k)') = Cardinality(Holders(k)) - 1
  <2>1. Holders(k)' = Holders(k) \ {p}
    BY <1>1
  <2>2. IsFiniteSet(Holders(k)) /\ p \in Holders(k)
    BY <1>2, <1>3
  <2>3. Cardinality(Holders(k) \ {p}) = Cardinality(Holders(k)) - 1
    BY <2>2, FS_RemoveElement
  <2>. QED  BY <2>1, <2>3
<1>5. k = <<family[p], ReleaseContext(p, c), stream[p]>>
  BY <1>0 DEF KeyOf, ReleaseContext
<1>6. \A q \in Leasing' : q \in Leasing /\ KeyOf(q) \in Keys
  BY <1>1, HolderHasEntry
<1>7. CASE entries[k].leases = 1
  <2>1. Destroy(k, stream[p])
    BY <1>5, <1>7 DEF Release
  <2>2. /\ entries'[k] = Absent
        /\ \A l \in Keys : l # k => entries'[l] = entries[l]
        /\ alive' = alive \ {entries[k].handle}
    BY <1>2, <2>1 DEF Destroy, TypeOK
  <2>3. LeasesCounted'
    <3>1. entries'[k].leases = Cardinality(Holders(k)')
      BY <1>3, <1>4, <1>7, <2>2 DEF Absent
    <3>2. \A l \in Keys : l # k => Holders(l)' = Holders(l) /\ entries'[l] = entries[l]
      BY <1>1, <2>2
    <3>3. \A l \in Keys : entries[l].leases = Cardinality(Holders(l))
      BY DEF LeaseInv, LeasesCounted
    <3>4. \A l \in Keys : entries'[l].leases = Cardinality(Holders(l)')
      BY <3>1, <3>2, <3>3, Zenon
    <3>. QED  BY <3>4 DEF LeasesCounted
  <2>4. \A q \in Leasing' : KeyOf(q) # k
    <3>1. Holders(k)' = {}
      <4>1. Holders(k)' \in SUBSET Plans
        BY <1>1 DEF Holders, Leasing
      <4>. QED  BY <4>1, <1>3, <1>4, <1>7, PlansCounted
    <3>. QED  BY <1>1, <3>1 DEF Holders
  <2>5. PlansShareEntries'
    BY <1>1, <1>6, <2>2, <2>4 DEF LeaseInv, PlansShareEntries
  <2>6. EntriesOwnHandles'
    BY <1>2, <2>2 DEF LeaseInv, EntriesOwnHandles, Absent
  <2>. QED  BY <2>3, <2>5, <2>6 DEF LeaseInv
<1>8. CASE entries[k].leases # 1
  <2>1. /\ entries' = [entries EXCEPT ![k].leases = entries[k].leases - 1]
        /\ alive' = alive
    BY <1>2, <1>5, <1>8, Zenon DEF Release
  <2>2. /\ entries'[k].leases = entries[k].leases - 1
        /\ \A l \in Keys : /\ entries'[l].handle = entries[l].handle
                           /\ entries'[l].workspace = entries[l].workspace
                           /\ l # k => entries'[l] = entries[l]
    BY <1>2, <2>1 DEF TypeOK
  <2>3. \A l \in Keys : entries'[l].leases # 0 <=> entries[l].leases # 0
    <3>1. entries[k].leases \in Nat
      BY <1>2, FinitelyManyPlans, FS_CardinalityType DEF TypeOK
    <3>. QED  BY <1>2, <1>8, <2>2, <3>1
  <2>4. LeasesCounted'
    <3>1. entries'[k].leases = Cardinality(Holders(k)')
      BY <1>3, <1>4, <2>2
    <3>2. \A l \in Keys : l # k => Holders(l)' = Holders(l) /\ entries'[l] = entries[l]
      BY <1>1, <2>2
    <3>3. \A l \in Keys : entries[l].leases = Cardinality(Holders(l))
      BY DEF LeaseInv, LeasesCounted
    <3>4. \A l \in Keys : entries'[l].leases = Cardinality(Holders(l)')
      BY <3>1, <3>2, <3>3, Zenon
    <3>. QED  BY <3>4 DEF LeasesCounted
  <2>5. PlansShareEntries'
    BY <1>1, <1>6, <2>2 DEF LeaseInv, PlansShareEntries
  <2>6. EntriesOwnHandles'
    BY <2>1, <2>2, <2>3 DEF LeaseInv, EntriesOwnHandles
  <2>. QED  BY <2>4, <2>5, <2>6 DEF LeaseInv
<1>. QED  BY <1>7, <1>8

-----------------------------------------------------------------------------
(* Every step keeps the registry right.                                    *)
LEMMA NextKeepsLeases ==
    ASSUME TypeOK, LeaseInv, [Next]_vars
    PROVE  LeaseInv'
<1>1. ASSUME NEW p \in Plans, NEW f \in Families, NEW x \in BOOLEAN,
             NEW s \in Streams, CreatePlan(p, f, x, s)
      PROVE  LeaseInv'
  <2>1. <<f, ContextOf[s], s>> \in Keys
    BY LeaseConstants DEF Keys
  <2>2. CASE Go(p, "gone") /\ UNCHANGED <<entries, alive, lease>>
    <3>1. p \notin Leasing /\ Leasing' = Leasing
      BY <1>1, <2>2 DEF CreatePlan, Leasing, Launching, Go, TypeOK
    <3>2. /\ family' = [family EXCEPT ![p] = f]
          /\ stream' = [stream EXCEPT ![p] = s]
      BY <1>1 DEF CreatePlan
    <3>3. \A q \in Leasing : KeyOf(q)' = KeyOf(q) /\ Home(q)' = Home(q)
                             /\ stream'[q] = stream[q]
      BY <2>2, <3>1, <3>2 DEF KeyOf, Home, TypeOK, Leasing
    <3>4. \A k : Holders(k)' = Holders(k)
      BY <3>1, <3>3 DEF Holders
    <3>5. LeasesCounted'
      BY <2>2, <3>4 DEF LeaseInv, LeasesCounted
    <3>6. PlansShareEntries'
      BY <2>2, <3>1, <3>3 DEF LeaseInv, PlansShareEntries
    <3>7. EntriesOwnHandles'
      BY <2>2 DEF LeaseInv, EntriesOwnHandles
    <3>. QED  BY <3>5, <3>6, <3>7 DEF LeaseInv
  <2>3. CASE Acquired(p, <<f, ContextOf[s], s>>, f, s)
    BY <2>1, <2>3, AcquiredKeepsLeases
  <2>. QED  BY <1>1, <2>2, <2>3 DEF CreatePlan, Acquired
<1>2. ASSUME NEW p \in Plans, NEW c, Release(p, c), phase[p] \in {"preparing", "ready"}
      PROVE  LeaseInv'
  BY <1>2, ReleaseKeepsLeases DEF Leasing
<1>3. ASSUME NEW p \in Plans, phase[p] \in {"preparing", "ready", "locking"} \cup Launching,
             NEW next \in {"ready", "locking"} \cup Launching, Go(p, next),
             UNCHANGED <<entries, alive, family, stream, lease>>
      PROVE  LeaseInv'
  <2>1. Leasing' = Leasing
    BY <1>3 DEF Go, Leasing, Launching, TypeOK
  <2>. QED  BY <1>3, <2>1, LeasesKept
<1>4. ASSUME UNCHANGED <<phase, entries, alive, family, stream, lease>>
      PROVE  LeaseInv'
  <2>1. Leasing' = Leasing
    BY <1>4 DEF Leasing
  <2>. QED  BY <1>4, <2>1, LeasesKept
<1>5. ASSUME NEW p \in Plans, Prepare(p)
      PROVE  LeaseInv'
  BY <1>2, <1>3, <1>5 DEF Prepare, plan
<1>6. ASSUME NEW p \in Plans, NEW c \in Contexts, DropPlan(p, c)
      PROVE  LeaseInv'
  BY <1>2, <1>6 DEF DropPlan
<1>7. ASSUME NEW p \in Plans, \/ ExecuteLt(p) \/ BeginExecute(p)
                              \/ LockLaunch(p) \/ Execute(p)
      PROVE  LeaseInv'
  <2>1. CASE ExecuteLt(p)
    BY <1>4, <2>1 DEF ExecuteLt, plan
  <2>2. CASE BeginExecute(p)
    BY <1>3, <2>2 DEF BeginExecute, plan
  <2>3. CASE LockLaunch(p)
    BY <1>3, <2>3 DEF LockLaunch, plan, Launching
  <2>4. CASE GetMathMode(p)
    BY <1>3, <2>4 DEF GetMathMode, Return, plan, Launching
  <2>5. CASE SetMathMode(p)
    BY <1>3, <2>5 DEF SetMathMode, Return, plan, Launching
  <2>6. CASE Launch(p)
    BY <1>3, <2>6 DEF Launch, Return, plan, Launching
  <2>7. CASE RestoreMathMode(p)
    BY <1>3, <2>7 DEF RestoreMathMode, Return, plan, Launching
  <2>. QED  BY <1>7, <2>1, <2>2, <2>3, <2>4, <2>5, <2>6, <2>7 DEF Execute
<1>8. ASSUME NEW s \in Streams, StreamStep(s)
      PROVE  LeaseInv'
  BY <1>4, <1>8 DEF StreamStep, plan
<1>9. ASSUME UNCHANGED vars
      PROVE  LeaseInv'
  BY <1>4, <1>9 DEF vars
<1>. QED  BY <1>1, <1>5, <1>6, <1>7, <1>8, <1>9 DEF Next

(* A count that the registry keeps right is within its type.               *)
LEMMA CountsTyped ==
    ASSUME LeasesCounted',
           entries' \in [Keys -> [handle : Handles \cup {None},
                                  workspace : Workspaces \cup {None},
                                  leases : Int]]
    PROVE  entries' \in [Keys -> [handle : Handles \cup {None},
                                  workspace : Workspaces \cup {None},
                                  leases : 0..Cardinality(Plans)]]
<1>1. ASSUME NEW k \in Keys
      PROVE  entries'[k].leases \in 0..Cardinality(Plans)
  <2>1. Holders(k)' \in SUBSET Plans
    BY DEF Holders, Leasing
  <2>. QED  BY <2>1, PlansCounted DEF LeasesCounted
<1>. QED  BY <1>1

(* Queued operations of a type keep the type of the queues.                *)
Operations == [kind : {"alloc", "free", "product"}, on : Workspaces]

(* A queued operation keeps the type of the queue.                         *)
LEMMA AppendTyped ==
    ASSUME TypeOK, NEW s \in Streams, NEW w \in Workspaces,
           NEW kind \in {"alloc", "free", "product"},
           queue' = [queue EXCEPT ![s] = Append(queue[s], Op(kind, w))]
    PROVE  queue' \in [Streams -> Seq(Operations)]
<1>1. Op(kind, w) \in Operations
  BY DEF Op, Operations
<1>2. queue \in [Streams -> Seq(Operations)]
  BY DEF TypeOK, Operations
<1>3. Append(queue[s], Op(kind, w)) \in Seq(Operations)
  BY <1>1, <1>2, AppendProperties
<1>. QED  BY <1>2, <1>3

(* A creation and a release keep the types.                                *)
LEMMA CreateTyped ==
    ASSUME TypeOK, LeasesCounted', NEW p \in Plans, NEW f \in Families,
           NEW x \in BOOLEAN, NEW s \in Streams, CreatePlan(p, f, x, s)
    PROVE  TypeOK'
<1>. DEFINE k == <<f, ContextOf[s], s>>
            Entry == [handle : Handles \cup {None},
                      workspace : Workspaces \cup {None}, leases : Int]
<1>1. k \in Keys /\ ContextOf[s] \in Contexts
  BY LeaseConstants DEF Keys
<1>2. entries \in [Keys -> Entry]
  BY FinitelyManyPlans, FS_CardinalityType DEF TypeOK
<1>3. /\ family' \in [Plans -> Families]
      /\ single' \in [Plans -> BOOLEAN]
      /\ stream' \in [Plans -> Streams \cup {None}]
      /\ UNCHANGED <<launching, saved, executes, resident>>
  BY DEF CreatePlan, TypeOK
<1>4. CASE /\ Go(p, "gone")
           /\ UNCHANGED <<entries, alive, mode, stuck, lease, queue>>
  BY <1>3, <1>4 DEF TypeOK, Go
<1>5. CASE /\ Acquire(k, s)
           /\ lease' = [lease EXCEPT ![p] =
                  [handle |-> entries'[k].handle,
                   workspace |-> entries'[k].workspace,
                   context |-> ContextOf[s]]]
           /\ Go(p, IF f = "lt" THEN "preparing" ELSE "ready")
  <2>1. phase' \in [Plans -> {"new", "preparing", "ready", "locking", "gone"}
                               \cup Launching]
    BY <1>5 DEF Go, TypeOK
  <2>2. CASE Create(k, s)
    <3>1. PICK h \in Handles \ alive : 
             /\ alive' = alive \cup {h}
             /\ mode' = [mode EXCEPT ![h] = "tensor"]
             /\ stuck' = stuck \ {h}
             /\ \E w \in Workspaces \cup {None} :
                    /\ \/ /\ w \in Workspaces
                          /\ queue' = [queue EXCEPT ![s] =
                                           Append(queue[s], Op("alloc", w))]
                       \/ UNCHANGED queue
                    /\ entries' = [entries EXCEPT ![k] =
                           [handle |-> h, workspace |-> w, leases |-> 1]]
      BY <2>2 DEF Create
    <3>2. entries' \in [Keys -> Entry]
      <4>1. PICK w \in Workspaces \cup {None} : entries' =
                [entries EXCEPT ![k] =
                    [handle |-> h, workspace |-> w, leases |-> 1]]
        BY <3>1
      <4>2. [handle |-> h, workspace |-> w, leases |-> 1] \in Entry
        OBVIOUS
      <4>. QED  BY <1>2, <4>1, <4>2
    <3>3. queue' \in [Streams -> Seq(Operations)]
      BY <3>1, AppendTyped DEF TypeOK, Operations
    <3>4. alive' \in SUBSET Handles /\ mode' \in [Handles -> Modes]
          /\ stuck' \in SUBSET Handles
      BY <3>1 DEF TypeOK, Modes
    <3>5. lease' \in [Plans -> [handle : Handles \cup {None},
                                workspace : Workspaces \cup {None},
                                context : Contexts \cup {None}]]
      BY <1>1, <1>5, <3>2 DEF TypeOK
    <3>. QED  BY <1>3, <2>1, <3>2, <3>3, <3>4, <3>5, CountsTyped
              DEF TypeOK, Operations
  <2>3. CASE Share(k)
    <3>1. entries' \in [Keys -> Entry]
      <4>1. [entries[k] EXCEPT !.leases = entries[k].leases + 1] \in Entry
        BY <1>1, <1>2
      <4>2. entries' = [entries EXCEPT ![k] =
                [entries[k] EXCEPT !.leases = entries[k].leases + 1]]
        BY <2>3 DEF Share
      <4>. QED  BY <1>2, <4>1, <4>2
    <3>2. lease' \in [Plans -> [handle : Handles \cup {None},
                                workspace : Workspaces \cup {None},
                                context : Contexts \cup {None}]]
      BY <1>1, <1>5, <3>1 DEF TypeOK
    <3>. QED  BY <1>3, <2>1, <2>3, <3>1, <3>2, CountsTyped DEF TypeOK, Share
  <2>. QED  BY <1>5, <2>2, <2>3 DEF Acquire
<1>. QED  BY <1>4, <1>5 DEF CreatePlan

(* A release keeps every type.                                             *)
LEMMA ReleaseTyped ==
    ASSUME TypeOK, LeaseInv, LeasesCounted', NEW p \in Leasing, NEW c,
           Release(p, c)
    PROVE  TypeOK'
<1>. DEFINE k == KeyOf(p)
            Entry == [handle : Handles \cup {None},
                      workspace : Workspaces \cup {None}, leases : Int]
<1>1. /\ k \in Keys /\ p \in Plans /\ stream[p] \in Streams
      /\ k = <<family[p], ReleaseContext(p, c), stream[p]>>
      /\ entries[k].leases # 0
  BY HolderHasEntry DEF KeyOf, ReleaseContext, LeaseInv, PlansShareEntries
<1>2. entries \in [Keys -> Entry]
  BY FinitelyManyPlans, FS_CardinalityType DEF TypeOK
<1>3. /\ lease' = [lease EXCEPT ![p] = NoLease]
      /\ phase' = [phase EXCEPT ![p] = "gone"]
      /\ UNCHANGED <<mode, launching, family, single, stream, saved, executes,
                     resident, stuck>>
  BY DEF Release, Go, plan
<1>4. lease' \in [Plans -> [handle : Handles \cup {None},
                            workspace : Workspaces \cup {None},
                            context : Contexts \cup {None}]]
  BY <1>3 DEF NoLease, TypeOK
<1>5. CASE Destroy(k, stream[p])
  <2>1. entries' \in [Keys -> Entry] /\ alive' \in SUBSET Handles
    BY <1>1, <1>2, <1>5 DEF Destroy, Absent, TypeOK
  <2>2. queue' \in [Streams -> Seq(Operations)]
    <3>1. k[1] = "lt" => entries[k].workspace \in Workspaces
      BY <1>1 DEF LeaseInv, EntriesOwnHandles
    <3>2. \/ UNCHANGED queue
          \/ /\ entries[k].workspace \in Workspaces
             /\ queue' = [queue EXCEPT ![stream[p]] =
                              Append(queue[stream[p]],
                                     Op("free", entries[k].workspace))]
      BY <1>5, <3>1 DEF Destroy
    <3>. QED  BY <1>1, <3>2, AppendTyped DEF Operations, TypeOK
  <2>. QED  BY <1>3, <1>4, <2>1, <2>2, CountsTyped DEF TypeOK, Operations
<1>6. CASE /\ entries' = [entries EXCEPT ![k].leases = entries[k].leases - 1]
           /\ UNCHANGED <<alive, queue>>
  <2>1. [entries[k] EXCEPT !.leases = entries[k].leases - 1] \in Entry
    BY <1>1, <1>2
  <2>2. entries' \in [Keys -> Entry]
    BY <1>2, <1>6, <2>1
  <2>. QED  BY <1>3, <1>4, <1>6, <2>2, CountsTyped DEF TypeOK
<1>7. \/ Destroy(k, stream[p])
      \/ /\ entries' = [entries EXCEPT ![k].leases = entries[k].leases - 1]
         /\ UNCHANGED <<alive, queue>>
  BY <1>1, Zenon DEF Release
<1>. QED  BY <1>5, <1>6, <1>7

(* Every step keeps the types.                                             *)
LEMMA NextTyped ==
    ASSUME TypeOK, LeaseInv, LeaseInv', [Next]_vars
    PROVE  TypeOK'
<1>1. ASSUME NEW p \in Plans, NEW f \in Families, NEW x \in BOOLEAN,
             NEW s \in Streams, CreatePlan(p, f, x, s)
      PROVE  TypeOK'
  BY <1>1, CreateTyped DEF LeaseInv
<1>2. ASSUME NEW p \in Plans, NEW c, Release(p, c),
             phase[p] \in {"preparing", "ready"}
      PROVE  TypeOK'
  BY <1>2, ReleaseTyped DEF Leasing, LeaseInv
<1>3. ASSUME NEW p \in Plans, Prepare(p)
      PROVE  TypeOK'
  BY <1>2, <1>3 DEF Prepare, Go, TypeOK, plan, device
<1>14. ASSUME NEW p \in Plans, NEW c \in Contexts, DropPlan(p, c)
       PROVE  TypeOK'
  BY <1>2, <1>14 DEF DropPlan
<1>4. ASSUME NEW p \in Plans, ExecuteLt(p)
      PROVE  TypeOK'
  <2>1. p \in Leasing /\ KeyOf(p)[1] = "lt"
    BY <1>4 DEF ExecuteLt, Leasing, KeyOf
  <2>2. lease[p].workspace \in Workspaces /\ stream[p] \in Streams
    BY <2>1, HolderHasEntry DEF LeaseInv, PlansShareEntries, EntriesOwnHandles
  <2>3. queue' \in [Streams -> Seq(Operations)]
    BY <1>4, <2>2, AppendTyped DEF ExecuteLt
  <2>4. executes' \in [Plans -> 0..MaxExecutes]
    BY <1>4, LeaseConstants DEF ExecuteLt, TypeOK
  <2>. QED  BY <1>4, <2>3, <2>4 DEF ExecuteLt, TypeOK, Operations, plan
<1>5. ASSUME NEW p \in Plans, BeginExecute(p)
      PROVE  TypeOK'
  <2>1. executes' \in [Plans -> 0..MaxExecutes]
    BY <1>5, LeaseConstants DEF BeginExecute, TypeOK
  <2>. QED  BY <1>5, <2>1 DEF BeginExecute, Go, TypeOK, plan, device
<1>6. ASSUME NEW p \in Plans, LockLaunch(p)
      PROVE  TypeOK'
  <2>1. launching' \in [Keys -> Plans \cup {None}]
    BY <1>6 DEF LockLaunch, TypeOK
  <2>2. phase' \in [Plans -> {"new", "preparing", "ready", "locking", "gone"}
                               \cup Launching]
    BY <1>6 DEF LockLaunch, Go, Launching, TypeOK
  <2>. QED  BY <1>6, <2>1, <2>2 DEF LockLaunch, TypeOK, plan, device
<1>7. ASSUME NEW p \in Plans, Return(p)
      PROVE  /\ launching' \in [Keys -> Plans \cup {None}]
             /\ phase' \in [Plans -> {"new", "preparing", "ready", "locking",
                                      "gone"} \cup Launching]
  BY <1>7 DEF Return, Go, TypeOK
<1>8. ASSUME NEW p \in Plans, GetMathMode(p)
      PROVE  TypeOK'
  <2>1. p \in Leasing
    BY <1>8 DEF GetMathMode, Leasing, Launching
  <2>2. lease[p].handle \in Handles
    BY <2>1, HolderHasEntry DEF TypeOK
  <2>3. saved' \in [Plans -> Modes]
    BY <1>8, <2>2 DEF GetMathMode, TypeOK
  <2>. QED  BY <1>7, <1>8, <2>3
            DEF GetMathMode, Go, Launching, TypeOK, plan, device
<1>9. ASSUME NEW p \in Plans, SetMathMode(p)
      PROVE  TypeOK'
  <2>1. mode' \in [Handles -> Modes]
    BY <1>9 DEF SetMathMode, TypeOK, Modes
  <2>. QED  BY <1>7, <1>9, <2>1
            DEF SetMathMode, Go, Launching, TypeOK, plan, device
<1>10. ASSUME NEW p \in Plans, Launch(p)
       PROVE  TypeOK'
  BY <1>7, <1>10 DEF Launch, Go, Launching, TypeOK, plan, device
<1>11. ASSUME NEW p \in Plans, RestoreMathMode(p)
       PROVE  TypeOK'
  <2>1. p \in Leasing
    BY <1>11 DEF RestoreMathMode, Leasing, Launching
  <2>2. lease[p].handle \in Handles
    BY <2>1, HolderHasEntry DEF TypeOK
  <2>3. mode' \in [Handles -> Modes] /\ stuck' \in SUBSET Handles
    BY <1>11, <2>2 DEF RestoreMathMode, TypeOK
  <2>. QED  BY <1>7, <1>11, <2>3 DEF RestoreMathMode, TypeOK, plan, device
<1>12. ASSUME NEW s \in Streams, StreamStep(s)
       PROVE  TypeOK'
  <2>1. Head(queue[s]) \in Operations /\ Tail(queue[s]) \in Seq(Operations)
    BY <1>12, HeadTailProperties DEF StreamStep, TypeOK, Operations
  <2>2. resident' \in SUBSET Workspaces
    <3>1. \/ resident' = resident \cup {Head(queue[s]).on}
          \/ resident' = resident \ {Head(queue[s]).on}
          \/ resident' = resident
      BY <1>12, <2>1 DEF StreamStep, Operations
    <3>. QED  BY <2>1, <3>1 DEF TypeOK, Operations
  <2>3. queue' \in [Streams -> Seq(Operations)]
    BY <1>12, <2>1 DEF StreamStep, TypeOK, Operations
  <2>. QED  BY <1>12, <2>2, <2>3 DEF StreamStep, TypeOK, Operations, plan
<1>13. CASE UNCHANGED vars
  BY <1>13 DEF vars, plan, TypeOK
<1>. QED  BY <1>1, <1>3, <1>4, <1>5, <1>6, <1>8, <1>9, <1>10, <1>11, <1>12,
             <1>13, <1>14 DEF Next, Execute

-----------------------------------------------------------------------------
(* Launches.                                                               *)

(* Two plans inside a launch have two handles.                             *)
LEMMA LaunchIsExclusive ==
    ASSUME TypeOK, LeaseInv, LaunchesHoldMutex, NEW p \in Plans, NEW q \in Plans,
           phase[p] \in Launching, phase[q] \in Launching,
           lease[p].handle = lease[q].handle
    PROVE  p = q
<1>1. p \in Leasing /\ q \in Leasing
  BY DEF Leasing
<1>. QED  BY <1>1, HandleHasOneKey DEF LaunchesHoldMutex

(* Every step leaves the launches with the mutex of their entry.           *)
LEMMA NextKeepsMutex ==
    ASSUME TypeOK, LeaseInv, LaunchesHoldMutex, [Next]_vars
    PROVE  LaunchesHoldMutex'
<1>. USE DEF LaunchesHoldMutex, Launching
<1>1. ASSUME NEW p \in Plans, NEW f \in Families, NEW x \in BOOLEAN,
             NEW s \in Streams, CreatePlan(p, f, x, s)
      PROVE  LaunchesHoldMutex'
  <2>1. /\ phase'[p] \notin Launching
        /\ \A q \in Plans : q # p => /\ phase'[q] = phase[q]
                                     /\ KeyOf(q)' = KeyOf(q)
                                     /\ single'[q] = single[q]
        /\ launching' = launching
    BY <1>1 DEF CreatePlan, Go, KeyOf, TypeOK
  <2>. QED  BY <2>1
<1>2. ASSUME NEW p \in Plans, NEW c, Release(p, c)
      PROVE  LaunchesHoldMutex'
  <2>1. /\ phase'[p] \notin Launching
        /\ \A q \in Plans : q # p => /\ phase'[q] = phase[q]
                                     /\ KeyOf(q)' = KeyOf(q)
        /\ launching' = launching /\ single' = single
    BY <1>2 DEF Release, Go, KeyOf, TypeOK, plan
  <2>. QED  BY <2>1
<1>3. ASSUME UNCHANGED <<family, single, stream, lease>>, NEW p \in Plans,
             Return(p)
      PROVE  LaunchesHoldMutex'
  <2>1. /\ phase'[p] \notin Launching
        /\ \A q \in Plans : /\ KeyOf(q)' = KeyOf(q)
                            /\ q # p => phase'[q] = phase[q]
        /\ \A k \in Keys : launching[k] # p => launching'[k] = launching[k]
    BY <1>3 DEF Return, Go, KeyOf, TypeOK
  <2>2. ASSUME NEW q \in Plans, q # p, phase[q] \in Launching
        PROVE  launching'[KeyOf(q)] = q
    <3>1. KeyOf(q) \in Keys
      BY <2>2, HolderHasEntry DEF Leasing
    <3>. QED  BY <2>1, <2>2, <3>1
  <2>. QED  BY <1>3, <2>1, <2>2
<1>4. ASSUME UNCHANGED <<family, single, stream, lease, launching>>,
             NEW p \in Plans, NEW next, Go(p, next),
             next \in Launching =>
                 /\ launching[KeyOf(p)] = p
                 /\ next # "launch" => single[p]
      PROVE  LaunchesHoldMutex'
  <2>1. /\ phase'[p] = next
        /\ \A q \in Plans : /\ KeyOf(q)' = KeyOf(q)
                            /\ q # p => phase'[q] = phase[q]
    BY <1>4 DEF Go, KeyOf, TypeOK
  <2>. QED  BY <1>4, <2>1
<1>5. ASSUME NEW p \in Plans, Prepare(p)
      PROVE  LaunchesHoldMutex'
  BY <1>2, <1>4, <1>5 DEF Prepare, plan
<1>6. ASSUME NEW p \in Plans, NEW c \in Contexts, DropPlan(p, c)
      PROVE  LaunchesHoldMutex'
  BY <1>2, <1>6 DEF DropPlan
<1>7. ASSUME NEW p \in Plans, BeginExecute(p)
      PROVE  LaunchesHoldMutex'
  BY <1>4, <1>7 DEF BeginExecute, plan
<1>8. ASSUME NEW p \in Plans, LockLaunch(p)
      PROVE  LaunchesHoldMutex'
  <2>1. /\ KeyOf(p) \in Keys /\ launching[KeyOf(p)] = None
        /\ launching' = [launching EXCEPT ![KeyOf(p)] = p]
        /\ phase'[p] = IF single[p] THEN "get" ELSE "launch"
        /\ \A q \in Plans : /\ KeyOf(q)' = KeyOf(q)
                            /\ q # p => phase'[q] = phase[q]
        /\ single' = single
    BY <1>8, HolderHasEntry DEF LockLaunch, Go, KeyOf, TypeOK, plan, Leasing
  <2>2. ASSUME NEW q \in Plans, q # p, phase[q] \in Launching
        PROVE  launching'[KeyOf(q)] = q
    BY <2>1, <2>2, LeaseConstants DEF TypeOK
  <2>. QED  BY <2>1, <2>2 DEF TypeOK
<1>9. ASSUME NEW p \in Plans, Execute(p)
      PROVE  LaunchesHoldMutex'
  <2>1. CASE GetMathMode(p)
    BY <1>3, <1>4, <2>1 DEF GetMathMode, plan
  <2>2. CASE SetMathMode(p)
    BY <1>3, <1>4, <2>2 DEF SetMathMode, plan
  <2>3. CASE Launch(p)
    BY <1>3, <1>4, <2>3 DEF Launch, plan
  <2>4. CASE RestoreMathMode(p)
    BY <1>3, <2>4 DEF RestoreMathMode, plan
  <2>. QED  BY <1>9, <2>1, <2>2, <2>3, <2>4 DEF Execute
<1>10. ASSUME UNCHANGED <<phase, family, single, stream, lease, launching>>
       PROVE  LaunchesHoldMutex'
  <2>1. \A q \in Plans : KeyOf(q)' = KeyOf(q)
    BY <1>10 DEF KeyOf
  <2>. QED  BY <1>10, <2>1
<1>11. ASSUME NEW p \in Plans, ExecuteLt(p)
       PROVE  LaunchesHoldMutex'
  BY <1>10, <1>11 DEF ExecuteLt, plan
<1>12. ASSUME NEW s \in Streams, StreamStep(s)
       PROVE  LaunchesHoldMutex'
  BY <1>10, <1>12 DEF StreamStep, plan
<1>13. CASE UNCHANGED vars
  BY <1>10, <1>13 DEF vars, plan
<1>. QED  BY <1>1, <1>5, <1>6, <1>7, <1>8, <1>9, <1>11, <1>12, <1>13 DEF Next

(* A plan that moves on, with the mode as it is, keeps modes right.        *)
LEMMA MovesKeepModes ==
    ASSUME TypeOK, ModesKept, UNCHANGED <<mode, stuck, saved, single, lease>>,
           NEW p \in Leasing, NEW next, Go(p, next), Leasing' = Leasing,
           next # "set",
           single[p] => (phase[p] \in {"launch", "restore"}
                             <=> next \in {"launch", "restore"})
    PROVE  ModesKept'
<1>1. /\ phase'[p] = next
      /\ \A q \in Leasing : q # p => phase'[q] = phase[q]
  BY DEF Go, TypeOK, Leasing
<1>2. \A q \in Leasing : Switched(q)' <=> Switched(q)
  BY <1>1 DEF Switched
<1>3. \A q \in Leasing : phase'[q] = "set" => phase[q] = "set"
  BY <1>1
<1>. QED  BY <1>2, <1>3 DEF ModesKept

(* A created plan finds its handle in tensor mode unless a product of      *)
(* another plan switched it.                                               *)
LEMMA CreateKeepsModes ==
    ASSUME TypeOK, LeaseInv, LaunchesHoldMutex, ModesKept,
           NEW p \in Plans, NEW f \in Families, NEW x \in BOOLEAN,
           NEW s \in Streams, CreatePlan(p, f, x, s)
    PROVE  ModesKept'
<1>. DEFINE k == <<f, ContextOf[s], s>>
<1>1. /\ k \in Keys /\ p \notin Leasing
      /\ \A q \in Leasing : /\ q # p /\ q \in Plans
                            /\ phase'[q] = phase[q] /\ single'[q] = single[q]
      /\ saved' = saved
  BY LeaseConstants DEF CreatePlan, Go, TypeOK, Keys, Leasing, Launching
<1>2. \A q \in Leasing : Switched(q)' <=> Switched(q)
  BY <1>1 DEF Switched
<1>3. CASE /\ Go(p, "gone")
           /\ UNCHANGED <<mode, stuck, lease>>
  <2>1. Leasing' = Leasing
    BY <1>1, <1>3 DEF Go, TypeOK, Leasing, Launching
  <2>. QED  BY <1>1, <1>2, <1>3, <2>1 DEF ModesKept
<1>4. CASE Acquired(p, k, f, s)
  <2>1. /\ Leasing' = Leasing \cup {p}
        /\ phase'[p] \in {"preparing", "ready"}
        /\ lease'[p].handle = entries'[k].handle
        /\ \A q \in Leasing : lease'[q] = lease[q]
    BY <1>1, <1>4 DEF Acquired, Go, TypeOK, Leasing, Launching
  <2>2. ~Switched(p)' /\ phase'[p] # "set"
    BY <2>1 DEF Switched
  <2>3. CASE Create(k, s)
    <3>1. PICK h \in Handles \ alive :
             /\ mode' = [mode EXCEPT ![h] = "tensor"]
             /\ stuck' = stuck \ {h}
             /\ entries'[k].handle = h
      <4>1. PICK h \in Handles \ alive, w \in Workspaces \cup {None} :
               /\ mode' = [mode EXCEPT ![h] = "tensor"]
               /\ stuck' = stuck \ {h}
               /\ entries' = [entries EXCEPT ![k] =
                      [handle |-> h, workspace |-> w, leases |-> 1]]
        BY <2>3 DEF Create
      <4>. QED  BY <1>1, <4>1 DEF TypeOK
    <3>2. \A q \in Leasing : /\ lease[q].handle # h
                             /\ mode'[lease[q].handle] = mode[lease[q].handle]
      BY <3>1, HolderHasEntry DEF TypeOK
    <3>3. mode'[h] = "tensor"
      BY <3>1 DEF TypeOK
    <3>. QED  BY <1>1, <1>2, <2>1, <2>2, <3>1, <3>2, <3>3 DEF ModesKept
  <2>4. CASE Share(k) /\ entries[k].leases # 0
    <3>1. UNCHANGED <<mode, stuck>> /\ entries'[k].handle = entries[k].handle
      BY <1>1, <2>4 DEF Share, TypeOK
    <3>2. PICK r \in Leasing : lease[r].handle = entries[k].handle
      <4>1. Holders(k) \in SUBSET Plans /\ Holders(k) # {}
        BY <1>1, <2>4, PlansCounted
           DEF LeaseInv, LeasesCounted, Holders, Leasing
      <4>. QED  BY <4>1 DEF Holders, LeaseInv, PlansShareEntries
    <3>. QED  BY <1>1, <1>2, <2>1, <2>2, <3>1, <3>2 DEF ModesKept
  <2>. QED  BY <1>4, <2>3, <2>4 DEF Acquired, Acquire
<1>. QED  BY <1>1, <1>3, <1>4 DEF CreatePlan, Acquired

(* Every step keeps modes right.                                           *)
LEMMA NextKeepsModes ==
    ASSUME TypeOK, LeaseInv, LaunchesHoldMutex, ModesKept, [Next]_vars
    PROVE  ModesKept'
<1>1. ASSUME NEW p \in Plans, NEW f \in Families, NEW x \in BOOLEAN,
             NEW s \in Streams, CreatePlan(p, f, x, s)
      PROVE  ModesKept'
  BY <1>1, CreateKeepsModes
<1>2. ASSUME NEW p \in Plans, NEW c, Release(p, c),
             phase[p] \in {"preparing", "ready"}
      PROVE  ModesKept'
  <2>1. p \in Leasing
    BY <1>2 DEF Leasing
  <2>2. Leasing' = Leasing \ {p} /\ \A q \in Leasing' : lease'[q] = lease[q]
    BY <1>2, <2>1, HolderHasEntry, ReleasedHolders
  <2>3. /\ UNCHANGED <<mode, stuck, saved, single>>
        /\ \A q \in Leasing' : phase'[q] = phase[q]
    BY <1>2, <2>2 DEF Release, Go, TypeOK, Leasing, plan
  <2>4. ~Switched(p) /\ \A q \in Leasing' : Switched(q)' <=> Switched(q)
    BY <1>2, <2>3 DEF Switched
  <2>. QED  BY <2>2, <2>3, <2>4 DEF ModesKept
<1>3. ASSUME NEW p \in Plans, NEW next \in {"ready", "locking", "get", "set",
                                            "launch", "restore"},
             Go(p, next), p \in Leasing
      PROVE  Leasing' = Leasing
  BY <1>3 DEF Go, Leasing, Launching, TypeOK
<1>4. ASSUME UNCHANGED <<phase, mode, stuck, saved, single, lease>>
      PROVE  ModesKept'
  BY <1>4 DEF ModesKept, Leasing, Switched
<1>5. ASSUME NEW p \in Plans, Prepare(p)
      PROVE  ModesKept'
  BY <1>2, <1>3, <1>5, MovesKeepModes DEF Prepare, plan, Leasing
<1>6. ASSUME NEW p \in Plans, NEW c \in Contexts, DropPlan(p, c)
      PROVE  ModesKept'
  BY <1>2, <1>6 DEF DropPlan
<1>7. ASSUME NEW p \in Plans, BeginExecute(p) \/ LockLaunch(p)
      PROVE  ModesKept'
  <2>1. p \in Leasing
    BY <1>7 DEF BeginExecute, LockLaunch, Leasing
  <2>. QED  BY <1>3, <1>7, <2>1, MovesKeepModes
            DEF BeginExecute, LockLaunch, plan
<1>8. ASSUME NEW p \in Plans, NEW q \in Leasing, phase[p] \in Launching,
             lease[q].handle = lease[p].handle, Switched(q)
      PROVE  p = q
  BY <1>8, LaunchIsExclusive DEF Switched, Launching, Leasing
<1>9. ASSUME NEW p \in Plans, GetMathMode(p)
      PROVE  ModesKept'
  <2>1. p \in Leasing
    BY <1>9 DEF GetMathMode, Leasing, Launching
  <2>2. CASE Return(p) /\ UNCHANGED saved
    BY <1>3, <1>9, <2>1, <2>2, MovesKeepModes DEF GetMathMode, Return, plan
  <2>3. CASE /\ saved' = [saved EXCEPT ![p] = mode[lease[p].handle]]
             /\ Go(p, "set")
    <3>1. /\ Leasing' = Leasing
          /\ \A q \in Leasing : q # p => phase'[q] = phase[q]
          /\ \A q \in Leasing : q # p => saved'[q] = saved[q]
          /\ phase'[p] = "set" /\ saved'[p] = mode[lease[p].handle]
          /\ UNCHANGED <<mode, stuck, single, lease>>
      BY <1>3, <1>9, <2>1, <2>3 DEF GetMathMode, Go, TypeOK, Leasing, plan
    <3>2. \A q \in Leasing : Switched(q)' <=> Switched(q)
      BY <1>9, <3>1 DEF Switched, GetMathMode
    <3>3. \A q \in Leasing : lease[q].handle = lease[p].handle => ~Switched(q)
      BY <1>8, <1>9 DEF GetMathMode, Launching, Switched
    <3>4. lease[p].handle \notin stuck => saved'[p] = "tensor"
      BY <2>1, <3>1, <3>3 DEF ModesKept
    <3>. QED  BY <3>1, <3>2, <3>4 DEF ModesKept
  <2>. QED  BY <1>9, <2>2, <2>3 DEF GetMathMode
<1>10. ASSUME NEW p \in Plans, SetMathMode(p)
       PROVE  ModesKept'
  <2>1. p \in Leasing /\ single[p]
    BY <1>10 DEF SetMathMode, Leasing, Launching, LaunchesHoldMutex
  <2>2. CASE Return(p) /\ UNCHANGED mode
    BY <1>3, <1>10, <2>1, <2>2, MovesKeepModes DEF SetMathMode, Return, plan
  <2>3. CASE /\ mode' = [mode EXCEPT ![lease[p].handle] = "default"]
             /\ Go(p, "launch")
    <3>1. /\ Leasing' = Leasing
          /\ \A q \in Leasing : q # p => phase'[q] = phase[q]
          /\ phase'[p] = "launch"
          /\ UNCHANGED <<saved, stuck, single, lease>>
      BY <1>3, <1>10, <2>1, <2>3 DEF SetMathMode, Go, TypeOK, Leasing, plan
    <3>2. /\ Switched(p)'
          /\ \A q \in Leasing : q # p => (Switched(q)' <=> Switched(q))
      BY <2>1, <3>1 DEF Switched
    <3>3. \A q \in Leasing : mode'[lease[q].handle] =
              IF lease[q].handle = lease[p].handle THEN "default"
              ELSE mode[lease[q].handle]
      BY <2>1, <2>3, HolderHasEntry DEF TypeOK
    <3>4. ~Switched(p) /\ (lease[p].handle \notin stuck => saved[p] = "tensor")
      BY <1>10, <2>1 DEF SetMathMode, Switched, ModesKept
    <3>. QED  BY <2>1, <3>1, <3>2, <3>3, <3>4 DEF ModesKept
  <2>. QED  BY <1>10, <2>2, <2>3 DEF SetMathMode
<1>11. ASSUME NEW p \in Plans, Launch(p)
       PROVE  ModesKept'
  <2>1. p \in Leasing
    BY <1>11 DEF Launch, Leasing, Launching
  <2>. QED  BY <1>3, <1>11, <2>1, MovesKeepModes DEF Launch, Return, plan
<1>12. ASSUME NEW p \in Plans, RestoreMathMode(p)
       PROVE  ModesKept'
  <2>1. p \in Leasing /\ single[p] /\ Switched(p)
    BY <1>12 DEF RestoreMathMode, Leasing, Launching, LaunchesHoldMutex, Switched
  <2>2. /\ Leasing' = Leasing
        /\ \A q \in Leasing : q # p => phase'[q] = phase[q]
        /\ phase'[p] = "ready"
        /\ UNCHANGED <<saved, single, lease>>
    BY <1>3, <1>12, <2>1 DEF RestoreMathMode, Return, Go, TypeOK, Leasing, plan
  <2>3. /\ ~Switched(p)'
        /\ \A q \in Leasing : q # p => (Switched(q)' <=> Switched(q))
    BY <2>2 DEF Switched
  <2>4. \A q \in Leasing : q # p /\ lease[q].handle = lease[p].handle
                           => ~Switched(q)
    BY <1>8, <1>12 DEF RestoreMathMode, Launching
  <2>5. lease[p].handle \notin stuck => saved[p] = "tensor"
    BY <2>1 DEF ModesKept
  <2>6. \/ /\ stuck' = stuck
           /\ \A q \in Leasing : mode'[lease[q].handle] =
                  IF lease[q].handle = lease[p].handle THEN saved[p]
                  ELSE mode[lease[q].handle]
        \/ stuck' = stuck \cup {lease[p].handle} /\ mode' = mode
    BY <1>12, <2>1, HolderHasEntry DEF RestoreMathMode, TypeOK
  <2>. QED  BY <2>1, <2>2, <2>3, <2>4, <2>5, <2>6 DEF ModesKept
<1>13. ASSUME NEW p \in Plans, ExecuteLt(p)
       PROVE  ModesKept'
  BY <1>4, <1>13 DEF ExecuteLt, plan
<1>14. ASSUME NEW s \in Streams, StreamStep(s)
       PROVE  ModesKept'
  BY <1>4, <1>14 DEF StreamStep, plan
<1>15. CASE UNCHANGED vars
  BY <1>4, <1>15 DEF vars, plan
<1>. QED  BY <1>1, <1>5, <1>6, <1>7, <1>9, <1>10, <1>11, <1>12, <1>13, <1>14,
             <1>15 DEF Next, Execute

-----------------------------------------------------------------------------
(* Workspaces.                                                             *)

WorkspaceOps == [kind : {"alloc", "free", "product"}, on : Workspaces]

(* Queueing one operation keeps every earlier one at its position.         *)
LEMMA AppendOne ==
    ASSUME TypeOK, NEW s \in Streams, NEW op \in WorkspaceOps,
           queue' = [queue EXCEPT ![s] = Append(queue[s], op)]
    PROVE  /\ \A t \in Streams : Len(queue[t]) \in Nat /\ Len(queue'[t]) \in Nat
           /\ \A t \in Streams : t # s => queue'[t] = queue[t]
           /\ Len(queue'[s]) = Len(queue[s]) + 1
           /\ queue'[s][Len(queue[s]) + 1] = op
           /\ \A i \in Pending(s) : queue'[s][i] = queue[s][i]
<1>1. queue \in [Streams -> Seq(WorkspaceOps)]
  BY DEF TypeOK, WorkspaceOps
<1>2. queue'[s] = Append(queue[s], op) /\ \A t \in Streams : t # s => queue'[t] = queue[t]
  BY <1>1
<1>3. queue[s] \in Seq(WorkspaceOps) /\ Len(queue[s]) \in Nat
  BY <1>1
<1>4. /\ Append(queue[s], op) \in Seq(WorkspaceOps)
      /\ Len(Append(queue[s], op)) = Len(queue[s]) + 1
      /\ Append(queue[s], op)[Len(queue[s]) + 1] = op
      /\ \A i \in 1..Len(queue[s]) : Append(queue[s], op)[i] = queue[s][i]
  BY <1>3, AppendProperties
<1>5. \A t \in Streams : Len(queue[t]) \in Nat /\ Len(queue'[t]) \in Nat
  BY <1>1, <1>2, <1>4
<1>. QED  BY <1>2, <1>4, <1>5 DEF Pending

(* An operation was queued before op was, or is op.                        *)
Appended(s, op, t, i) ==
    \/ i \in Pending(t) /\ queue'[t][i] = queue[t][i]
    \/ t = s /\ i = Len(queue[s]) + 1 /\ queue'[t][i] = op

(* Every operation of the longer queue is one of these.                    *)
LEMMA AppendedFrom ==
    ASSUME TypeOK, NEW s \in Streams, NEW op \in WorkspaceOps,
           queue' = [queue EXCEPT ![s] = Append(queue[s], op)],
           NEW t \in Streams, NEW i \in 1..Len(queue'[t])
    PROVE  Appended(s, op, t, i)
<1>1. /\ \A r \in Streams : Len(queue[r]) \in Nat /\ Len(queue'[r]) \in Nat
      /\ \A r \in Streams : r # s => queue'[r] = queue[r]
      /\ Len(queue'[s]) = Len(queue[s]) + 1
      /\ queue'[s][Len(queue[s]) + 1] = op
      /\ \A j \in Pending(s) : queue'[s][j] = queue[s][j]
  BY AppendOne
<1>2. CASE t # s
  <2>1. queue'[t] = queue[t]
    BY <1>1, <1>2
  <2>. QED  BY <2>1 DEF Pending, Appended
<1>3. CASE t = s
  <2>1. i \in 1..Len(queue[s]) \/ i = Len(queue[s]) + 1
    BY <1>1, <1>3
  <2>. QED  BY <1>1, <1>3, <2>1 DEF Pending, Appended
<1>. QED  BY <1>2, <1>3

(* A workspace that exists after some operations of a stream does so when  *)
(* more is queued.                                                         *)
LEMMA AppendKeepsBacked ==
    ASSUME TypeOK, NEW s \in Streams, NEW op \in WorkspaceOps,
           queue' = [queue EXCEPT ![s] = Append(queue[s], op)], resident' = resident,
           NEW w, NEW t \in Streams, NEW n \in 0..Len(queue[t]), Backed(w, t, n),
           NEW m \in Nat, n <= m
    PROVE  Backed(w, t, m)'
<1>1. CASE w \in resident
  BY <1>1 DEF Backed
<1>2. CASE \E j \in 1..n : queue[t][j] = Op("alloc", w)
  <2>1. PICK j \in 1..n : queue[t][j] = Op("alloc", w)
    BY <1>2
  <2>2. Len(queue[t]) \in Nat
    BY AppendOne
  <2>3. j \in 1..m /\ j \in Pending(t)
    BY <2>2 DEF Pending
  <2>4. queue'[t][j] = queue[t][j]
    BY <2>3, AppendOne
  <2>. QED  BY <2>1, <2>3, <2>4 DEF Backed
<1>. QED  BY <1>1, <1>2 DEF Backed

(* Work on a workspace that is queued on this stream only and not freed    *)
(* there, a product only if the workspace exists by then.                  *)
LEMMA AppendKeepsQueue ==
    ASSUME TypeOK, QueueInv, NEW s \in Streams, NEW op \in WorkspaceOps,
           queue' = [queue EXCEPT ![s] = Append(queue[s], op)], resident' = resident,
           \A t \in Streams : \A i \in Pending(t) :
               queue[t][i].on = op.on => t = s /\ queue[t][i].kind # "free",
           op.kind = "product" => Backed(op.on, s, Len(queue[s]))
    PROVE  QueueInv'
<1>1. \A t \in Streams : \A i \in 1..Len(queue'[t]) :
          \/ i \in Pending(t) /\ queue'[t][i] = queue[t][i]
          \/ t = s /\ i = Len(queue[s]) + 1 /\ queue'[t][i] = op
  BY AppendedFrom DEF Appended
<1>2. \A t \in Streams : Len(queue[t]) \in Nat
  BY AppendOne
<1>3. WorkspacesStay'
  <2>. SUFFICES ASSUME NEW t \in Streams, NEW r \in Streams,
                       NEW i \in 1..Len(queue'[t]), NEW j \in 1..Len(queue'[r]),
                       queue'[t][i].on = queue'[r][j].on
                PROVE  t = r
    BY DEF WorkspacesStay, Pending
  <2>1. \/ i \in Pending(t) /\ queue'[t][i] = queue[t][i]
        \/ t = s /\ queue'[t][i] = op
    BY <1>1
  <2>2. \/ j \in Pending(r) /\ queue'[r][j] = queue[r][j]
        \/ r = s /\ queue'[r][j] = op
    BY <1>1
  <2>. QED  BY <2>1, <2>2 DEF QueueInv, WorkspacesStay
<1>4. FreesAreLast'
  <2>. SUFFICES ASSUME NEW t \in Streams,
                       NEW i \in 1..Len(queue'[t]), NEW j \in 1..Len(queue'[t]),
                       queue'[t][i].kind = "free", i < j,
                       queue'[t][j].on = queue'[t][i].on
                PROVE  FALSE
    BY DEF FreesAreLast, Pending
  <2>1. CASE j \in Pending(t) /\ queue'[t][j] = queue[t][j]
    <3>1. i \in Pending(t)
      BY <1>2, <2>1 DEF Pending
    <3>2. queue'[t][i] = queue[t][i]
      BY <1>1, <1>2, <3>1 DEF Pending
    <3>. QED  BY <2>1, <3>1, <3>2 DEF QueueInv, FreesAreLast
  <2>2. CASE t = s /\ j = Len(queue[s]) + 1 /\ queue'[t][j] = op
    <3>1. i \in Pending(t) /\ queue'[t][i] = queue[t][i]
      BY <1>1, <1>2, <2>2
    <3>. QED  BY <2>2, <3>1
  <2>. QED  BY <1>1, <2>1, <2>2
<1>5. ProductsAreBacked'
  <2>. SUFFICES ASSUME NEW t \in Streams, NEW i \in 1..Len(queue'[t]),
                       queue'[t][i].kind = "product",
                       NEW w, w = queue'[t][i].on
                PROVE  Backed(w, t, i)'
    BY DEF ProductsAreBacked, Pending, Backed
  <2>1. i \in Nat
    OBVIOUS
  <2>2. CASE i \in Pending(t) /\ queue'[t][i] = queue[t][i]
    <3>1. Backed(w, t, i) /\ i \in 0..Len(queue[t])
      BY <2>2, <1>2 DEF QueueInv, ProductsAreBacked, Pending
    <3>2. i <= i
      BY <2>1
    <3>. QED  BY <2>1, <3>1, <3>2, AppendKeepsBacked
  <2>3. CASE t = s /\ i = Len(queue[s]) + 1 /\ queue'[t][i] = op
    <3>1. PICK n \in 0..Len(queue[s]) : n = Len(queue[s])
      BY <1>2
    <3>2. Backed(w, s, n) /\ n <= i
      BY <1>2, <2>3, <3>1
    <3>. QED  BY <2>1, <2>3, <3>2, AppendKeepsBacked
  <2>. QED  BY <1>1, <2>2, <2>3
<1>. QED  BY <1>3, <1>4, <1>5 DEF QueueInv

(* Queueing work keeps what is known of workspaces: every entry is as it   *)
(* was or got the workspace whose allocation is queued.                    *)
LEMMA AppendKeepsWorkspaces ==
    ASSUME TypeOK, WorkspaceInv, NEW s \in Streams, NEW op \in WorkspaceOps,
           queue' = [queue EXCEPT ![s] = Append(queue[s], op)], resident' = resident,
           \A t \in Streams : \A i \in Pending(t) :
               queue[t][i].on = op.on => t = s /\ queue[t][i].kind # "free",
           op.kind = "product" => Backed(op.on, s, Len(queue[s])),
           \A k \in LtEntries' :
               \/ k \in LtEntries /\ entries'[k].workspace = entries[k].workspace
               \/ op = Op("alloc", entries'[k].workspace),
           \A k \in LtEntries' : entries'[k].workspace = op.on =>
               k[3] = s /\ op.kind # "free",
           \A k, l \in LtEntries' : entries'[k].workspace = entries'[l].workspace => k = l
    PROVE  WorkspaceInv'
<1>1. QueueInv'
  BY AppendKeepsQueue DEF WorkspaceInv
<1>2. ASSUME NEW t \in Streams, NEW i \in 1..Len(queue'[t])
      PROVE  \/ i \in Pending(t) /\ queue'[t][i] = queue[t][i]
             \/ t = s /\ i = Len(queue[s]) + 1 /\ queue'[t][i] = op
  <2>1. Appended(s, op, t, i)
    BY AppendedFrom, Zenon
  <2>. QED  BY <2>1 DEF Appended
<1>3. /\ \A t \in Streams : Len(queue[t]) \in Nat /\ Len(queue'[t]) \in Nat
      /\ \A t \in Streams : t # s => queue'[t] = queue[t]
      /\ Len(queue'[s]) = Len(queue[s]) + 1
      /\ queue'[s][Len(queue[s]) + 1] = op
  BY AppendOne
<1>4. \A k \in LtEntries' : k[3] \in Streams
  BY DEF LtEntries, Keys
<1>5. ASSUME NEW k \in LtEntries', NEW t \in Streams, NEW i \in 1..Len(queue'[t]),
             queue'[t][i].on = entries'[k].workspace
      PROVE  t = k[3] /\ queue'[t][i].kind # "free"
  <2>1. CASE i \in Pending(t) /\ queue'[t][i] = queue[t][i]
    <3>1. CASE k \in LtEntries /\ entries'[k].workspace = entries[k].workspace
      BY <1>5, <2>1, <3>1 DEF WorkspaceInv, EntriesOwnWorkspaces
    <3>2. CASE op = Op("alloc", entries'[k].workspace)
      <4>1. op.on = entries'[k].workspace
        BY <3>2 DEF Op
      <4>. QED  BY <1>5, <2>1, <4>1
    <3>. QED  BY <3>1, <3>2
  <2>2. CASE t = s /\ queue'[t][i] = op
    BY <1>5, <2>2
  <2>. QED  BY <1>2, <2>1, <2>2
<1>6. ASSUME NEW k \in LtEntries', NEW n \in Nat, n = Len(queue'[k[3]]),
             NEW w, w = entries'[k].workspace
      PROVE  Backed(w, k[3], n)'
  <2>1. CASE k \in LtEntries /\ entries'[k].workspace = entries[k].workspace
    <3>1. PICK m \in 0..Len(queue[k[3]]) : m = Len(queue[k[3]])
      BY <1>3, <1>4
    <3>2. m <= n
      BY <1>3, <1>4, <1>6, <3>1
    <3>3. Backed(w, k[3], m)
      BY <1>6, <2>1, <3>1 DEF WorkspaceInv, EntriesAreBacked
    <3>. QED  BY <1>4, <3>2, <3>3, AppendKeepsBacked
  <2>2. CASE op = Op("alloc", entries'[k].workspace)
    <3>1. k[3] = s
      BY <2>2 DEF Op
    <3>2. n = Len(queue[s]) + 1 /\ n \in 1..n
      BY <1>3, <1>6, <3>1
    <3>3. queue'[s][n] = Op("alloc", w)
      BY <1>3, <1>6, <2>2, <3>2
    <3>. QED  BY <3>1, <3>2, <3>3 DEF Backed
  <2>. QED  BY <2>1, <2>2
<1>7. EntriesAreBacked'
  <2>. SUFFICES ASSUME NEW k \in LtEntries'
                PROVE  Backed(entries[k].workspace, k[3], Len(queue[k[3]]))'
    BY DEF EntriesAreBacked
  <2>1. PICK n \in Nat : n = Len(queue'[k[3]])
    BY <1>3, <1>4
  <2>2. PICK w : w = entries'[k].workspace
    OBVIOUS
  <2>3. Backed(w, k[3], n)'
    BY <1>6, <2>1, <2>2
  <2>. QED  BY <2>1, <2>2, <2>3 DEF Backed
<1>8. EntriesOwnWorkspaces'
  BY <1>5 DEF EntriesOwnWorkspaces, Pending
<1>. QED  BY <1>1, <1>7, <1>8 DEF WorkspaceInv

(* What neither queues nor runs work, and leases no entry anew, keeps it.  *)
LEMMA WorkspacesKept ==
    ASSUME WorkspaceInv, UNCHANGED <<queue, resident>>,
           \A k \in LtEntries' :
               k \in LtEntries /\ entries'[k].workspace = entries[k].workspace
    PROVE  WorkspaceInv'
<1>1. \A w, s, n : Backed(w, s, n)' <=> Backed(w, s, n)
  BY DEF Backed
<1>2. QueueInv'
  BY <1>1 DEF WorkspaceInv, QueueInv, WorkspacesStay, FreesAreLast,
              ProductsAreBacked, Pending, Backed
<1>3. EntriesOwnWorkspaces'
  BY DEF WorkspaceInv, EntriesOwnWorkspaces, Pending
<1>4. EntriesAreBacked'
  BY DEF WorkspaceInv, EntriesAreBacked, Backed
<1>. QED  BY <1>2, <1>3, <1>4 DEF WorkspaceInv

(* Running an operation keeps what exists by then, except what it frees.   *)
LEMMA StepKeepsBacked ==
    ASSUME TypeOK, NEW s \in Streams, StreamStep(s), NEW w, NEW t \in Streams,
           NEW n \in Nat, n <= Len(queue[t]), Backed(w, t, n),
           queue[s][1].kind = "free" => queue[s][1].on # w,
           NEW m \in Nat, IF t = s THEN m + 1 = n ELSE m = n
    PROVE  Backed(w, t, m)'
<1>1. /\ queue[s] # <<>> /\ queue[s] \in Seq(WorkspaceOps)
      /\ queue' = [queue EXCEPT ![s] = Tail(queue[s])]
      /\ queue \in [Streams -> Seq(WorkspaceOps)]
  BY DEF StreamStep, TypeOK, WorkspaceOps
<1>2. /\ Len(queue[s]) \in Nat \ {0} /\ Head(queue[s]) = queue[s][1]
      /\ Len(queue'[s]) = Len(queue[s]) - 1
      /\ \A i \in 1..Len(queue'[s]) : queue'[s][i] = queue[s][i + 1]
      /\ t # s => queue'[t] = queue[t]
  BY <1>1, HeadTailProperties
<1>3. queue[s][1].kind \in {"alloc", "free", "product"}
  <2>1. 1 \in 1..Len(queue[s])
    BY <1>2
  <2>2. queue[s][1] \in WorkspaceOps
    BY <1>1, <2>1, ElementOfSeq
  <2>. QED  BY <2>2 DEF WorkspaceOps
<1>4. resident' = CASE queue[s][1].kind = "alloc"   -> resident \cup {queue[s][1].on}
                    [] queue[s][1].kind = "free"    -> resident \ {queue[s][1].on}
                    [] queue[s][1].kind = "product" -> resident
  BY <1>2 DEF StreamStep
<1>5. w \in resident => w \in resident'
  BY <1>3, <1>4
<1>6. CASE w \in resident
  BY <1>5, <1>6 DEF Backed
<1>7. CASE \E j \in 1..n : queue[t][j] = Op("alloc", w)
  <2>1. PICK j \in 1..n : queue[t][j] = Op("alloc", w)
    BY <1>7
  <2>2. CASE t # s
    BY <1>2, <2>1, <2>2 DEF Backed
  <2>3. CASE t = s /\ j = 1
    <3>1. queue[s][1].kind = "alloc" /\ queue[s][1].on = w
      BY <2>1, <2>3 DEF Op
    <3>. QED  BY <1>4, <3>1 DEF Backed
  <2>4. CASE t = s /\ j # 1
    <3>1. PICK i \in 1..m : i + 1 = j
      <4>1. j - 1 \in 1..m /\ (j - 1) + 1 = j
        BY <2>1, <2>4
      <4>. QED  BY <4>1
    <3>2. i \in 1..Len(queue'[s])
      BY <1>2, <2>4
    <3>3. queue'[s][i] = Op("alloc", w)
      BY <1>2, <2>1, <2>4, <3>1, <3>2
    <3>. QED  BY <2>4, <3>3 DEF Backed
  <2>. QED  BY <2>2, <2>3, <2>4
<1>. QED  BY <1>6, <1>7 DEF Backed

(* Running the oldest operation of a stream keeps what is known of         *)
(* workspaces: a free that runs is the last of its workspace.              *)
LEMMA StreamStepKeepsWorkspaces ==
    ASSUME TypeOK, WorkspaceInv, NEW s \in Streams, StreamStep(s)
    PROVE  WorkspaceInv'
<1>1. /\ queue[s] # <<>> /\ queue[s] \in Seq(WorkspaceOps)
      /\ queue' = [queue EXCEPT ![s] = Tail(queue[s])]
      /\ queue \in [Streams -> Seq(WorkspaceOps)]
      /\ UNCHANGED <<entries>>
  BY DEF StreamStep, TypeOK, WorkspaceOps
<1>2. /\ \A t \in Streams : Len(queue[t]) \in Nat /\ Len(queue'[t]) \in Nat
      /\ Len(queue[s]) # 0
      /\ Len(queue'[s]) = Len(queue[s]) - 1
      /\ \A i \in 1..Len(queue'[s]) : queue'[s][i] = queue[s][i + 1]
      /\ \A t \in Streams : t # s => queue'[t] = queue[t]
  BY <1>1, HeadTailProperties
<1>3. 1 \in Pending(s)
  BY <1>2 DEF Pending
<1>4. ASSUME NEW t \in Streams, NEW i \in 1..Len(queue'[t])
      PROVE  \E j \in Pending(t) :
                 /\ queue'[t][i] = queue[t][j]
                 /\ j = IF t = s THEN i + 1 ELSE i
  BY <1>2 DEF Pending
<1>5. WorkspacesStay'
  <2>. SUFFICES ASSUME NEW t \in Streams, NEW r \in Streams,
                       NEW i \in 1..Len(queue'[t]), NEW j \in 1..Len(queue'[r]),
                       queue'[t][i].on = queue'[r][j].on
                PROVE  t = r
    BY DEF WorkspacesStay, Pending
  <2>1. PICK h \in Pending(t) : queue'[t][i] = queue[t][h]
    BY <1>4
  <2>2. PICK k \in Pending(r) : queue'[r][j] = queue[r][k]
    BY <1>4
  <2>. QED  BY <2>1, <2>2 DEF WorkspaceInv, QueueInv, WorkspacesStay
<1>6. FreesAreLast'
  <2>. SUFFICES ASSUME NEW t \in Streams,
                       NEW i \in 1..Len(queue'[t]), NEW j \in 1..Len(queue'[t]),
                       queue'[t][i].kind = "free", i < j,
                       queue'[t][j].on = queue'[t][i].on
                PROVE  FALSE
    BY DEF FreesAreLast, Pending
  <2>1. PICK h \in Pending(t) : queue'[t][i] = queue[t][h] /\ h = IF t = s THEN i + 1 ELSE i
    BY <1>4
  <2>2. PICK k \in Pending(t) : queue'[t][j] = queue[t][k] /\ k = IF t = s THEN j + 1 ELSE j
    BY <1>4
  <2>3. h < k
    BY <2>1, <2>2
  <2>. QED  BY <2>1, <2>2, <2>3 DEF WorkspaceInv, QueueInv, FreesAreLast
<1>7. ASSUME NEW t \in Streams, NEW i \in 1..Len(queue'[t]),
             queue[s][1].kind = "free"
      PROVE  queue[s][1].on # queue'[t][i].on
  <2>1. PICK h \in Pending(t) : queue'[t][i] = queue[t][h] /\ h = IF t = s THEN i + 1 ELSE i
    BY <1>4
  <2>2. CASE t = s
    <3>1. 1 < h
      BY <2>1, <2>2
    <3>. QED  BY <1>3, <1>7, <2>1, <2>2, <3>1 DEF WorkspaceInv, QueueInv, FreesAreLast
  <2>3. CASE t # s
    BY <1>3, <2>1, <2>3 DEF WorkspaceInv, QueueInv, WorkspacesStay
  <2>. QED  BY <2>2, <2>3
<1>8. ProductsAreBacked'
  <2>. SUFFICES ASSUME NEW t \in Streams, NEW i \in 1..Len(queue'[t]),
                       queue'[t][i].kind = "product",
                       NEW w, w = queue'[t][i].on
                PROVE  Backed(w, t, i)'
    BY DEF ProductsAreBacked, Pending, Backed
  <2>1. PICK h \in Pending(t) : queue'[t][i] = queue[t][h] /\ h = IF t = s THEN i + 1 ELSE i
    BY <1>4
  <2>2. Backed(w, t, h)
    BY <2>1 DEF WorkspaceInv, QueueInv, ProductsAreBacked
  <2>3. h \in Nat /\ h <= Len(queue[t]) /\ i \in Nat
    BY <1>2 DEF Pending
  <2>4. IF t = s THEN i + 1 = h ELSE i = h
    BY <2>1
  <2>5. queue[s][1].kind = "free" => queue[s][1].on # w
    BY <1>7
  <2>. QED  BY <2>2, <2>3, <2>4, <2>5, StepKeepsBacked
<1>9. LtEntries' = LtEntries
  BY <1>1 DEF LtEntries
<1>10. EntriesOwnWorkspaces'
  <2>. SUFFICES ASSUME NEW k \in LtEntries, NEW t \in Streams,
                       NEW i \in 1..Len(queue'[t]),
                       queue'[t][i].on = entries[k].workspace
                PROVE  t = k[3] /\ queue'[t][i].kind # "free"
    BY <1>1, <1>9 DEF EntriesOwnWorkspaces, Pending, WorkspaceInv
  <2>1. PICK h \in Pending(t) : queue'[t][i] = queue[t][h]
    BY <1>4
  <2>. QED  BY <2>1 DEF WorkspaceInv, EntriesOwnWorkspaces
<1>11. EntriesAreBacked'
  <2>. SUFFICES ASSUME NEW k \in LtEntries
                PROVE  Backed(entries[k].workspace, k[3], Len(queue[k[3]]))'
    BY <1>9 DEF EntriesAreBacked
  <2>0. k[3] \in Streams
    BY DEF LtEntries, Keys
  <2>1. PICK n \in Nat : n = Len(queue[k[3]])
    BY <1>2, <2>0
  <2>2. PICK m \in Nat : m = Len(queue'[k[3]])
    BY <1>2, <2>0
  <2>3. PICK w : w = entries[k].workspace
    OBVIOUS
  <2>4. Backed(w, k[3], n)
    BY <2>1, <2>3 DEF WorkspaceInv, EntriesAreBacked
  <2>5. IF k[3] = s THEN m + 1 = n ELSE m = n
    BY <1>2, <2>0, <2>1, <2>2
  <2>6. queue[s][1].kind = "free" => queue[s][1].on # w
    BY <1>3, <2>3 DEF WorkspaceInv, EntriesOwnWorkspaces
  <2>7. n <= Len(queue[k[3]])
    BY <2>1
  <2>8. Backed(w, k[3], m)'
    BY <2>0, <2>4, <2>5, <2>6, <2>7, StepKeepsBacked
  <2>. QED  BY <1>1, <2>2, <2>3, <2>8 DEF Backed
<1>. QED  BY <1>5, <1>6, <1>8, <1>10, <1>11 DEF WorkspaceInv, QueueInv

(* A created entry has a workspace that nothing mentions.                  *)
LEMMA CreateKeepsWorkspaces ==
    ASSUME TypeOK, WorkspaceInv, NEW s \in Streams, NEW k \in Keys, k[3] = s,
           entries[k].leases = 0, Create(k, s), UNCHANGED resident
    PROVE  WorkspaceInv'
<1>1. k \notin LtEntries
  BY DEF LtEntries
<1>2. CASE k[1] = "lt"
  <2>1. PICK h \in Handles, w \in Workspaces :
           /\ w \notin resident /\ ~Mentioned(w)
           /\ queue' = [queue EXCEPT ![s] = Append(queue[s], Op("alloc", w))]
           /\ entries' = [entries EXCEPT ![k] =
                  [handle |-> h, workspace |-> w, leases |-> 1]]
    BY <1>2 DEF Create
  <2>2. /\ entries'[k].workspace = w
        /\ \A l \in Keys : l # k => entries'[l] = entries[l]
    BY <2>1 DEF TypeOK
  <2>3. PICK op \in WorkspaceOps : op = Op("alloc", w)
    BY DEF WorkspaceOps, Op
  <2>4. op.kind = "alloc" /\ op.on = w
    BY <2>3 DEF Op
  <2>5. \A t \in Streams : \A i \in Pending(t) : queue[t][i].on # w
    BY <2>1 DEF Mentioned, Pending
  <2>6. ASSUME NEW l \in LtEntries
        PROVE  entries[l].workspace # w
    <3>1. l[3] \in Streams
      BY DEF LtEntries, Keys
    <3>2. Backed(entries[l].workspace, l[3], Len(queue[l[3]]))
      BY DEF WorkspaceInv, EntriesAreBacked
    <3>3. ~Backed(w, l[3], Len(queue[l[3]]))
      BY <2>1, <2>5, <3>1 DEF Backed, Op, Pending
    <3>. QED  BY <3>2, <3>3
  <2>7. ASSUME NEW l \in LtEntries'
        PROVE  \/ l = k
               \/ l \in LtEntries /\ l # k /\ entries'[l].workspace = entries[l].workspace
    BY <2>2 DEF LtEntries
  <2>8. \A l \in LtEntries' :
            \/ l \in LtEntries /\ entries'[l].workspace = entries[l].workspace
            \/ op = Op("alloc", entries'[l].workspace)
    BY <2>2, <2>3, <2>7
  <2>9. \A l \in LtEntries' : entries'[l].workspace = op.on =>
            l[3] = s /\ op.kind # "free"
    BY <2>4, <2>6, <2>7
  <2>10. \A l, j \in LtEntries' : entries'[l].workspace = entries'[j].workspace => l = j
    BY <2>2, <2>6, <2>7 DEF WorkspaceInv, EntriesOwnWorkspaces
  <2>11. /\ queue' = [queue EXCEPT ![s] = Append(queue[s], op)]
         /\ op.kind # "product"
         /\ \A t \in Streams : \A i \in Pending(t) :
                queue[t][i].on = op.on => t = s /\ queue[t][i].kind # "free"
    BY <2>1, <2>3, <2>4, <2>5
  <2>. QED  BY <2>8, <2>9, <2>10, <2>11, AppendKeepsWorkspaces
<1>3. CASE k[1] # "lt"
  <2>1. PICK e : entries' = [entries EXCEPT ![k] = e] /\ queue' = queue
    BY <1>3 DEF Create
  <2>2. \A l \in LtEntries' : l \in LtEntries /\ entries'[l].workspace = entries[l].workspace
    BY <1>3, <2>1 DEF LtEntries, TypeOK
  <2>. QED  BY <2>1, <2>2, WorkspacesKept
<1>. QED  BY <1>2, <1>3

(* The workspace of a destroyed entry is freed behind its work, or lost.   *)
LEMMA DestroyKeepsWorkspaces ==
    ASSUME TypeOK, LeaseInv, WorkspaceInv, NEW s \in Streams, NEW k \in Keys,
           k[3] = s, entries[k].leases # 0, Destroy(k, s), UNCHANGED resident
    PROVE  WorkspaceInv'
<1>1. /\ entries'[k].leases = 0
      /\ \A l \in Keys : l # k => entries'[l] = entries[l]
  BY DEF Destroy, Absent, TypeOK
<1>2. \A l \in LtEntries' : /\ l \in LtEntries /\ l # k
                            /\ entries'[l].workspace = entries[l].workspace
  BY <1>1 DEF LtEntries
<1>3. CASE UNCHANGED queue
  BY <1>2, <1>3, WorkspacesKept
<1>4. CASE /\ k[1] = "lt"
           /\ queue' = [queue EXCEPT ![s] = Append(queue[s], Op("free", entries[k].workspace))]
  <2>1. PICK w \in Workspaces : w = entries[k].workspace
    BY <1>4 DEF LeaseInv, EntriesOwnHandles
  <2>2. PICK op \in WorkspaceOps : op = Op("free", w)
    BY DEF WorkspaceOps, Op
  <2>3. op.kind = "free" /\ op.on = w
    BY <2>2 DEF Op
  <2>4. k \in LtEntries
    BY <1>4 DEF LtEntries
  <2>5. \A t \in Streams : \A i \in Pending(t) :
            queue[t][i].on = op.on => t = s /\ queue[t][i].kind # "free"
    BY <2>1, <2>3, <2>4 DEF WorkspaceInv, EntriesOwnWorkspaces
  <2>6. \A l \in LtEntries' : entries'[l].workspace # op.on
    BY <1>2, <2>1, <2>3, <2>4 DEF WorkspaceInv, EntriesOwnWorkspaces
  <2>7. \A l, j \in LtEntries' : entries'[l].workspace = entries'[j].workspace => l = j
    BY <1>2 DEF WorkspaceInv, EntriesOwnWorkspaces
  <2>8. queue' = [queue EXCEPT ![s] = Append(queue[s], op)]
    BY <1>4, <2>1, <2>2
  <2>. QED  BY <1>2, <2>3, <2>5, <2>6, <2>7, <2>8, AppendKeepsWorkspaces
<1>. QED  BY <1>3, <1>4 DEF Destroy

(* A release keeps what is known of workspaces.                            *)
LEMMA ReleaseKeepsWorkspaces ==
    ASSUME TypeOK, LeaseInv, WorkspaceInv, NEW p \in Leasing, NEW c, Release(p, c)
    PROVE  WorkspaceInv'
<1>1. PICK k \in Keys : k = KeyOf(p)
  BY HolderHasEntry
<1>2. /\ k = <<family[p], ReleaseContext(p, c), stream[p]>>
      /\ k[3] = stream[p] /\ stream[p] \in Streams
      /\ entries[k].leases # 0
      /\ UNCHANGED resident
  BY <1>1, HolderHasEntry
     DEF KeyOf, ReleaseContext, LeaseInv, PlansShareEntries, Release
<1>3. CASE entries[k].leases = 1
  <2>1. Destroy(k, stream[p])
    BY <1>2, <1>3 DEF Release
  <2>. QED  BY <1>2, <2>1, DestroyKeepsWorkspaces
<1>4. CASE entries[k].leases # 1
  <2>1. entries' = [entries EXCEPT ![k].leases = entries[k].leases - 1] /\ queue' = queue
    BY <1>2, <1>4, Zenon DEF Release
  <2>2. \A l \in LtEntries' : l \in LtEntries /\ entries'[l].workspace = entries[l].workspace
    BY <1>2, <2>1 DEF LtEntries, TypeOK
  <2>. QED  BY <1>2, <2>1, <2>2, WorkspacesKept
<1>. QED  BY <1>3, <1>4

(* One step for each action that queues or runs workspace operations.      *)
LEMMA NextKeepsWorkspaces ==
    ASSUME TypeOK, LeaseInv, WorkspaceInv, [Next]_vars
    PROVE  WorkspaceInv'
<1>1. ASSUME NEW p \in Plans, NEW f \in Families, NEW x \in BOOLEAN,
             NEW s \in Streams, CreatePlan(p, f, x, s)
      PROVE  WorkspaceInv'
  <2>1. PICK k \in Keys : k = <<f, ContextOf[s], s>>
    BY LeaseConstants DEF Keys
  <2>2. k[3] = s /\ UNCHANGED resident
    BY <1>1, <2>1 DEF CreatePlan
  <2>3. CASE UNCHANGED <<entries, queue>>
    BY <2>2, <2>3, WorkspacesKept DEF LtEntries
  <2>4. CASE entries[k].leases = 0 /\ Create(k, s)
    BY <2>2, <2>4, CreateKeepsWorkspaces
  <2>5. CASE Share(k) /\ entries[k].leases # 0
    <3>1. entries' = [entries EXCEPT ![k].leases = entries[k].leases + 1] /\ queue' = queue
      BY <2>5 DEF Share
    <3>2. \A l \in LtEntries' : l \in LtEntries /\ entries'[l].workspace = entries[l].workspace
      BY <2>5, <3>1 DEF LtEntries, TypeOK
    <3>. QED  BY <2>2, <3>1, <3>2, WorkspacesKept
  <2>. QED  BY <1>1, <2>1, <2>3, <2>4, <2>5 DEF CreatePlan, Acquire
<1>2. ASSUME UNCHANGED <<entries, queue, resident>>
      PROVE  WorkspaceInv'
  BY <1>2, WorkspacesKept DEF LtEntries
<1>3. ASSUME NEW p \in Plans, Prepare(p)
      PROVE  WorkspaceInv'
  <2>1. p \in Leasing
    BY <1>3 DEF Prepare, Leasing
  <2>. QED  BY <1>2, <1>3, <2>1, ReleaseKeepsWorkspaces DEF Prepare, device
<1>4. ASSUME NEW p \in Plans, NEW c \in Contexts, DropPlan(p, c)
      PROVE  WorkspaceInv'
  <2>1. p \in Leasing
    BY <1>4 DEF DropPlan, Leasing
  <2>. QED  BY <1>4, <2>1, ReleaseKeepsWorkspaces DEF DropPlan
<1>5. ASSUME NEW p \in Plans, ExecuteLt(p)
      PROVE  WorkspaceInv'
  <2>1. p \in Leasing /\ family[p] = "lt"
    BY <1>5 DEF ExecuteLt, Leasing
  <2>2. PICK k \in Keys : k = KeyOf(p)
    BY <2>1, HolderHasEntry
  <2>3. k \in LtEntries
    BY <2>1, <2>2, HolderHasEntry DEF LtEntries, KeyOf
  <2>4. PICK s \in Streams : s = stream[p] /\ s = k[3]
    BY <2>1, <2>2 DEF KeyOf, LeaseInv, PlansShareEntries
  <2>5. PICK w \in Workspaces : w = lease[p].workspace /\ w = entries[k].workspace
    BY <2>1, <2>2, <2>3 DEF LeaseInv, PlansShareEntries, EntriesOwnHandles, LtEntries
  <2>6. PICK op \in WorkspaceOps : op = Op("product", w)
    BY DEF WorkspaceOps, Op
  <2>7. op.kind = "product" /\ op.on = w
    BY <2>6 DEF Op
  <2>8. /\ queue' = [queue EXCEPT ![s] = Append(queue[s], op)]
        /\ UNCHANGED <<entries, resident>>
    BY <1>5, <2>4, <2>5, <2>6 DEF ExecuteLt
  <2>9. \A t \in Streams : \A i \in Pending(t) :
            queue[t][i].on = op.on => t = s /\ queue[t][i].kind # "free"
    BY <2>3, <2>4, <2>5, <2>7 DEF WorkspaceInv, EntriesOwnWorkspaces
  <2>10. Backed(op.on, s, Len(queue[s]))
    BY <2>3, <2>4, <2>5, <2>7 DEF WorkspaceInv, EntriesAreBacked
  <2>11. LtEntries' = LtEntries
    BY <2>8 DEF LtEntries
  <2>12. /\ \A l \in LtEntries' : l \in LtEntries /\ entries'[l].workspace = entries[l].workspace
         /\ \A l \in LtEntries' : entries'[l].workspace = op.on => l[3] = s /\ op.kind # "free"
         /\ \A l, j \in LtEntries' : entries'[l].workspace = entries'[j].workspace => l = j
    BY <2>3, <2>4, <2>5, <2>7, <2>8, <2>11 DEF WorkspaceInv, EntriesOwnWorkspaces
  <2>. QED  BY <2>8, <2>9, <2>10, <2>12, AppendKeepsWorkspaces
<1>6. ASSUME NEW p \in Plans, BeginExecute(p) \/ LockLaunch(p) \/ Execute(p)
      PROVE  WorkspaceInv'
  <2>1. UNCHANGED <<entries, queue, resident>>
    BY <1>6 DEF BeginExecute, LockLaunch, Execute, GetMathMode, SetMathMode, Launch,
                RestoreMathMode, device
  <2>. QED  BY <1>2, <2>1
<1>7. ASSUME NEW s \in Streams, StreamStep(s)
      PROVE  WorkspaceInv'
  BY <1>7, StreamStepKeepsWorkspaces
<1>8. CASE UNCHANGED vars
  BY <1>2, <1>8 DEF vars, device
<1>. QED  BY <1>1, <1>3, <1>4, <1>5, <1>6, <1>7, <1>8 DEF Next

-----------------------------------------------------------------------------
(* The inductive invariant holds of every reachable state, for any number  *)
(* of contexts, streams, plans, handles and workspaces.                    *)
THEOREM InductiveInvariant == Spec => []IInv
<1>1. Init => IInv
  <2>. SUFFICES ASSUME Init PROVE IInv
    OBVIOUS
  <2>1. Leasing = {}
    BY DEF Init, Leasing, Launching
  <2>2. TypeOK
    BY LeaseConstants, FinitelyManyPlans, FS_CardinalityType
       DEF Init, TypeOK, Absent, NoLease, Families, Modes
  <2>3. LeaseInv
    <3>1. \A k \in Keys : entries[k].leases = 0 /\ Holders(k) = {}
      BY <2>1 DEF Init, Absent, Holders
    <3>. QED  BY <2>1, <3>1, FS_EmptySet
              DEF Init, LeaseInv, LeasesCounted, PlansShareEntries, EntriesOwnHandles
  <2>4. LaunchesHoldMutex
    BY DEF Init, LaunchesHoldMutex, Launching
  <2>5. WorkspaceInv
    <3>1. LtEntries = {} /\ \A s \in Streams : Pending(s) = {}
      BY DEF Init, LtEntries, Absent, Pending
    <3>. QED  BY <3>1 DEF WorkspaceInv, QueueInv, WorkspacesStay, FreesAreLast,
                          ProductsAreBacked, EntriesOwnWorkspaces, EntriesAreBacked
  <2>. QED  BY <2>1, <2>2, <2>3, <2>4, <2>5 DEF IInv, ModesKept
<1>2. IInv /\ [Next]_vars => IInv'
  BY NextKeepsLeases, NextTyped, NextKeepsMutex, NextKeepsModes,
     NextKeepsWorkspaces DEF IInv
<1>. QED  BY <1>1, <1>2, PTL DEF Spec

(* Every variable keeps its type, and the registry never counts more       *)
(* leases of a key than there are plans.                                   *)
THEOREM TypeCorrect == Spec => []TypeOK
<1>1. IInv => TypeOK
  BY DEF IInv
<1>. QED  BY <1>1, InductiveInvariant, PTL

(* A native handle exists exactly while a plan leases it, whatever         *)
(* creations fail and in whatever order plans are dropped.                 *)
THEOREM HandlesAreLeased == Spec => []HandlesLiveWithLeases
<1>1. IInv => HandlesLiveWithLeases
  <2>. SUFFICES ASSUME IInv PROVE HandlesLiveWithLeases
    OBVIOUS
  <2>. USE DEF IInv
  <2>1. \A p \in Leasing : lease[p].handle \in alive
    BY HolderHasEntry
  <2>2. ASSUME NEW h \in alive
        PROVE  \E p \in Leasing : lease[p].handle = h
    <3>1. PICK k \in Keys : entries[k].leases # 0 /\ entries[k].handle = h
      BY DEF LeaseInv, EntriesOwnHandles
    <3>2. Holders(k) \in SUBSET Plans /\ Holders(k) # {}
      BY <3>1, PlansCounted DEF LeaseInv, LeasesCounted, Holders, Leasing
    <3>. QED  BY <3>1, <3>2 DEF Holders, LeaseInv, PlansShareEntries
  <2>3. ASSUME NEW p \in Leasing, NEW q \in Leasing
        PROVE  lease[p].handle = lease[q].handle <=> KeyOf(p) = KeyOf(q)
    BY HandleHasOneKey, HolderHasEntry
  <2>. QED  BY <2>1, <2>2, <2>3 DEF HandlesLiveWithLeases
<1>. QED  BY <1>1, InductiveInvariant, PTL

(* A native handle is in one launch at a time, however many plans of       *)
(* however many threads share it.                                          *)
THEOREM LaunchesExclude == Spec => []HandleIsExclusive
<1>1. IInv => HandleIsExclusive
  BY LaunchIsExclusive DEF IInv, HandleIsExclusive
<1>. QED  BY <1>1, InductiveInvariant, PTL

(* Every product is launched in the math mode of its precision, unless the *)
(* handle refused to be put back.                                          *)
THEOREM ModesAreRight == Spec => []LaunchesInItsMode
<1>1. IInv => LaunchesInItsMode
  <2>. SUFFICES ASSUME IInv, NEW p \in Plans, phase[p] = "launch",
                       lease[p].handle \notin stuck
                PROVE  mode[lease[p].handle] =
                           IF single[p] THEN "default" ELSE "tensor"
    BY DEF LaunchesInItsMode
  <2>1. p \in Leasing /\ phase[p] \in Launching
    BY DEF Leasing, Launching
  <2>2. CASE single[p]
    BY <2>1, <2>2 DEF IInv, ModesKept, Switched
  <2>3. CASE ~single[p]
    <3>1. \A q \in Leasing : lease[q].handle = lease[p].handle => ~Switched(q)
      BY <2>1, <2>3, LaunchIsExclusive DEF IInv, Switched, Launching, Leasing
    <3>. QED  BY <2>1, <2>3, <3>1 DEF IInv, ModesKept
  <2>. QED  BY <2>2, <2>3
<1>. QED  BY <1>1, InductiveInvariant, PTL

(* The device runs a product while its workspace exists, also when the     *)
(* last plan of the stream was dropped before it.                          *)
THEOREM ProductsHaveWorkspaces == Spec => []WorkspaceOutlivesWork
<1>1. IInv => WorkspaceOutlivesWork
  <2>. SUFFICES ASSUME IInv, NEW s \in Streams, queue[s] # <<>>,
                       Head(queue[s]).kind = "product"
                PROVE  Head(queue[s]).on \in resident
    BY DEF WorkspaceOutlivesWork
  <2>1. queue[s] \in Seq(WorkspaceOps)
    BY DEF IInv, TypeOK, WorkspaceOps
  <2>2. Head(queue[s]) = queue[s][1] /\ 1 \in Pending(s)
    BY <2>1 DEF Pending
  <2>3. Backed(queue[s][1].on, s, 1)
    BY <2>2 DEF IInv, WorkspaceInv, QueueInv, ProductsAreBacked
  <2>4. \A j \in 1..1 : queue[s][j] # Op("alloc", queue[s][1].on)
    BY <2>2 DEF Op
  <2>. QED  BY <2>2, <2>3, <2>4 DEF Backed
<1>. QED  BY <1>1, InductiveInvariant, PTL
=============================================================================
