--------------------------- MODULE WatcherProofs ---------------------------
(***************************************************************************)
(* Proofs about the scheduling loop for any jobs, GPUs and scenarios.      *)
(*                                                                         *)
(* The registry, the loop's snapshot, the informer's queue and the map of  *)
(* evicted pods know a pod by its name, so everything rests on names not   *)
(* being used twice: as long as nothing breaks that (Steady), a name is    *)
(* fresh until its pod is created and is never used again.                 *)
(***************************************************************************)
EXTENDS Watcher, FiniteSetTheorems, SequenceTheorems, TLAPS

-----------------------------------------------------------------------------
(* The inductive invariant, in parts.                                       *)

Live(p) == api[p].phase \in {"Pending", "Running"}

\* p is in what the loop has left of its snapshot.
InHand(p) == \/ p \in standalone
             \/ \E P \in gangs : p \in P
             \/ \E i \in DOMAIN todo : todo[i].pod = p

\* The loop is between reserving for p and binding it.
Binding(p) == pc = "bind" /\ p = todo[1].pod

\* No pod of this name was ever there: nothing remembers one.
Fresh(p) == /\ api[p] = NoPod /\ events[p] = <<>> /\ alloc[p] = <<>>
            /\ p \notin pendingEvictions /\ p \notin victims /\ ~InHand(p)

\* The program counter says which of the loop's variables are in use.
Control ==
  /\ pc \in {"mark", "bind"} <=> todo # <<>>
  /\ pc # "evict" => victims = {}
  /\ toDelete \subseteq victims /\ resuming \subseteq victims \ toDelete
  /\ victims \cap pendingEvictions = {} /\ \A p, q \in resuming : p = q
  /\ pc \in {"idle", "boot", "reconcile"} => gangs = {} /\ standalone = {}
  /\ pc # "reconcile" => listed = {}
  /\ pc = "boot" => \A p \in Pods : alloc[p] = <<>>
  /\ ~Happened("crash") => watching /\ pc \notin {"boot", "reconcile"}

\* What is left of the snapshot is disjoint, so that no pod has its turn twice.
Disjoint ==
  /\ {} \notin gangs /\ \A P \in gangs : \A p \in P : JobOf(p).gang # NoGang
  /\ \A p \in standalone : JobOf(p).gang = NoGang
  /\ \A P, Q \in gangs : P = Q \/ P \cap Q = {}
  /\ \A i \in DOMAIN todo : todo[i].pod \notin standalone /\ \A P \in gangs : todo[i].pod \notin P
  /\ \A i, k \in DOMAIN todo : todo[i].pod = todo[k].pod => i = k

\* What the API server may say of a pod.
PodState(p) ==
  /\ api[p].phase = "none" => api[p] = NoPod
  /\ api[p].node = NoNode => api[p].phase \in {"none", "Pending"} /\ api[p].term = FALSE
  /\ api[p].node = NoNode /\ ~Happened("bindError") => api[p].gpus = {}
  /\ Cardinality(api[p].gpus) <= JobOf(p).gpuCount
PodStates == \A p \in Pods : PodState(p)

\* The memory reserved for p on each of its GPUs.
PlacedFor(p) == IF JobOf(p).gang = NoGang THEN PlacedMem(JobOf(p)) ELSE JobOf(p).mem \div JobOf(p).gpuCount

\* The placements that are left to carry out, and the pods left to reconcile.
Placements ==
  /\ \A i \in DOMAIN todo : /\ todo[i].gpus # {}
                            /\ Cardinality(todo[i].gpus) = JobOf(todo[i].pod).gpuCount
                            /\ todo[i].mem = PlacedFor(todo[i].pod)
  /\ \A r \in listed : r.gpus # {} /\ Cardinality(r.gpus) <= JobOf(r.pod).gpuCount
  /\ \A r, t \in listed : r.pod = t.pod => r = t

\* p has not been deleted for the loop to create a successor.
Unresumed(p) == \/ Live(p) /\ ~(api[p].term /\ p \in (victims \ toDelete) \cup pendingEvictions)
                \/ p \in toDelete \cup resuming

\* What the loop, the informer and the API server hold of one name.
NameOK(p) == /\ p \in resuming /\ Live(p) => api[p].term
             /\ events[p] # <<>> => ~Live(p)
             /\ InHand(p) => api[p].node = NoNode

\* The life of names.
Lives ==
  Steady =>
    /\ \A p \in Pods : NameOK(p) /\ (budget.spent[p[1]] = 0 => Fresh(p))
    /\ \A p, q \in Pods : p[1] = q[1] /\ p[2] < q[2] /\ Unresumed(p) => Fresh(q)

\* p is an instance that nobody asked to delete, or that is about to get a successor.
Carries(p) == p \in resuming \/ (Exists(p) /\ ~api[p].term)

\* An auto-resume job that was left alone is carried on.
LeftAlone == Steady /\ ~Happened("userDelete") /\ ~Happened("createError")
Survival ==
  LeftAlone => \A j \in Jobs : Happened(j) /\ JobSpec[j].autoResume /\ j \notin gaveUp =>
                 \E p \in Pods : p[1] = j /\ Carries(p)

\* The pod p was bound and still exists, or the informer is about to report its end.
Backed(p) == (Exists(p) /\ ~Unbound(p)) \/ events[p] # <<>>

\* Reservations are accounted for in the middle of a cycle too.
Ledgered ==
  ~Happened("crash") => \A p \in Pods : JobOf(p).gpuPod /\ alloc[p] # <<>> => Backed(p) \/ Binding(p)

\* The names that stand for one pod even after a restart.
Single(p) == (\A j \in Jobs : budget.spent[j] <= 1) /\ (p[2] = 0 \/ ~Happened("crash"))

-----------------------------------------------------------------------------
(* Counting.                                                                *)

\* There are finitely many pod names.
LEMMA PodsFinite == IsFiniteSet(Pods)
<1>1. IsFiniteSet(0..MaxRetries)
  BY WatcherAssumption, FS_Interval
<1>2. IsFiniteSet(Jobs \X (0..MaxRetries))
  BY <1>1, WatcherAssumption, FS_Product
<1>3. Pods \subseteq Jobs \X (0..MaxRetries)
  BY DEF Pods
<1> QED  BY <1>2, <1>3, FS_Subset

\* SetToSeq lists every element of a finite set once.
LEMMA ListsAll ==
  ASSUME NEW S, IsFiniteSet(S)
  PROVE  /\ Cardinality(S) \in Nat
         /\ SetToSeq(S) \in [1..Cardinality(S) -> S]
         /\ \A i, k \in 1..Cardinality(S) : SetToSeq(S)[i] = SetToSeq(S)[k] => i = k
         /\ \A x \in S : \E i \in 1..Cardinality(S) : SetToSeq(S)[i] = x
<1>1. Cardinality(S) \in Nat
  BY FS_CardinalityType
<1>2. PICK f : f \in Bijection(1..Cardinality(S), S)
  BY FS_CardinalityType DEF ExistsBijection
<1>3. f \in [1..Cardinality(S) -> S] /\ IsInjective(f)
  BY <1>2 DEF Bijection, Injection
<1>4. SetToSeq(S) \in [1..Cardinality(S) -> S] /\ IsInjective(SetToSeq(S))
  BY <1>3, Zenon DEF SetToSeq
<1>5. SetToSeq(S) \in Injection(1..Cardinality(S), S)
  BY <1>4 DEF Injection
<1>6. \A i, k \in 1..Cardinality(S) : SetToSeq(S)[i] = SetToSeq(S)[k] => i = k
  BY <1>4 DEF IsInjective
<1>7. Cardinality(1..Cardinality(S)) = Cardinality(S)
  BY <1>1, FS_Interval
<1>8. SetToSeq(S) \in Surjection(1..Cardinality(S), S)
  BY <1>5, <1>7, FS_Injection
<1> QED  BY <1>1, <1>4, <1>6, <1>8 DEF Surjection

-----------------------------------------------------------------------------
(* What the decisions return.                                               *)

\* A pod is given as many GPUs as it asks for.
LEMMA PodPlacementShape ==
  ASSUME NEW p \in Pods, NEW S \in PodPlacements(p)
  PROVE  S \subseteq GPUs /\ S # {} /\ Cardinality(S) = JobOf(p).gpuCount
<1> DEFINE j == JobOf(p)
<1>1. j.gpuCount \in Nat \ {0}
  BY WatcherAssumption DEF JobOf, Pods
<1>2. DOMAIN View = GPUs
  BY DEF View
<1>3. CASE j.gpuCount > 1
  <2>1. \A n : NodeGPUs(View, n) \subseteq GPUs
    BY <1>2 DEF NodeGPUs
  <2>2. \E n, X : S \in kSubset(j.gpuCount, X \cap NodeGPUs(View, n))
    BY <1>3 DEF PodPlacements, FIFOScheduleGang, BinPackScheduleGang, LeastBy, NodeBest
  <2>3. S \subseteq GPUs /\ Cardinality(S) = j.gpuCount
    BY <2>1, <2>2 DEF kSubset
  <2>4. Cardinality({}) = 0
    BY FS_EmptySet
  <2>5. S # {}
    BY <1>1, <2>3, <1>3, <2>4
  <2> QED  BY <2>3, <2>5
<1>4. CASE ~(j.gpuCount > 1)
  <2>1. \E g \in GPUs : S = {g}
    <3>1. CASE j.intent \in {"prefill", "decode"}
      BY <1>2, <1>4, <3>1 DEF PodPlacements, selectDisaggFullGPUCandidate, LeastBy, DisaggCandidates
    <3>2. CASE j.intent \notin {"prefill", "decode"}
      <4>1. FindAvailableMIG(View, <<>>, j.mem) = {}
        BY DEF FindAvailableMIG
      <4>2. allocateFromMIG(View, <<>>, j.mem, j.shared) = {}
        BY <4>1 DEF allocateFromMIG, SelectBestMIG, LeastBy
      <4>3. \A r \in allocateFromFullGPU(View, j.mem, j.shared) : r.dev \in GPUs
        BY <1>2 DEF allocateFromFullGPU, SelectBestFullGPU, LeastBy, FindAvailableMPSGPU,
                    FindAvailableNonMPSGPU, FindAvailableFullGPU
      <4>4. \A r \in AllocateWithRouting(View, <<>>, j.mem, j.shared, "auto", TRUE) : r.dev \in GPUs
        BY <4>2, <4>3 DEF AllocateWithRouting, tryPool
      <4> QED  BY <1>4, <3>2, <4>4 DEF PodPlacements
    <3> QED  BY <3>1, <3>2
  <2>2. j.gpuCount = 1
    BY <1>1, <1>4
  <2> QED  BY <2>1, <2>2, FS_Singleton
<1> QED  BY <1>3, <1>4

\* The order of a gang's pods lists them once each.
LEMMA GangOrderShape ==
  ASSUME NEW P \in SUBSET Pods, NEW l \in GangOrders(P)
  PROVE  /\ l \in Seq(Pods) /\ DOMAIN l = 1..Len(l) /\ (P # {} => Len(l) # 0)
         /\ \A i \in DOMAIN l : l[i] \in P
         /\ \A i, k \in DOMAIN l : l[i] = l[k] => i = k
<1>1. IsFiniteSet(P) /\ Cardinality(P) \in Nat
  BY PodsFinite, FS_Subset, FS_CardinalityType
<1>2. l \in [1..Cardinality(P) -> P] /\ \A i, k \in 1..Cardinality(P) : i # k => l[i] # l[k]
  BY DEF GangOrders, SetToSeqs
<1>3. P # {} => Cardinality(P) # 0
  BY <1>1, FS_EmptySet
<1> QED  BY <1>1, <1>2, <1>3

\* ... and lists all of them.
LEMMA GangOrderAll ==
  ASSUME NEW P \in SUBSET Pods, NEW l \in GangOrders(P), NEW p \in P
  PROVE  \E i \in DOMAIN l : l[i] = p
<1>1. IsFiniteSet(P) /\ Cardinality(P) \in Nat
  BY PodsFinite, FS_Subset, FS_CardinalityType
<1>2. l \in [1..Cardinality(P) -> P] /\ \A i, k \in 1..Cardinality(P) : i # k => l[i] # l[k]
  BY DEF GangOrders, SetToSeqs
<1>3. l \in Injection(1..Cardinality(P), P)
  BY <1>2 DEF Injection, IsInjective
<1>4. Cardinality(1..Cardinality(P)) = Cardinality(P)
  BY <1>1, FS_Interval
<1>5. l \in Surjection(1..Cardinality(P), P)
  BY <1>1, <1>3, <1>4, FS_Injection
<1> QED  BY <1>2, <1>5 DEF Surjection

\* Every pod of a gang is given as many GPUs as it asks for.
LEMMA GangPlacementShape ==
  ASSUME NEW l \in Seq(Pods), NEW S \in GangPlacements(l), NEW i \in DOMAIN l
  PROVE  S[i] \subseteq GPUs /\ S[i] # {} /\ Cardinality(S[i]) = JobOf(l[i]).gpuCount
<1> DEFINE jobs == [k \in DOMAIN l |-> [mem |-> JobOf(l[k]).mem, gpuCount |-> JobOf(l[k]).gpuCount,
                                        shared |-> JobOf(l[k]).shared]]
           strategy == IF Chosen("fifo") THEN "fifo" ELSE "binpack"
           V == Shadow(View, jobs, S, i)
           n == JobOf(l[i]).gpuCount
<1>1. n \in Nat \ {0} /\ jobs[i].gpuCount = n
  BY WatcherAssumption DEF JobOf, Pods
<1>2. S[i] \in StrategyPlace(strategy, V, jobs[i])
  BY DEF GangPlacements, ScheduleMultiPodGang
<1>3. DOMAIN V = GPUs
  BY DEF Shadow, View
<1> HIDE DEF V, jobs, strategy
<1>4. CASE n > 1
  <2>1. \A m : NodeGPUs(V, m) \subseteq GPUs
    BY <1>3 DEF NodeGPUs
  <2>2. \E m, X : S[i] \in kSubset(n, X \cap NodeGPUs(V, m))
    <3>1. \/ S[i] \in FIFOScheduleGang(V, jobs[i].mem, n, "per-gpu", jobs[i].shared)
          \/ S[i] \in BinPackScheduleGang(V, jobs[i].mem, n, "per-gpu", jobs[i].shared)
      BY <1>1, <1>2, <1>4 DEF StrategyPlace
    <3>2. CASE S[i] \in FIFOScheduleGang(V, jobs[i].mem, n, "per-gpu", jobs[i].shared)
      BY <3>2, Zenon DEF FIFOScheduleGang
    <3>3. CASE S[i] \in BinPackScheduleGang(V, jobs[i].mem, n, "per-gpu", jobs[i].shared)
      BY <3>3, Zenon DEF BinPackScheduleGang, LeastBy, NodeBest
    <3> QED  BY <3>1, <3>2, <3>3
  <2>3. S[i] \subseteq GPUs /\ Cardinality(S[i]) = n
    BY <2>1, <2>2 DEF kSubset
  <2>4. Cardinality({}) = 0
    BY FS_EmptySet
  <2>5. S[i] # {}
    BY <1>1, <2>3, <1>4, <2>4
  <2> QED  BY <2>3, <2>5
<1>5. CASE n = 1
  <2>1. \E g \in GPUs : S[i] = {g}
    <3>1. FIFOSchedule(V, jobs[i].mem, jobs[i].shared) \subseteq GPUs
      BY <1>3 DEF FIFOSchedule, LeastBy, Eligible
    <3>2. BinPackSchedule(V, jobs[i].mem, jobs[i].shared) \subseteq GPUs
      BY <1>3 DEF BinPackSchedule, LeastBy, Eligible
    <3> QED  BY <1>1, <1>2, <1>5, <3>1, <3>2 DEF StrategyPlace
  <2> QED  BY <2>1, <1>5, FS_Singleton
<1> QED  BY <1>1, <1>4, <1>5

\* Victims are running, are not being evicted already, and know their GPUs.
LEMMA VictimShape ==
  ASSUME NEW p \in Pods, NEW S \in VictimSets(p)
  PROVE  \A v \in S : v \in Pods /\ api[v].phase = "Running" /\ v \notin pendingEvictions
<1> DEFINE C == Candidates
           E == Preemptable(C, Priority(p))
           first(l, k) == {l[i] : i \in 1..k}
           enough(l) == {k \in DOMAIN l : FreedMB(C, first(l, k)) >= JobOf(p).mem}
<1>1. PICK l \in EvictOrders(C, E) : enough(l) # {} /\ S = first(l, Min(enough(l)))
  BY DEF VictimSets, SelectVictims
<1>2. DOMAIN C = {r \in Pods : api[r].phase = "Running" /\ r \notin pendingEvictions /\ api[r].gpus # {}}
  BY DEF Candidates
<1>3. E \subseteq DOMAIN C
  BY DEF Preemptable
<1>4. IsFiniteSet(E) /\ Cardinality(E) \in Nat
  BY <1>2, <1>3, PodsFinite, FS_Subset, FS_CardinalityType
<1> HIDE DEF E, C
<1>5. l \in [1..Cardinality(E) -> E]
  BY DEF EvictOrders, SetToSeqs
<1> DEFINE K == enough(l)
<1>6. K \in SUBSET (1..Cardinality(E)) /\ K # {}
  <2>1. DOMAIN l = 1..Cardinality(E)
    BY <1>5
  <2>2. K \in SUBSET DOMAIN l
    OBVIOUS
  <2>3. K # {}
    BY <1>1
  <2> QED  BY <2>1, <2>2, <2>3
<1>7. S = {l[i] : i \in 1..Min(K)}
  BY <1>1
<1> HIDE DEF K
<1>8. Min(K) \in K
  <2> DEFINE R == OpToRel(<, Nat)
  <2>0. K \subseteq Nat
    BY <1>4, <1>6
  <2>1. \A m, k \in Nat : m < k => <<m, k>> \in R
    BY DEF OpToRel
  <2>2. IsWellFoundedOn(R, Nat)
    BY NatLessThanWellFounded
  <2> HIDE DEF R
  <2>3. PICK k \in K : \A m \in K : ~(<<m, k>> \in R)
    BY <2>0, <2>2, <1>6, WFMin, Zenon
  <2>4. \A m \in K : k <= m
    <3>1. \A m \in K : ~(m < k)
      BY <2>0, <2>1, <2>3, Zenon
    <3> QED  BY <3>1, <2>0
  <2> QED  BY <2>4, Zenon DEF Min
<1>9. S \subseteq E
  BY <1>4, <1>5, <1>6, <1>7, <1>8
<1> QED  BY <1>2, <1>3, <1>9

-----------------------------------------------------------------------------
(* Types, and what the program counter means.                               *)

Base == TypeOK /\ Control /\ Disjoint /\ PodStates /\ Placements

\* What happens is counted.
LEMMA SpendTyped ==
  ASSUME TypeOK, NEW k \in Kinds \cup Jobs, Spend(k)
  PROVE  /\ budget' \in [limit : Scenarios, spent : [Kinds \cup Jobs -> Nat]]
         /\ budget'.limit = budget.limit
         /\ \A i \in Kinds \cup Jobs : budget'.spent[i] = IF i = k THEN budget.spent[i] + 1 ELSE budget.spent[i]
<1>1. budget \in [limit : Scenarios, spent : [Kinds \cup Jobs -> Nat]]
  BY DEF TypeOK
<1> QED  BY <1>1 DEF Spend

\* Kubernetes objects are known by the jobs' names.
LEMMA PodNames ==
  /\ \A p \in Pods : p = <<p[1], p[2]>> /\ p[1] \in Jobs /\ p[2] \in 0..MaxRetries
  /\ \A j \in Jobs : <<j, 0>> \in Pods
  /\ \A p \in Pods : JobOf(p).autoResume /\ p[2] + 1 <= MaxRetries => <<p[1], p[2] + 1>> \in Pods
BY WatcherAssumption DEF Pods, JobOf

\* What has happened stays so.
LEMMA History ==
  ASSUME TypeOK, [Next]_vars
  PROVE  /\ budget' \in [limit : Scenarios, spent : [Kinds \cup Jobs -> Nat]]
         /\ budget'.limit = budget.limit
         /\ \A k \in Kinds \cup Jobs : budget.spent[k] <= budget'.spent[k]
<1>1. budget \in [limit : Scenarios, spent : [Kinds \cup Jobs -> Nat]]
  BY DEF TypeOK
<1>2. CASE budget' = budget
  BY <1>1, <1>2
<1>3. ASSUME NEW k \in Kinds \cup Jobs, Spend(k)
      PROVE  /\ budget' \in [limit : Scenarios, spent : [Kinds \cup Jobs -> Nat]]
             /\ budget'.limit = budget.limit
             /\ \A i \in Kinds \cup Jobs : budget.spent[i] <= budget'.spent[i]
  BY <1>1, <1>3, SpendTyped
<1>4. budget' = budget \/ \E k \in Kinds \cup Jobs : Spend(k)
  <2>1. CASE UNCHANGED vars
    BY <2>1 DEF vars
  <2>2. CASE Cluster
    BY <2>2 DEF Cluster, UserCreate, UserDelete, KubeletStart, KubeletFinish, KubeletRemove, Kinds
  <2>3. CASE \E p \in Pods : HandleEvent(p) \/ Resync(p)
    BY <2>3 DEF HandleEvent, Resync
  <2>4. CASE Crash \/ InformerSync
    BY <2>4 DEF Crash, InformerSync, Kinds
  <2>5. CASE Loop
    <3>1. CASE ProcessQueue \/ ProcessQueueDeferred \/ CycleDone \/ \E P \in gangs : ScheduleGang(P)
      BY <3>1 DEF ProcessQueue, ProcessQueueDeferred, CycleDone, ScheduleGang
    <3>2. CASE \E p \in standalone : SchedulePod(p) \/ SkipInvalidPod(p) \/ NoCapacity(p) \/ Preempt(p)
      BY <3>2 DEF SchedulePod, SkipInvalidPod, NoCapacity, Preempt
    <3>3. CASE MarkPlacement \/ BindOK \/ BindFails
      BY <3>3 DEF MarkPlacement, BindOK, BindFails, Kinds
    <3>4. CASE (\E v \in toDelete : EvictVictim(v)) \/ (\E v \in resuming : AutoResume(v)) \/ ReleaseVictims
      BY <3>4 DEF EvictVictim, AutoResume, ReleaseVictims, Kinds
    <3>5. CASE ReconcileList \/ ReconcileDone \/ \E r \in listed : ReconcileMark(r)
      BY <3>5 DEF ReconcileList, ReconcileDone, ReconcileMark
    <3> QED  BY <2>5, <3>1, <3>2, <3>3, <3>4, <3>5 DEF Loop
  <2> QED  BY <2>1, <2>2, <2>3, <2>4, <2>5 DEF Next
<1> QED  BY <1>2, <1>3, <1>4

\* The same, for the conditions of the invariants.
LEMMA Past ==
  ASSUME TypeOK, [Next]_vars
  PROVE  /\ Steady' => Steady
         /\ Truthful' => Truthful
         /\ ~Happened("crash")' => ~Happened("crash")
         /\ ~Happened("bindError")' => ~Happened("bindError")
         /\ (\A j \in Jobs : budget'.spent[j] <= 1) => \A j \in Jobs : budget.spent[j] <= 1
         /\ \A p \in Pods : Single(p)' => Single(p)
<1>1. /\ budget \in [limit : Scenarios, spent : [Kinds \cup Jobs -> Nat]]
      /\ budget' \in [limit : Scenarios, spent : [Kinds \cup Jobs -> Nat]]
  BY History DEF TypeOK
<1>2. \A k \in Kinds \cup Jobs : budget.spent[k] \in Nat /\ budget'.spent[k] \in Nat
  BY <1>1
<1>3. \A k \in Kinds \cup Jobs : ~(budget'.spent[k] > 0) => ~(budget.spent[k] > 0)
  BY <1>2, History
<1>4. /\ ~Happened("crash")' => ~Happened("crash")
      /\ ~Happened("bindError")' => ~Happened("bindError")
      /\ ~Happened("patchError")' => ~Happened("patchError")
      /\ ~Happened("bindReplyLost")' => ~Happened("bindReplyLost")
  BY <1>3 DEF Happened, Kinds
<1>5. (\A j \in Jobs : budget'.spent[j] <= 1) => \A j \in Jobs : budget.spent[j] <= 1
  BY <1>2, History
<1>6. Steady' => Steady
  BY <1>4, <1>5 DEF Steady
<1> QED  BY <1>4, <1>5, <1>6 DEF Truthful, Single

\* A step that leaves the loop alone keeps what is said of the loop.
LEMMA LoopKept ==
  ASSUME Base, [Next]_vars, UNCHANGED <<pc, loop>>, pendingEvictions' \subseteq pendingEvictions,
         ~Happened("crash")' => watching', pc = "boot" => alloc' = alloc
  PROVE  Control' /\ Disjoint' /\ Placements'
<1>1. Control'
  BY Past DEF Base, Control, loop
<1> QED  BY <1>1 DEF Base, Disjoint, Placements, PlacedFor, loop

\* What the API server and the informer may say of a pod.
PodObject == [phase : {"none", "Pending", "Running", "Done"}, node : {NoNode} \cup {NodeOf[g] : g \in GPUs},
              gpus : SUBSET GPUs, term : BOOLEAN]

\* An emitted event is queued for its pod, if the informer is watching.
LEMMA EmitTyped ==
  ASSUME TypeOK, NEW p \in Pods, NEW kind \in {"done", "deleted"}, Emit(p, kind)
  PROVE  /\ events' \in [Pods -> Seq({"done", "deleted"})]
         /\ \A q \in Pods \ {p} : events'[q] = events[q]
         /\ watching => events'[p] # <<>>
<1>1. events \in [Pods -> Seq({"done", "deleted"})]
  BY DEF TypeOK
<1>2. Append(events[p], kind) \in Seq({"done", "deleted"}) /\ Append(events[p], kind) # <<>>
  BY <1>1, AppendProperties
<1> QED  BY <1>1, <1>2 DEF Emit

\* Replacing the object of one pod.
LEMMA ObjectReplaced ==
  ASSUME TypeOK, NEW p \in Pods, NEW o \in PodObject, api' = [api EXCEPT ![p] = o]
  PROVE  /\ api' \in [Pods -> PodObject] /\ api'[p] = o
         /\ \A q \in Pods \ {p} : api'[q] = api[q]
BY DEF TypeOK, PodObject

\* A change of phase leaves the rest of the object.
LEMMA ObjectUpdates ==
  ASSUME NEW o \in PodObject, NEW ph \in {"none", "Pending", "Running", "Done"}
  PROVE  LET u == [o EXCEPT !.phase = ph]
         IN  u \in PodObject /\ u.phase = ph /\ u.node = o.node /\ u.gpus = o.gpus /\ u.term = o.term
BY DEF PodObject

\* The objects of an absent and of a new pod.
LEMMA NoPodTyped ==
  /\ NoPod \in PodObject /\ NewPod \in PodObject
  /\ NoPod.phase = "none" /\ NoPod.node = NoNode /\ NoPod.gpus = {} /\ NoPod.term = FALSE
  /\ NewPod.phase = "Pending" /\ NewPod.node = NoNode /\ NewPod.gpus = {} /\ NewPod.term = FALSE
  /\ Cardinality({}) = 0 /\ \A p \in Pods : 0 <= JobOf(p).gpuCount
<1>1. Cardinality({}) = 0 /\ \A p \in Pods : 0 <= JobOf(p).gpuCount
  BY FS_EmptySet, WatcherAssumption DEF JobOf, Pods
<1> QED  BY <1>1 DEF NoPod, NewPod, PodObject

\* What a deletion does: the pod goes at once or is marked as terminating.
LEMMA ApiDeleted ==
  ASSUME TypeOK, NEW p \in Pods, ApiDelete(p)
  PROVE  /\ api' \in [Pods -> PodObject] /\ events' \in [Pods -> Seq({"done", "deleted"})]
         /\ \A q \in Pods \ {p} : api'[q] = api[q] /\ events'[q] = events[q]
         /\ \/ /\ Unbound(p) \/ api[p].phase = "Done"
               /\ api'[p] = NoPod /\ (watching => events'[p] # <<>>)
            \/ /\ ~(Unbound(p) \/ api[p].phase = "Done")
               /\ api'[p].phase = api[p].phase /\ api'[p].node = api[p].node
               /\ api'[p].gpus = api[p].gpus /\ api'[p].term = TRUE /\ events' = events
<1>1. api \in [Pods -> PodObject] /\ events \in [Pods -> Seq({"done", "deleted"})]
  BY DEF TypeOK, PodObject
<1>2. CASE Unbound(p) \/ api[p].phase = "Done"
  BY <1>2, <1>1, NoPodTyped, EmitTyped DEF ApiDelete
<1>3. CASE ~(Unbound(p) \/ api[p].phase = "Done")
  <2> DEFINE o == [api[p] EXCEPT !.term = TRUE]
  <2>1. /\ o \in PodObject /\ o.phase = api[p].phase /\ o.node = api[p].node
        /\ o.gpus = api[p].gpus /\ o.term = TRUE
    BY <1>1 DEF PodObject
  <2>2. api' = [api EXCEPT ![p] = o] /\ events' = events
    BY <1>3 DEF ApiDelete
  <2> HIDE DEF o
  <2> QED  BY <1>3, <1>1, <2>1, <2>2, ObjectReplaced
<1> QED  BY <1>2, <1>3

\* The steps of the users and of the kubelets.
LEMMA BaseCluster ==
  ASSUME Base, Cluster
  PROVE  Base'
<1> USE DEF Base
<1>0. /\ [Next]_vars
      /\ Cardinality({}) = 0 /\ \A p \in Pods : 0 <= JobOf(p).gpuCount
      /\ api \in [Pods -> PodObject]
  BY NoPodTyped DEF Next, TypeOK, PodObject
<1>a. ~Happened("bindError")' => ~Happened("bindError")
  BY <1>0, Past
<1>1. ASSUME NEW j \in Jobs, UserCreate(j)
      PROVE  Base'
  <2>1. <<j, 0>> \in Pods
    BY PodNames
  <2>2. TypeOK'
    BY <1>0, <1>1, <2>1, History DEF UserCreate, TypeOK, NewPod, NoPod, loop
  <2>3. PodStates'
    BY <1>0, <1>a, <1>1, <2>1, NoPodTyped DEF UserCreate, PodStates, PodState
  <2>4. Control' /\ Disjoint' /\ Placements'
    BY <1>0, <1>1, LoopKept, Past DEF UserCreate, Control
  <2> QED  BY <2>2, <2>3, <2>4
<1>2. ASSUME NEW p \in Pods, UserDelete(p)
      PROVE  Base'
  <2>1. ApiDelete(p)
    BY <1>2 DEF UserDelete
  <2>2. TypeOK'
    BY <1>0, <1>2, <2>1, History, ApiDeleted DEF UserDelete, TypeOK, PodObject, loop
  <2>3. /\ \A q \in Pods \ {p} : api'[q] = api[q]
        /\ \/ api'[p] = NoPod
           \/ /\ ~(Unbound(p) \/ api[p].phase = "Done") /\ Exists(p)
              /\ api'[p].phase = api[p].phase /\ api'[p].node = api[p].node
              /\ api'[p].gpus = api[p].gpus /\ api'[p].term = TRUE
    BY <1>2, <2>1, ApiDeleted DEF UserDelete
  <2>5. \A q \in Pods \ {p} : PodState(q)'
    BY <1>a, <2>3 DEF PodState, PodStates
  <2>6. PodState(p)'
    BY <1>0, <1>a, <2>3, NoPodTyped, ZenonT(60) DEF Unbound, Exists, PodState, PodStates
  <2>4. Control' /\ Disjoint' /\ Placements'
    BY <1>0, <1>2, LoopKept, Past DEF UserDelete, Control
  <2> QED  BY <2>2, <2>4, <2>5, <2>6 DEF PodStates
<1>3. ASSUME NEW p \in Pods, KubeletStart(p) \/ KubeletFinish(p) \/ KubeletRemove(p)
      PROVE  Base'
  <2>1. PICK o \in PodObject :
          /\ api' = [api EXCEPT ![p] = o]
          /\ \/ o = NoPod
             \/ /\ o.node = api[p].node /\ o.gpus = api[p].gpus /\ o.term = api[p].term
                /\ o.phase # "none" /\ api[p].phase # "none" /\ (api[p].node # NoNode \/ api[p].phase = "Running")
    BY <1>0, <1>3, NoPodTyped, ObjectUpdates, ZenonT(60) DEF KubeletStart, KubeletFinish, KubeletRemove
  <2>2. events' \in [Pods -> Seq({"done", "deleted"})]
    BY <1>3, EmitTyped DEF KubeletStart, KubeletFinish, KubeletRemove, TypeOK
  <2>3. TypeOK'
    BY <1>0, <1>3, <2>1, <2>2, History, ObjectReplaced, ZenonT(60)
       DEF KubeletStart, KubeletFinish, KubeletRemove, TypeOK, PodObject, loop
  <2>4. PodStates'
    <3>1. api'[p] = o /\ \A q \in Pods \ {p} : api'[q] = api[q]
      BY <2>1, ObjectReplaced
    <3>2. \A q \in Pods \ {p} : PodState(q)'
      BY <1>a, <3>1 DEF PodState, PodStates
    <3>3. PodState(p)
      BY DEF PodStates
    <3>4. o = NoPod => PodState(p)'
      BY <1>0, <3>1, NoPodTyped DEF PodState
    <3>5. o # NoPod => PodState(p)'
      BY <1>a, <2>1, <3>1, <3>3 DEF PodState
    <3> QED  BY <3>2, <3>4, <3>5 DEF PodStates
  <2>5. Control' /\ Disjoint' /\ Placements'
    BY <1>0, <1>3, LoopKept, Past DEF KubeletStart, KubeletFinish, KubeletRemove, Control
  <2> QED  BY <2>3, <2>4, <2>5
<1> QED  BY <1>1, <1>2, <1>3 DEF Cluster

\* Releasing and marking keep the registry typed.
LEMMA ReleaseTyped ==
  ASSUME TypeOK, NEW P, ReleaseAll(P)
  PROVE  /\ alloc' \in [Pods -> Seq(Entry)]
         /\ \A p \in Pods : alloc'[p] = IF p \in P THEN <<>> ELSE alloc[p]
BY DEF ReleaseAll, TypeOK

\* A mark appends one entry per GPU to the entries of its pod.
LEMMA MarkTyped ==
  ASSUME TypeOK, NEW p \in Pods, NEW S \in SUBSET GPUs, NEW m \in Nat, Mark(p, S, m)
  PROVE  /\ alloc' \in [Pods -> Seq(Entry)]
         /\ Cardinality(S) \in Nat
         /\ Len(alloc'[p]) = Len(alloc[p]) + Cardinality(S)
         /\ \A i \in 1..Len(alloc[p]) : alloc'[p][i] = alloc[p][i]
         /\ \A i \in 1..Cardinality(S) : alloc'[p][Len(alloc[p]) + i] = [dev |-> SetToSeq(S)[i], mem |-> m]
         /\ \A q \in Pods \ {p} : alloc'[q] = alloc[q]
<1>1. IsFiniteSet(S)
  BY FS_Subset, WatcherAssumption
<1> DEFINE e == [i \in 1..Cardinality(S) |-> [dev |-> SetToSeq(S)[i], mem |-> m]]
<1>2. e \in Seq(Entry) /\ Len(e) = Cardinality(S) /\ Cardinality(S) \in Nat
  <2>1. Cardinality(S) \in Nat /\ \A i \in 1..Cardinality(S) : SetToSeq(S)[i] \in GPUs
    BY <1>1, ListsAll
  <2>2. e \in [1..Cardinality(S) -> Entry]
    BY <2>1 DEF Entry
  <2> HIDE DEF e
  <2> QED  BY <2>1, <2>2
<1>3. \A i \in 1..Cardinality(S) : e[i] = [dev |-> SetToSeq(S)[i], mem |-> m]
  OBVIOUS
<1>4. alloc[p] \in Seq(Entry) /\ alloc \in [Pods -> Seq(Entry)]
  BY DEF TypeOK
<1>5. alloc' = [alloc EXCEPT ![p] = alloc[p] \o e]
  BY DEF Mark
<1> HIDE DEF e
<1>6. /\ alloc[p] \o e \in Seq(Entry)
      /\ Len(alloc[p] \o e) = Len(alloc[p]) + Len(e)
      /\ \A i \in 1..(Len(alloc[p]) + Len(e)) :
            (alloc[p] \o e)[i] = IF i <= Len(alloc[p]) THEN alloc[p][i] ELSE e[i - Len(alloc[p])]
      /\ Len(alloc[p]) \in Nat
  BY <1>2, <1>4, ConcatProperties, LenProperties
<1>7. /\ \A i \in 1..Len(alloc[p]) : (alloc[p] \o e)[i] = alloc[p][i]
      /\ \A i \in 1..Len(e) : (alloc[p] \o e)[Len(alloc[p]) + i] = e[i]
  BY <1>2, <1>6
<1> QED  BY <1>2, <1>3, <1>4, <1>5, <1>6, <1>7

\* A step that leaves the API server alone keeps what it says of a pod.
LEMMA StatesKept ==
  ASSUME Base, [Next]_vars, api' = api
  PROVE  PodStates'
<1>1. ~Happened("bindError")' => ~Happened("bindError")
  BY Past DEF Base
<1> QED  BY <1>1 DEF Base, PodStates, PodState

\* The informer.
LEMMA BaseInformer ==
  ASSUME Base, NEW p \in Pods, HandleEvent(p) \/ Resync(p)
  PROVE  Base'
<1> USE DEF Base
<1>1. [Next]_vars
  BY DEF Next
<1>2. CASE HandleEvent(p)
  <2>1. events' \in [Pods -> Seq({"done", "deleted"})]
    <3>1. Tail(events[p]) \in Seq({"done", "deleted"})
      BY <1>2, HeadTailProperties DEF HandleEvent, TypeOK
    <3> QED  BY <1>2, <3>1 DEF HandleEvent, TypeOK
  <2>2. alloc' \in [Pods -> Seq(Entry)] /\ pendingEvictions' \subseteq pendingEvictions
    BY <1>2, ReleaseTyped DEF HandleEvent, TypeOK
  <2>3. TypeOK'
    BY <1>1, <1>2, <2>1, <2>2, History DEF HandleEvent, TypeOK, loop
  <2>4. pc = "boot" => alloc' = alloc
    BY <1>2 DEF HandleEvent, ReleaseAll, Control, TypeOK
  <2>5. Control' /\ Disjoint' /\ Placements'
    BY <1>1, <1>2, <2>2, <2>4, LoopKept, Past DEF HandleEvent, Control
  <2> QED  BY <1>1, <1>2, <2>3, <2>5, StatesKept DEF HandleEvent
<1>3. CASE Resync(p)
  <2>1. events' \in [Pods -> Seq({"done", "deleted"})]
    BY <1>3, EmitTyped DEF Resync
  <2>2. TypeOK'
    BY <1>1, <1>3, <2>1, History DEF Resync, TypeOK, loop
  <2>3. Control' /\ Disjoint' /\ Placements'
    BY <1>1, <1>3, LoopKept, Past DEF Resync, Control
  <2> QED  BY <1>1, <1>3, <2>2, <2>3, StatesKept DEF Resync
<1> QED  BY <1>2, <1>3

\* The decisions of a cycle.
LEMMA BaseCycle ==
  ASSUME Base, ProcessQueue \/ ProcessQueueDeferred \/ CycleDone
  PROVE  Base'
<1> USE DEF Base
<1>1. [Next]_vars
  BY DEF Next, Loop
<1>2. TypeOK'
  <2>1. ReadyGangs(PendingPods) \subseteq SUBSET Pods /\ Standalone(PendingPods) \subseteq Pods
    BY DEF ReadyGangs, GangMembers, Standalone, PendingPods
  <2> QED  BY <1>1, <2>1, History DEF ProcessQueue, ProcessQueueDeferred, CycleDone, TypeOK, cluster, loop
<1>3. Control'
  BY <1>1, Past DEF ProcessQueue, ProcessQueueDeferred, CycleDone, Control, cluster, loop
<1>4. Disjoint'
  <2>1. CASE ProcessQueue
    <3>1. todo' = <<>>
      BY <2>1 DEF ProcessQueue, Control
    <3>2. \A P \in gangs' : P # {} /\ \E G \in DOMAIN GangSize : P = GangMembers(PendingPods, G)
      BY <2>1 DEF ProcessQueue, ReadyGangs
    <3>3. \A P, Q \in gangs' : P = Q \/ P \cap Q = {}
      BY <3>2 DEF GangMembers
    <3>4. /\ \A P \in gangs' : \A p \in P : JobOf(p).gang # NoGang
          /\ \A p \in standalone' : JobOf(p).gang = NoGang
      BY <2>1, <3>2, WatcherAssumption DEF ProcessQueue, GangMembers, Standalone
    <3> QED  BY <3>1, <3>2, <3>3, <3>4 DEF Disjoint
  <2>2. CASE ProcessQueueDeferred \/ CycleDone
    BY <2>2 DEF ProcessQueueDeferred, CycleDone, Disjoint, loop
  <2> QED  BY <2>1, <2>2
<1>5. Placements'
  BY DEF ProcessQueue, ProcessQueueDeferred, CycleDone, Placements, PlacedFor, loop
<1>6. PodStates'
  BY <1>1, StatesKept DEF ProcessQueue, ProcessQueueDeferred, CycleDone, cluster
<1> QED  BY <1>2, <1>3, <1>4, <1>5, <1>6

\* A gang's turn: its placements are what is left to carry out.
LEMMA GangTurn ==
  ASSUME Base, NEW P \in gangs, ScheduleGang(P)
  PROVE  /\ P \subseteq Pods /\ gangs' = gangs \ {P} /\ todo = <<>>
         /\ \/ UNCHANGED <<todo, pc>>
            \/ /\ pc' = "mark" /\ todo' # <<>>
               /\ todo' \in Seq([pod : Pods, gpus : SUBSET GPUs, mem : Nat])
               /\ \A i \in DOMAIN todo' :
                    /\ todo'[i].pod \in P /\ todo'[i].gpus # {}
                    /\ Cardinality(todo'[i].gpus) = JobOf(todo'[i].pod).gpuCount
                    /\ todo'[i].mem = JobOf(todo'[i].pod).mem \div JobOf(todo'[i].pod).gpuCount
               /\ \A i, k \in DOMAIN todo' : todo'[i].pod = todo'[k].pod => i = k
               /\ \A p \in P : \E i \in DOMAIN todo' : todo'[i].pod = p
<1> USE DEF Base
<1>1. P \subseteq Pods /\ gangs' = gangs \ {P} /\ todo = <<>>
  BY DEF ScheduleGang, TypeOK, Control
<1>2. PICK l \in GangOrders(P) :
        IF GangPlacements(l) = {} THEN UNCHANGED <<todo, pc>>
        ELSE /\ \E S \in GangPlacements(l) :
                  todo' = [i \in DOMAIN l |->
                            [pod |-> l[i], gpus |-> S[i], mem |-> JobOf(l[i]).mem \div Cardinality(S[i])]]
             /\ pc' = "mark"
  BY DEF ScheduleGang
<1>3. CASE GangPlacements(l) = {}
  BY <1>1, <1>2, <1>3
<1>4. CASE GangPlacements(l) # {}
  <2>1. PICK S \in GangPlacements(l) :
          todo' = [i \in DOMAIN l |-> [pod |-> l[i], gpus |-> S[i], mem |-> JobOf(l[i]).mem \div Cardinality(S[i])]]
    BY <1>2, <1>4
  <2>2. /\ l \in Seq(Pods) /\ DOMAIN l = 1..Len(l) /\ Len(l) \in Nat
        /\ \A i \in DOMAIN l : l[i] \in P
        /\ \A i, k \in DOMAIN l : l[i] = l[k] => i = k
    BY <1>1, GangOrderShape, LenProperties
  <2>3. \A i \in DOMAIN l : S[i] \subseteq GPUs /\ S[i] # {} /\ Cardinality(S[i]) = JobOf(l[i]).gpuCount
    BY <2>2, GangPlacementShape
  <2>4. \A i \in DOMAIN l : JobOf(l[i]).mem \div JobOf(l[i]).gpuCount \in Nat
    <3>1. \A p \in Pods : JobOf(p).mem \in Nat /\ JobOf(p).gpuCount \in Nat \ {0}
      BY WatcherAssumption DEF JobOf, Pods
    <3>2. \A m \in Nat, n \in Nat \ {0} : m \div n \in Nat
      OBVIOUS
    <3> QED  BY <1>1, <2>2, <3>1, <3>2
  <2>5. /\ DOMAIN todo' = DOMAIN l
        /\ \A i \in DOMAIN l : todo'[i] = [pod |-> l[i], gpus |-> S[i],
                                           mem |-> JobOf(l[i]).mem \div JobOf(l[i]).gpuCount]
    BY <2>1, <2>3
  <2>6. todo' \in Seq([pod : Pods, gpus : SUBSET GPUs, mem : Nat])
    <3>1. todo' \in [1..Len(l) -> [pod : Pods, gpus : SUBSET GPUs, mem : Nat]]
      BY <1>1, <2>1, <2>2, <2>3, <2>4, <2>5
    <3>2. Seq([pod : Pods, gpus : SUBSET GPUs, mem : Nat])
            = UNION {[1..n -> [pod : Pods, gpus : SUBSET GPUs, mem : Nat]] : n \in Nat}
      BY SeqDef, Zenon
    <3> QED  BY <3>1, <3>2, <2>2, Zenon
  <2>7. todo' # <<>>
    <3>1. P # {}
      BY DEF Disjoint
    <3>2. Len(l) # 0
      BY <1>1, <3>1, GangOrderShape
    <3> QED  BY <3>2, <2>2, <2>5
  <2>8. \A p \in P : \E i \in DOMAIN todo' : todo'[i].pod = p
    <3>1. \A p \in P : \E i \in DOMAIN l : l[i] = p
      BY <1>1, GangOrderAll
    <3> QED  BY <2>5, <3>1
  <2> QED  BY <1>1, <1>2, <1>4, <2>2, <2>3, <2>5, <2>6, <2>7, <2>8
<1> QED  BY <1>3, <1>4

\* The memory a pod is placed with is a size.
LEMMA PlacedTyped ==
  ASSUME NEW p \in Pods
  PROVE  PlacedMem(JobOf(p)) \in Nat /\ PlacedFor(p) \in Nat
<1>1. /\ JobOf(p).mem \in Nat /\ JobOf(p).gpuCount \in Nat \ {0}
      /\ JobOf(p).mode \in {"total", "per-gpu", "none"}
  BY WatcherAssumption DEF JobOf, Pods
<1>2. \A m \in Nat, n \in Nat \ {0} : m \div n \in Nat /\ m + n - 1 \in Nat
  OBVIOUS
<1>3. RequiredMemory(JobOf(p).mem, JobOf(p).gpuCount, JobOf(p).mode) \in Nat
  BY <1>1, <1>2 DEF RequiredMemory
<1> QED  BY <1>1, <1>2, <1>3 DEF PlacedMem, PlacedFor

\* The turns of gangs and of pods.
LEMMA BaseTurns ==
  ASSUME Base, \/ \E P \in gangs : ScheduleGang(P)
               \/ \E p \in standalone : SchedulePod(p) \/ SkipInvalidPod(p) \/ NoCapacity(p) \/ Preempt(p)
  PROVE  Base'
<1> USE DEF Base
<1>1. [Next]_vars
  BY DEF Next, Loop
<1>2. ASSUME NEW P \in gangs, ScheduleGang(P)
      PROVE  Base'
  <2>1. /\ P \subseteq Pods /\ gangs' = gangs \ {P} /\ todo = <<>>
        /\ \/ UNCHANGED <<todo, pc>>
           \/ /\ pc' = "mark" /\ todo' # <<>>
              /\ todo' \in Seq([pod : Pods, gpus : SUBSET GPUs, mem : Nat])
              /\ \A i \in DOMAIN todo' :
                   /\ todo'[i].pod \in P /\ todo'[i].gpus # {}
                   /\ Cardinality(todo'[i].gpus) = JobOf(todo'[i].pod).gpuCount
                   /\ todo'[i].mem = JobOf(todo'[i].pod).mem \div JobOf(todo'[i].pod).gpuCount
              /\ \A i, k \in DOMAIN todo' : todo'[i].pod = todo'[k].pod => i = k
    BY <1>2, GangTurn
  <2>2. TypeOK'
    BY <1>1, <1>2, <2>1, History DEF ScheduleGang, TypeOK, cluster
  <2>3. Control'
    BY <1>1, <1>2, <2>1, Past DEF ScheduleGang, Control, cluster
  <2>4. Disjoint'
    BY <1>2, <2>1 DEF ScheduleGang, Disjoint
  <2>5. Placements'
    <3>1. \A p \in P : JobOf(p).gang # NoGang
      BY DEF Disjoint
    <3> QED  BY <2>1, <3>1, <1>2 DEF ScheduleGang, Placements, PlacedFor
  <2>6. PodStates'
    BY <1>1, <1>2, StatesKept DEF ScheduleGang, cluster
  <2> QED  BY <2>2, <2>3, <2>4, <2>5, <2>6
<1>3. ASSUME NEW p \in standalone, SchedulePod(p)
      PROVE  Base'
  <2>1. PICK S \in PodPlacements(p) : todo' = <<[pod |-> p, gpus |-> S, mem |-> PlacedMem(JobOf(p))]>>
    BY <1>3 DEF SchedulePod
  <2>2. p \in Pods /\ S \subseteq GPUs /\ S # {} /\ Cardinality(S) = JobOf(p).gpuCount
    BY PodPlacementShape DEF TypeOK
  <2>3. PlacedMem(JobOf(p)) \in Nat
    BY <2>2, PlacedTyped
  <2>4. TypeOK'
    BY <1>1, <1>3, <2>1, <2>2, <2>3, History, SMTT(60) DEF SchedulePod, Turn, TypeOK, cluster
  <2>5. Control'
    BY <1>1, <1>3, <2>1, Past DEF SchedulePod, Turn, Control, cluster
  <2>6. Disjoint'
    BY <1>3, <2>1 DEF SchedulePod, Turn, Disjoint
  <2>7. Placements'
    <3>1. JobOf(p).gang = NoGang
      BY DEF Disjoint
    <3> QED  BY <2>1, <2>2, <3>1, <1>3 DEF SchedulePod, Placements, PlacedFor
  <2>8. PodStates'
    BY <1>1, <1>3, StatesKept DEF SchedulePod, cluster
  <2> QED  BY <2>4, <2>5, <2>6, <2>7, <2>8
<1>4. ASSUME NEW p \in standalone, SkipInvalidPod(p) \/ NoCapacity(p) \/ Preempt(p)
      PROVE  Base'
  <2>1. TypeOK'
    <3>1. \A S \in VictimSets(p) : S \subseteq Pods
      BY VictimShape DEF TypeOK
    <3>2. standalone' \subseteq Pods /\ victims' \subseteq Pods /\ toDelete' \subseteq Pods
      BY <1>4, <3>1 DEF SkipInvalidPod, NoCapacity, Preempt, NoRoom, Turn, TypeOK
    <3>3. UNCHANGED <<cluster, alloc, pendingEvictions, gangs, todo, resuming, gaveUp, listed>> /\ pc' \in {pc, "evict"}
      BY <1>4 DEF SkipInvalidPod, NoCapacity, Preempt
    <3> QED  BY <1>1, <3>2, <3>3, History DEF TypeOK, cluster
  <2>2. Control'
    <3>1. \A S \in VictimSets(p) : S \cap pendingEvictions = {}
      BY VictimShape DEF TypeOK
    <3> QED  BY <1>1, <1>4, <3>1, Past DEF SkipInvalidPod, NoCapacity, Preempt, NoRoom, Turn, Control, cluster
  <2>3. Disjoint'
    BY <1>4 DEF SkipInvalidPod, NoCapacity, Preempt, NoRoom, Turn, Disjoint
  <2>4. Placements'
    BY <1>4 DEF SkipInvalidPod, NoCapacity, Preempt, NoRoom, Turn, Placements, PlacedFor
  <2>5. PodStates'
    BY <1>1, <1>4, StatesKept DEF SkipInvalidPod, NoCapacity, Preempt, cluster
  <2> QED  BY <2>1, <2>2, <2>3, <2>4, <2>5
<1> QED  BY <1>2, <1>3, <1>4

\* Carrying out a placement.
LEMMA FirstTyped ==
  ASSUME TypeOK, Placements, todo # <<>>
  PROVE  /\ todo[1] \in [pod : Pods, gpus : SUBSET GPUs, mem : Nat] /\ Head(todo) = todo[1]
         /\ 1 \in DOMAIN todo /\ Len(todo) \in Nat \ {0} /\ DOMAIN todo = 1..Len(todo)
         /\ todo[1].pod \in Pods /\ todo[1].gpus \subseteq GPUs /\ todo[1].mem \in Nat
         /\ todo[1].gpus # {} /\ Cardinality(todo[1].gpus) = JobOf(todo[1].pod).gpuCount
<1> DEFINE T == [pod : Pods, gpus : SUBSET GPUs, mem : Nat]
<1>1. todo \in Seq(T)
  BY DEF TypeOK
<1> HIDE DEF T
<1>2. Len(todo) \in Nat \ {0} /\ DOMAIN todo = 1..Len(todo)
  BY <1>1, EmptySeq, LenProperties
<1>3. Head(todo) = todo[1] /\ 1 \in DOMAIN todo /\ todo[1] \in T
  BY <1>1, <1>2, ElementOfSeq
<1> QED  BY <1>2, <1>3 DEF Placements, T

\* The placements that are left when the first one is done.
LEMMA TailTyped ==
  ASSUME TypeOK, todo # <<>>, todo' = Tail(todo)
  PROVE  /\ todo' \in Seq([pod : Pods, gpus : SUBSET GPUs, mem : Nat])
         /\ Len(todo') = Len(todo) - 1 /\ DOMAIN todo' = 1..(Len(todo) - 1)
         /\ \A i \in DOMAIN todo' : i + 1 \in DOMAIN todo /\ todo'[i] = todo[i + 1]
         /\ todo' = <<>> <=> Len(todo) = 1
<1> DEFINE T == [pod : Pods, gpus : SUBSET GPUs, mem : Nat]
<1>1. todo \in Seq(T)
  BY DEF TypeOK
<1> HIDE DEF T
<1>2. Tail(todo) \in Seq(T) /\ Len(Tail(todo)) = Len(todo) - 1 /\ \A i \in 1..Len(Tail(todo)) : Tail(todo)[i] = todo[i + 1]
  BY <1>1, HeadTailProperties
<1>3. Len(todo) \in Nat \ {0} /\ DOMAIN todo = 1..Len(todo) /\ DOMAIN Tail(todo) = 1..Len(Tail(todo))
  BY <1>1, <1>2, EmptySeq, LenProperties
<1>4. Tail(todo) = <<>> <=> Len(todo) = 1
  BY <1>1, <1>2, <1>3, EmptySeq
<1> QED  BY <1>2, <1>3, <1>4, SMTT(60) DEF T

\* Marking keeps the base invariant.
LEMMA BaseMark ==
  ASSUME Base, MarkPlacement
  PROVE  Base'
<1> USE DEF Base
<1>1. [Next]_vars
  BY DEF Next, Loop
<1>2. todo # <<>> /\ Mark(todo[1].pod, todo[1].gpus, todo[1].mem)
  BY FirstTyped DEF MarkPlacement, Control
<1>3. alloc' \in [Pods -> Seq(Entry)]
  BY <1>2, FirstTyped, MarkTyped
<1>4. TypeOK'
  BY <1>1, <1>3, History DEF MarkPlacement, TypeOK, cluster, loop
<1>5. Control'
  BY <1>1, Past DEF MarkPlacement, Control, cluster, loop
<1>6. Disjoint' /\ Placements'
  BY DEF MarkPlacement, Disjoint, Placements, PlacedFor, loop
<1> QED  BY <1>1, <1>4, <1>5, <1>6, StatesKept DEF MarkPlacement, cluster

\* What a binding, accepted or refused, leaves behind.
LEMMA BindEffect ==
  ASSUME Base, BindOK \/ BindFails
  PROVE  LET p == todo[1].pod
         IN  /\ todo # <<>> /\ p \in Pods
             /\ api' \in [Pods -> PodObject] /\ \A q \in Pods \ {p} : api'[q] = api[q]
             /\ \/ api'[p] = api[p]
                \/ /\ Unbound(p) /\ api'[p].phase = "Pending" /\ api'[p].term = api[p].term
                   /\ \/ api'[p].node # NoNode /\ api'[p].gpus \in {api[p].gpus, todo[1].gpus}
                      \/ api'[p].node = NoNode /\ api'[p].gpus = todo[1].gpus /\ Spend("bindError")
<1> USE DEF Base
<1> DEFINE p == todo[1].pod
<1>1. todo # <<>>
  BY DEF BindOK, BindFails, Control
<1>2. p \in Pods /\ todo[1].gpus # {} /\ todo[1].gpus \subseteq GPUs /\ Head(todo) = todo[1]
  BY <1>1, FirstTyped
<1>3. api \in [Pods -> PodObject] /\ api[p] \in PodObject
  BY <1>2 DEF TypeOK, PodObject
<1> DEFINE n == NodeOf[CHOOSE g \in todo[1].gpus : TRUE]
<1>4. n \in {NodeOf[g] : g \in GPUs} /\ n # NoNode
  BY <1>2, WatcherAssumption
<1> HIDE DEF n, p
<1> DEFINE o1 == [api[p] EXCEPT !.node = n, !.gpus = todo[1].gpus]
           o2 == [api[p] EXCEPT !.node = n]
           o3 == [api[p] EXCEPT !.gpus = todo[1].gpus]
<1>5. /\ o1 \in PodObject /\ o1.phase = api[p].phase /\ o1.term = api[p].term /\ o1.node = n /\ o1.gpus = todo[1].gpus
      /\ o2 \in PodObject /\ o2.phase = api[p].phase /\ o2.term = api[p].term /\ o2.node = n /\ o2.gpus = api[p].gpus
      /\ o3 \in PodObject /\ o3.phase = api[p].phase /\ o3.term = api[p].term /\ o3.node = api[p].node
      /\ o3.gpus = todo[1].gpus
  BY <1>2, <1>3, <1>4 DEF PodObject
<1>6. \/ api' = api
      \/ Unbound(p) /\ api' = [api EXCEPT ![p] = o1]
      \/ Unbound(p) /\ api' = [api EXCEPT ![p] = o2]
      \/ Unbound(p) /\ api' = [api EXCEPT ![p] = o3] /\ Spend("bindError")
  BY <1>2, <1>3 DEF BindOK, BindFails, n, p
<1> HIDE DEF o1, o2, o3
<1> QED  BY <1>1, <1>2, <1>3, <1>4, <1>5, <1>6, ObjectReplaced DEF Unbound, p

\* What a binding does to its pod, by how it ends.
LEMMA BindDetail ==
  ASSUME Base, NEW p \in Pods, p = todo[1].pod
  PROVE  /\ BindOK => /\ Unbound(p) /\ api'[p].phase = "Pending" /\ api'[p].node # NoNode
                      /\ \/ api'[p].gpus = todo[1].gpus
                         \/ Spend("patchError") /\ api'[p].gpus = api[p].gpus
         /\ BindFails => \/ ~Unbound(p) /\ api' = api
                         \/ Spend("bindError") /\ api'[p].node = NoNode
                         \/ Spend("bindReplyLost") /\ api'[p].node # NoNode
<1> USE DEF Base
<1>1. CASE todo # <<>>
  <2>1. todo[1].gpus # {} /\ todo[1].gpus \subseteq GPUs /\ Head(todo) = todo[1]
    BY <1>1, FirstTyped
  <2>2. api \in [Pods -> PodObject] /\ api[p] \in PodObject
    BY DEF TypeOK, PodObject
  <2> DEFINE n == NodeOf[CHOOSE g \in todo[1].gpus : TRUE]
  <2>3. n \in {NodeOf[g] : g \in GPUs} /\ n # NoNode
    BY <2>1, WatcherAssumption
  <2> DEFINE o1 == [api[p] EXCEPT !.node = n, !.gpus = todo[1].gpus]
             o2 == [api[p] EXCEPT !.node = n]
             o3 == [api[p] EXCEPT !.gpus = todo[1].gpus]
  <2>4. /\ o1 \in PodObject /\ o1.phase = api[p].phase /\ o1.node = n /\ o1.gpus = todo[1].gpus
        /\ o2 \in PodObject /\ o2.phase = api[p].phase /\ o2.node = n /\ o2.gpus = api[p].gpus
        /\ o3 \in PodObject /\ o3.node = api[p].node
    BY <2>1, <2>2, <2>3, ZenonT(60) DEF PodObject
  <2>5. BindOK => /\ Unbound(p)
                  /\ \/ api' = [api EXCEPT ![p] = o1]
                     \/ Spend("patchError") /\ api' = [api EXCEPT ![p] = o2]
    BY <2>1, <2>2, ZenonT(60) DEF BindOK
  <2>6. BindFails => \/ ~Unbound(p) /\ api' = api
                     \/ Unbound(p) /\ Spend("bindError") /\ api' = [api EXCEPT ![p] = o3]
                     \/ Unbound(p) /\ Spend("bindReplyLost") /\ api' = [api EXCEPT ![p] = o1]
    <3> HIDE DEF n
    <3>1. BindFails => \/ ~Unbound(p) /\ api' = api
                       \/ /\ Unbound(p) /\ Spend("bindError")
                          /\ api' = [api EXCEPT ![p].gpus = todo[1].gpus]
                       \/ /\ Unbound(p) /\ Spend("bindReplyLost")
                          /\ api' = [api EXCEPT ![p].node = n, ![p].gpus = todo[1].gpus]
      BY <2>1, SMTT(60) DEF BindFails, n
    <3>2. [api EXCEPT ![p].gpus = todo[1].gpus] = [api EXCEPT ![p] = o3]
      BY <2>2
    <3>3. [api EXCEPT ![p].node = n, ![p].gpus = todo[1].gpus] = [api EXCEPT ![p] = o1]
      BY <2>2
    <3> HIDE DEF o1, o3
    <3> QED  BY <3>1, <3>2, <3>3
  <2> HIDE DEF n, o1, o2, o3
  <2>7. \A o : api' = [api EXCEPT ![p] = o] => api'[p] = o
    BY <2>2
  <2>8. BindOK => /\ Unbound(p) /\ api'[p].phase = "Pending" /\ api'[p].node # NoNode
                  /\ \/ api'[p].gpus = todo[1].gpus
                     \/ Spend("patchError") /\ api'[p].gpus = api[p].gpus
    BY <2>3, <2>4, <2>5, <2>7 DEF Unbound
  <2>9. BindFails => \/ ~Unbound(p) /\ api' = api
                     \/ Spend("bindError") /\ api'[p].node = NoNode
                     \/ Spend("bindReplyLost") /\ api'[p].node # NoNode
    BY <2>3, <2>4, <2>6, <2>7 DEF Unbound
  <2> QED  BY <2>8, <2>9
<1>2. CASE todo = <<>>
  BY <1>2 DEF BindOK, BindFails, Control
<1> QED  BY <1>1, <1>2

\* A binding keeps the base invariant.
LEMMA BaseBind ==
  ASSUME Base, BindOK \/ BindFails
  PROVE  Base'
<1> USE DEF Base
<1>1. [Next]_vars
  BY DEF Next, Loop
<1>0. PICK p \in Pods : p = todo[1].pod
  BY BindEffect
<1>2. /\ todo # <<>>
      /\ api' \in [Pods -> PodObject] /\ \A q \in Pods \ {p} : api'[q] = api[q]
      /\ \/ api'[p] = api[p]
         \/ /\ Unbound(p) /\ api'[p].phase = "Pending" /\ api'[p].term = api[p].term
            /\ \/ api'[p].node # NoNode /\ api'[p].gpus \in {api[p].gpus, todo[1].gpus}
               \/ api'[p].node = NoNode /\ api'[p].gpus = todo[1].gpus /\ Spend("bindError")
  BY <1>0, BindEffect
<1>3. BindReturns /\ pc = "bind"
  BY DEF BindOK, BindFails
<1>4. alloc' \in [Pods -> Seq(Entry)]
  BY <1>2, ReleaseTyped DEF BindOK, BindFails, TypeOK
<1>5. /\ todo' \in Seq([pod : Pods, gpus : SUBSET GPUs, mem : Nat])
      /\ Len(todo') = Len(todo) - 1 /\ DOMAIN todo' = 1..(Len(todo) - 1)
      /\ \A i \in DOMAIN todo' : i + 1 \in DOMAIN todo /\ todo'[i] = todo[i + 1]
      /\ todo' = <<>> <=> Len(todo) = 1
  BY <1>2, <1>3, TailTyped DEF BindReturns
<1>6. TypeOK'
  BY <1>1, <1>2, <1>3, <1>4, <1>5, History DEF BindReturns, TypeOK, PodObject
<1>7. Control'
  BY <1>1, <1>3, <1>5, Past DEF BindReturns, Control
<1>8. Disjoint'
  <2>1. \A i \in DOMAIN todo' : i + 1 \in DOMAIN todo /\ todo'[i].pod = todo[i + 1].pod
    BY <1>5
  <2>2. /\ \A i \in DOMAIN todo' : todo'[i].pod \notin standalone /\ \A P \in gangs : todo'[i].pod \notin P
        /\ \A i, k \in DOMAIN todo' : todo'[i].pod = todo'[k].pod => i + 1 = k + 1
    BY <2>1 DEF Disjoint
  <2>3. \A i, k \in DOMAIN todo' : i + 1 = k + 1 => i = k
    BY <1>5, FirstTyped, <1>2
  <2> QED  BY <1>3, <2>2, <2>3 DEF BindReturns, Disjoint
<1>9. Placements'
  BY <1>3, <1>5, SMTT(60) DEF BindReturns, Placements, PlacedFor
<1>10. PodStates'
  <2>1. ~Happened("bindError")' => ~Happened("bindError")
    BY <1>1, Past
  <2>2. \A q \in Pods \ {p} : PodState(q)'
    BY <1>2, <2>1 DEF PodStates, PodState
  <2>3. PodState(p)
    BY <1>2 DEF PodStates
  <2>4. Spend("bindError") => Happened("bindError")'
    <3>1. "bindError" \in Kinds /\ budget.spent["bindError"] \in Nat
      BY DEF Kinds, TypeOK
    <3> QED  BY <3>1, SpendTyped DEF Happened
  <2>5. Cardinality(todo[1].gpus) <= JobOf(p).gpuCount
    <3>1. Cardinality(todo[1].gpus) = JobOf(p).gpuCount
      BY <1>0, <1>2, FirstTyped
    <3>2. JobOf(p).gpuCount \in Nat
      BY <1>2, WatcherAssumption DEF JobOf, Pods
    <3> QED  BY <3>1, <3>2
  <2>6. PodState(p)'
    BY <1>2, <2>1, <2>3, <2>4, <2>5 DEF PodState, Unbound
  <2> QED  BY <2>2, <2>6 DEF PodStates
<1> QED  BY <1>6, <1>7, <1>8, <1>9, <1>10

\* Evicting and resuming.
LEMMA BaseEvict ==
  ASSUME Base, \/ \E v \in toDelete : EvictVictim(v)
               \/ ReleaseVictims
  PROVE  Base'
<1> USE DEF Base
<1>1. [Next]_vars
  BY DEF Next, Loop
<1>2. ASSUME NEW v \in toDelete, EvictVictim(v)
      PROVE  Base'
  <2>1. v \in Pods /\ v \in victims
    BY DEF TypeOK, Control
  <2>2. ~Happened("bindError")' => ~Happened("bindError")
    BY <1>1, Past
  <2>3. CASE Exists(v) /\ ApiDelete(v) /\ resuming' = {v}
    <3>1. /\ api' \in [Pods -> PodObject] /\ events' \in [Pods -> Seq({"done", "deleted"})]
          /\ \A q \in Pods \ {v} : api'[q] = api[q]
          /\ \/ api'[v] = NoPod
             \/ /\ ~(Unbound(v) \/ api[v].phase = "Done") /\ Exists(v)
                /\ api'[v].phase = api[v].phase /\ api'[v].node = api[v].node
                /\ api'[v].gpus = api[v].gpus /\ api'[v].term = TRUE
      BY <2>1, <2>3, ApiDeleted
    <3>2. TypeOK'
      BY <1>1, <1>2, <2>1, <2>3, <3>1, History DEF EvictVictim, TypeOK, PodObject
    <3>3. \A q \in Pods \ {v} : PodState(q)'
      BY <2>2, <3>1 DEF PodState, PodStates
    <3>4. PodState(v)'
      BY <2>1, <2>2, <3>1, NoPodTyped DEF Unbound, Exists, PodState, PodStates
    <3>5. Control'
      BY <1>1, <1>2, <2>1, <2>3, Past DEF EvictVictim, Control
    <3>6. Disjoint' /\ Placements'
      BY <1>2 DEF EvictVictim, Disjoint, Placements, PlacedFor
    <3> QED  BY <3>2, <3>3, <3>4, <3>5, <3>6 DEF PodStates
  <2>4. CASE UNCHANGED <<api, events, resuming>>
    <3>1. TypeOK'
      BY <1>1, <1>2, <2>4, History DEF EvictVictim, TypeOK
    <3>2. Control'
      BY <1>1, <1>2, <2>4, Past DEF EvictVictim, Control
    <3>3. Disjoint' /\ Placements'
      BY <1>2 DEF EvictVictim, Disjoint, Placements, PlacedFor
    <3> QED  BY <1>1, <2>4, <3>1, <3>2, <3>3, StatesKept
  <2> QED  BY <1>2, <2>3, <2>4 DEF EvictVictim
<1>3. CASE ReleaseVictims
  <2>1. alloc' \in [Pods -> Seq(Entry)]
    BY <1>3, ReleaseTyped DEF ReleaseVictims
  <2>2. TypeOK'
    BY <1>1, <1>3, <2>1, History DEF ReleaseVictims, TypeOK, cluster
  <2>3. Control'
    BY <1>1, <1>3, Past DEF ReleaseVictims, Control, cluster
  <2>4. Disjoint' /\ Placements'
    BY <1>3 DEF ReleaseVictims, Disjoint, Placements, PlacedFor
  <2> QED  BY <1>1, <1>3, <2>2, <2>3, <2>4, StatesKept DEF ReleaseVictims, cluster
<1> QED  BY <1>2, <1>3

\* The pod that resumes v.
LEMMA ResumeEffect ==
  ASSUME Base, NEW v \in resuming, AutoResume(v)
  PROVE  /\ v \in Pods /\ pc = "evict" /\ resuming' = {} /\ gaveUp' \subseteq Jobs
         /\ \/ api' = api
            \/ LET r == <<v[1], v[2] + 1>>
               IN  r \in Pods /\ ~Exists(r) /\ api' = [api EXCEPT ![r] = NewPod] /\ budget' = budget
         /\ UNCHANGED <<events, watching, alloc, pendingEvictions, pc, gangs, standalone, todo, victims, toDelete, listed>>
<1>1. v \in Pods /\ v[1] \in Jobs
  BY PodNames DEF Base, TypeOK
<1>2. JobOf(v).autoResume /\ v[2] + 1 <= MaxRetries => <<v[1], v[2] + 1>> \in Pods
  BY <1>1, PodNames
<1>3. gaveUp' \subseteq Jobs
  BY <1>1 DEF AutoResume, Base, TypeOK
<1> QED  BY <1>1, <1>2, <1>3 DEF AutoResume

\* Creating a resume pod keeps the base invariant.
LEMMA BaseResume ==
  ASSUME Base, NEW v \in resuming, AutoResume(v)
  PROVE  Base'
<1> USE DEF Base
<1>1. [Next]_vars
  BY DEF Next, Loop
<1> DEFINE r == <<v[1], v[2] + 1>>
<1>2. /\ resuming' = {} /\ gaveUp' \subseteq Jobs
      /\ \/ api' = api
         \/ r \in Pods /\ api' = [api EXCEPT ![r] = NewPod]
      /\ UNCHANGED <<events, watching, alloc, pendingEvictions, pc, gangs, standalone, todo, victims, toDelete, listed>>
  BY ResumeEffect
<1> HIDE DEF r
<1>3. api' \in [Pods -> PodObject]
  BY <1>2, ObjectReplaced, NoPodTyped DEF TypeOK, PodObject
<1>4. TypeOK'
  BY <1>1, <1>2, <1>3, History DEF TypeOK, PodObject
<1>5. Control'
  BY <1>1, <1>2, Past DEF Control
<1>6. Disjoint' /\ Placements'
  BY <1>2 DEF Disjoint, Placements, PlacedFor
<1>7. PodStates'
  <2>1. CASE api' = api
    BY <1>1, <2>1, StatesKept
  <2>2. CASE r \in Pods /\ api' = [api EXCEPT ![r] = NewPod]
    <3>1. api'[r] = NewPod /\ \A q \in Pods \ {r} : api'[q] = api[q]
      BY <2>2, ObjectReplaced, NoPodTyped
    <3>2. ~Happened("bindError")' => ~Happened("bindError")
      BY <1>1, Past
    <3>3. \A q \in Pods \ {r} : PodState(q)'
      BY <3>1, <3>2 DEF PodStates, PodState
    <3>4. PodState(r)'
      BY <2>2, <3>1, NoPodTyped DEF PodState
    <3> QED  BY <3>3, <3>4 DEF PodStates
  <2> QED  BY <1>2, <2>1, <2>2
<1> QED  BY <1>4, <1>5, <1>6, <1>7

\* Restarting.
LEMMA BaseRestart ==
  ASSUME Base, Crash \/ InformerSync \/ ReconcileList \/ ReconcileDone
  PROVE  Base'
<1> USE DEF Base
<1>1. [Next]_vars
  BY DEF Next, Loop
<1>2. PodStates'
  BY <1>1, StatesKept DEF Crash, InformerSync, ReconcileList, ReconcileDone, cluster
<1>3. CASE Crash
  <2>1. alloc' \in [Pods -> Seq(Entry)] /\ \A p \in Pods : alloc'[p] = <<>>
    BY <1>3, ReleaseTyped DEF Crash
  <2>2. TypeOK'
    <3>1. events' \in [Pods -> Seq({"done", "deleted"})]
      BY <1>3 DEF Crash
    <3>2. todo' \in Seq([pod : Pods, gpus : SUBSET GPUs, mem : Nat])
      BY <1>3, EmptySeq DEF Crash
    <3> QED  BY <1>1, <1>3, <2>1, <3>1, <3>2, History DEF Crash, TypeOK
  <2>3. Happened("crash")'
    <3>1. "crash" \in Kinds /\ budget.spent["crash"] \in Nat
      BY DEF Kinds, TypeOK
    <3> QED  BY <1>3, <3>1, SpendTyped DEF Crash, Happened
  <2>4. Control'
    BY <1>3, <2>1, <2>3 DEF Crash, Control
  <2>5. Disjoint' /\ Placements'
    BY <1>3 DEF Crash, Disjoint, Placements
  <2> QED  BY <1>2, <2>2, <2>4, <2>5
<1>4. CASE InformerSync
  <2>1. TypeOK'
    BY <1>1, <1>4, History DEF InformerSync, TypeOK, loop
  <2>2. Control' /\ Disjoint' /\ Placements'
    BY <1>1, <1>4, LoopKept DEF InformerSync
  <2> QED  BY <1>2, <2>1, <2>2
<1>5. CASE ReconcileList
  <2>1. \A r \in listed' : \E p \in Pods : r = [pod |-> p, gpus |-> api[p].gpus] /\ api[p].gpus # {}
    BY <1>5 DEF ReconcileList
  <2>2. listed' \subseteq [pod : Pods, gpus : SUBSET GPUs]
    BY <2>1 DEF TypeOK
  <2>3. TypeOK'
    BY <1>1, <1>5, <2>2, History DEF ReconcileList, TypeOK, cluster
  <2>4. Control'
    BY <1>1, <1>5, Past DEF ReconcileList, Control, cluster
  <2>5. Disjoint'
    BY <1>5 DEF ReconcileList, Disjoint
  <2>6. Placements'
    BY <1>5, <2>1 DEF ReconcileList, Placements, PodStates, PodState, PlacedFor
  <2> QED  BY <1>2, <2>3, <2>4, <2>5, <2>6
<1>6. CASE ReconcileDone
  <2>1. TypeOK'
    BY <1>1, <1>6, History DEF ReconcileDone, TypeOK, cluster, loop
  <2>2. Control'
    BY <1>1, <1>6, Past DEF ReconcileDone, Control, cluster, loop
  <2>3. Disjoint' /\ Placements'
    BY <1>6 DEF ReconcileDone, Disjoint, Placements, PlacedFor, loop
  <2> QED  BY <1>2, <2>1, <2>2, <2>3
<1> QED  BY <1>3, <1>4, <1>5, <1>6

\* What reconciling a listed pod enters.
LEMMA ReconcileEffect ==
  ASSUME Base, NEW r \in listed, ReconcileMark(r)
  PROVE  /\ r.pod \in Pods /\ r.gpus \subseteq GPUs /\ Cardinality(r.gpus) \in Nat \ {0}
         /\ JobOf(r.pod).mem \div Cardinality(r.gpus) \in Nat
         /\ Mark(r.pod, r.gpus, JobOf(r.pod).mem \div Cardinality(r.gpus))
<1>1. r.pod \in Pods /\ r.gpus \subseteq GPUs /\ r.gpus # {}
  BY DEF Base, TypeOK, Placements
<1>2. IsFiniteSet(r.gpus)
  BY <1>1, WatcherAssumption, FS_Subset
<1>3. Cardinality(r.gpus) \in Nat \ {0}
  BY <1>1, <1>2, FS_CardinalityType, FS_EmptySet
<1>4. JobOf(r.pod).mem \in Nat
  BY <1>1, WatcherAssumption DEF JobOf, Pods
<1>5. \A m \in Nat, n \in Nat \ {0} : m \div n \in Nat
  OBVIOUS
<1> QED  BY <1>1, <1>3, <1>4, <1>5 DEF ReconcileMark

\* Marking a listed pod keeps the base invariant.
LEMMA BaseReconcile ==
  ASSUME Base, NEW r \in listed, ReconcileMark(r)
  PROVE  Base'
<1> USE DEF Base
<1>1. [Next]_vars
  BY DEF Next, Loop
<1>2. alloc' \in [Pods -> Seq(Entry)]
  BY ReconcileEffect, MarkTyped
<1>3. TypeOK'
  BY <1>1, <1>2, History DEF ReconcileMark, TypeOK, cluster
<1>4. Control'
  BY <1>1, Past DEF ReconcileMark, Control, cluster
<1>5. Disjoint' /\ Placements'
  BY DEF ReconcileMark, Disjoint, Placements, PlacedFor
<1> QED  BY <1>1, <1>3, <1>4, <1>5, StatesKept DEF ReconcileMark, cluster

\* The base of the invariant is inductive.
LEMMA BaseInit == Init => Base
<1> SUFFICES ASSUME Init PROVE Base
  OBVIOUS
<1>1. "crash" \in Kinds
  BY DEF Kinds
<1>2. TypeOK
  BY NoPodTyped, WatcherAssumption DEF Init, TypeOK, PodObject
<1>3. Control
  BY DEF Init, Control
<1>4. Disjoint /\ Placements
  BY DEF Init, Disjoint, Placements
<1>5. PodStates
  BY NoPodTyped DEF Init, PodStates, PodState
<1> QED  BY <1>2, <1>3, <1>4, <1>5 DEF Base

\* Every step keeps the base invariant.
LEMMA BaseStep ==
  ASSUME Base, [Next]_vars
  PROVE  Base'
<1>1. CASE UNCHANGED vars
  BY <1>1 DEF vars, cluster, loop, Base, TypeOK, Control, Disjoint, PodStates, PodState, Placements, PlacedFor, Happened
<1>2. CASE Next
  BY <1>2, BaseCluster, BaseInformer, BaseCycle, BaseTurns, BaseMark, BaseBind, BaseEvict, BaseResume,
     BaseRestart, BaseReconcile DEF Next, Loop
<1> QED  BY <1>1, <1>2

\* Every variable keeps its type: what is placed, evicted or reconciled are pods and GPUs of
\* the cluster, and the loop never reaches past the end of its work.
THEOREM TypeCorrect == Spec => []TypeOK
<1>1. Init => Base
  BY BaseInit
<1>2. Base /\ [Next]_vars => Base'
  BY BaseStep
<1>3. Base => TypeOK
  BY DEF Base
<1> QED  BY <1>1, <1>2, <1>3, PTL DEF Spec

-----------------------------------------------------------------------------
(* What the loop has in hand.                                               *)

\* A pod enters the snapshot only while it is pending.
LEMMA CycleInHand ==
  ASSUME ProcessQueue \/ ProcessQueueDeferred \/ CycleDone
  PROVE  \A q \in Pods : InHand(q)' => InHand(q) \/ Unbound(q)
<1>1. CASE ProcessQueue
  BY <1>1 DEF ProcessQueue, InHand, ReadyGangs, GangMembers, Standalone, PendingPods
<1>2. CASE ProcessQueueDeferred \/ CycleDone
  BY <1>2 DEF ProcessQueueDeferred, CycleDone, InHand, loop
<1> QED  BY <1>1, <1>2

\* A turn takes no pod in hand.
LEMMA TurnsInHand ==
  ASSUME Base, \/ \E P \in gangs : ScheduleGang(P)
               \/ \E p \in standalone : SchedulePod(p) \/ SkipInvalidPod(p) \/ NoCapacity(p) \/ Preempt(p)
  PROVE  \A q \in Pods : InHand(q)' => InHand(q)
<1>1. ASSUME NEW P \in gangs, ScheduleGang(P)
      PROVE  \A q \in Pods : InHand(q)' => InHand(q)
  <2>1. gangs' = gangs \ {P} /\ (todo' = todo \/ \A i \in DOMAIN todo' : todo'[i].pod \in P) /\ standalone' = standalone
    BY <1>1, GangTurn DEF ScheduleGang
  <2> QED  BY <2>1 DEF InHand
<1>2. ASSUME NEW p \in standalone, SchedulePod(p)
      PROVE  \A q \in Pods : InHand(q)' => InHand(q)
  <2>1. /\ standalone' \subseteq standalone /\ gangs' = gangs
        /\ \A i \in DOMAIN todo' : todo'[i].pod = p
    BY <1>2 DEF SchedulePod, Turn
  <2> QED  BY <2>1 DEF InHand
<1>3. ASSUME NEW p \in standalone, SkipInvalidPod(p) \/ NoCapacity(p) \/ Preempt(p)
      PROVE  \A q \in Pods : InHand(q)' => InHand(q)
  BY <1>3 DEF SkipInvalidPod, NoCapacity, Preempt, NoRoom, Turn, InHand
<1> QED  BY <1>1, <1>2, <1>3

\* The loop is done with a pod once its binding returned.
LEMMA BindInHand ==
  ASSUME Base, BindOK \/ BindFails, NEW p \in Pods, p = todo[1].pod
  PROVE  ~InHand(p)' /\ \A q \in Pods : InHand(q)' => InHand(q)
<1> USE DEF Base
<1>1. todo # <<>> /\ todo' = Tail(todo) /\ gangs' = gangs /\ standalone' = standalone
  BY DEF BindOK, BindFails, BindReturns, Control
<1>2. /\ DOMAIN todo' = 1..(Len(todo) - 1) /\ Len(todo) \in Nat
      /\ \A i \in DOMAIN todo' : i + 1 \in DOMAIN todo /\ todo'[i] = todo[i + 1]
  BY <1>1, TailTyped, FirstTyped
<1>3. \A i \in DOMAIN todo' : i + 1 \in DOMAIN todo /\ todo'[i] = todo[i + 1] /\ i + 1 # 1
  BY <1>2
<1>4. 1 \in DOMAIN todo
  BY <1>1, FirstTyped
<1> QED  BY <1>1, <1>3, <1>4 DEF InHand, Disjoint

-----------------------------------------------------------------------------
(* The life of names.                                                       *)

\* A step that creates no pod: no name loses its freshness and none regains its life.
Keeps(p) == (Fresh(p) => Fresh(p)') /\ (Unresumed(p)' => Unresumed(p)) /\ NameOK(p)'

\* It is enough that every name keeps its place in the life of its job.
LEMMA LivesKept ==
  ASSUME Base, Lives, [Next]_vars, Steady' => \A p \in Pods : Keeps(p)
  PROVE  Lives'
<1> SUFFICES ASSUME Steady'
             PROVE  /\ \A p \in Pods : NameOK(p)' /\ (budget'.spent[p[1]] = 0 => Fresh(p)')
                    /\ \A p, q \in Pods : p[1] = q[1] /\ p[2] < q[2] /\ Unresumed(p)' => Fresh(q)'
  BY DEF Lives
<1>1. Steady
  BY Past DEF Base
<1>2. \A p \in Pods : budget'.spent[p[1]] = 0 => budget.spent[p[1]] = 0
  <2>1. \A p \in Pods : p[1] \in Kinds \cup Jobs
    BY PodNames
  <2>2. \A k \in Kinds \cup Jobs : budget.spent[k] \in Nat /\ budget'.spent[k] \in Nat /\ budget.spent[k] <= budget'.spent[k]
    BY History DEF Base, TypeOK
  <2> QED  BY <2>1, <2>2
<1> QED  BY <1>1, <1>2 DEF Lives, Keeps

\* A step that changes nothing but the object of p, and may queue an event for it.
LEMMA KeepsOthers ==
  ASSUME NEW p \in Pods, NEW q \in Pods \ {p}, NameOK(q),
         api'[q] = api[q], events'[q] = events[q], UNCHANGED <<alloc, pendingEvictions, pc, loop>>
  PROVE  Keeps(q)
BY DEF Keeps, Fresh, Unresumed, Live, NameOK, InHand, loop

\* Deleting, starting, finishing and removing a pod make no second instance.
LEMMA LivesCluster ==
  ASSUME Base, Lives, NEW p \in Pods, UserDelete(p) \/ KubeletStart(p) \/ KubeletFinish(p) \/ KubeletRemove(p)
  PROVE  Lives'
<1> USE DEF Base
<1>1. [Next]_vars
  BY DEF Next, Cluster
<1> SUFFICES ASSUME Steady' PROVE \A q \in Pods : Keeps(q)
  BY <1>1, LivesKept
<1>2. Steady /\ watching
  BY <1>1, Past DEF Control, Steady
<1>3. \A q \in Pods : NameOK(q)
  BY <1>2 DEF Lives
<1>4. PodState(p) /\ api \in [Pods -> PodObject]
  BY DEF PodStates, TypeOK, PodObject
<1>5. UNCHANGED <<alloc, pendingEvictions, pc, loop>>
  BY DEF UserDelete, KubeletStart, KubeletFinish, KubeletRemove
<1>6. \A q \in Pods \ {p} : api'[q] = api[q] /\ events'[q] = events[q]
  <2>1. CASE UserDelete(p)
    BY <2>1, ApiDeleted DEF UserDelete
  <2>2. CASE KubeletStart(p)
    BY <2>2 DEF KubeletStart, TypeOK
  <2>3. CASE KubeletFinish(p)
    BY <2>3, EmitTyped DEF KubeletFinish, TypeOK
  <2>4. CASE KubeletRemove(p)
    BY <2>4, EmitTyped DEF KubeletRemove, TypeOK
  <2> QED  BY <2>1, <2>2, <2>3, <2>4
<1>7. \A q \in Pods \ {p} : Keeps(q)
  BY <1>3, <1>5, <1>6, KeepsOthers
<1>8. ~Fresh(p)
  BY NoPodTyped DEF Fresh, UserDelete, KubeletStart, KubeletFinish, KubeletRemove, Exists
<1>9. /\ Live(p)' => Live(p) /\ events' = events
      /\ Live(p)' => api'[p].term = api[p].term \/ (~api[p].term /\ api'[p].term)
      /\ api[p].node = NoNode => api'[p].node = NoNode
  <2>1. CASE UserDelete(p)
    BY <2>1, ApiDeleted, NoPodTyped DEF UserDelete, Live
  <2>2. CASE KubeletStart(p)
    <3>1. api'[p] = [api[p] EXCEPT !.phase = "Running"] /\ events' = events /\ api[p].phase = "Pending"
      BY <1>4, <2>2 DEF KubeletStart
    <3> QED  BY <1>4, <3>1, ObjectUpdates DEF Live
  <2>3. CASE KubeletFinish(p)
    <3>1. api'[p] = [api[p] EXCEPT !.phase = "Done"]
      BY <1>4, <2>3 DEF KubeletFinish
    <3> QED  BY <1>4, <3>1, ObjectUpdates DEF Live
  <2>4. CASE KubeletRemove(p)
    <3>1. api'[p] = NoPod
      BY <1>4, <2>4 DEF KubeletRemove
    <3> QED  BY <3>1, NoPodTyped DEF Live
  <2> QED  BY <2>1, <2>2, <2>3, <2>4
<1>10. Keeps(p)
  BY <1>3, <1>5, <1>8, <1>9 DEF Keeps, Unresumed, NameOK, InHand, Live, loop
<1> QED  BY <1>7, <1>10

\* A pod is created under a fresh name, after everything that might still be alive under
\* an earlier one.
LEMMA LivesCreated ==
  ASSUME Base, Lives, [Next]_vars, NEW r \in Pods, Steady', Fresh(r), budget'.spent[r[1]] > 0,
         api' = [api EXCEPT ![r] = NewPod], resuming' \subseteq resuming,
         UNCHANGED <<events, watching, alloc, pendingEvictions, pc, gangs, standalone, todo, victims, toDelete>>,
         \A q \in Pods : q[1] = r[1] /\ r[2] < q[2] => Fresh(q),
         \A p \in Pods : p[1] = r[1] /\ p[2] < r[2] => ~Unresumed(p)'
  PROVE  Lives'
<1>1. Steady
  BY Past DEF Base
<1>2. api'[r] = NewPod /\ \A q \in Pods \ {r} : api'[q] = api[q]
  BY NoPodTyped, ObjectReplaced DEF Base
<1>3. \A q \in Pods \ {r} : Keeps(q)
  BY <1>1, <1>2 DEF Keeps, Fresh, Unresumed, Live, NameOK, InHand, Lives
<1>4. NameOK(r)'
  BY <1>2, NoPodTyped DEF NameOK, Live, Fresh, Base, Control
<1>5. \A p \in Pods : budget'.spent[p[1]] = 0 => budget.spent[p[1]] = 0 /\ p # r
  <2>1. \A p \in Pods : p[1] \in Kinds \cup Jobs
    BY PodNames
  <2>2. \A k \in Kinds \cup Jobs : budget.spent[k] \in Nat /\ budget'.spent[k] \in Nat /\ budget.spent[k] <= budget'.spent[k]
    BY History DEF Base, TypeOK
  <2> QED  BY <2>1, <2>2
<1>6. \A p \in Pods : NameOK(p)' /\ (budget'.spent[p[1]] = 0 => Fresh(p)')
  BY <1>1, <1>3, <1>4, <1>5 DEF Keeps, Lives
<1>7. ASSUME NEW p \in Pods, NEW q \in Pods, p[1] = q[1], p[2] < q[2], Unresumed(p)'
      PROVE  Fresh(q)'
  <2>1. p[2] \in Nat /\ q[2] \in Nat /\ r[2] \in Nat
    BY PodNames, WatcherAssumption
  <2>2. CASE p = r
    <3>1. q # r /\ Fresh(q)
      BY <1>7, <2>1, <2>2
    <3> QED  BY <1>3, <3>1 DEF Keeps
  <2>3. CASE p # r
    <3>1. Unresumed(p)
      BY <1>3, <1>7, <2>3 DEF Keeps
    <3>2. q # r
      BY <1>7
    <3>3. Fresh(q)
      BY <1>1, <1>7, <3>1 DEF Lives
    <3> QED  BY <1>3, <3>2, <3>3 DEF Keeps
  <2> QED  BY <2>2, <2>3
<1> QED  BY <1>6, <1>7 DEF Lives

\* A job is submitted while it has no instance.
LEMMA LivesUserCreate ==
  ASSUME Base, Lives, NEW j \in Jobs, UserCreate(j)
  PROVE  Lives'
<1>1. [Next]_vars
  BY DEF Next, Cluster
<1>2. CASE ~Steady'
  BY <1>2 DEF Lives
<1>3. CASE Steady'
  <2>1. PICK r \in Pods : r = <<j, 0>>
    BY PodNames
  <2>2. r[1] = j /\ r[2] = 0
    BY <2>1
  <2>3. budget.spent[j] = 0 /\ budget'.spent[j] > 0
    <3>1. budget.spent[j] \in Nat /\ budget'.spent[j] = budget.spent[j] + 1
      BY SpendTyped DEF UserCreate, Base, TypeOK
    <3> QED  BY <1>3, <3>1 DEF Steady
  <2>4. \A p \in Pods : p[1] = j => Fresh(p)
    BY <1>1, <1>3, <2>3, Past DEF Lives, Base
  <2>5. \A p \in Pods : ~(p[2] < 0)
    BY PodNames, WatcherAssumption
  <2> QED  BY <1>1, <1>3, <2>1, <2>2, <2>3, <2>4, <2>5, LivesCreated DEF UserCreate, loop
<1> QED  BY <1>2, <1>3

\* A resume pod follows a victim that is being deleted.
LEMMA LivesResume ==
  ASSUME Base, Lives, NEW v \in resuming, AutoResume(v)
  PROVE  Lives'
<1> USE DEF Base
<1>1. [Next]_vars
  BY DEF Next, Loop
<1>2. CASE ~Steady'
  BY <1>2 DEF Lives
<1>3. CASE Steady'
  <2>1. Steady
    BY <1>1, <1>3, Past
  <2>2. v \in Pods /\ v \in victims /\ v \notin toDelete
    BY DEF TypeOK, Control
  <2>3. resuming' = {} /\ UNCHANGED <<events, watching, alloc, pendingEvictions, pc, gangs, standalone, todo, victims, toDelete>>
    BY DEF AutoResume
  <2>4. CASE api' = api
    <3>1. \A p \in Pods : Keeps(p)
      BY <2>1, <2>3, <2>4 DEF Lives, Keeps, Fresh, Unresumed, Live, NameOK, InHand
    <3> QED  BY <1>1, <3>1, LivesKept
  <2>5. CASE api' # api
    <3>1. PICK r \in Pods : r = <<v[1], v[2] + 1>> /\ api' = [api EXCEPT ![r] = NewPod] /\ budget' = budget
      BY <2>5, ResumeEffect
    <3>2. r[1] = v[1] /\ r[2] = v[2] + 1 /\ \A p \in Pods : p[2] \in Nat
      BY <3>1, PodNames, WatcherAssumption
    <3>3. \A q \in Pods : q[1] = v[1] /\ v[2] < q[2] => Fresh(q)
      BY <2>1, <2>2 DEF Lives, Unresumed
    <3>4. Fresh(r) /\ \A q \in Pods : q[1] = r[1] /\ r[2] < q[2] => Fresh(q)
      BY <2>2, <3>2, <3>3
    <3>5. budget.spent[r[1]] > 0
      <4>1. budget.spent[v[1]] # 0
        BY <2>1, <2>2 DEF Lives, Fresh
      <4>2. budget.spent[v[1]] \in Nat
        BY <2>2, PodNames DEF TypeOK
      <4> QED  BY <3>2, <4>1, <4>2
    <3>6. ASSUME NEW p \in Pods, p[1] = r[1], p[2] < r[2]
          PROVE  ~Unresumed(p)'
      <4>1. api'[p] = api[p]
        BY <3>1, <3>2, <3>6
      <4>2. CASE p = v
        BY <2>1, <2>2, <2>3, <4>1, <4>2 DEF Lives, NameOK, Unresumed, Live
      <4>3. CASE p # v
        <5>1. p[2] < v[2]
          BY <2>2, <3>2, <3>6, <4>3, PodNames
        <5>2. ~Unresumed(p)
          BY <2>1, <2>2, <3>2, <3>6, <5>1 DEF Lives, Fresh
        <5> QED  BY <2>3, <4>1, <5>2 DEF Unresumed, Live
      <4> QED  BY <4>2, <4>3
    <3> QED  BY <1>1, <1>3, <2>3, <3>1, <3>4, <3>5, <3>6, LivesCreated
  <2> QED  BY <2>4, <2>5
<1> QED  BY <1>2, <1>3

\* The callbacks leave the pods alone.
LEMMA LivesInformer ==
  ASSUME Base, Lives, NEW p \in Pods, HandleEvent(p) \/ Resync(p)
  PROVE  Lives'
<1> USE DEF Base
<1>1. [Next]_vars
  BY DEF Next
<1> SUFFICES ASSUME Steady' PROVE \A q \in Pods : Keeps(q)
  BY <1>1, LivesKept
<1>2. Steady
  BY <1>1, Past
<1>3. \A q \in Pods : NameOK(q)
  BY <1>2 DEF Lives
<1>4. UNCHANGED <<api, pc, loop>>
  BY DEF HandleEvent, Resync
<1>5. CASE HandleEvent(p)
  <2>1. /\ events[p] # <<>> /\ \A q \in Pods \ {p} : events'[q] = events[q]
        /\ \A q \in Pods : alloc[q] = <<>> => alloc'[q] = <<>>
        /\ pendingEvictions \ {p} \subseteq pendingEvictions' /\ pendingEvictions' \subseteq pendingEvictions
    BY <1>5, ReleaseTyped DEF HandleEvent, TypeOK
  <2>2. ~Live(p)
    BY <1>3, <2>1 DEF NameOK
  <2> QED  BY <1>3, <1>4, <2>1, <2>2 DEF Keeps, Fresh, Unresumed, Live, NameOK, InHand, loop
<1>6. CASE Resync(p)
  <2>1. /\ \A q \in Pods \ {p} : events'[q] = events[q]
        /\ api[p].phase = "Done" /\ UNCHANGED <<alloc, pendingEvictions>>
    BY <1>6, EmitTyped DEF Resync
  <2> QED  BY <1>3, <1>4, <2>1, NoPodTyped DEF Keeps, Fresh, Unresumed, Live, NameOK, InHand, loop
<1> QED  BY <1>5, <1>6

\* Listing the pending pods leaves them alone.
LEMMA LivesCycle ==
  ASSUME Base, Lives, ProcessQueue \/ ProcessQueueDeferred \/ CycleDone
  PROVE  Lives'
<1> USE DEF Base
<1>1. [Next]_vars
  BY DEF Next, Loop
<1> SUFFICES ASSUME Steady' PROVE \A q \in Pods : Keeps(q)
  BY <1>1, LivesKept
<1>2. Steady
  BY <1>1, Past
<1>3. \A q \in Pods : NameOK(q)
  BY <1>2 DEF Lives
<1>4. UNCHANGED <<api, events, alloc, victims, toDelete, resuming, todo>>
  BY DEF ProcessQueue, ProcessQueueDeferred, CycleDone, cluster, loop
<1>5. /\ pendingEvictions' \subseteq pendingEvictions
      /\ \A q \in pendingEvictions \ pendingEvictions' : ~Exists(q)
  BY DEF ProcessQueue, ProcessQueueDeferred, CycleDone
<1>6. \A q \in Pods : InHand(q)' => InHand(q) \/ Unbound(q)
  BY CycleInHand
<1> QED  BY <1>3, <1>4, <1>5, <1>6, NoPodTyped DEF Keeps, Fresh, Unresumed, Live, NameOK, Exists, Unbound

\* Choosing GPUs or victims leaves the pods alone.
LEMMA LivesTurns ==
  ASSUME Base, Lives, \/ \E P \in gangs : ScheduleGang(P)
                      \/ \E p \in standalone : SchedulePod(p) \/ SkipInvalidPod(p) \/ NoCapacity(p) \/ Preempt(p)
  PROVE  Lives'
<1> USE DEF Base
<1>1. [Next]_vars
  BY DEF Next, Loop
<1> SUFFICES ASSUME Steady' PROVE \A q \in Pods : Keeps(q)
  BY <1>1, LivesKept
<1>2. Steady
  BY <1>1, Past
<1>3. \A q \in Pods : NameOK(q)
  BY <1>2 DEF Lives
<1>4. UNCHANGED <<api, events, alloc, pendingEvictions, resuming>>
  BY DEF ScheduleGang, SchedulePod, SkipInvalidPod, NoCapacity, Preempt, cluster
<1>5. \A q \in Pods : InHand(q)' => InHand(q)
  BY TurnsInHand
<1>6. \/ UNCHANGED <<victims, toDelete>>
      \/ /\ victims = {} /\ toDelete' = victims'
         /\ \A v \in victims' : api[v].phase = "Running" /\ v \notin pendingEvictions
  <2>1. ASSUME NEW p \in standalone, Preempt(p)
        PROVE  /\ victims = {} /\ toDelete' = victims'
               /\ \A v \in victims' : api[v].phase = "Running" /\ v \notin pendingEvictions
    BY <2>1, VictimShape DEF Preempt, NoRoom, Turn, Control, TypeOK
  <2> QED  BY <2>1 DEF ScheduleGang, SchedulePod, SkipInvalidPod, NoCapacity
<1> QED  BY <1>3, <1>4, <1>5, <1>6, NoPodTyped DEF Keeps, Fresh, Unresumed, Live, NameOK

\* A binding keeps the instance that it binds.
LEMMA LivesBind ==
  ASSUME Base, Lives, MarkPlacement \/ BindOK \/ BindFails
  PROVE  Lives'
<1> USE DEF Base
<1>1. [Next]_vars
  BY DEF Next, Loop
<1> SUFFICES ASSUME Steady' PROVE \A q \in Pods : Keeps(q)
  BY <1>1, LivesKept
<1>2. Steady
  BY <1>1, Past
<1>3. \A q \in Pods : NameOK(q)
  BY <1>2 DEF Lives
<1>4. todo # <<>>
  BY DEF MarkPlacement, BindOK, BindFails, Control
<1>5. PICK p \in Pods : p = todo[1].pod
  BY <1>4, FirstTyped
<1>6. InHand(p) /\ ~Fresh(p)
  BY <1>4, <1>5, FirstTyped DEF InHand, Fresh
<1>7. CASE MarkPlacement
  <2>1. UNCHANGED <<api, events, pendingEvictions, loop>> /\ \A q \in Pods \ {p} : alloc'[q] = alloc[q]
    BY <1>4, <1>5, <1>7, FirstTyped, MarkTyped DEF MarkPlacement, cluster
  <2> QED  BY <1>3, <1>6, <2>1 DEF Keeps, Fresh, Unresumed, Live, NameOK, InHand, loop
<1>8. CASE BindOK \/ BindFails
  <2>1. UNCHANGED <<events, pendingEvictions, victims, toDelete, resuming>>
    BY <1>8, SMTT(60) DEF BindOK, BindFails, BindReturns
  <2>2. \A q \in Pods \ {p} : alloc'[q] = alloc[q] /\ api'[q] = api[q]
    <3>1. Head(todo).pod = p
      BY <1>4, <1>5, FirstTyped
    <3> QED  BY <1>5, <1>8, <3>1, BindEffect, ReleaseTyped DEF BindOK, BindFails
  <2>3. (Live(p)' => Live(p)) /\ api'[p].term = api[p].term
    BY <1>5, <1>8, BindEffect DEF Live, Unbound
  <2>4. ~InHand(p)' /\ \A q \in Pods : InHand(q)' => InHand(q)
    BY <1>5, <1>8, BindInHand
  <2>5. \A q \in Pods \ {p} : Keeps(q)
    BY <1>3, <2>1, <2>2, <2>4 DEF Keeps, Fresh, Unresumed, Live, NameOK
  <2>6. Keeps(p)
    BY <1>3, <1>6, <2>1, <2>3, <2>4 DEF Keeps, Unresumed, Live, NameOK
  <2> QED  BY <2>5, <2>6
<1> QED  BY <1>7, <1>8

\* An evicted pod is being deleted before it may be resumed.
LEMMA LivesEvict ==
  ASSUME Base, Lives, (\E v \in toDelete : EvictVictim(v)) \/ ReleaseVictims
  PROVE  Lives'
<1> USE DEF Base
<1>1. [Next]_vars
  BY DEF Next, Loop
<1> SUFFICES ASSUME Steady' PROVE \A q \in Pods : Keeps(q)
  BY <1>1, LivesKept
<1>2. Steady
  BY <1>1, Past
<1>3. \A q \in Pods : NameOK(q)
  BY <1>2 DEF Lives
<1>4. ASSUME NEW v \in toDelete, EvictVictim(v)
      PROVE  \A q \in Pods : Keeps(q)
  <2>1. v \in Pods /\ v \in victims /\ ~Fresh(v) /\ Unresumed(v)
    BY DEF TypeOK, Control, Fresh, Unresumed
  <2>2. UNCHANGED <<alloc, pendingEvictions, gangs, standalone, todo, victims>> /\ toDelete' = toDelete \ {v} /\ resuming = {}
    BY <1>4 DEF EvictVictim
  <2>3. CASE Exists(v) /\ ApiDelete(v) /\ resuming' = {v}
    <3>1. /\ \A q \in Pods \ {v} : api'[q] = api[q] /\ events'[q] = events[q]
          /\ Live(v)' => api'[v].term /\ events' = events /\ Live(v)
          /\ api[v].node = NoNode => api'[v].node = NoNode
      BY <2>1, <2>3, ApiDeleted, NoPodTyped DEF Live
    <3>2. \A q \in Pods \ {v} : Keeps(q)
      BY <1>3, <2>2, <2>3, <3>1 DEF Keeps, Fresh, Unresumed, Live, NameOK, InHand
    <3>3. Keeps(v)
      BY <1>3, <2>1, <2>2, <2>3, <3>1 DEF Keeps, NameOK, InHand, Live
    <3> QED  BY <3>2, <3>3
  <2>4. CASE UNCHANGED <<api, events, resuming>>
    BY <1>3, <2>1, <2>2, <2>4 DEF Keeps, Fresh, Unresumed, Live, NameOK, InHand
  <2> QED  BY <1>4, <2>3, <2>4 DEF EvictVictim
<1>5. CASE ReleaseVictims
  <2>1. \A q \in Pods : alloc[q] = <<>> => alloc'[q] = <<>>
    BY <1>5, ReleaseTyped DEF ReleaseVictims
  <2> QED  BY <1>3, <1>5, <2>1 DEF ReleaseVictims, cluster, Control, Keeps, Fresh, Unresumed, Live, NameOK, InHand
<1> QED  BY <1>4, <1>5

\* A restart creates no pod.
LEMMA LivesRestart ==
  ASSUME Base, Lives, \/ Crash \/ InformerSync \/ ReconcileList \/ ReconcileDone
                      \/ \E r \in listed : ReconcileMark(r)
  PROVE  Lives'
<1>1. [Next]_vars
  BY DEF Next, Loop
<1>2. Steady' => InformerSync
  <2>1. Crash => Happened("crash")'
    <3>1. "crash" \in Kinds /\ budget.spent["crash"] \in Nat
      BY DEF Kinds, Base, TypeOK
    <3> QED  BY <3>1, SpendTyped DEF Crash, Happened, Base
  <2>2. Steady' => pc \notin {"boot", "reconcile"}
    BY <1>1, Past DEF Steady, Base, Control
  <2> QED  BY <2>1, <2>2 DEF Steady, ReconcileList, ReconcileDone, ReconcileMark
<1>3. Steady' => \A q \in Pods : Keeps(q)
  BY <1>1, <1>2, Past DEF InformerSync, Lives, Base, Keeps, Fresh, Unresumed, Live, NameOK, InHand, loop
<1> QED  BY <1>1, <1>3, LivesKept

\* Every step keeps one instance per job.
LEMMA LivesStep ==
  ASSUME Base, Lives, [Next]_vars
  PROVE  Lives'
<1>1. CASE UNCHANGED vars
  BY <1>1 DEF vars, cluster, loop, Lives, Steady, Happened, Fresh, Unresumed, Live, NameOK, InHand
<1>2. CASE Next
  BY <1>2, LivesUserCreate, LivesCluster, LivesInformer, LivesCycle, LivesTurns, LivesBind, LivesEvict,
     LivesResume, LivesRestart DEF Next, Cluster, Loop
<1> QED  BY <1>1, <1>2

\* No job has an instance at first.
LEMMA LivesInit == Init => Lives
<1> SUFFICES ASSUME Init PROVE Lives
  OBVIOUS
<1>1. \A p \in Pods : Fresh(p) /\ NameOK(p)
  BY DEF Init, Fresh, InHand, NameOK
<1> QED  BY <1>1 DEF Lives

\* At most one element.
LEMMA AtMostOne ==
  ASSUME NEW S, \A x, y \in S : x = y
  PROVE  Cardinality(S) <= 1
<1>1. CASE S = {}
  BY <1>1, FS_EmptySet
<1>2. CASE S # {}
  <2>1. PICK x : S = {x}
    BY <1>2
  <2>2. Cardinality({x}) = 1
    BY FS_Singleton
  <2> QED  BY <2>1, <2>2
<1> QED  BY <1>1, <1>2

\* Until the scheduler restarts, a job submitted once has one instance at a time that is
\* neither ended nor being deleted, whatever is evicted, refused or resumed (Preempt,
\* tryAutoResume).
THEOREM OneInstanceHolds == Spec => []OneInstance
<1>1. Init => Base /\ Lives
  BY BaseInit, LivesInit
<1>2. Base /\ Lives /\ [Next]_vars => (Base /\ Lives)'
  BY BaseStep, LivesStep
<1>3. Base /\ Lives => OneInstance
  <2> SUFFICES ASSUME Base, Lives, Steady, NEW j \in Jobs
               PROVE  Cardinality({p \in Pods : /\ p[1] = j /\ api[p].phase \in {"Pending", "Running"}
                                                /\ ~api[p].term}) <= 1
    BY DEF OneInstance
  <2> DEFINE S == {p \in Pods : p[1] = j /\ api[p].phase \in {"Pending", "Running"} /\ ~api[p].term}
  <2>1. \A p \in S : Unresumed(p) /\ ~Fresh(p)
    BY NoPodTyped DEF Unresumed, Live, Fresh
  <2>2. \A p, q \in S : p[2] < q[2] => FALSE
    BY <2>1 DEF Lives
  <2>3. \A p, q \in S : p = q
    BY <2>2, PodNames
  <2> QED  BY <2>3, AtMostOne
<1> QED  BY <1>1, <1>2, <1>3, PTL DEF Spec

-----------------------------------------------------------------------------
(* Jobs survive.                                                            *)

\* A job that is left alone was left alone before.
LEMMA AlonePast ==
  ASSUME Base, [Next]_vars
  PROVE  /\ LeftAlone' => LeftAlone
         /\ (\E k \in {"userDelete", "createError", "crash"} : Spend(k)) => ~LeftAlone'
<1>1. \A k \in Kinds \cup Jobs : budget.spent[k] \in Nat /\ budget'.spent[k] \in Nat /\ budget.spent[k] <= budget'.spent[k]
  BY History DEF Base, TypeOK
<1>2. {"userDelete", "createError", "crash"} \subseteq Kinds
  BY DEF Kinds
<1>3. LeftAlone' => LeftAlone
  BY <1>1, <1>2, Past DEF LeftAlone, Happened, Base
<1>4. ASSUME NEW k \in {"userDelete", "createError", "crash"}, Spend(k)
      PROVE  Happened(k)'
  BY <1>1, <1>2, <1>4, SpendTyped DEF Base, Happened
<1> QED  BY <1>3, <1>4 DEF LeftAlone, Steady

\* A fault is no submission.
LEMMA FaultSpent ==
  ASSUME TypeOK, budget' = budget \/ \E k \in Kinds : Spend(k)
  PROVE  \A j \in Jobs : budget'.spent[j] = budget.spent[j]
BY SpendTyped, WatcherAssumption

\* A step that submits no job and drops no instance.
LEMMA SurvivalKept ==
  ASSUME Base, Survival, [Next]_vars, gaveUp' = gaveUp,
         \A j \in Jobs : budget'.spent[j] = budget.spent[j],
         LeftAlone' => \A p \in Pods : Carries(p) => Carries(p)'
  PROVE  Survival'
BY AlonePast DEF Survival, Happened

\* Every step keeps the jobs alive.
LEMMA SurvivalStep ==
  ASSUME Base, Lives, Survival, [Next]_vars
  PROVE  Survival'
<1> USE DEF Base
<1>1. ASSUME NEW j \in Jobs, UserCreate(j)
      PROVE  Survival'
  <2>1. PICK r \in Pods : r = <<j, 0>>
    BY PodNames
  <2>2. api' = [api EXCEPT ![r] = NewPod] /\ UNCHANGED <<resuming, gaveUp>>
    BY <1>1, <2>1 DEF UserCreate, loop
  <2>3. api'[r] = NewPod /\ \A q \in Pods \ {r} : api'[q] = api[q]
    BY <2>2, NoPodTyped, ObjectReplaced
  <2>4. Carries(r)' /\ \A q \in Pods : Carries(q) => Carries(q)'
    BY <2>2, <2>3, NoPodTyped DEF Carries, Exists
  <2>5. \A k \in Jobs \ {j} : budget'.spent[k] = budget.spent[k]
    BY <1>1, SpendTyped DEF UserCreate
  <2>6. r[1] = j
    BY <2>1
  <2> QED  BY <2>1, <2>2, <2>4, <2>5, <2>6, AlonePast DEF Survival, Happened
<1>2. ASSUME NEW p \in Pods, UserDelete(p)
      PROVE  Survival'
  BY <1>2, AlonePast DEF UserDelete, Survival
<1>3. ASSUME NEW p \in Pods, KubeletStart(p) \/ KubeletFinish(p) \/ KubeletRemove(p)
      PROVE  Survival'
  <2>1. /\ \A q \in Pods \ {p} : api'[q] = api[q]
        /\ api[p].term \/ (api'[p].phase # "none" /\ api'[p].term = api[p].term)
    <3>1. api \in [Pods -> PodObject]
      BY DEF TypeOK, PodObject
    <3>2. CASE KubeletStart(p)
      BY <3>1, <3>2, ObjectUpdates DEF KubeletStart
    <3>3. CASE KubeletFinish(p)
      BY <3>1, <3>3, ObjectUpdates DEF KubeletFinish
    <3>4. CASE KubeletRemove(p)
      BY <3>1, <3>4 DEF KubeletRemove
    <3> QED  BY <1>3, <3>2, <3>3, <3>4
  <2>2. UNCHANGED <<resuming, gaveUp, budget>>
    BY <1>3 DEF KubeletStart, KubeletFinish, KubeletRemove, loop
  <2>3. \A q \in Pods : Carries(q) => Carries(q)'
    BY <2>1, <2>2 DEF Carries, Exists
  <2> QED  BY <2>2, <2>3, SurvivalKept
<1>4. ASSUME UNCHANGED <<api, resuming, gaveUp>>, \A j \in Jobs : budget'.spent[j] = budget.spent[j]
      PROVE  Survival'
  BY <1>4, SurvivalKept DEF Carries, Exists
<1>5. CASE BindOK \/ BindFails
  <2>1. PICK p \in Pods : p = todo[1].pod
    BY <1>5, BindEffect
  <2>2. /\ \A q \in Pods \ {p} : api'[q] = api[q]
        /\ Exists(p) => api'[p].phase # "none" /\ api'[p].term = api[p].term
    BY <1>5, <2>1, BindEffect DEF Exists, Unbound
  <2>3. UNCHANGED <<resuming, gaveUp>> /\ \A j \in Jobs : budget'.spent[j] = budget.spent[j]
    BY <1>5, FaultSpent DEF BindOK, BindFails, BindReturns, Kinds
  <2>4. \A q \in Pods : Carries(q) => Carries(q)'
    BY <2>2, <2>3 DEF Carries, Exists
  <2> QED  BY <2>3, <2>4, SurvivalKept
<1>6. ASSUME NEW v \in toDelete, EvictVictim(v)
      PROVE  Survival'
  <2>1. v \in Pods /\ gaveUp' = gaveUp /\ resuming = {}
    BY <1>6 DEF EvictVictim, TypeOK
  <2>2. \A j \in Jobs : budget'.spent[j] = budget.spent[j]
    <3>1. budget' = budget \/ Spend("evictError")
      BY <1>6 DEF EvictVictim
    <3> QED  BY <3>1, FaultSpent DEF Kinds
  <2>3. CASE Exists(v) /\ ApiDelete(v) /\ resuming' = {v}
    <3>1. \A q \in Pods \ {v} : api'[q] = api[q]
      BY <2>1, <2>3, ApiDeleted
    <3>2. \A q \in Pods : Carries(q) => Carries(q)'
      BY <2>1, <2>3, <3>1 DEF Carries, Exists
    <3> QED  BY <2>1, <2>2, <3>2, SurvivalKept
  <2>4. CASE UNCHANGED <<api, resuming>>
    BY <1>4, <2>1, <2>2, <2>4
  <2> QED  BY <1>6, <2>3, <2>4 DEF EvictVictim
<1>7. ASSUME NEW v \in resuming, AutoResume(v)
      PROVE  Survival'
  <2> SUFFICES ASSUME LeftAlone', NEW j \in Jobs, Happened(j)', JobSpec[j].autoResume, j \notin gaveUp'
               PROVE  \E p \in Pods : p[1] = j /\ Carries(p)'
    BY DEF Survival
  <2>1. LeftAlone /\ Steady
    BY AlonePast DEF LeftAlone
  <2>2. Happened(j)
    <3>1. budget' = budget \/ Spend("createError")
      BY <1>7 DEF AutoResume
    <3>2. budget'.spent[j] = budget.spent[j]
      BY <3>1, FaultSpent DEF Kinds
    <3> QED  BY <3>2 DEF Happened
  <2>3. j \notin gaveUp
    BY <1>7 DEF AutoResume
  <2>4. PICK p \in Pods : p[1] = j /\ Carries(p)
    BY <2>1, <2>2, <2>3 DEF Survival
  <2>5. CASE Exists(p) /\ ~api[p].term
    <3>1. api'[p] = api[p] \/ api'[p] = NewPod
      BY <1>7, ResumeEffect DEF TypeOK
    <3> QED  BY <2>4, <2>5, <3>1, NoPodTyped DEF Carries, Exists
  <2>6. CASE p \in resuming
    <3>1. p = v /\ v \in Pods /\ v[1] = j /\ JobOf(v) = JobSpec[j]
      BY <2>4, <2>6 DEF Control, TypeOK, JobOf
    <3>2. ~Spend("createError")
      BY AlonePast
    <3>3. v[2] + 1 <= MaxRetries
      <4>1. ~(v[2] + 1 > MaxRetries)
        BY <1>7, <3>1 DEF AutoResume
      <4> QED  BY <3>1, <4>1, PodNames, WatcherAssumption
    <3>4. PICK r \in Pods : r = <<v[1], v[2] + 1>>
      BY <3>1, <3>3, PodNames
    <3>5. r[1] = j /\ v[2] < r[2]
      BY <3>1, <3>4, PodNames, WatcherAssumption
    <3>6. Fresh(r)
      BY <2>1, <3>1, <3>5 DEF Lives, Unresumed
    <3>7. api' = [api EXCEPT ![r] = NewPod]
      BY <1>7, <3>1, <3>2, <3>3, <3>4, <3>6, NoPodTyped DEF AutoResume, Exists, Fresh
    <3>8. api'[r] = NewPod
      BY <3>7, NoPodTyped, ObjectReplaced
    <3> QED  BY <3>5, <3>8, NoPodTyped DEF Carries, Exists
  <2> QED  BY <2>4, <2>5, <2>6 DEF Carries
<1>8. CASE Crash
  BY <1>8, AlonePast DEF Crash, Survival
<1>9. CASE UNCHANGED vars
  BY <1>4, <1>9 DEF vars, cluster, loop
<1>10. CASE \E p \in Pods : HandleEvent(p) \/ Resync(p)
  BY <1>4, <1>10 DEF HandleEvent, Resync, loop
<1>11. CASE ProcessQueue \/ ProcessQueueDeferred \/ CycleDone \/ \E P \in gangs : ScheduleGang(P)
  BY <1>4, <1>11 DEF ProcessQueue, ProcessQueueDeferred, CycleDone, ScheduleGang, cluster, loop
<1>12. CASE \E p \in standalone : SchedulePod(p) \/ SkipInvalidPod(p) \/ NoCapacity(p) \/ Preempt(p)
  BY <1>4, <1>12 DEF SchedulePod, SkipInvalidPod, NoCapacity, Preempt, cluster
<1>13. CASE MarkPlacement \/ ReleaseVictims \/ InformerSync
  BY <1>4, <1>13 DEF MarkPlacement, ReleaseVictims, InformerSync, cluster, loop
<1>14. CASE ReconcileList \/ ReconcileDone \/ \E r \in listed : ReconcileMark(r)
  BY <1>4, <1>14 DEF ReconcileList, ReconcileDone, ReconcileMark, cluster, loop
<1> QED  BY <1>1, <1>2, <1>3, <1>5, <1>6, <1>7, <1>8, <1>9, <1>10, <1>11, <1>12, <1>13, <1>14
            DEF Next, Cluster, Loop

\* An auto-resume job that the user left alone is never lost while the scheduler runs: at
\* every moment of an eviction it lives, has ended, is about to be re-created, or was
\* reported to be out of retries (Preempt, tryAutoResume).
THEOREM JobSurvivesHolds == Spec => []JobSurvives
<1>1. Init => Base /\ Lives /\ Survival
  <2>1. Init => Survival
    BY DEF Init, Survival, Happened
  <2> QED  BY <2>1, BaseInit, LivesInit
<1>2. Base /\ Lives /\ Survival /\ [Next]_vars => (Base /\ Lives /\ Survival)'
  BY BaseStep, LivesStep, SurvivalStep
<1>3. Survival => JobSurvives
  BY DEF Survival, LeftAlone, Carries, JobSurvives
<1> QED  BY <1>1, <1>2, <1>3, PTL DEF Spec

-----------------------------------------------------------------------------
(* Nothing leaks.                                                           *)

\* A step after which the reservation of p is gone, or as well backed as before.
Accounts(p) == \/ alloc'[p] = <<>>
               \/ Backed(p)' \/ Binding(p)'
               \/ alloc'[p] = alloc[p] /\ ~Backed(p) /\ ~Binding(p)

\* It is enough that every reservation stays accounted for.
LEMMA LedgeredKept ==
  ASSUME Base, Ledgered, [Next]_vars,
         ~Happened("crash")' => \A p \in Pods : JobOf(p).gpuPod => Accounts(p)
  PROVE  Ledgered'
BY Past DEF Ledgered, Accounts, Base

\* Deleting an object queues an event or leaves it bound.
LEMMA DeleteBacks ==
  ASSUME Base, NEW p \in Pods, Exists(p), watching, ApiDelete(p)
  PROVE  Backed(p)' /\ \A q \in Pods \ {p} : Backed(q)' = Backed(q)
<1>1. \A q \in Pods \ {p} : api'[q] = api[q] /\ events'[q] = events[q]
  BY ApiDeleted DEF Base
<1>2. \/ events'[p] # <<>>
      \/ ~Unbound(p) /\ api'[p].phase = api[p].phase /\ api'[p].node = api[p].node
  BY ApiDeleted DEF Base
<1> QED  BY <1>1, <1>2 DEF Backed, Exists, Unbound

\* What ends a pod also queues the event that releases it.
LEMMA LedgeredCluster ==
  ASSUME Base, Ledgered, Cluster
  PROVE  Ledgered'
<1> USE DEF Base
<1>1. [Next]_vars
  BY DEF Next
<1> SUFFICES ASSUME ~Happened("crash")' PROVE \A p \in Pods : Accounts(p)
  BY <1>1, LedgeredKept
<1>2. watching /\ UNCHANGED <<alloc, pc, todo>>
  BY <1>1, Past DEF Control, Cluster, UserCreate, UserDelete, KubeletStart, KubeletFinish, KubeletRemove, loop
<1>3. \A p \in Pods : Binding(p) => Binding(p)'
  BY <1>2 DEF Binding
<1>4. SUFFICES \A p \in Pods : Backed(p) => Backed(p)'
  BY <1>2, <1>3 DEF Accounts
<1>5. ASSUME NEW j \in Jobs, UserCreate(j)
      PROVE  \A p \in Pods : Backed(p) => Backed(p)'
  BY <1>5 DEF UserCreate, Backed, Exists, Unbound, TypeOK
<1>6. ASSUME NEW p \in Pods, UserDelete(p)
      PROVE  \A q \in Pods : Backed(q) => Backed(q)'
  BY <1>2, <1>6, DeleteBacks DEF UserDelete
<1>7. ASSUME NEW p \in Pods, KubeletStart(p)
      PROVE  \A q \in Pods : Backed(q) => Backed(q)'
  <2>1. api'[p].phase = "Running" /\ events' = events /\ \A q \in Pods \ {p} : api'[q] = api[q]
    <3>1. api \in [Pods -> PodObject] /\ api' = [api EXCEPT ![p] = [api[p] EXCEPT !.phase = "Running"]]
      BY <1>7 DEF KubeletStart, TypeOK, PodObject
    <3> QED  BY <1>7, <3>1, ObjectUpdates DEF KubeletStart
  <2> QED  BY <2>1 DEF Backed, Exists, Unbound
<1>8. ASSUME NEW p \in Pods, KubeletFinish(p) \/ KubeletRemove(p)
      PROVE  \A q \in Pods : Backed(q) => Backed(q)'
  <2>1. events'[p] # <<>> /\ \A q \in Pods \ {p} : api'[q] = api[q] /\ events'[q] = events[q]
    BY <1>2, <1>8, EmitTyped DEF KubeletFinish, KubeletRemove, TypeOK
  <2> QED  BY <2>1 DEF Backed, Exists, Unbound
<1> QED  BY <1>5, <1>6, <1>7, <1>8 DEF Cluster

\* Every step keeps the reservations accounted for.
LEMMA LedgeredStep ==
  ASSUME Base, Ledgered, [Next]_vars
  PROVE  Ledgered'
<1> USE DEF Base
<1>1. CASE Cluster
  BY <1>1, LedgeredCluster
<1>2. ASSUME NEW p \in Pods, HandleEvent(p) \/ Resync(p)
      PROVE  Ledgered'
  <2>1. UNCHANGED <<api, pc, todo>> /\ \A q \in Pods \ {p} : events'[q] = events[q] /\ alloc'[q] = alloc[q]
    BY <1>2, ReleaseTyped, EmitTyped DEF HandleEvent, Resync, loop, TypeOK
  <2>2. JobOf(p).gpuPod => alloc'[p] = <<>> \/ (alloc'[p] = alloc[p] /\ (watching => events'[p] # <<>>))
    BY <1>2, ReleaseTyped, EmitTyped DEF HandleEvent, Resync
  <2>3. ~Happened("crash")' => watching
    BY Past DEF Control
  <2>4. ~Happened("crash")' => \A q \in Pods : JobOf(q).gpuPod => Accounts(q)
    BY <2>1, <2>2, <2>3 DEF Accounts, Backed, Binding, Exists, Unbound
  <2> QED  BY <2>4, LedgeredKept
<1>3. CASE MarkPlacement
  <2>1. PICK p \in Pods : p = todo[1].pod
    BY <1>3, FirstTyped DEF MarkPlacement, Control
  <2>2. UNCHANGED <<api, events, todo>> /\ pc = "mark" /\ pc' = "bind" /\ \A q \in Pods \ {p} : alloc'[q] = alloc[q]
    BY <1>3, <2>1, FirstTyped, MarkTyped DEF MarkPlacement, cluster, loop, Control
  <2>3. \A q \in Pods : Accounts(q)
    BY <2>1, <2>2 DEF Accounts, Backed, Binding, Exists, Unbound
  <2> QED  BY <2>3, LedgeredKept
<1>4. CASE BindOK \/ BindFails
  <2>1. PICK p \in Pods : p = todo[1].pod
    BY <1>4, BindEffect
  <2>2. UNCHANGED events /\ pc = "bind" /\ Head(todo).pod = p
    BY <1>4, <2>1, FirstTyped, SMTT(60) DEF BindOK, BindFails, BindReturns, Control
  <2>3. \A q \in Pods \ {p} : alloc'[q] = alloc[q] /\ api'[q] = api[q]
    BY <1>4, <2>1, <2>2, BindEffect, ReleaseTyped DEF BindOK, BindFails
  <2>4. alloc'[p] = <<>> \/ (api'[p].phase = "Pending" /\ api'[p].node # NoNode)
    <3>1. CASE BindOK
      BY <2>1, <3>1, BindDetail
    <3>2. CASE BindFails
      BY <2>2, <3>2, ReleaseTyped DEF BindFails
    <3> QED  BY <1>4, <3>1, <3>2
  <2>5. \A q \in Pods : Accounts(q)
    BY <2>1, <2>2, <2>3, <2>4 DEF Accounts, Backed, Binding, Exists, Unbound
  <2> QED  BY <2>5, LedgeredKept

<1>5. ASSUME NEW v \in toDelete, EvictVictim(v)
      PROVE  Ledgered'
  <2>1. v \in Pods /\ UNCHANGED <<alloc, pc, todo>>
    BY <1>5 DEF EvictVictim, TypeOK
  <2>2. ~Happened("crash")' => \A q \in Pods : Backed(q) => Backed(q)'
    <3>1. CASE Exists(v) /\ ApiDelete(v)
      BY <2>1, <3>1, DeleteBacks, Past DEF Control
    <3>2. CASE UNCHANGED <<api, events>>
      BY <3>2 DEF Backed, Exists, Unbound
    <3> QED  BY <1>5, <3>1, <3>2 DEF EvictVictim
  <2>3. ~Happened("crash")' => \A q \in Pods : Accounts(q)
    BY <2>1, <2>2 DEF Accounts, Binding
  <2> QED  BY <2>3, LedgeredKept
<1>6. ASSUME NEW v \in resuming, AutoResume(v)
      PROVE  Ledgered'
  <2>1. UNCHANGED <<events, alloc, pc, todo>> /\ pc = "evict"
    BY <1>6 DEF AutoResume
  <2>2. \A q \in Pods : Exists(q) => api'[q] = api[q]
    BY <1>6 DEF AutoResume, TypeOK, Exists
  <2>3. \A q \in Pods : Accounts(q)
    BY <2>1, <2>2 DEF Accounts, Binding, Backed, Exists, Unbound
  <2> QED  BY <2>3, LedgeredKept
<1>7. ASSUME UNCHANGED <<api, events>>, pc # "bind", \A p \in Pods : alloc'[p] \in {<<>>, alloc[p]}
      PROVE  Ledgered'
  BY <1>7, LedgeredKept DEF Accounts, Binding, Backed, Exists, Unbound
<1>8. CASE ReleaseVictims
  <2>1. \A p \in Pods : alloc'[p] \in {<<>>, alloc[p]}
    BY <1>8, ReleaseTyped DEF ReleaseVictims
  <2> QED  BY <1>7, <1>8, <2>1 DEF ReleaseVictims, cluster
<1>9. CASE Crash
  <2>1. Happened("crash")'
    <3>1. "crash" \in Kinds /\ budget.spent["crash"] \in Nat
      BY DEF Kinds, TypeOK
    <3> QED  BY <1>9, <3>1, SpendTyped DEF Crash, Happened
  <2> QED  BY <2>1 DEF Ledgered
<1>10. CASE UNCHANGED vars \/ InformerSync
  BY <1>10, LedgeredKept DEF vars, cluster, loop, InformerSync, Accounts, Binding, Backed, Exists, Unbound
<1>11. CASE ProcessQueue \/ ProcessQueueDeferred \/ CycleDone \/ \E P \in gangs : ScheduleGang(P)
  BY <1>7, <1>11 DEF ProcessQueue, ProcessQueueDeferred, CycleDone, ScheduleGang, cluster
<1>12. CASE \E p \in standalone : SchedulePod(p) \/ SkipInvalidPod(p) \/ NoCapacity(p) \/ Preempt(p)
  BY <1>7, <1>12 DEF SchedulePod, SkipInvalidPod, NoCapacity, Preempt, NoRoom, Turn, cluster
<1>13. CASE ReconcileList \/ ReconcileDone \/ \E r \in listed : ReconcileMark(r)
  <2>1. pc \in {"boot", "reconcile"}
    BY <1>13 DEF ReconcileList, ReconcileDone, ReconcileMark
  <2>2. Happened("crash")'
    BY <2>1, Past DEF Control
  <2> QED  BY <2>2 DEF Ledgered
<1> QED  BY <1>1, <1>2, <1>3, <1>4, <1>5, <1>6, <1>8, <1>9, <1>10, <1>11, <1>12, <1>13 DEF Next, Loop

\* Without a restart no reservation is left behind: between two cycles each one belongs to
\* a pod that was bound and still exists, or whose end the informer is about to report,
\* even if names are used again (UpdateFunc, DeleteFunc, rollbackPlacementReservation).
THEOREM NoLeakHolds == Spec => []NoLeak
<1>1. Init => Base /\ Ledgered
  <2>1. Init => Ledgered
    BY DEF Init, Ledgered
  <2> QED  BY <2>1, BaseInit
<1>2. Base /\ Ledgered /\ [Next]_vars => (Base /\ Ledgered)'
  BY BaseStep, LedgeredStep
<1>3. Ledgered => NoLeak
  BY DEF Ledgered, NoLeak, Accounted, Backed, Binding
<1> QED  BY <1>1, <1>2, <1>3, PTL DEF Spec

=============================================================================
