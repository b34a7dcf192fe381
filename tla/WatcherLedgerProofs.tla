------------------------ MODULE WatcherLedgerProofs ------------------------
(***************************************************************************)
(* Proofs that the registry's ledger is right about the cluster (a pod is  *)
(* entered once, whatever is bound is reserved), that gangs are bound      *)
(* whole, and that the loop never overbooks a GPU: what the registry holds *)
(* fits, what is planned still fits when it is entered, and what the       *)
(* cluster runs is part of what the registry holds.                        *)
(***************************************************************************)
EXTENDS WatcherProofs

-----------------------------------------------------------------------------
(* A pod is entered once.                                                   *)

\* Whatever may still be entered has no entry.
EntryOK(p) ==
  /\ budget.spent[p[1]] = 0 => alloc[p] = <<>> /\ ~Exists(p) /\ ~InHand(p)
  /\ (Unbound(p) \/ InHand(p)) /\ ~Binding(p) => alloc[p] = <<>>
  /\ InHand(p) => api[p].node = NoNode
  /\ \A r \in listed : r.pod = p => alloc[p] = <<>> /\ budget.spent[p[1]] > 0 /\ api[p].phase # "Pending"
  /\ Len(alloc[p]) <= JobOf(p).gpuCount
Entries == \A p \in Pods : Single(p) => EntryOK(p)

\* A step that enters nothing for p, creates nothing of its name and does not take it in hand.
Spares(p) ==
  /\ alloc'[p] \in {<<>>, alloc[p]}
  /\ Exists(p)' => Exists(p)
  /\ Unbound(p)' => Unbound(p)
  /\ api'[p].phase = "Pending" => api[p].phase = "Pending"
  /\ InHand(p)' => InHand(p) /\ api'[p].node \in {NoNode, api[p].node}
  /\ Binding(p) => Binding(p)' \/ alloc'[p] = <<>> \/ (~Unbound(p)' /\ ~InHand(p)')
  /\ listed' \subseteq listed

\* A pod whose entries and placements a step spares keeps to its entries.
LEMMA EntryKept ==
  ASSUME Base, [Next]_vars, NEW p \in Pods, EntryOK(p), Spares(p)
  PROVE  EntryOK(p)'
<1>1. /\ budget.spent[p[1]] \in Nat /\ budget'.spent[p[1]] \in Nat
      /\ budget.spent[p[1]] <= budget'.spent[p[1]]
  BY History, PodNames DEF Base, TypeOK
<1>2. JobOf(p).gpuCount \in Nat /\ Len(<<>>) = 0
  BY WatcherAssumption DEF JobOf, Pods
<1>3. (budget'.spent[p[1]] = 0 => budget.spent[p[1]] = 0) /\ (budget.spent[p[1]] > 0 => budget'.spent[p[1]] > 0)
  BY <1>1
<1>4. Len(alloc'[p]) <= JobOf(p).gpuCount
  BY <1>2 DEF EntryOK, Spares
<1> QED  BY <1>3, <1>4 DEF EntryOK, Spares

\* It is enough to look at the pods a step does not spare.
LEMMA EntriesKept ==
  ASSUME Base, Entries, [Next]_vars,
         \A p \in Pods : Single(p)' /\ EntryOK(p) => EntryOK(p)' \/ Spares(p)
  PROVE  Entries'
<1>1. \A p \in Pods : Single(p)' => EntryOK(p)
  BY Past DEF Base, Entries
<1>2. \A p \in Pods : EntryOK(p) /\ Spares(p) => EntryOK(p)'
  BY EntryKept
<1> QED  BY <1>1, <1>2 DEF Entries

\* Users and kubelets add no entries.
LEMMA EntriesCluster ==
  ASSUME Base, Entries, Cluster
  PROVE  Entries'
<1> USE DEF Base
<1>1. [Next]_vars
  BY DEF Next
<1>2. UNCHANGED <<alloc, pc, loop>>
  BY DEF Cluster, UserCreate, UserDelete, KubeletStart, KubeletFinish, KubeletRemove
<1>3. \A p \in Pods : /\ InHand(p)' = InHand(p) /\ Binding(p)' = Binding(p)
                      /\ api'[p] = api[p] => Spares(p)
  BY <1>2 DEF Spares, InHand, Binding, Exists, Unbound, loop
<1>4. ASSUME NEW j \in Jobs, UserCreate(j)
      PROVE  Entries'
  <2>1. PICK p \in Pods : p = <<j, 0>>
    BY PodNames
  <2>2. p[1] = j /\ api'[p] = NewPod /\ \A q \in Pods \ {p} : api'[q] = api[q]
    BY <1>4, <2>1, NoPodTyped, ObjectReplaced DEF UserCreate
  <2>3. budget.spent[j] \in Nat /\ budget'.spent[j] = budget.spent[j] + 1
    BY <1>4, SpendTyped DEF UserCreate, TypeOK
  <2>4. Single(p)' => budget.spent[p[1]] = 0
    BY <2>2, <2>3 DEF Single
  <2>5. Single(p)' /\ EntryOK(p) => EntryOK(p)'
    BY <1>2, <1>3, <2>2, <2>3, <2>4, NoPodTyped DEF EntryOK, loop
  <2> QED  BY <1>1, <1>3, <2>2, <2>5, EntriesKept
<1>5. ASSUME NEW p \in Pods, UserDelete(p) \/ KubeletStart(p) \/ KubeletFinish(p) \/ KubeletRemove(p)
      PROVE  Entries'
  <2>1. /\ \A q \in Pods \ {p} : api'[q] = api[q]
        /\ api'[p] = NoPod \/ (/\ api'[p].node = api[p].node /\ api[p].phase # "none"
                               /\ api'[p].phase = api[p].phase \/ api'[p].phase \in {"Running", "Done"})
    <3>1. api \in [Pods -> PodObject]
      BY DEF TypeOK, PodObject
    <3>2. CASE UserDelete(p)
      BY <3>2, ApiDeleted DEF UserDelete, Exists
    <3>3. CASE KubeletStart(p)
      BY <3>1, <3>3, ObjectUpdates DEF KubeletStart
    <3>4. CASE KubeletFinish(p)
      BY <3>1, <3>4, ObjectUpdates DEF KubeletFinish
    <3>5. CASE KubeletRemove(p)
      BY <3>1, <3>5 DEF KubeletRemove
    <3> QED  BY <1>5, <3>2, <3>3, <3>4, <3>5
  <2>2. Spares(p)
    BY <1>2, <1>3, <2>1, NoPodTyped DEF Spares, Exists, Unbound, loop
  <2> QED  BY <1>1, <1>3, <2>1, <2>2, EntriesKept
<1> QED  BY <1>4, <1>5 DEF Cluster

\* A pod is marked when it has no entries yet.
LEMMA EntriesMark ==
  ASSUME Base, Entries, MarkPlacement
  PROVE  Entries'
<1> USE DEF Base
<1>1. [Next]_vars
  BY DEF Next, Loop
<1>2. pc = "mark" /\ pc' = "bind" /\ todo # <<>> /\ UNCHANGED <<api, budget, loop>> /\ listed = {}
  BY DEF MarkPlacement, Control, cluster
<1>3. PICK p \in Pods : p = todo[1].pod
  BY <1>2, FirstTyped
<1>4. Mark(p, todo[1].gpus, todo[1].mem)
  BY <1>2, <1>3, FirstTyped DEF MarkPlacement
<1>5. \A q \in Pods \ {p} : alloc'[q] = alloc[q]
  BY <1>2, <1>4, FirstTyped, MarkTyped
<1>6. alloc[p] = <<>> => Len(alloc'[p]) = JobOf(p).gpuCount
  <2>1. Len(alloc'[p]) = Len(alloc[p]) + Cardinality(todo[1].gpus) /\ Cardinality(todo[1].gpus) \in Nat
    BY <1>2, <1>4, FirstTyped, MarkTyped
  <2>2. Cardinality(todo[1].gpus) = JobOf(p).gpuCount
    BY <1>2, <1>3, FirstTyped
  <2> QED  BY <2>1, <2>2
<1>7. \A q \in Pods : InHand(q)' = InHand(q)
  BY <1>2 DEF InHand, loop
<1>8. \A q \in Pods \ {p} : Spares(q)
  BY <1>2, <1>3, <1>5, <1>7 DEF Spares, Exists, Unbound, Binding, loop
<1>9. EntryOK(p) => EntryOK(p)'
  <2>1. InHand(p) /\ ~Binding(p) /\ Binding(p)'
    BY <1>2, <1>3, FirstTyped DEF InHand, Binding, loop
  <2>2. SUFFICES ASSUME EntryOK(p) PROVE EntryOK(p)'
    OBVIOUS
  <2>3. alloc[p] = <<>> /\ budget'.spent[p[1]] # 0 /\ listed' = {} /\ api'[p].node = NoNode
    BY <1>2, <2>1, <2>2 DEF EntryOK, loop
  <2>4. Len(alloc'[p]) <= JobOf(p).gpuCount
    <3>1. JobOf(p).gpuCount \in Nat
      BY WatcherAssumption DEF JobOf, Pods
    <3> QED  BY <1>6, <2>3, <3>1
  <2> QED  BY <2>1, <2>3, <2>4 DEF EntryOK
<1> QED  BY <1>1, <1>8, <1>9, EntriesKept

\* A binding adds no entries, a refused one removes them.
LEMMA EntriesBind ==
  ASSUME Base, Entries, BindOK \/ BindFails
  PROVE  Entries'
<1> USE DEF Base
<1>1. [Next]_vars
  BY DEF Next, Loop
<1>2. PICK p \in Pods : p = todo[1].pod
  BY BindEffect
<1>3. pc = "bind" /\ todo # <<>> /\ listed' = listed /\ Head(todo).pod = p
  BY <1>2, FirstTyped, SMTT(60) DEF BindOK, BindFails, BindReturns, Control
<1>4. \A q \in Pods \ {p} : alloc'[q] = alloc[q] /\ api'[q] = api[q]
  BY <1>2, <1>3, BindEffect, ReleaseTyped DEF BindOK, BindFails
<1>5. ~InHand(p)' /\ \A q \in Pods : InHand(q)' => InHand(q)
  BY <1>2, BindInHand
<1>6. \A q \in Pods \ {p} : Spares(q)
  BY <1>2, <1>3, <1>4, <1>5 DEF Spares, Exists, Unbound, Binding
<1>7. /\ alloc'[p] \in {<<>>, alloc[p]}
      /\ alloc'[p] = <<>> \/ ~Unbound(p)'
  <2>1. CASE BindOK
    BY <1>2, <2>1, BindDetail DEF BindOK, Unbound
  <2>2. CASE BindFails
    BY <1>3, <2>2, ReleaseTyped DEF BindFails
  <2> QED  BY <2>1, <2>2, SMTT(60)
<1>8. (Exists(p)' => Exists(p)) /\ (Unbound(p)' => Unbound(p)) /\ (api'[p].phase = "Pending" => api[p].phase = "Pending")
  BY <1>2, BindEffect DEF Exists, Unbound
<1>9. Spares(p)
  BY <1>3, <1>5, <1>7, <1>8 DEF Spares
<1> QED  BY <1>1, <1>6, <1>9, EntriesKept

\* A resume pod starts without entries.
LEMMA EntriesResume ==
  ASSUME Base, Lives, Entries, NEW v \in resuming, AutoResume(v)
  PROVE  Entries'
<1> USE DEF Base
<1>1. [Next]_vars
  BY DEF Next, Loop
<1>2. v \in Pods /\ pc = "evict" /\ UNCHANGED <<alloc, pc, gangs, standalone, todo, listed>> /\ listed = {}
  BY ResumeEffect DEF Control
<1>3. \A q \in Pods : api'[q] = api[q] => Spares(q)
  BY <1>2 DEF Spares, Exists, Unbound, Binding, InHand
<1>4. CASE api' = api
  BY <1>1, <1>3, <1>4, EntriesKept
<1>5. CASE api' # api
  <2>1. PICK r \in Pods : r = <<v[1], v[2] + 1>> /\ api' = [api EXCEPT ![r] = NewPod] /\ budget' = budget
    BY <1>5, ResumeEffect
  <2>2. api'[r] = NewPod /\ \A q \in Pods \ {r} : api'[q] = api[q]
    BY <2>1, NoPodTyped, ObjectReplaced
  <2>3. r[1] = v[1] /\ v[2] < r[2] /\ r[2] # 0
    BY <1>2, <2>1, PodNames, WatcherAssumption
  <2>4. ASSUME Single(r)', EntryOK(r) PROVE EntryOK(r)'
    <3>1. Steady
      BY <2>1, <2>3, <2>4 DEF Single, Steady, Happened
    <3>2. Fresh(r) /\ (budget.spent[v[1]] = 0 => Fresh(v))
      BY <1>2, <2>3, <3>1 DEF Lives, Unresumed
    <3>3. ~Fresh(v)
      BY <1>2 DEF Fresh, Control
    <3>4. alloc'[r] = <<>> /\ ~InHand(r)' /\ listed' = {} /\ budget'.spent[r[1]] # 0
      BY <1>2, <2>1, <2>3, <3>2, <3>3 DEF Fresh, InHand
    <3> QED  BY <3>4, NoPodTyped, <2>4 DEF EntryOK
  <2> QED  BY <1>1, <1>3, <2>2, <2>4, EntriesKept
<1> QED  BY <1>4, <1>5

\* Reconciliation marks each listed pod once, in an empty registry.
LEMMA EntriesReconcile ==
  ASSUME Base, Entries, NEW r \in listed, ReconcileMark(r)
  PROVE  Entries'
<1> USE DEF Base
<1>1. [Next]_vars
  BY DEF Next, Loop
<1>2. PICK p \in Pods : p = r.pod
  BY ReconcileEffect
<1>3. /\ UNCHANGED <<api, budget, pc, gangs, standalone, todo>> /\ listed' = listed \ {r}
      /\ pc = "reconcile" /\ \A q \in Pods : ~InHand(q)
  BY DEF ReconcileMark, Control, InHand, cluster
<1>4. /\ \A q \in Pods \ {p} : alloc'[q] = alloc[q]
      /\ Len(alloc'[p]) = Len(alloc[p]) + Cardinality(r.gpus) /\ Cardinality(r.gpus) \in Nat
  <2>1. /\ r.gpus \subseteq GPUs /\ JobOf(p).mem \div Cardinality(r.gpus) \in Nat
        /\ Mark(p, r.gpus, JobOf(p).mem \div Cardinality(r.gpus))
    BY <1>2, ReconcileEffect
  <2> QED  BY <2>1, MarkTyped
<1>5. \A q \in Pods : ~InHand(q)'
  BY <1>3 DEF InHand
<1>6. \A q \in Pods \ {p} : Spares(q)
  BY <1>3, <1>4, <1>5 DEF Spares, Exists, Unbound, Binding
<1>7. ASSUME EntryOK(p) PROVE EntryOK(p)'
  <2>1. alloc[p] = <<>> /\ budget'.spent[p[1]] > 0 /\ api'[p].phase # "Pending"
    BY <1>2, <1>3, <1>7 DEF EntryOK
  <2>2. budget'.spent[p[1]] # 0
    BY <1>3, <2>1, PodNames DEF TypeOK
  <2>3. Len(alloc'[p]) <= JobOf(p).gpuCount
    BY <1>2, <1>4, <2>1 DEF Placements
  <2>4. \A t \in listed' : t.pod # p
    BY <1>2, <1>3 DEF Placements
  <2> QED  BY <1>5, <2>1, <2>2, <2>3, <2>4 DEF EntryOK, Unbound
<1> QED  BY <1>1, <1>6, <1>7, EntriesKept

\* Every step keeps the number of entries of a pod.
LEMMA EntriesStep ==
  ASSUME Base, Lives, Entries, [Next]_vars
  PROVE  Entries'
<1> USE DEF Base
<1>1. ASSUME NEW p \in Pods, HandleEvent(p) \/ Resync(p)
      PROVE  Entries'
  <2>1. UNCHANGED <<api, pc, loop>> /\ \A q \in Pods : alloc'[q] \in {<<>>, alloc[q]}
    BY <1>1, ReleaseTyped DEF HandleEvent, Resync
  <2> QED  BY <2>1, EntriesKept DEF Spares, Exists, Unbound, Binding, InHand, loop
<1>2. CASE ProcessQueue \/ ProcessQueueDeferred \/ CycleDone
  <2>1. UNCHANGED <<api, alloc, todo, listed>> /\ budget' = budget /\ pc # "bind"
    BY <1>2 DEF ProcessQueue, ProcessQueueDeferred, CycleDone, cluster, loop
  <2>2. \A p \in Pods : InHand(p)' => InHand(p) \/ Unbound(p)
    BY <1>2, CycleInHand
  <2>3. \A p \in Pods : EntryOK(p) => EntryOK(p)'
    BY <2>1, <2>2 DEF EntryOK, Binding, Exists, Unbound
  <2> QED  BY <2>3, EntriesKept
<1>3. CASE \/ \E P \in gangs : ScheduleGang(P)
           \/ \E p \in standalone : SchedulePod(p) \/ SkipInvalidPod(p) \/ NoCapacity(p) \/ Preempt(p)
  <2>1. UNCHANGED <<api, alloc, listed>> /\ pc # "bind"
    BY <1>3 DEF ScheduleGang, SchedulePod, SkipInvalidPod, NoCapacity, Preempt, NoRoom, Turn, cluster
  <2>2. \A p \in Pods : InHand(p)' => InHand(p)
    BY <1>3, TurnsInHand
  <2> QED  BY <2>1, <2>2, EntriesKept DEF Spares, Binding, Exists, Unbound
<1>4. ASSUME NEW v \in toDelete, EvictVictim(v)
      PROVE  Entries'
  <2>1. v \in Pods /\ UNCHANGED <<alloc, pc, gangs, standalone, todo, listed>>
    BY <1>4 DEF EvictVictim, TypeOK
  <2>2. \A q \in Pods : InHand(q)' = InHand(q) /\ Binding(q)' = Binding(q)
    BY <2>1 DEF InHand, Binding
  <2>3. /\ \A q \in Pods \ {v} : api'[q] = api[q]
        /\ api'[v] = NoPod \/ (api'[v].node = api[v].node /\ api'[v].phase = api[v].phase)
    <3>1. CASE ApiDelete(v)
      BY <2>1, <3>1, ApiDeleted
    <3>2. CASE api' = api
      BY <3>2
    <3> QED  BY <1>4, <3>1, <3>2 DEF EvictVictim
  <2>4. \A q \in Pods : Spares(q)
    BY <2>1, <2>2, <2>3, NoPodTyped DEF Spares, Exists, Unbound
  <2> QED  BY <2>4, EntriesKept
<1>5. CASE ReleaseVictims
  <2>1. UNCHANGED <<api, gangs, standalone, todo, listed>> /\ pc = "evict" /\ \A q \in Pods : alloc'[q] \in {<<>>, alloc[q]}
    BY <1>5, ReleaseTyped DEF ReleaseVictims, cluster
  <2> QED  BY <2>1, EntriesKept DEF Spares, Exists, Unbound, Binding, InHand
<1>6. CASE Crash
  <2>1. api' = api /\ \A q \in Pods : alloc'[q] = <<>>
    BY <1>6, ReleaseTyped DEF Crash
  <2>2. listed' = {} /\ \A q \in Pods : ~InHand(q)'
    BY <1>6 DEF Crash, InHand
  <2> QED  BY <2>1, <2>2, EntriesKept DEF Spares, Exists, Unbound
<1>7. CASE UNCHANGED vars \/ InformerSync \/ ReconcileDone
  <2>1. UNCHANGED <<api, alloc, loop>> /\ (pc = "bind" => pc' = pc)
    BY <1>7 DEF vars, cluster, InformerSync, ReconcileDone
  <2> QED  BY <2>1, EntriesKept DEF Spares, Exists, Unbound, Binding, InHand, loop
<1>8. CASE ReconcileList
  <2>1. UNCHANGED <<api, alloc, gangs, standalone, todo, budget>> /\ pc = "boot" /\ \A p \in Pods : alloc[p] = <<>>
    BY <1>8 DEF ReconcileList, Control, cluster
  <2>2. \A r \in listed' : api[r.pod].phase = "Running"
    BY <1>8 DEF ReconcileList
  <2>3. \A p \in Pods : EntryOK(p) => EntryOK(p)'
    <3> SUFFICES ASSUME NEW p \in Pods, EntryOK(p) PROVE EntryOK(p)'
      OBVIOUS
    <3>1. \A r \in listed' : r.pod = p => budget'.spent[p[1]] > 0 /\ api'[p].phase # "Pending"
      <4>1. budget.spent[p[1]] \in Nat
        BY PodNames DEF TypeOK
      <4> QED  BY <2>1, <2>2, <4>1 DEF EntryOK, Exists
    <3>2. InHand(p)' = InHand(p)
      BY <2>1 DEF InHand
    <3> QED  BY <2>1, <3>1, <3>2 DEF EntryOK, Exists, Unbound
  <2> QED  BY <2>3, EntriesKept
<1> QED  BY <1>1, <1>2, <1>3, <1>4, <1>5, <1>6, <1>7, <1>8, EntriesCluster, EntriesMark, EntriesBind,
            EntriesResume, EntriesReconcile DEF Next, Loop

\* A pod is entered in the registry once, with as many entries as it has GPUs: no retry,
\* rollback or reconciliation reserves twice for it, unless its name was used before
\* (MarkGPUAllocatedForPod, rollbackPlacementReservation, reconcileExistingPods).
THEOREM EnteredOnceHolds == Spec => []EnteredOnce
<1>1. Init => Base /\ Lives /\ Entries
  <2>1. Init => Entries
    <3> SUFFICES ASSUME Init, NEW p \in Pods PROVE EntryOK(p)
      BY DEF Entries
    <3>1. alloc[p] = <<>> /\ api[p] = NoPod /\ ~InHand(p) /\ listed = {} /\ 0 <= JobOf(p).gpuCount
      BY NoPodTyped DEF Init, InHand
    <3> QED  BY <3>1, NoPodTyped DEF EntryOK, Exists
  <2> QED  BY <2>1, BaseInit, LivesInit
<1>2. Base /\ Lives /\ Entries /\ [Next]_vars => (Base /\ Lives /\ Entries)'
  BY BaseStep, LivesStep, EntriesStep
<1>3. Entries => EnteredOnce
  BY DEF Entries, EnteredOnce, Single, EntryOK
<1> QED  BY <1>1, <1>2, <1>3, PTL DEF Spec

-----------------------------------------------------------------------------
(* Whatever is bound is reserved.                                           *)

\* An entry of p for GPU g, of the memory p was placed with.
Holds(p, g) == \E i \in DOMAIN alloc[p] : alloc[p][i] = [dev |-> g, mem |-> PlacedFor(p)]

\* Whoever is bound or about to be has its entries.
ReservedFor(p) ==
  /\ p \notin pendingEvictions => \A g \in GPUs : Occupies(p, g) => Holds(p, g)
  /\ Binding(p) /\ Unbound(p) => \A g \in todo[1].gpus : Holds(p, g)
Reservations == Truthful => \A p \in Pods : ReservedFor(p)

\* A step that binds nothing of the name p and leaves its entries alone while they matter.
Respects(p) ==
  /\ \A g \in GPUs : Occupies(p, g)' /\ p \notin pendingEvictions'
                       => Occupies(p, g) /\ p \notin pendingEvictions /\ alloc'[p] = alloc[p]
  /\ Binding(p)' /\ Unbound(p)' => Binding(p) /\ Unbound(p) /\ todo' = todo /\ alloc'[p] = alloc[p]

\* It is enough to look at the pods whose reservation a step touches.
LEMMA ReservationsKept ==
  ASSUME Base, Reservations, [Next]_vars,
         Truthful' => \A p \in Pods : ReservedFor(p) => ReservedFor(p)' \/ Respects(p)
  PROVE  Reservations'
<1>1. Truthful' => Truthful
  BY Past DEF Base
<1>2. \A p \in Pods : ReservedFor(p) /\ Respects(p) => ReservedFor(p)'
  BY DEF ReservedFor, Respects, Holds, PlacedFor
<1> QED  BY <1>1, <1>2 DEF Reservations

\* What users and kubelets do to a pod leaves it reserved or over.
LEMMA ReservationsCluster ==
  ASSUME Base, Lives, Reservations, Cluster
  PROVE  Reservations'
<1> USE DEF Base
<1>1. [Next]_vars
  BY DEF Next
<1> SUFFICES ASSUME Truthful' PROVE \A p \in Pods : Respects(p)
  BY <1>1, ReservationsKept
<1>2. UNCHANGED <<alloc, pendingEvictions, pc, loop>>
  BY DEF Cluster, UserCreate, UserDelete, KubeletStart, KubeletFinish, KubeletRemove
<1>3. \A p \in Pods : /\ Binding(p)' = Binding(p) /\ todo' = todo
                      /\ api'[p] = api[p] => Respects(p)
  BY <1>2 DEF Respects, Occupies, Binding, Unbound, loop
<1>4. ASSUME NEW j \in Jobs, UserCreate(j)
      PROVE  \A p \in Pods : Respects(p)
  <2>1. PICK p \in Pods : p = <<j, 0>>
    BY PodNames
  <2>2. p[1] = j /\ api'[p] = NewPod /\ \A q \in Pods \ {p} : api'[q] = api[q]
    BY <1>4, <2>1, NoPodTyped, ObjectReplaced DEF UserCreate
  <2>3. budget.spent[j] \in Nat /\ budget'.spent[j] = budget.spent[j] + 1
    BY <1>4, SpendTyped DEF UserCreate, TypeOK
  <2>4. Steady /\ budget.spent[p[1]] = 0
    BY <1>1, <2>2, <2>3, Past DEF Truthful, Steady
  <2>5. ~Binding(p)
    <3>1. ~InHand(p)
      BY <2>4 DEF Lives, Fresh
    <3>2. Binding(p) => todo # <<>>
      BY DEF Binding, Control
    <3> QED  BY <3>1, <3>2, FirstTyped DEF Binding, InHand
  <2>6. Respects(p)
    BY <1>3, <2>2, <2>5, NoPodTyped DEF Respects, Occupies
  <2> QED  BY <1>3, <2>2, <2>6
<1>5. ASSUME NEW p \in Pods, UserDelete(p) \/ KubeletStart(p) \/ KubeletFinish(p) \/ KubeletRemove(p)
      PROVE  \A q \in Pods : Respects(q)
  <2>1. /\ \A q \in Pods \ {p} : api'[q] = api[q]
        /\ api'[p] = NoPod \/ (/\ api'[p].node = api[p].node /\ api'[p].gpus = api[p].gpus
                               /\ \/ api'[p].phase \in {api[p].phase, "Done"}
                                  \/ api[p].phase = "Pending" /\ api'[p].phase = "Running")
    <3>1. api \in [Pods -> PodObject]
      BY DEF TypeOK, PodObject
    <3>2. CASE UserDelete(p)
      BY <3>2, ApiDeleted DEF UserDelete, Exists
    <3>3. CASE KubeletStart(p)
      BY <3>1, <3>3, ObjectUpdates DEF KubeletStart
    <3>4. CASE KubeletFinish(p)
      BY <3>1, <3>4, ObjectUpdates DEF KubeletFinish
    <3>5. CASE KubeletRemove(p)
      BY <3>1, <3>5 DEF KubeletRemove
    <3> QED  BY <1>5, <3>2, <3>3, <3>4, <3>5
  <2>2. Respects(p)
    BY <1>2, <1>3, <2>1, NoPodTyped DEF Respects, Occupies, Unbound
  <2> QED  BY <1>3, <2>1, <2>2
<1> QED  BY <1>4, <1>5 DEF Cluster

\* Reserving gives the pod to bind an entry for each of its GPUs.
LEMMA ReservationsMark ==
  ASSUME Base, Lives, Reservations, MarkPlacement
  PROVE  Reservations'
<1> USE DEF Base
<1>1. [Next]_vars
  BY DEF Next, Loop
<1>2. pc = "mark" /\ todo # <<>> /\ UNCHANGED <<api, pendingEvictions, budget, loop>> /\ todo' = todo
  BY DEF MarkPlacement, Control, cluster, loop
<1>3. PICK p \in Pods : p = todo[1].pod
  BY <1>2, FirstTyped
<1>4. PICK S \in SUBSET GPUs : S = todo[1].gpus
  BY <1>2, FirstTyped
<1>5. todo[1].mem = PlacedFor(p) /\ PlacedFor(p) \in Nat /\ Mark(p, S, PlacedFor(p))
  BY <1>2, <1>3, <1>4, FirstTyped DEF MarkPlacement, Placements
<1>6. /\ alloc' \in [Pods -> Seq(Entry)] /\ Cardinality(S) \in Nat
      /\ Len(alloc'[p]) = Len(alloc[p]) + Cardinality(S)
      /\ \A i \in 1..Cardinality(S) : alloc'[p][Len(alloc[p]) + i] = [dev |-> SetToSeq(S)[i], mem |-> PlacedFor(p)]
      /\ \A q \in Pods \ {p} : alloc'[q] = alloc[q]
  BY <1>5, MarkTyped
<1>7. ASSUME NEW g \in S PROVE Holds(p, g)'
  <2>1. IsFiniteSet(S)
    BY WatcherAssumption, FS_Subset
  <2>2. PICK i \in 1..Cardinality(S) : SetToSeq(S)[i] = g
    BY <2>1, ListsAll
  <2>3. alloc[p] \in Seq(Entry) /\ alloc'[p] \in Seq(Entry)
    BY <1>6 DEF TypeOK
  <2>4. Len(alloc[p]) + i \in DOMAIN alloc'[p]
    <3>1. Len(alloc[p]) \in Nat /\ DOMAIN alloc'[p] = 1..Len(alloc'[p])
      BY <2>3, LenProperties
    <3> QED  BY <3>1, <1>6
  <2> QED  BY <1>6, <2>2, <2>4 DEF Holds, PlacedFor
<1>8. \A q \in Pods \ {p} : Respects(q)
  BY <1>2, <1>3, <1>6 DEF Respects, Occupies, Unbound, Binding
<1>9. Truthful' => ReservedFor(p)'
  <2>1. Truthful' => \A g \in GPUs : ~Occupies(p, g)
    <3>1. InHand(p)
      BY <1>2, <1>3, FirstTyped DEF InHand
    <3> QED  BY <1>1, <3>1, Past DEF Truthful, Lives, NameOK, Occupies
  <2>2. Truthful' => \A g \in GPUs : ~Occupies(p, g)'
    BY <1>2, <2>1 DEF Occupies
  <2>3. \A g \in todo'[1].gpus : Holds(p, g)'
    BY <1>2, <1>4, <1>7
  <2> QED  BY <2>2, <2>3 DEF ReservedFor
<1> QED  BY <1>1, <1>8, <1>9, ReservationsKept

\* What is bound was marked before; what is rolled back is not bound.
LEMMA ReservationsBind ==
  ASSUME Base, Lives, Reservations, BindOK \/ BindFails
  PROVE  Reservations'
<1> USE DEF Base
<1>1. [Next]_vars
  BY DEF Next, Loop
<1>2. SUFFICES ASSUME Truthful' PROVE \A p \in Pods : ReservedFor(p) => ReservedFor(p)' \/ Respects(p)
  BY <1>1, ReservationsKept
<1>3. Truthful
  BY <1>1, <1>2, Past
<1>4. PICK p \in Pods : p = todo[1].pod
  BY BindEffect
<1>5. pc = "bind" /\ todo # <<>> /\ pc' # "bind" /\ pendingEvictions' = pendingEvictions /\ Head(todo).pod = p
  BY <1>4, FirstTyped, SMTT(60) DEF BindOK, BindFails, BindReturns, Control
<1>6. \A q \in Pods \ {p} : alloc'[q] = alloc[q] /\ api'[q] = api[q]
  BY <1>4, <1>5, BindEffect, ReleaseTyped DEF BindOK, BindFails
<1>7. \A q \in Pods \ {p} : Respects(q)
  BY <1>5, <1>6 DEF Respects, Occupies, Binding
<1>8. ASSUME ReservedFor(p) PROVE ReservedFor(p)'
  <2>0. ~Binding(p)'
    BY <1>5 DEF Binding
  <2>1. api[p].node = NoNode
    <3>1. InHand(p)
      BY <1>4, <1>5, FirstTyped DEF InHand
    <3> QED  BY <1>3, <3>1 DEF Lives, NameOK, Truthful
  <2>2. CASE BindOK
    <3>1. alloc' = alloc /\ Unbound(p) /\ Binding(p)
      BY <1>4, <1>5, <2>2 DEF BindOK, Binding
    <3>2. \A g \in todo[1].gpus : Holds(p, g)'
      BY <1>8, <3>1 DEF ReservedFor, Holds, PlacedFor
    <3>3. api'[p].gpus = todo[1].gpus \/ api'[p].gpus = {}
      <4>1. CASE Spend("patchError") /\ api'[p].gpus = api[p].gpus
        <5>1. "patchError" \in Kinds /\ budget.spent["patchError"] \in Nat
          BY DEF Kinds, TypeOK
        <5>2. Happened("patchError")'
          BY <4>1, <5>1, SpendTyped DEF Happened
        <5>3. ~Happened("bindError")
          BY <1>1, <1>2, <5>2, Past DEF Truthful
        <5> QED  BY <2>1, <4>1, <5>3 DEF PodStates, PodState
      <4> QED  BY <1>4, <2>2, <4>1, BindDetail
    <3> QED  BY <2>0, <3>2, <3>3 DEF ReservedFor, Occupies
  <2>3. CASE BindFails
    <3>1. ~Spend("bindReplyLost")
      <4>1. "bindReplyLost" \in Kinds /\ budget.spent["bindReplyLost"] \in Nat
        BY DEF Kinds, TypeOK
      <4> QED  BY <1>2, <4>1, SpendTyped DEF Happened, Truthful
    <3>2. api'[p].node = NoNode
      BY <1>4, <2>1, <2>3, <3>1, BindDetail
    <3> QED  BY <2>0, <3>2 DEF ReservedFor, Occupies
  <2> QED  BY <2>2, <2>3
<1> QED  BY <1>7, <1>8

\* Every step keeps reserved what is bound.
LEMMA ReservationsStep ==
  ASSUME Base, Lives, Reservations, [Next]_vars
  PROVE  Reservations'
<1> USE DEF Base
<1>1. ASSUME NEW p \in Pods, HandleEvent(p) \/ Resync(p)
      PROVE  Reservations'
  <2>1. /\ UNCHANGED <<api, pc, todo>> /\ pendingEvictions \ {p} \subseteq pendingEvictions'
        /\ \A q \in Pods \ {p} : alloc'[q] = alloc[q]
        /\ events[p] # <<>> \/ UNCHANGED <<alloc, pendingEvictions>>
    BY <1>1, ReleaseTyped DEF HandleEvent, Resync, loop
  <2>2. \A q \in Pods \ {p} : Respects(q)
    BY <2>1 DEF Respects, Occupies, Unbound, Binding
  <2>3. Truthful' => Respects(p)
    <3>1. Truthful' => events[p] = <<>> \/ ~Live(p)
      BY Past DEF Truthful, Lives, NameOK
    <3> QED  BY <2>1, <3>1 DEF Respects, Occupies, Unbound, Binding, Live
  <2> QED  BY <2>2, <2>3, ReservationsKept
<1>2. CASE ProcessQueue \/ ProcessQueueDeferred \/ CycleDone
  <2>1. /\ UNCHANGED <<api, alloc>> /\ pc' # "bind"
        /\ \A p \in Pods : Exists(p) /\ p \notin pendingEvictions' => p \notin pendingEvictions
    BY <1>2 DEF ProcessQueue, ProcessQueueDeferred, CycleDone, cluster, loop
  <2> QED  BY <2>1, ReservationsKept DEF Respects, Occupies, Binding, Exists
<1>3. CASE \/ \E P \in gangs : ScheduleGang(P)
           \/ \E p \in standalone : SchedulePod(p) \/ SkipInvalidPod(p) \/ NoCapacity(p) \/ Preempt(p)
  <2>1. UNCHANGED <<api, alloc, pendingEvictions>> /\ pc' # "bind"
    BY <1>3 DEF ScheduleGang, SchedulePod, SkipInvalidPod, NoCapacity, Preempt, NoRoom, Turn, cluster
  <2> QED  BY <2>1, ReservationsKept DEF Respects, Occupies, Binding
<1>4. ASSUME NEW v \in toDelete, EvictVictim(v)
      PROVE  Reservations'
  <2>1. v \in Pods /\ UNCHANGED <<alloc, pendingEvictions, pc>> /\ pc # "bind"
    BY <1>4 DEF EvictVictim, TypeOK
  <2>2. /\ \A q \in Pods \ {v} : api'[q] = api[q]
        /\ api'[v] = NoPod \/ (api'[v].node = api[v].node /\ api'[v].phase = api[v].phase /\ api'[v].gpus = api[v].gpus)
    <3>1. CASE ApiDelete(v)
      BY <2>1, <3>1, ApiDeleted
    <3>2. CASE api' = api
      BY <3>2
    <3> QED  BY <1>4, <3>1, <3>2 DEF EvictVictim
  <2>3. \A q \in Pods : Respects(q)
    BY <2>1, <2>2, NoPodTyped DEF Respects, Occupies, Binding
  <2> QED  BY <2>3, ReservationsKept
<1>5. ASSUME NEW v \in resuming, AutoResume(v)
      PROVE  Reservations'
  <2>1. pc' # "bind" /\ UNCHANGED <<alloc, pendingEvictions>>
    BY <1>5 DEF AutoResume
  <2>2. \A q \in Pods : api'[q] = api[q] \/ api'[q] = NewPod
    BY <1>5, ResumeEffect DEF TypeOK
  <2>3. \A q \in Pods : Respects(q)
    BY <2>1, <2>2, NoPodTyped DEF Respects, Occupies, Binding
  <2> QED  BY <2>3, ReservationsKept
<1>6. CASE ReleaseVictims
  <2>1. /\ api' = api /\ pc' # "bind" /\ pendingEvictions' = pendingEvictions \cup victims
        /\ \A q \in Pods : alloc'[q] = IF q \in victims THEN <<>> ELSE alloc[q]
    BY <1>6, ReleaseTyped DEF ReleaseVictims, cluster
  <2> QED  BY <2>1, ReservationsKept DEF Respects, Occupies, Binding
<1>7. CASE Crash \/ ReconcileList \/ ReconcileDone \/ \E r \in listed : ReconcileMark(r)
  <2>1. "crash" \in Kinds /\ budget.spent["crash"] \in Nat
    BY DEF Kinds, TypeOK
  <2>2. Crash => Happened("crash")'
    BY <2>1, SpendTyped DEF Crash, Happened
  <2>3. Happened("crash")'
    BY <1>7, <2>2, Past DEF ReconcileList, ReconcileDone, ReconcileMark, Control
  <2> QED  BY <2>3 DEF Reservations, Truthful, Steady
<1>8. CASE UNCHANGED vars \/ InformerSync
  <2>1. UNCHANGED <<api, alloc, pendingEvictions, pc, todo>>
    BY <1>8 DEF vars, cluster, loop, InformerSync
  <2> QED  BY <2>1, ReservationsKept DEF Respects, Occupies, Unbound, Binding
<1> QED  BY <1>1, <1>2, <1>3, <1>4, <1>5, <1>6, <1>7, <1>8, ReservationsCluster, ReservationsMark,
            ReservationsBind DEF Next, Loop

\* Nothing is bound at first.
LEMMA ReservationsInit == Init => Reservations
<1> SUFFICES ASSUME Init, NEW p \in Pods PROVE ReservedFor(p)
  BY DEF Reservations
<1>1. api[p] = NoPod /\ pc = "idle"
  BY DEF Init
<1> QED  BY <1>1, NoPodTyped DEF ReservedFor, Occupies, Binding

\* As long as the scheduler's records are not known to lie, every GPU of a pod that is bound
\* and has not ended is reserved for it in the registry, unless the pod was evicted
\* (bindPodAndRecord after the marks, the informer's callbacks, handleNoCapacityForPod).
THEOREM BoundIsReservedHolds == Spec => []BoundIsReserved
<1>1. Init => Base /\ Lives /\ Reservations
  BY BaseInit, LivesInit, ReservationsInit
<1>2. Base /\ Lives /\ Reservations /\ [Next]_vars => (Base /\ Lives /\ Reservations)'
  BY BaseStep, LivesStep, ReservationsStep
<1>3. Reservations => BoundIsReserved
  <2> SUFFICES ASSUME Reservations, Truthful, NEW g \in GPUs, NEW p \in Occupants(g) \ pendingEvictions
               PROVE  \E i \in DOMAIN alloc[p] : alloc[p][i].dev = g
    BY DEF BoundIsReserved
  <2>1. p \in Pods /\ Occupies(p, g)
    BY DEF Occupants
  <2>2. Holds(p, g)
    BY <2>1 DEF Reservations, ReservedFor
  <2> QED  BY <2>2 DEF Holds
<1> QED  BY <1>1, <1>2, <1>3, PTL DEF Spec

-----------------------------------------------------------------------------
(* Gangs are bound whole.                                                   *)

GangPods(G) == {p \in Pods : JobOf(p).gang = G}

\* p has a placement to be carried out; p has been bound or will be.
Placing(p) == \E i \in DOMAIN todo : todo[i].pod = p
Begun(p) == api[p].node # NoNode \/ Placing(p)

\* The snapshot has all of the gang or none of it, and once a member is placed every
\* member was there and is placed with it.
WholeGang(G) ==
  /\ \A P \in gangs : P \cap GangPods(G) # {} => P = GangPods(G)
  /\ \A p, q \in GangPods(G) : Begun(p) => budget.spent[q[1]] # 0 /\ (Unbound(q) => Placing(q))

Unrefused == Steady /\ ~Happened("bindError")
Wholes == Unrefused => \A G \in DOMAIN GangSize : Sized(G) => WholeGang(G)

\* A step that neither creates nor places p, and drops no placement of it.
Follows(p) ==
  /\ Begun(p)' => Begun(p)
  /\ Unbound(p)' => Unbound(p) /\ (Placing(p) => Placing(p)')

\* A gang is whole after a step that adds none of it to the snapshot and that all of its
\* pods come through.
LEMMA WholesKept ==
  ASSUME Base, Wholes, [Next]_vars,
         Unrefused' => \A G \in DOMAIN GangSize : Sized(G) /\ WholeGang(G) =>
                         \/ WholeGang(G)'
                         \/ gangs' \subseteq gangs /\ \A p \in GangPods(G) : Follows(p)
  PROVE  Wholes'
<1>1. Unrefused' => Unrefused
  BY Past DEF Base, Unrefused
<1>2. ASSUME NEW G, WholeGang(G), gangs' \subseteq gangs, \A p \in GangPods(G) : Follows(p)
      PROVE  WholeGang(G)'
  <2>1. \A q \in GangPods(G) : q \in Pods /\ budget.spent[q[1]] # 0 => budget'.spent[q[1]] # 0
    <3>1. \A q \in Pods : /\ budget.spent[q[1]] \in Nat /\ budget'.spent[q[1]] \in Nat
                          /\ budget.spent[q[1]] <= budget'.spent[q[1]]
      BY History, PodNames DEF Base, TypeOK
    <3> QED  BY <3>1 DEF GangPods
  <2>2. \A q \in GangPods(G) : q \in Pods
    BY DEF GangPods
  <2>3. \A p, q \in GangPods(G) : Begun(p)' => budget'.spent[q[1]] # 0 /\ (Unbound(q)' => Placing(q)')
    BY <1>2, <2>1, <2>2 DEF WholeGang, Follows
  <2>4. GangPods(G)' = GangPods(G)
    BY DEF GangPods
  <2>5. \A P \in gangs' : P \cap GangPods(G) # {} => P = GangPods(G)
    BY <1>2 DEF WholeGang
  <2> QED  BY <2>3, <2>4, <2>5 DEF WholeGang
<1>3. \A G : Sized(G)' = Sized(G)
  BY DEF Sized
<1> QED  BY <1>1, <1>2, <1>3 DEF Wholes

\* A gang of the size its annotation says is complete only with all of its pods.
LEMMA CompleteGang ==
  ASSUME NEW G \in DOMAIN GangSize, Sized(G), NEW P \in SUBSET GangPods(G), Cardinality(P) >= GangSize[G]
  PROVE  P = GangPods(G)
<1> DEFINE Q == GangPods(G)
           J == {j \in Jobs : JobSpec[j].gang = G}
           f == [p \in Q |-> p[1]]
<1>1. \A p \in Q : p = <<p[1], 0>> /\ p[1] \in J
  BY DEF GangPods, JobOf, Pods, Sized
<1>2. f \in Injection(Q, J)
  BY <1>1 DEF Injection, IsInjective
<1>3. IsFiniteSet(Q) /\ IsFiniteSet(J)
  BY PodsFinite, FS_Subset, WatcherAssumption DEF GangPods
<1>4. Cardinality(Q) <= Cardinality(J) /\ Cardinality(Q) \in Nat /\ Cardinality(J) \in Nat
  BY <1>2, <1>3, FS_Injection, FS_CardinalityType
<1>5. Cardinality(P) <= Cardinality(Q) /\ Cardinality(P) \in Nat /\ (Cardinality(P) = Cardinality(Q) => P = Q)
  BY <1>3, FS_Subset, FS_CardinalityType
<1>6. Cardinality(J) <= GangSize[G] /\ GangSize[G] \in Nat
  BY WatcherAssumption DEF Sized
<1> QED  BY <1>4, <1>5, <1>6

\* Users and kubelets: a member of a gang that has begun is not created again.
LEMMA WholesCluster ==
  ASSUME Base, Lives, Wholes, Cluster
  PROVE  Wholes'
<1> USE DEF Base
<1>1. [Next]_vars
  BY DEF Next
<1>2. UNCHANGED <<todo, gangs>>
  BY DEF Cluster, UserCreate, UserDelete, KubeletStart, KubeletFinish, KubeletRemove, loop
<1>3. \A p \in Pods : Placing(p)' = Placing(p) /\ (api'[p] = api[p] => Follows(p))
  BY <1>2 DEF Follows, Begun, Placing, Unbound
<1>4. ASSUME NEW j \in Jobs, UserCreate(j)
      PROVE  Wholes'
  <2>1. PICK r \in Pods : r = <<j, 0>>
    BY PodNames
  <2>2. r[1] = j /\ api'[r] = NewPod /\ ~Exists(r) /\ \A q \in Pods \ {r} : api'[q] = api[q]
    BY <1>4, <2>1, NoPodTyped, ObjectReplaced DEF UserCreate
  <2>3. budget.spent[j] \in Nat /\ budget'.spent[j] = budget.spent[j] + 1
    BY <1>4, SpendTyped DEF UserCreate, TypeOK
  <2>4. ASSUME Unrefused', NEW G \in DOMAIN GangSize, WholeGang(G)
        PROVE  WholeGang(G)' \/ \A p \in GangPods(G) : Follows(p)
    <3>1. budget.spent[r[1]] = 0
      BY <2>2, <2>3, <2>4 DEF Unrefused, Steady
    <3>2. \A p \in Pods : Begun(p)' => Begun(p)
      BY <1>3, <2>2, NoPodTyped DEF Begun
    <3>3. CASE r \notin GangPods(G)
      BY <1>3, <2>2, <3>3 DEF GangPods
    <3>4. CASE r \in GangPods(G)
      <4>1. \A p \in GangPods(G) : ~Begun(p)
        BY <2>4, <3>1, <3>4 DEF WholeGang
      <4>2. GangPods(G)' = GangPods(G) /\ \A p \in GangPods(G) : p \in Pods /\ ~Begun(p)'
        BY <3>2, <4>1 DEF GangPods
      <4> QED  BY <1>2, <2>4, <4>2 DEF WholeGang
    <3> QED  BY <3>3, <3>4
  <2> QED  BY <1>1, <1>2, <2>4, WholesKept
<1>5. ASSUME NEW p \in Pods, UserDelete(p) \/ KubeletStart(p) \/ KubeletFinish(p) \/ KubeletRemove(p)
      PROVE  Wholes'
  <2>1. /\ \A q \in Pods \ {p} : api'[q] = api[q]
        /\ api'[p] = NoPod \/ (/\ api'[p].node = api[p].node
                               /\ api'[p].phase = api[p].phase \/ api'[p].phase \in {"Running", "Done"})
    <3>1. api \in [Pods -> PodObject]
      BY DEF TypeOK, PodObject
    <3>2. CASE UserDelete(p)
      BY <3>2, ApiDeleted DEF UserDelete, Exists
    <3>3. CASE KubeletStart(p)
      BY <3>1, <3>3, ObjectUpdates DEF KubeletStart
    <3>4. CASE KubeletFinish(p)
      BY <3>1, <3>4, ObjectUpdates DEF KubeletFinish
    <3>5. CASE KubeletRemove(p)
      BY <3>1, <3>5 DEF KubeletRemove
    <3> QED  BY <1>5, <3>2, <3>3, <3>4, <3>5
  <2>2. Follows(p)
    BY <1>3, <2>1, NoPodTyped DEF Follows, Begun, Unbound
  <2>3. \A q \in Pods : Follows(q)
    BY <1>3, <2>1, <2>2
  <2> QED  BY <1>1, <1>2, <2>3, WholesKept DEF GangPods
<1> QED  BY <1>4, <1>5 DEF Cluster

\* The snapshot has a gang only when it is complete.
LEMMA WholesCycle ==
  ASSUME Base, Wholes, ProcessQueue \/ ProcessQueueDeferred \/ CycleDone
  PROVE  Wholes'
<1> USE DEF Base
<1>1. [Next]_vars
  BY DEF Next, Loop
<1>2. UNCHANGED <<api, todo, budget>>
  BY DEF ProcessQueue, ProcessQueueDeferred, CycleDone, cluster, loop
<1>3. \A p \in Pods : Begun(p)' = Begun(p) /\ Unbound(p)' = Unbound(p) /\ Placing(p)' = Placing(p)
  BY <1>2 DEF Begun, Placing, Unbound
<1>4. ASSUME NEW G \in DOMAIN GangSize, Sized(G), WholeGang(G), ProcessQueue
      PROVE  WholeGang(G)'
  <2>1. \A P \in gangs' : P \cap GangPods(G) # {} => P = GangPods(G)
    <3> SUFFICES ASSUME NEW P \in gangs', P \cap GangPods(G) # {}
                 PROVE  P = GangPods(G)
      OBVIOUS
    <3>1. PICK H \in DOMAIN GangSize : P = GangMembers(PendingPods, H) /\ Cardinality(P) >= GangSize[H]
      BY <1>4 DEF ProcessQueue, ReadyGangs
    <3>2. H = G /\ P \subseteq GangPods(G)
      BY <3>1 DEF GangMembers, GangPods, PendingPods
    <3> QED  BY <1>4, <3>1, <3>2, CompleteGang
  <2>2. GangPods(G)' = GangPods(G) /\ GangPods(G) \subseteq Pods
    BY DEF GangPods
  <2> QED  BY <1>2, <1>3, <1>4, <2>1, <2>2 DEF WholeGang
<1>5. CASE ProcessQueue
  BY <1>1, <1>4, <1>5, WholesKept
<1>6. CASE ProcessQueueDeferred \/ CycleDone
  <2>1. gangs' = gangs
    BY <1>6 DEF ProcessQueueDeferred, CycleDone, loop
  <2> QED  BY <1>1, <1>3, <2>1, WholesKept DEF Follows, GangPods
<1> QED  BY <1>5, <1>6

\* A gang's turn places all of its pods or none.
LEMMA WholesTurns ==
  ASSUME Base, Lives, Wholes,
         \/ \E P \in gangs : ScheduleGang(P)
         \/ \E p \in standalone : SchedulePod(p) \/ SkipInvalidPod(p) \/ NoCapacity(p) \/ Preempt(p)
  PROVE  Wholes'
<1> USE DEF Base
<1>1. [Next]_vars
  BY DEF Next, Loop
<1>2. /\ UNCHANGED <<api, budget>> /\ todo = <<>>
      /\ \A p \in Pods : Unbound(p)' = Unbound(p) /\ ~Placing(p)
  <2>1. UNCHANGED <<api, budget>> /\ todo = <<>>
    BY DEF ScheduleGang, SchedulePod, SkipInvalidPod, NoCapacity, Preempt, NoRoom, Turn, cluster, Control
  <2> QED  BY <2>1 DEF Unbound, Placing
<1>3. \A p \in Pods : ~Placing(p)' => Follows(p)
  BY <1>2 DEF Follows, Begun
<1>4. ASSUME NEW P \in gangs, ScheduleGang(P)
      PROVE  Wholes'
  <2>1. /\ P \subseteq Pods /\ gangs' \subseteq gangs
        /\ \/ todo' = todo
           \/ /\ \A i \in DOMAIN todo' : todo'[i].pod \in P
              /\ \A p \in P : \E i \in DOMAIN todo' : todo'[i].pod = p
    BY <1>4, GangTurn
  <2>2. CASE todo' = todo
    BY <1>1, <1>2, <1>3, <2>1, <2>2, WholesKept DEF Placing, GangPods
  <2>3. CASE todo' # todo
    <3>1. \A p \in Pods : Placing(p)' <=> p \in P
      BY <2>1, <2>3 DEF Placing
    <3>2. ASSUME Unrefused', NEW G \in DOMAIN GangSize, WholeGang(G)
          PROVE  WholeGang(G)' \/ \A p \in GangPods(G) : Follows(p)
      <4>1. CASE P \cap GangPods(G) = {}
        BY <1>3, <3>1, <4>1 DEF GangPods
      <4>2. CASE P \cap GangPods(G) # {}
        <5>1. P = GangPods(G) /\ GangPods(G)' = GangPods(G)
          BY <3>2, <4>2 DEF WholeGang, GangPods
        <5>2. \A q \in P : q \in Pods /\ Placing(q)'
          BY <2>1, <3>1
        <5>3. \A q \in P : budget'.spent[q[1]] # 0
          <6>1. Steady
            BY <1>1, <3>2, Past DEF Unrefused
          <6>2. \A q \in P : InHand(q)
            BY DEF InHand
          <6> QED  BY <1>2, <5>2, <6>1, <6>2 DEF Lives, Fresh
        <5>4. \A Q \in gangs' : Q \cap GangPods(G) # {} => Q = GangPods(G)
          BY <2>1, <3>2 DEF WholeGang
        <5> QED  BY <5>1, <5>2, <5>3, <5>4 DEF WholeGang
      <4> QED  BY <4>1, <4>2
    <3> QED  BY <1>1, <2>1, <3>2, WholesKept
  <2> QED  BY <2>2, <2>3
<1>5. ASSUME NEW p \in standalone, SchedulePod(p)
      PROVE  Wholes'
  <2>1. gangs' = gangs /\ \A i \in DOMAIN todo' : todo'[i].pod = p
    BY <1>5 DEF SchedulePod
  <2>2. \A G \in DOMAIN GangSize : p \notin GangPods(G)
    BY WatcherAssumption DEF Disjoint, GangPods
  <2>3. \A G \in DOMAIN GangSize : \A q \in GangPods(G) : q \in Pods /\ ~Placing(q)'
    BY <2>1, <2>2 DEF Placing, GangPods
  <2> QED  BY <1>1, <1>3, <2>1, <2>3, WholesKept
<1>6. ASSUME NEW p \in standalone, SkipInvalidPod(p) \/ NoCapacity(p) \/ Preempt(p)
      PROVE  Wholes'
  <2>1. UNCHANGED <<gangs, todo>>
    BY <1>6 DEF SkipInvalidPod, NoCapacity, Preempt
  <2> QED  BY <1>1, <1>2, <1>3, <2>1, WholesKept DEF Placing, GangPods
<1> QED  BY <1>4, <1>5, <1>6

\* A pod whose binding was not refused is pending no more.
LEMMA WholesBind ==
  ASSUME Base, Lives, Wholes, BindOK \/ BindFails
  PROVE  Wholes'
<1> USE DEF Base
<1>1. [Next]_vars
  BY DEF Next, Loop
<1>2. PICK p \in Pods : p = todo[1].pod
  BY BindEffect
<1>3. todo # <<>> /\ todo' = Tail(todo) /\ gangs' = gangs
  BY DEF BindOK, BindFails, BindReturns, Control
<1>4. \A q \in Pods \ {p} : api'[q] = api[q]
  BY <1>2, BindEffect
<1>5. Placing(p) /\ \A q \in Pods \ {p} : Placing(q)' <=> Placing(q)
  <2>1. /\ Len(todo) \in Nat \ {0} /\ DOMAIN todo = 1..Len(todo) /\ DOMAIN todo' = 1..(Len(todo) - 1)
        /\ \A i \in DOMAIN todo' : todo'[i] = todo[i + 1]
    BY <1>3, FirstTyped, TailTyped
  <2>2. \A i \in DOMAIN todo : i = 1 \/ (i - 1 \in DOMAIN todo' /\ todo'[i - 1] = todo[i])
    BY <2>1
  <2>3. \A i \in DOMAIN todo' : i + 1 \in DOMAIN todo /\ todo'[i] = todo[i + 1]
    BY <2>1
  <2>4. 1 \in DOMAIN todo
    BY <2>1
  <2> QED  BY <1>2, <2>2, <2>3, <2>4 DEF Placing
<1>6. \A q \in Pods \ {p} : Follows(q)
  BY <1>4, <1>5 DEF Follows, Begun, Unbound
<1>7. Unrefused' => ~Unbound(p)'
  <2>1. Spend("bindError") => Happened("bindError")'
    <3>1. "bindError" \in Kinds /\ budget.spent["bindError"] \in Nat
      BY DEF Kinds, TypeOK
    <3> QED  BY <3>1, SpendTyped DEF Happened
  <2>2. CASE BindOK
    BY <1>2, <2>2, BindDetail DEF Unbound
  <2>3. CASE BindFails
    BY <1>2, <2>1, <2>3, BindDetail DEF Unbound, Unrefused
  <2> QED  BY <2>2, <2>3
<1>8. Unrefused' => Follows(p)
  BY <1>5, <1>7 DEF Follows, Begun
<1> QED  BY <1>1, <1>3, <1>6, <1>8, WholesKept DEF GangPods

\* Every step keeps the gangs whole.
LEMMA WholesStep ==
  ASSUME Base, Lives, Wholes, [Next]_vars
  PROVE  Wholes'
<1> USE DEF Base
<1>1. CASE \/ UNCHANGED vars \/ InformerSync \/ MarkPlacement \/ ReleaseVictims
           \/ \E p \in Pods : HandleEvent(p) \/ Resync(p)
  <2>1. UNCHANGED <<api, gangs, todo>>
    BY <1>1 DEF vars, InformerSync, MarkPlacement, ReleaseVictims, HandleEvent, Resync, cluster, loop
  <2> QED  BY <2>1, WholesKept DEF Follows, Begun, Placing, Unbound
<1>2. ASSUME NEW v \in toDelete, EvictVictim(v)
      PROVE  Wholes'
  <2>1. v \in Pods /\ UNCHANGED <<gangs, todo>>
    BY <1>2 DEF EvictVictim, TypeOK
  <2>2. /\ \A q \in Pods \ {v} : api'[q] = api[q]
        /\ api'[v] = NoPod \/ (api'[v].node = api[v].node /\ api'[v].phase = api[v].phase)
    <3>1. CASE ApiDelete(v)
      BY <2>1, <3>1, ApiDeleted
    <3>2. CASE api' = api
      BY <3>2
    <3> QED  BY <1>2, <3>1, <3>2 DEF EvictVictim
  <2>3. \A q \in Pods : Follows(q)
    BY <2>1, <2>2, NoPodTyped DEF Follows, Begun, Placing, Unbound
  <2> QED  BY <2>1, <2>3, WholesKept DEF GangPods
<1>3. ASSUME NEW v \in resuming, AutoResume(v)
      PROVE  Wholes'
  <2>1. v \in Pods /\ UNCHANGED <<gangs, todo>>
    BY <1>3, ResumeEffect
  <2>2. \A q \in Pods : api'[q] = api[q] => Follows(q)
    BY <2>1 DEF Follows, Begun, Placing, Unbound
  <2>3. CASE api' = api
    BY <2>1, <2>2, <2>3, WholesKept DEF GangPods
  <2>4. CASE api' # api
    <3>1. PICK r \in Pods : r = <<v[1], v[2] + 1>> /\ api' = [api EXCEPT ![r] = NewPod]
      BY <2>4, <1>3, ResumeEffect
    <3>2. \A q \in Pods \ {r} : api'[q] = api[q]
      BY <3>1, NoPodTyped, ObjectReplaced
    <3>3. r[2] # 0
      BY <2>1, <3>1, PodNames, WatcherAssumption
    <3>4. \A G \in DOMAIN GangSize : Sized(G) => r \notin GangPods(G)
      BY <3>3 DEF Sized, GangPods, JobOf, Pods
    <3>5. \A G \in DOMAIN GangSize : Sized(G) => \A q \in GangPods(G) : Follows(q)
      BY <2>2, <3>2, <3>4 DEF GangPods
    <3> QED  BY <2>1, <3>5, WholesKept
  <2> QED  BY <2>3, <2>4
<1>4. CASE Crash \/ ReconcileList \/ ReconcileDone \/ \E r \in listed : ReconcileMark(r)
  <2>1. "crash" \in Kinds /\ budget.spent["crash"] \in Nat
    BY DEF Kinds, TypeOK
  <2>2. Crash => Happened("crash")'
    BY <2>1, SpendTyped DEF Crash, Happened
  <2>3. Happened("crash")'
    BY <1>4, <2>2, Past DEF ReconcileList, ReconcileDone, ReconcileMark, Control
  <2> QED  BY <2>3 DEF Wholes, Unrefused, Steady
<1> QED  BY <1>1, <1>2, <1>3, <1>4, WholesCluster, WholesCycle, WholesTurns, WholesBind DEF Next, Loop

\* Without a restart and a refused binding, a gang that has the size its annotation says
\* is bound whole: between two cycles no member is bound while another is pending,
\* whatever is deleted, finishes, is evicted or created anew while the gang is placed
\* (GangCollector.Collect, scheduleGang).
THEOREM GangAtomicHolds == Spec => []GangAtomic
<1>1. Init => Base /\ Lives /\ Wholes
  <2>1. Init => Wholes
    <3> SUFFICES ASSUME Init, NEW G \in DOMAIN GangSize PROVE WholeGang(G)
      BY DEF Wholes
    <3>1. gangs = {} /\ \A p \in Pods : api[p].node = NoNode /\ ~Placing(p)
      BY NoPodTyped DEF Init, Placing
    <3> QED  BY <3>1 DEF WholeGang, Begun, GangPods
  <2> QED  BY <2>1, BaseInit, LivesInit
<1>2. Base /\ Lives /\ Wholes /\ [Next]_vars => (Base /\ Lives /\ Wholes)'
  BY BaseStep, LivesStep, WholesStep
<1>3. Base /\ Wholes => GangAtomic
  <2> SUFFICES ASSUME Base, Wholes, pc = "idle", Unrefused, NEW p \in Pods, NEW q \in Pods,
                      Sized(JobOf(p).gang), JobOf(p).gang = JobOf(q).gang, Unbound(q)
               PROVE  api[p].node = NoNode
    BY DEF GangAtomic, Unrefused
  <2> DEFINE G == JobOf(p).gang
  <2>1. WholeGang(G) /\ p \in GangPods(G) /\ q \in GangPods(G)
    BY DEF Wholes, Sized, GangPods
  <2>2. ~Placing(q)
    BY DEF Placing, Base, Control
  <2> QED  BY <2>1, <2>2 DEF WholeGang, Begun
<1> QED  BY <1>1, <1>2, <1>3, PTL DEF Spec

-----------------------------------------------------------------------------
(* Counting.                                                                *)

\* The union of a finite family of finite sets.
LEMMA FamilyFinite ==
  ASSUME NEW I, IsFiniteSet(I), NEW f, DOMAIN f = I, \A i \in I : IsFiniteSet(f[i])
  PROVE  IsFiniteSet(UNION {f[i] : i \in I})
<1> DEFINE R == {f[i] : i \in I}
<1>1. [i \in I |-> f[i]] \in Surjection(I, R)
  BY DEF Surjection
<1>2. IsFiniteSet(R)
  BY <1>1, FS_Surjection
<1>3. \A T \in R : IsFiniteSet(T)
  OBVIOUS
<1> QED  BY <1>2, <1>3, FS_UNION

\* A slot's memory, as units.
Segment(s, m) == {s} \X (1..m)

\* A segment has as many units as the entry has memory.
LEMMA SegmentSize ==
  ASSUME NEW s, NEW m \in Nat
  PROVE  IsFiniteSet(Segment(s, m)) /\ Cardinality(Segment(s, m)) = m
<1>1. IsFiniteSet({s}) /\ Cardinality({s}) = 1
  BY FS_Singleton
<1>2. IsFiniteSet(1..m) /\ Cardinality(1..m) = m
  BY FS_Interval
<1>3. IsFiniteSet(Segment(s, m)) /\ Cardinality(Segment(s, m)) = Cardinality({s}) * Cardinality(1..m)
  BY <1>1, <1>2, FS_Product DEF Segment
<1> QED  BY <1>1, <1>2, <1>3

\* What a GPU's slots and units are, element by element.
LEMMA HeldMembers ==
  ASSUME TypeOK, NEW g
  PROVE  /\ \A s : s \in HeldSlots(g) <=> /\ s = <<s[1], s[2]>> /\ s[1] \in Pods /\ s[2] \in DOMAIN alloc[s[1]]
                                          /\ alloc[s[1]][s[2]].dev = g
         /\ HeldUnits(g) = UNION {Segment(s, alloc[s[1]][s[2]].mem) : s \in HeldSlots(g)}
         /\ \A s \in HeldSlots(g) : alloc[s[1]][s[2]].mem \in Nat
<1>1. \A s : s \in HeldSlots(g) <=> /\ s = <<s[1], s[2]>> /\ s[1] \in Pods /\ s[2] \in DOMAIN alloc[s[1]]
                                    /\ alloc[s[1]][s[2]].dev = g
  BY DEF HeldSlots
<1>2. \A p \in Pods : \A i \in DOMAIN alloc[p] : alloc[p][i] \in Entry
  <2>1. \A p \in Pods : alloc[p] \in Seq(Entry)
    BY DEF TypeOK
  <2> QED  BY <2>1, ElementOfSeq, LenProperties
<1>3. \A s \in HeldSlots(g) : alloc[s[1]][s[2]].mem \in Nat
  BY <1>1, <1>2 DEF Entry
<1> QED  BY <1>1, <1>3 DEF HeldUnits, Units, Segment

\* The entries and the units on a GPU are finitely many.
LEMMA HeldFinite ==
  ASSUME TypeOK, NEW g
  PROVE  /\ IsFiniteSet(HeldSlots(g)) /\ IsFiniteSet(HeldUnits(g))
         /\ Cardinality(HeldSlots(g)) \in Nat /\ Reserved(g) \in Nat
         /\ Cardinality(HeldSlots(g)) = 0 <=> HeldSlots(g) = {}
<1> DEFINE f == [p \in Pods |-> {p} \X DOMAIN alloc[p]]
<1>1. \A p \in Pods : IsFiniteSet(f[p])
  <2> SUFFICES ASSUME NEW p \in Pods PROVE IsFiniteSet({p} \X DOMAIN alloc[p])
    OBVIOUS
  <2>1. Len(alloc[p]) \in Nat /\ DOMAIN alloc[p] = 1..Len(alloc[p])
    <3>1. alloc[p] \in Seq(Entry)
      BY DEF TypeOK
    <3> QED  BY <3>1, LenProperties
  <2>2. IsFiniteSet(DOMAIN alloc[p])
    BY <2>1, FS_Interval
  <2>3. IsFiniteSet({p})
    BY FS_Singleton
  <2> QED  BY <2>2, <2>3, FS_Product
<1>2. DOMAIN f = Pods /\ HeldSlots(g) \subseteq UNION {f[p] : p \in Pods}
  BY DEF HeldSlots
<1> HIDE DEF f
<1>3. IsFiniteSet(UNION {f[p] : p \in Pods})
  BY <1>1, <1>2, PodsFinite, FamilyFinite
<1>4. IsFiniteSet(HeldSlots(g))
  BY <1>2, <1>3, FS_Subset
<1> DEFINE h == [s \in HeldSlots(g) |-> Segment(s, alloc[s[1]][s[2]].mem)]
<1>5. \A s \in HeldSlots(g) : IsFiniteSet(h[s])
  BY HeldMembers, SegmentSize
<1>6. DOMAIN h = HeldSlots(g) /\ HeldUnits(g) = UNION {h[s] : s \in HeldSlots(g)}
  BY HeldMembers
<1> HIDE DEF h
<1>7. IsFiniteSet(UNION {h[s] : s \in HeldSlots(g)})
  BY <1>4, <1>5, <1>6, FamilyFinite
<1>8. IsFiniteSet(HeldUnits(g))
  BY <1>6, <1>7
<1> QED  BY <1>4, <1>8, FS_CardinalityType, FS_EmptySet DEF Reserved

\* Releasing takes slots away.
LEMMA ReleaseShrinks ==
  ASSUME TypeOK, TypeOK', \A p \in Pods : alloc'[p] \in {<<>>, alloc[p]}, NEW g
  PROVE  HeldSlots(g)' \subseteq HeldSlots(g) /\ Reserved(g)' <= Reserved(g) /\ Reserved(g)' \in Nat
<1>1. \A s : s \in HeldSlots(g)' <=> /\ s = <<s[1], s[2]>> /\ s[1] \in Pods /\ s[2] \in DOMAIN alloc'[s[1]]
                                     /\ alloc'[s[1]][s[2]].dev = g
  BY DEF HeldSlots
<1>2. \A s \in HeldSlots(g)' : s \in HeldSlots(g) /\ alloc'[s[1]] = alloc[s[1]]
  BY <1>1, HeldMembers
<1>3. HeldUnits(g)' \subseteq HeldUnits(g)
  BY <1>2 DEF HeldUnits, Units
<1>4. IsFiniteSet(HeldUnits(g)) /\ Reserved(g) \in Nat
  BY HeldFinite
<1>5. IsFiniteSet(HeldUnits(g)') /\ Cardinality(HeldUnits(g)') <= Cardinality(HeldUnits(g))
  BY <1>3, <1>4, FS_Subset
<1> QED  BY <1>2, <1>4, <1>5, FS_CardinalityType DEF Reserved

\* Marking adds one slot for each GPU marked, with the memory given, and nothing elsewhere.
LEMMA MarkGrows ==
  ASSUME TypeOK, TypeOK', NEW p \in Pods, NEW S \in SUBSET GPUs, NEW m \in Nat, Mark(p, S, m), NEW g
  PROVE  /\ g \notin S => HeldSlots(g)' = HeldSlots(g) /\ Reserved(g)' = Reserved(g)
         /\ g \in S => /\ \E s : HeldSlots(g)' = HeldSlots(g) \cup {s}
                       /\ Reserved(g)' = Reserved(g) + m
<1>1. /\ Cardinality(S) \in Nat
      /\ Len(alloc'[p]) = Len(alloc[p]) + Cardinality(S)
      /\ \A i \in 1..Len(alloc[p]) : alloc'[p][i] = alloc[p][i]
      /\ \A i \in 1..Cardinality(S) : alloc'[p][Len(alloc[p]) + i] = [dev |-> SetToSeq(S)[i], mem |-> m]
      /\ \A q \in Pods \ {p} : alloc'[q] = alloc[q]
  BY MarkTyped
<1>2. /\ Len(alloc[p]) \in Nat /\ DOMAIN alloc[p] = 1..Len(alloc[p]) /\ DOMAIN alloc'[p] = 1..Len(alloc'[p])
  <2>1. alloc[p] \in Seq(Entry) /\ alloc'[p] \in Seq(Entry)
    BY DEF TypeOK
  <2> QED  BY <2>1, LenProperties
<1>3. /\ \A s : s \in HeldSlots(g) <=> /\ s = <<s[1], s[2]>> /\ s[1] \in Pods /\ s[2] \in DOMAIN alloc[s[1]]
                                       /\ alloc[s[1]][s[2]].dev = g
      /\ \A s : s \in HeldSlots(g)' <=> /\ s = <<s[1], s[2]>> /\ s[1] \in Pods /\ s[2] \in DOMAIN alloc'[s[1]]
                                        /\ alloc'[s[1]][s[2]].dev = g
  BY DEF HeldSlots
<1> DEFINE n == Len(alloc[p])
           new == {<<p, n + i>> : i \in {k \in 1..Cardinality(S) : SetToSeq(S)[k] = g}}
<1>4. HeldSlots(g)' = HeldSlots(g) \cup new
  <2>1. ASSUME NEW s \in HeldSlots(g) PROVE s \in HeldSlots(g)' /\ alloc'[s[1]][s[2]] = alloc[s[1]][s[2]]
    <3>1. CASE s[1] = p
      <4>1. s[2] \in 1..n /\ s[2] \in 1..Len(alloc'[p])
        BY <1>1, <1>2, <1>3, <2>1, <3>1
      <4> QED  BY <1>1, <1>2, <1>3, <2>1, <3>1, <4>1
    <3>2. CASE s[1] # p
      BY <1>1, <1>3, <2>1, <3>2
    <3> QED  BY <3>1, <3>2
  <2>2. ASSUME NEW s \in new PROVE s \in HeldSlots(g)'
    <3>1. PICK i \in 1..Cardinality(S) : s = <<p, n + i>> /\ SetToSeq(S)[i] = g
      BY <2>2
    <3>2. n + i \in DOMAIN alloc'[p] /\ alloc'[p][n + i].dev = g
      <4>1. alloc'[p][n + i] = [dev |-> g, mem |-> m]
        BY <1>1, <3>1
      <4>2. n + i \in DOMAIN alloc'[p]
        BY <1>1, <1>2
      <4> QED  BY <4>1, <4>2
    <3> QED  BY <1>3, <3>1, <3>2
  <2>3. ASSUME NEW s \in HeldSlots(g)' PROVE s \in HeldSlots(g) \cup new
    <3>1. /\ s = <<s[1], s[2]>> /\ s[1] \in Pods /\ s[2] \in DOMAIN alloc'[s[1]] /\ alloc'[s[1]][s[2]].dev = g
      BY <1>3, <2>3
    <3>2. CASE s[1] # p
      BY <1>1, <1>3, <3>1, <3>2
    <3>3. CASE s[1] = p /\ s[2] <= n
      <4>1. s[2] \in 1..n
        BY <1>1, <1>2, <3>1, <3>3
      <4> QED  BY <1>1, <1>2, <1>3, <3>1, <3>3, <4>1
    <3>4. CASE s[1] = p /\ ~(s[2] <= n)
      <4>1. s[2] - n \in 1..Cardinality(S) /\ s[2] = n + (s[2] - n)
        BY <1>1, <1>2, <3>1, <3>4, SMTT(60)
      <4>2. alloc'[p][n + (s[2] - n)] = [dev |-> SetToSeq(S)[s[2] - n], mem |-> m]
        BY <1>1, <4>1
      <4>3. SetToSeq(S)[s[2] - n] = g
        BY <3>1, <3>4, <4>1, <4>2
      <4> QED  BY <3>1, <3>4, <4>1, <4>3
    <3> QED  BY <3>2, <3>3, <3>4
  <2> QED  BY <2>1, <2>2, <2>3
<1>5. \A s \in HeldSlots(g) : alloc'[s[1]][s[2]] = alloc[s[1]][s[2]]
  <2> SUFFICES ASSUME NEW s \in HeldSlots(g) PROVE alloc'[s[1]][s[2]] = alloc[s[1]][s[2]]
    OBVIOUS
  <2>1. CASE s[1] = p
    BY <1>1, <1>2, <1>3, <2>1
  <2>2. CASE s[1] # p
    BY <1>1, <1>3, <2>2
  <2> QED  BY <2>1, <2>2
<1>6. HeldUnits(g)' = UNION {Segment(s, alloc'[s[1]][s[2]].mem) : s \in HeldSlots(g)'}
  BY DEF HeldUnits, Units, Segment
<1>7. HeldUnits(g) = UNION {Segment(s, alloc[s[1]][s[2]].mem) : s \in HeldSlots(g)}
  BY HeldMembers
<1>8. IsFiniteSet(S)
  BY FS_Subset, WatcherAssumption
<1>9. CASE g \notin S
  <2>1. new = {}
    BY <1>8, <1>9, ListsAll
  <2>2. HeldSlots(g)' = HeldSlots(g)
    BY <1>4, <2>1
  <2>3. HeldUnits(g)' = HeldUnits(g)
    BY <1>5, <1>6, <1>7, <2>2
  <2> QED  BY <1>9, <2>2, <2>3 DEF Reserved
<1>10. CASE g \in S
  <2>1. PICK i \in 1..Cardinality(S) : SetToSeq(S)[i] = g
    BY <1>8, <1>10, ListsAll
  <2>2. \A k \in 1..Cardinality(S) : SetToSeq(S)[k] = g => k = i
    BY <1>8, <2>1, ListsAll
  <2>3. PICK s : s = <<p, n + i>>
    OBVIOUS
  <2>4. new = {s}
    BY <2>1, <2>2, <2>3
  <2>5. s \notin HeldSlots(g)
    BY <1>1, <1>2, <1>3, <2>3
  <2>6. alloc'[s[1]][s[2]].mem = m
    <3>1. alloc'[p][n + i] = [dev |-> g, mem |-> m]
      BY <1>1, <2>1
    <3>2. s[1] = p /\ s[2] = n + i
      BY <2>3
    <3> QED  BY <3>1, <3>2
  <2> HIDE DEF new
  <2>7. HeldSlots(g)' = HeldSlots(g) \cup {s}
    BY <1>4, <2>4
  <2>8. HeldUnits(g)' = HeldUnits(g) \cup Segment(s, m)
    BY <1>5, <1>6, <1>7, <2>6, <2>7
  <2>9. HeldUnits(g) \cap Segment(s, m) = {}
    BY <1>7, <2>5 DEF Segment
  <2>10. IsFiniteSet(HeldUnits(g)) /\ Cardinality(HeldUnits(g)) \in Nat
    BY HeldFinite DEF Reserved
  <2>11. IsFiniteSet(Segment(s, m)) /\ Cardinality(Segment(s, m)) = m
    BY SegmentSize
  <2>12. Cardinality(HeldUnits(g) \cap Segment(s, m)) = 0
    BY <2>9, FS_EmptySet
  <2>13. Cardinality(HeldUnits(g) \cup Segment(s, m))
           = Cardinality(HeldUnits(g)) + Cardinality(Segment(s, m)) - Cardinality(HeldUnits(g) \cap Segment(s, m))
    BY <2>10, <2>11, FS_Union, Zenon
  <2>14. Reserved(g)' = Reserved(g) + m
    BY <2>8, <2>10, <2>11, <2>12, <2>13 DEF Reserved
  <2> QED  BY <1>10, <2>7, <2>14
<1> QED  BY <1>9, <1>10

-----------------------------------------------------------------------------
(* What the decisions promise.                                              *)

\* A GPU that still has room for m, and is not taken if it cannot be shared.
Room(g, m) == Reserved(g) + m <= Total[g] /\ (g \in MPSGPUs \/ HeldSlots(g) = {})

\* What the registry shows of a GPU.
LEMMA ViewShows ==
  ASSUME TypeOK, NEW g \in GPUs
  PROVE  /\ DOMAIN View = GPUs /\ Total[g] \in Nat /\ Reserved(g) \in Nat
         /\ View[g].mps = (g \in MPSGPUs) /\ View[g].reserved = Reserved(g) /\ View[g].pods = Cardinality(HeldSlots(g))
         /\ AvailableMemoryMB(View, g) = Total[g] - Reserved(g)
         /\ FreeMB(View, g) = Total[g] - Reserved(g)
         /\ View[g].pods \in Nat /\ (View[g].pods = 0 <=> HeldSlots(g) = {})
<1>1. Total[g] \in Nat
  BY WatcherAssumption
<1> QED  BY <1>1, HeldFinite DEF View, AvailableMemoryMB, FreeMB

\* The GPUs schedulePod chooses have room for the memory it reserves.
LEMMA PodFits ==
  ASSUME TypeOK, Regular, NEW p \in Pods, NEW S \in PodPlacements(p), NEW g \in S
  PROVE  Room(g, PlacedMem(JobOf(p)))
<1> DEFINE j == JobOf(p)
<1>1. j.gpuCount \in Nat \ {0} /\ j.mem \in Nat /\ (j.shared => j.gpuCount = 1)
  <2>1. p[1] \in Jobs /\ j = JobSpec[p[1]]
    BY PodNames DEF JobOf
  <2>2. j.gpuCount \in Nat \ {0} /\ j.mem \in Nat
    BY <2>1, WatcherAssumption
  <2> HIDE DEF j
  <2>3. j.shared => j.gpuCount = 1
    BY <2>1, Zenon DEF Regular
  <2> QED  BY <2>2, <2>3
<1>2. g \in GPUs /\ DOMAIN View = GPUs
  BY PodPlacementShape DEF View
<1>3. /\ Total[g] \in Nat /\ Reserved(g) \in Nat
      /\ View[g].mps = (g \in MPSGPUs) /\ AvailableMemoryMB(View, g) = Total[g] - Reserved(g)
      /\ FreeMB(View, g) = Total[g] - Reserved(g)
      /\ View[g].pods \in Nat /\ (View[g].pods = 0 <=> HeldSlots(g) = {})
  BY <1>2, ViewShows
<1>4. CASE j.gpuCount > 1
  <2> DEFINE req == PlacedMem(j)
  <2>1. req = RequiredMemory(j.mem, j.gpuCount, j.mode) /\ req \in Nat /\ ~j.shared
    BY <1>1, <1>4, PlacedTyped DEF PlacedMem
  <2>2. \E n : S \in kSubset(j.gpuCount, Eligible(View, req, j.shared) \cap NodeGPUs(View, n))
    BY <1>4, <2>1 DEF PodPlacements, FIFOScheduleGang, BinPackScheduleGang, LeastBy, NodeBest
  <2>3. g \in Eligible(View, req, j.shared)
    BY <2>2 DEF kSubset
  <2>4. View[g].pods <= 0 /\ AvailableMemoryMB(View, g) >= req
    BY <2>1, <2>3 DEF Eligible
  <2> HIDE DEF req
  <2>5. View[g].pods = 0 /\ Reserved(g) + req <= Total[g]
    BY <1>3, <2>1, <2>4
  <2> QED  BY <1>3, <2>5 DEF Room, req
<1>5. CASE ~(j.gpuCount > 1)
  <2>1. PlacedMem(j) = j.mem
    BY <1>5 DEF PlacedMem
  <2>2. CASE j.intent \in {"prefill", "decode"}
    <3>1. g \in DisaggCandidates(View, j.mem)
      BY <1>5, <2>2 DEF PodPlacements, selectDisaggFullGPUCandidate, LeastBy
    <3>2. View[g].pods <= 0 /\ AvailableMemoryMB(View, g) >= j.mem
      BY <3>1 DEF DisaggCandidates
    <3>3. View[g].pods = 0 /\ Reserved(g) + j.mem <= Total[g]
      BY <1>1, <1>3, <3>2
    <3> QED  BY <1>3, <2>1, <3>3 DEF Room
  <2>3. CASE j.intent \notin {"prefill", "decode"}
    <3>1. allocateFromMIG(View, <<>>, j.mem, j.shared) = {}
      <4>1. FindAvailableMIG(View, <<>>, j.mem) = {}
        BY DEF FindAvailableMIG
      <4> QED  BY <4>1 DEF allocateFromMIG, SelectBestMIG, LeastBy
    <3>2. \E r \in allocateFromFullGPU(View, j.mem, j.shared) : r.dev = g
      BY <1>5, <2>3, <3>1 DEF PodPlacements, AllocateWithRouting, tryPool
    <3>3. /\ g \in FindAvailableFullGPU(View, j.mem)
          /\ View[g].mps \/ View[g].pods = 0
      BY <3>2 DEF allocateFromFullGPU, SelectBestFullGPU, LeastBy, FindAvailableMPSGPU, FindAvailableNonMPSGPU
    <3>4. FreeMB(View, g) >= j.mem
      BY <3>3 DEF FindAvailableFullGPU
    <3>5. Reserved(g) + j.mem <= Total[g]
      BY <1>1, <1>3, <3>4
    <3> QED  BY <1>3, <2>1, <3>3, <3>5 DEF Room
  <2> QED  BY <2>2, <2>3
<1> QED  BY <1>4, <1>5

\* A gang's pods are given GPUs with room, each its own.
LEMMA GangFits ==
  ASSUME TypeOK, Regular, NEW l \in Seq(Pods), \A i \in DOMAIN l : JobOf(l[i]).gang # NoGang,
         NEW S \in GangPlacements(l), NEW k \in DOMAIN l, NEW g \in S[k]
  PROVE  /\ Room(g, JobOf(l[k]).mem \div JobOf(l[k]).gpuCount)
         /\ \A i \in DOMAIN l : i < k => g \notin S[i]
<1> DEFINE jobs == [i \in DOMAIN l |-> [mem |-> JobOf(l[i]).mem, gpuCount |-> JobOf(l[i]).gpuCount,
                                        shared |-> JobOf(l[i]).shared]]
           strategy == IF Chosen("fifo") THEN "fifo" ELSE "binpack"
           V == Shadow(View, jobs, S, k)
           j == JobOf(l[k])
           before == {i \in 1..(k-1) : g \in S[i]}
           perGPU(i) == IF Cardinality(S[i]) > 1 THEN jobs[i].mem \div Cardinality(S[i]) ELSE jobs[i].mem
<1>0. l[k] \in Pods /\ DOMAIN l = 1..Len(l) /\ Len(l) \in Nat
  BY ElementOfSeq, LenProperties
<1>1. j.gpuCount = 1 /\ j.mem \in Nat /\ ~j.shared
  <2>1. l[k][1] \in Jobs /\ j = JobSpec[l[k][1]] /\ j.gang # NoGang
    BY <1>0, PodNames DEF JobOf
  <2>2. j.mem \in Nat
    BY <2>1, WatcherAssumption
  <2> HIDE DEF j
  <2>3. j.gpuCount = 1 /\ ~j.shared
    BY <2>1, Zenon DEF Regular
  <2> QED  BY <2>2, <2>3
<1>2. S[k] \in StrategyPlace(strategy, V, jobs[k])
  BY DEF GangPlacements, ScheduleMultiPodGang
<1>3. jobs[k] = [mem |-> j.mem, gpuCount |-> j.gpuCount, shared |-> j.shared]
  OBVIOUS
<1>4. g \in GPUs
  BY GangPlacementShape
<1>5. /\ V[g].total = View[g].total
      /\ V[g].reserved = View[g].reserved + Cardinality(Units(perGPU, before))
      /\ V[g].pods = View[g].pods + Cardinality(before)
  BY <1>4 DEF Shadow, View
<1> DEFINE c == Cardinality(before)
           u == Cardinality(Units(perGPU, before))
<1> HIDE DEF jobs, V, strategy
<1>6. g \in Eligible(V, j.mem, j.shared)
  BY <1>1, <1>2, <1>3 DEF StrategyPlace, FIFOSchedule, BinPackSchedule, LeastBy
<1>7. V[g].pods <= 0 /\ V[g].total - V[g].reserved >= j.mem
  BY <1>1, <1>6 DEF Eligible, AvailableMemoryMB
<1>8. /\ Total[g] \in Nat /\ Reserved(g) \in Nat /\ View[g].reserved = Reserved(g) /\ View[g].total = Total[g]
      /\ View[g].pods \in Nat /\ (View[g].pods = 0 <=> HeldSlots(g) = {})
  BY <1>4, ViewShows DEF View
<1>9. IsFiniteSet(before) /\ Cardinality(before) \in Nat
  <2>1. k - 1 \in Int
    BY <1>0
  <2>2. IsFiniteSet(1..(k-1))
    BY <2>1, FS_Interval
  <2> QED  BY <2>2, FS_Subset, FS_CardinalityType
<1>10. View[g].pods = 0 /\ c = 0
  <2>1. V[g].pods = View[g].pods + c /\ c \in Nat
    BY <1>5, <1>9
  <2> HIDE DEF c
  <2> QED  BY <1>7, <1>8, <2>1
<1>11. before = {}
  BY <1>9, <1>10, FS_EmptySet
<1>12. u = 0
  <2>1. Units(perGPU, before) = {}
    BY <1>11 DEF Units
  <2> QED  BY <2>1, FS_EmptySet
<1>13. Reserved(g) + j.mem <= Total[g]
  <2>1. V[g].reserved = View[g].reserved + u /\ V[g].total = View[g].total
    BY <1>5
  <2> HIDE DEF u
  <2> QED  BY <1>1, <1>7, <1>8, <1>12, <2>1
<1>14. j.mem \div j.gpuCount = j.mem
  BY <1>1
<1>15. \A i \in DOMAIN l : i < k => i \in 1..(k-1)
  BY <1>0
<1> QED  BY <1>8, <1>10, <1>11, <1>13, <1>14, <1>15 DEF Room

-----------------------------------------------------------------------------
(* The registry keeps within the GPUs, and what is planned still fits.      *)

\* The placements not entered yet.
Planned == {i \in DOMAIN todo : pc = "bind" => i > 1}

Within(g) == Reserved(g) <= Total[g] /\ (g \in MPSGPUs \/ \A s, t \in HeldSlots(g) : s = t)
Apart == \A i, k \in Planned : i # k => todo[i].gpus \cap todo[k].gpus = {}
Fitting == \A i \in Planned : \A g \in todo[i].gpus : Room(g, todo[i].mem)

Capacity == ~Happened("crash") /\ Regular => (\A g \in GPUs : Within(g)) /\ Apart /\ Fitting

\* Without a change of the ledger a GPU holds what it held.
LEMMA SameHeld ==
  ASSUME alloc' = alloc, NEW g
  PROVE  HeldSlots(g)' = HeldSlots(g) /\ Reserved(g)' = Reserved(g)
<1>1. HeldSlots(g)' = HeldSlots(g)
  BY DEF HeldSlots
<1> QED  BY <1>1 DEF Reserved, HeldUnits, Units

\* A step that only releases keeps a GPU within its bounds and does not take its room.
LEMMA ReleaseKeeps ==
  ASSUME TypeOK, TypeOK', \A p \in Pods : alloc'[p] \in {<<>>, alloc[p]}, NEW g \in GPUs
  PROVE  (Within(g) => Within(g)') /\ \A m \in Nat : Room(g, m) => Room(g, m)'
<1>1. HeldSlots(g)' \subseteq HeldSlots(g) /\ Reserved(g)' <= Reserved(g) /\ Reserved(g)' \in Nat
  BY ReleaseShrinks
<1>2. Reserved(g) \in Nat /\ Total[g] \in Nat
  BY HeldFinite, WatcherAssumption
<1> QED  BY <1>1, <1>2 DEF Within, Room

\* What is left to mark and bind are pods, GPUs and memory sizes.
LEMMA TodoTyped ==
  ASSUME TypeOK, NEW i \in DOMAIN todo
  PROVE  todo[i].pod \in Pods /\ todo[i].gpus \subseteq GPUs /\ todo[i].mem \in Nat
<1> DEFINE T == [pod : Pods, gpus : SUBSET GPUs, mem : Nat]
<1>1. todo \in Seq(T)
  BY DEF TypeOK
<1> HIDE DEF T
<1>2. todo[i] \in T
  BY <1>1, ElementOfSeq, LenProperties
<1> QED  BY <1>2 DEF T

\* Steps that add no entry and no placement keep the capacity of every GPU.
LEMMA CapacityKept ==
  ASSUME Base, Base', Capacity, [Next]_vars, \A p \in Pods : alloc'[p] \in {<<>>, alloc[p]},
         todo' = <<>> \/ (todo' = todo /\ pc' = pc)
  PROVE  Capacity'
<1> USE DEF Base
<1>1. SUFFICES ASSUME ~Happened("crash")', Regular
               PROVE  (\A g \in GPUs : Within(g)') /\ Apart' /\ Fitting'
  BY DEF Capacity
<1>2. (\A g \in GPUs : Within(g)) /\ Apart /\ Fitting
  BY <1>1, Past DEF Capacity
<1>3. \A g \in GPUs : Within(g)'
  BY <1>2, ReleaseKeeps
<1>4. Apart'
  BY <1>2 DEF Apart, Planned
<1>5. Fitting'
  <2> SUFFICES ASSUME NEW i \in Planned', NEW g \in todo'[i].gpus, NEW m, m = todo'[i].mem PROVE Room(g, m)'
    BY DEF Fitting, Room
  <2>1. todo' = todo /\ i \in Planned /\ i \in DOMAIN todo
    BY DEF Planned
  <2>2. g \in GPUs /\ todo[i].mem \in Nat /\ Room(g, todo[i].mem)
    BY <1>2, <2>1, TodoTyped DEF Fitting
  <2>3. m \in Nat /\ Room(g, m)
    BY <2>1, <2>2
  <2> QED  BY <2>2, <2>3, ReleaseKeeps
<1> QED  BY <1>3, <1>4, <1>5

\* What schedulePod chooses fits beside what is reserved.
LEMMA CapacityTurn ==
  ASSUME Base, Base', Capacity, NEW p \in standalone, SchedulePod(p)
  PROVE  Capacity'
<1> USE DEF Base
<1>1. [Next]_vars
  BY DEF Next, Loop
<1>2. SUFFICES ASSUME ~Happened("crash")', Regular
               PROVE  (\A g \in GPUs : Within(g)') /\ Apart' /\ Fitting'
  BY DEF Capacity
<1>3. \A g \in GPUs : Within(g)
  BY <1>1, <1>2, Past DEF Capacity
<1>4. PICK S \in PodPlacements(p) : todo' = <<[pod |-> p, gpus |-> S, mem |-> PlacedMem(JobOf(p))]>>
  BY DEF SchedulePod
<1>5. p \in Pods /\ alloc' = alloc
  BY DEF SchedulePod, TypeOK
<1>6. \A g \in S : Room(g, PlacedMem(JobOf(p)))
  BY <1>2, <1>5, PodFits
<1>7. \A i \in DOMAIN todo' : i = 1 /\ todo'[i].gpus = S /\ todo'[i].mem = PlacedMem(JobOf(p))
  BY <1>4
<1>8. Apart' /\ Fitting'
  BY <1>5, <1>6, <1>7, SameHeld DEF Apart, Fitting, Planned, Room
<1> QED  BY <1>3, <1>5, <1>8, SameHeld DEF Within

\* What scheduleGang chooses fits beside what is reserved, all members together.
LEMMA CapacityGang ==
  ASSUME Base, Base', Capacity, NEW P \in gangs, ScheduleGang(P)
  PROVE  Capacity'
<1> USE DEF Base
<1>1. [Next]_vars
  BY DEF Next, Loop
<1>2. alloc' = alloc /\ P \subseteq Pods /\ todo = <<>> /\ \A p \in P : JobOf(p).gang # NoGang
  BY GangTurn DEF ScheduleGang, Disjoint
<1>3. PICK l \in GangOrders(P) :
        IF GangPlacements(l) = {} THEN UNCHANGED <<todo, pc>>
        ELSE /\ \E S \in GangPlacements(l) :
                  todo' = [i \in DOMAIN l |->
                            [pod |-> l[i], gpus |-> S[i], mem |-> JobOf(l[i]).mem \div Cardinality(S[i])]]
             /\ pc' = "mark"
  BY DEF ScheduleGang
<1>4. CASE GangPlacements(l) = {}
  BY <1>1, <1>2, <1>3, <1>4, CapacityKept
<1>5. CASE GangPlacements(l) # {}
  <2>1. PICK S \in GangPlacements(l) :
          todo' = [i \in DOMAIN l |-> [pod |-> l[i], gpus |-> S[i], mem |-> JobOf(l[i]).mem \div Cardinality(S[i])]]
    BY <1>3, <1>5
  <2>2. l \in Seq(Pods) /\ DOMAIN l \subseteq Nat /\ \A i \in DOMAIN l : JobOf(l[i]).gang # NoGang
    <3>1. l \in Seq(Pods) /\ DOMAIN l = 1..Len(l) /\ \A i \in DOMAIN l : l[i] \in P
      BY <1>2, GangOrderShape
    <3> QED  BY <1>2, <3>1
  <2>3. SUFFICES ASSUME ~Happened("crash")', Regular
                 PROVE  (\A g \in GPUs : Within(g)') /\ Apart' /\ Fitting'
    BY DEF Capacity
  <2>4. \A g \in GPUs : Within(g)
    BY <1>1, <2>3, Past DEF Capacity
  <2>5. \A k \in DOMAIN l : \A g \in S[k] : /\ Room(g, JobOf(l[k]).mem \div JobOf(l[k]).gpuCount)
                                            /\ \A i \in DOMAIN l : i < k => g \notin S[i]
    BY <2>2, <2>3, GangFits
  <2>6. DOMAIN todo' = DOMAIN l /\ \A i \in DOMAIN l : /\ todo'[i].gpus = S[i]
                                                       /\ todo'[i].mem = JobOf(l[i]).mem \div JobOf(l[i]).gpuCount
    <3>1. \A i \in DOMAIN l : Cardinality(S[i]) = JobOf(l[i]).gpuCount
      BY <2>2, GangPlacementShape
    <3> QED  BY <2>1, <3>1
  <2>7. Apart'
    <3>1. \A i, k \in DOMAIN l : i < k => S[i] \cap S[k] = {}
      BY <2>5
    <3>2. \A i, k \in DOMAIN l : i # k => i < k \/ k < i
      BY <2>2
    <3> QED  BY <2>6, <3>1, <3>2 DEF Apart, Planned
  <2>8. Fitting'
    <3> SUFFICES ASSUME NEW i \in Planned', NEW g \in todo'[i].gpus, NEW m, m = todo'[i].mem PROVE Room(g, m)'
      BY DEF Fitting, Room
    <3>1. i \in DOMAIN l
      BY <2>6 DEF Planned
    <3>2. Room(g, m)
      BY <2>5, <2>6, <3>1
    <3> QED  BY <1>2, <3>2, SameHeld DEF Room
  <2>9. \A g \in GPUs : Within(g)'
    BY <1>2, <2>4, SameHeld DEF Within
  <2> QED  BY <2>7, <2>8, <2>9
<1> QED  BY <1>4, <1>5

\* Marking a placement turns what was chosen into what is reserved.
LEMMA CapacityMark ==
  ASSUME Base, Base', Capacity, MarkPlacement
  PROVE  Capacity'
<1> USE DEF Base
<1>1. [Next]_vars
  BY DEF Next, Loop
<1>2. SUFFICES ASSUME ~Happened("crash")', Regular
               PROVE  (\A g \in GPUs : Within(g)') /\ Apart' /\ Fitting'
  BY DEF Capacity
<1>3. (\A g \in GPUs : Within(g)) /\ Apart /\ Fitting
  BY <1>1, <1>2, Past DEF Capacity
<1>4. pc = "mark" /\ pc' = "bind" /\ todo # <<>> /\ todo' = todo
  BY DEF MarkPlacement, Control, loop
<1>5. /\ todo[1].pod \in Pods /\ todo[1].gpus \subseteq GPUs /\ todo[1].mem \in Nat /\ 1 \in DOMAIN todo
      /\ Mark(todo[1].pod, todo[1].gpus, todo[1].mem)
  BY <1>4, FirstTyped DEF MarkPlacement
<1>6. PICK p \in Pods, S \in SUBSET GPUs, n \in Nat : S = todo[1].gpus /\ n = todo[1].mem /\ Mark(p, S, n)
  BY <1>5
<1>7. \A g \in GPUs : /\ g \notin S => HeldSlots(g)' = HeldSlots(g) /\ Reserved(g)' = Reserved(g)
                      /\ g \in S => /\ \E s : HeldSlots(g)' = HeldSlots(g) \cup {s}
                                    /\ Reserved(g)' = Reserved(g) + n
  <2>1. TypeOK /\ TypeOK' /\ Mark(p, S, n)
    BY <1>6
  <2> HIDE DEF Base
  <2> QED  BY <2>1, MarkGrows, ZenonT(60)
<1>8. 1 \in Planned /\ \A g \in S : Room(g, n)
  <2>1. 1 \in Planned
    BY <1>4, <1>5 DEF Planned
  <2> QED  BY <1>3, <1>6, <2>1 DEF Fitting
<1>9. Planned' \subseteq Planned /\ Planned' \subseteq DOMAIN todo /\ 1 \notin Planned'
  BY <1>4 DEF Planned
<1>10. ASSUME NEW g \in GPUs PROVE Within(g)'
  <2>1. CASE g \notin S
    BY <1>3, <1>7, <2>1 DEF Within
  <2>2. CASE g \in S
    BY <1>7, <1>8, <2>2 DEF Within, Room
  <2> QED  BY <2>1, <2>2
<1>11. Apart'
  BY <1>3, <1>4, <1>9 DEF Apart
<1>12. Fitting'
  <2> SUFFICES ASSUME NEW i \in Planned', NEW g \in todo'[i].gpus, NEW m, m = todo'[i].mem PROVE Room(g, m)'
    BY DEF Fitting, Room
  <2>1. i \in Planned /\ i # 1 /\ i \in DOMAIN todo
    BY <1>9
  <2>2. g \in GPUs /\ g \notin S /\ Room(g, todo[i].mem)
    BY <1>3, <1>4, <1>6, <1>8, <2>1, TodoTyped DEF Apart, Fitting
  <2> QED  BY <1>4, <1>7, <2>2 DEF Room
<1> QED  BY <1>10, <1>11, <1>12

\* A binding, accepted or rolled back, leaves the other placements fitting.
LEMMA CapacityBind ==
  ASSUME Base, Base', Capacity, BindOK \/ BindFails
  PROVE  Capacity'
<1> USE DEF Base
<1>1. [Next]_vars
  BY DEF Next, Loop
<1>2. SUFFICES ASSUME ~Happened("crash")', Regular
               PROVE  (\A g \in GPUs : Within(g)') /\ Apart' /\ Fitting'
  BY DEF Capacity
<1>3. (\A g \in GPUs : Within(g)) /\ Apart /\ Fitting
  BY <1>1, <1>2, Past DEF Capacity
<1>4. pc = "bind" /\ todo # <<>> /\ todo' = Tail(todo) /\ \A p \in Pods : alloc'[p] \in {<<>>, alloc[p]}
  BY ReleaseTyped DEF BindOK, BindFails, BindReturns, Control
<1>5. /\ Len(todo) \in Nat /\ DOMAIN todo' = 1..(Len(todo) - 1)
      /\ \A i \in DOMAIN todo' : i + 1 \in DOMAIN todo /\ todo'[i] = todo[i + 1]
  BY <1>4, FirstTyped, TailTyped
<1>6. \A i \in Planned' : i \in Nat /\ i + 1 \in Planned /\ i + 1 \in DOMAIN todo /\ todo'[i] = todo[i + 1]
  BY <1>5 DEF Planned
<1>7. \A g \in GPUs : Within(g)'
  BY <1>3, <1>4, ReleaseKeeps
<1>8. Apart'
  <2>1. \A i, k \in Planned' : i # k => i + 1 # k + 1
    BY <1>6
  <2> QED  BY <1>3, <1>6, <2>1 DEF Apart
<1>9. Fitting'
  <2> SUFFICES ASSUME NEW i \in Planned', NEW g \in todo'[i].gpus, NEW m, m = todo'[i].mem PROVE Room(g, m)'
    BY DEF Fitting, Room
  <2>1. PICK k \in Planned : k \in DOMAIN todo /\ todo'[i] = todo[k]
    BY <1>6
  <2>2. g \in GPUs /\ todo[k].mem \in Nat /\ Room(g, todo[k].mem)
    BY <1>3, <2>1, TodoTyped DEF Fitting
  <2>3. m \in Nat /\ Room(g, m)
    BY <2>1, <2>2
  <2> QED  BY <1>4, <2>2, <2>3, ReleaseKeeps
<1> QED  BY <1>7, <1>8, <1>9

\* Every step keeps the capacity of every GPU.
LEMMA CapacityStep ==
  ASSUME Base, Capacity, [Next]_vars
  PROVE  Capacity'
<1> USE DEF Base
<1>0. Base'
  BY BaseStep
<1>1. CASE Cluster \/ UNCHANGED vars \/ InformerSync
  <2>1. UNCHANGED <<alloc, todo, pc>>
    BY <1>1 DEF Cluster, UserCreate, UserDelete, KubeletStart, KubeletFinish, KubeletRemove, InformerSync,
                vars, cluster, loop
  <2> QED  BY <1>0, <2>1, CapacityKept
<1>2. ASSUME NEW p \in Pods, HandleEvent(p) \/ Resync(p)
      PROVE  Capacity'
  <2>1. UNCHANGED <<todo, pc>> /\ \A q \in Pods : alloc'[q] \in {<<>>, alloc[q]}
    BY <1>2, ReleaseTyped DEF HandleEvent, Resync, loop
  <2> QED  BY <1>0, <2>1, CapacityKept
<1>3. CASE \/ ProcessQueue \/ ProcessQueueDeferred \/ CycleDone
           \/ \E p \in standalone : SkipInvalidPod(p) \/ NoCapacity(p) \/ Preempt(p)
           \/ (\E v \in toDelete : EvictVictim(v)) \/ \E v \in resuming : AutoResume(v)
  <2>1. UNCHANGED <<alloc, todo>> /\ pc \notin {"mark", "bind"}
    <3>1. CASE ProcessQueue \/ ProcessQueueDeferred \/ CycleDone
      BY <3>1 DEF ProcessQueue, ProcessQueueDeferred, CycleDone, loop
    <3>2. CASE \E p \in standalone : SkipInvalidPod(p) \/ NoCapacity(p) \/ Preempt(p)
      BY <3>2 DEF SkipInvalidPod, NoCapacity, Preempt, NoRoom, Turn
    <3>3. CASE (\E v \in toDelete : EvictVictim(v)) \/ \E v \in resuming : AutoResume(v)
      BY <3>3 DEF EvictVictim, AutoResume
    <3> QED  BY <1>3, <3>1, <3>2, <3>3
  <2>2. todo' = <<>>
    BY <2>1 DEF Control
  <2> QED  BY <1>0, <2>1, <2>2, CapacityKept
<1>4. CASE ReleaseVictims
  <2>1. todo' = <<>> /\ \A q \in Pods : alloc'[q] \in {<<>>, alloc[q]}
    BY <1>4, ReleaseTyped DEF ReleaseVictims, Control
  <2> QED  BY <1>0, <2>1, CapacityKept
<1>5. CASE Crash \/ ReconcileList \/ ReconcileDone \/ \E r \in listed : ReconcileMark(r)
  <2>1. "crash" \in Kinds /\ budget.spent["crash"] \in Nat
    BY DEF Kinds, TypeOK
  <2>2. Crash => Happened("crash")'
    BY <2>1, SpendTyped DEF Crash, Happened
  <2>3. Happened("crash")'
    BY <1>5, <2>2, Past DEF ReconcileList, ReconcileDone, ReconcileMark, Control
  <2> QED  BY <2>3 DEF Capacity
<1> QED  BY <1>0, <1>1, <1>2, <1>3, <1>4, <1>5, CapacityTurn, CapacityGang, CapacityMark, CapacityBind
            DEF Next, Loop

-----------------------------------------------------------------------------
(* What the cluster runs is part of what the registry holds.                *)

\* For the jobs the strategies check, the memory reserved is the memory used.
LEMMA UsedIsPlaced ==
  ASSUME Regular, NEW p \in Pods
  PROVE  UsedMem(p) = PlacedFor(p)
<1> DEFINE j == JobOf(p)
<1>1. p[1] \in Jobs /\ j = JobSpec[p[1]]
  BY PodNames DEF JobOf
<1>2. j.gpuCount \in Nat \ {0} /\ j.mem \in Nat
  BY <1>1, WatcherAssumption
<1>3. j.gang # NoGang => j.gpuCount = 1
  <2> HIDE DEF j
  <2> QED  BY <1>1, Zenon DEF Regular
<1> QED  BY <1>2, <1>3 DEF UsedMem, PlacedFor, PlacedMem

\* The invariant holds throughout.
LEMMA CapacityHolds == Spec => [](Base /\ Lives /\ Reservations /\ Capacity)
<1>1. Init => Base /\ Lives /\ Reservations /\ Capacity
  <2>1. Init => Capacity
    <3> SUFFICES ASSUME Init, NEW g \in GPUs PROVE Within(g)
      BY DEF Capacity, Apart, Fitting, Planned, Init
    <3>1. HeldSlots(g) = {}
      BY DEF Init, HeldSlots
    <3>2. HeldUnits(g) = {}
      BY <3>1 DEF HeldUnits, Units
    <3>3. Reserved(g) = 0 /\ Total[g] \in Nat
      BY <3>2, FS_EmptySet, WatcherAssumption DEF Reserved
    <3> QED  BY <3>1, <3>3 DEF Within
  <2> QED  BY <2>1, BaseInit, LivesInit, ReservationsInit
<1>2. Base /\ Lives /\ Reservations /\ Capacity /\ [Next]_vars => (Base /\ Lives /\ Reservations /\ Capacity)'
  BY BaseStep, LivesStep, ReservationsStep, CapacityStep
<1> QED  BY <1>1, <1>2, PTL DEF Spec

\* As long as the scheduler's records are not known to lie, the pods a GPU runs, those being
\* evicted aside, fit in its memory, and a GPU without MPS runs one of them, whatever is
\* deleted, finished, refused, released or evicted between choosing, reserving and binding
\* (schedulePod, scheduleGang, bindPodAndRecord, ReleasePod).
THEOREM NoOverbookingHolds == Spec => []NoOverbooking
<1>1. Base /\ Reservations /\ Capacity => NoOverbooking
  <2> SUFFICES ASSUME Base, Reservations, Capacity, Truthful, Regular, NEW g \in GPUs
               PROVE  LET here == Occupants(g) \ pendingEvictions
                      IN  /\ g \notin MPSGPUs => Cardinality(here) <= 1
                          /\ Cardinality(Units(UsedMem, here)) <= Total[g]
    BY DEF NoOverbooking
  <2> DEFINE here == Occupants(g) \ pendingEvictions
             used == Units(UsedMem, here)
  <2>1. Within(g) /\ IsFiniteSet(HeldUnits(g)) /\ Reserved(g) \in Nat /\ Total[g] \in Nat
    BY HeldFinite, WatcherAssumption DEF Truthful, Steady, Capacity, Base
  <2>2. \A p \in here : p \in Pods /\ \E i \in DOMAIN alloc[p] : alloc[p][i] = [dev |-> g, mem |-> UsedMem(p)]
    BY UsedIsPlaced DEF Reservations, ReservedFor, Occupants, Holds
  <2> DEFINE ix(p) == CHOOSE i \in DOMAIN alloc[p] : alloc[p][i] = [dev |-> g, mem |-> UsedMem(p)]
  <2>3. \A p \in here : /\ p \in Pods /\ ix(p) \in DOMAIN alloc[p]
                        /\ alloc[p][ix(p)] = [dev |-> g, mem |-> UsedMem(p)]
    BY <2>2
  <2> DEFINE slot == [p \in here |-> <<p, ix(p)>>]
  <2>4. \A p \in here : slot[p][1] = p /\ alloc[slot[p][1]][slot[p][2]] = [dev |-> g, mem |-> UsedMem(p)] /\ slot[p] \in HeldSlots(g)
    BY <2>3, SMTT(60) DEF HeldSlots
  <2>5. \A u \in used : u = <<u[1], u[2]>> /\ u[1] \in here /\ u[2] \in 1..UsedMem(u[1])
    BY DEF Units
  <2> HIDE DEF slot, here, used
  <2>6. g \notin MPSGPUs => Cardinality(here) <= 1
    <3>1. g \notin MPSGPUs => \A p, q \in here : p = q
      BY <2>1, <2>4 DEF Within
    <3> QED  BY <3>1, AtMostOne
  <2> DEFINE f == [u \in used |-> <<slot[u[1]], u[2]>>]
  <2>7. f \in Injection(used, HeldUnits(g))
    <3>1. ASSUME NEW u \in used PROVE f[u] \in HeldUnits(g)
      <4>0. PICK p \in here : p = u[1] /\ u[2] \in 1..UsedMem(p)
        BY <2>5
      <4>1. PICK s \in HeldSlots(g) : s = slot[p] /\ alloc[s[1]][s[2]].mem = UsedMem(p)
        <5>1. alloc[slot[p][1]][slot[p][2]] = [dev |-> g, mem |-> UsedMem(p)] /\ slot[p] \in HeldSlots(g)
          BY <2>4, Zenon
        <5>2. alloc[slot[p][1]][slot[p][2]].mem = UsedMem(p)
          BY <5>1
        <5> QED  BY <5>1, <5>2, Zenon
      <4>2. f[u] = <<s, u[2]>>
        BY <4>0, <4>1
      <4>3. u[2] \in 1..alloc[s[1]][s[2]].mem
        BY <4>0, <4>1
      <4> QED  BY <4>2, <4>3 DEF HeldUnits, Units
    <3>2. ASSUME NEW u \in used, NEW v \in used, f[u] = f[v] PROVE u = v
      <4>1. slot[u[1]] = slot[v[1]] /\ u[2] = v[2]
        BY <3>2
      <4>2. PICK p \in here, q \in here : p = u[1] /\ q = v[1]
        BY <2>5
      <4>3. u[1] = v[1]
        <5>1. slot[p] = slot[q] /\ slot[p][1] = p /\ slot[q][1] = q
          BY <2>4, <4>1, <4>2
        <5> QED  BY <4>2, <5>1
      <4>4. u = <<u[1], u[2]>> /\ v = <<v[1], v[2]>>
        BY <2>5
      <4> QED  BY <4>1, <4>3, <4>4
    <3>3. f \in [used -> HeldUnits(g)]
      BY <3>1
    <3> QED  BY <3>2, <3>3 DEF Injection, IsInjective
  <2>8. Cardinality(used) <= Cardinality(HeldUnits(g)) /\ IsFiniteSet(used)
    BY <2>1, <2>7, FS_Injection
  <2>9. Cardinality(used) <= Total[g]
    <3>1. Cardinality(used) \in Nat
      BY <2>8, FS_CardinalityType
    <3> QED  BY <2>1, <2>8, <3>1 DEF Within, Reserved
  <2> QED  BY <2>6, <2>9 DEF here, used
<1> QED  BY <1>1, CapacityHolds, PTL

\* The registry itself is never over a GPU's memory, and has one entry for a GPU without
\* MPS, as long as the scheduler is not restarted: lost replies, refused patches and names
\* that are used again make it wrong about the cluster, but do not make it overbook
\* (MarkGPUAllocatedForPod against what GetNodes showed the strategies).
THEOREM RegistryNeverOverbooked == Spec => [](~Happened("crash") /\ Regular => \A g \in GPUs : Within(g))
<1>1. Capacity => (~Happened("crash") /\ Regular => \A g \in GPUs : Within(g))
  BY DEF Capacity
<1> QED  BY <1>1, CapacityHolds, PTL

\* Where preemption is not configured nothing is ever being evicted.
NoEvictions == ~Preemption => victims = {} /\ pendingEvictions = {}

\* Only handleNoCapacityForPod, with an orchestrator, chooses victims.
LEMMA NoEvictionsStep == NoEvictions /\ [Next]_vars => NoEvictions'
<1> SUFFICES ASSUME ~Preemption, victims = {}, pendingEvictions = {}, [Next]_vars
             PROVE  victims' = {} /\ pendingEvictions' = {}
  BY DEF NoEvictions
<1>1. CASE Cluster \/ UNCHANGED vars \/ Crash \/ InformerSync
  BY <1>1 DEF Cluster, UserCreate, UserDelete, KubeletStart, KubeletFinish, KubeletRemove, Crash, InformerSync, vars, loop
<1>2. ASSUME NEW p \in Pods, HandleEvent(p) \/ Resync(p) PROVE victims' = {} /\ pendingEvictions' = {}
  BY <1>2 DEF HandleEvent, Resync, loop
<1>3. CASE ProcessQueue \/ ProcessQueueDeferred \/ CycleDone
  BY <1>3 DEF ProcessQueue, ProcessQueueDeferred, CycleDone, loop
<1>4. CASE \/ (\E P \in gangs : ScheduleGang(P)) \/ MarkPlacement \/ BindOK \/ BindFails
           \/ \E p \in standalone : SchedulePod(p) \/ SkipInvalidPod(p) \/ NoCapacity(p)
  BY <1>4 DEF ScheduleGang, MarkPlacement, BindOK, BindFails, BindReturns, SchedulePod, SkipInvalidPod, NoCapacity, loop
<1>5. ASSUME NEW p \in standalone, Preempt(p) PROVE FALSE
  BY <1>5 DEF Preempt, VictimSets
<1>6. CASE (\E v \in toDelete : EvictVictim(v)) \/ (\E v \in resuming : AutoResume(v)) \/ ReleaseVictims
  BY <1>6 DEF EvictVictim, AutoResume, ReleaseVictims
<1>7. CASE ReconcileList \/ ReconcileDone \/ \E r \in listed : ReconcileMark(r)
  BY <1>7 DEF ReconcileList, ReconcileDone, ReconcileMark, loop
<1> QED  BY <1>1, <1>2, <1>3, <1>4, <1>5, <1>6, <1>7 DEF Next, Loop

\* Without preemption a GPU without MPS runs one pod of the scheduler at a time, those that
\* are being deleted included, as long as the scheduler's records are not known to lie: with
\* it, the next pod is bound while the victim still terminates (handleNoCapacityForPod), and after a
\* restart a pod that is bound and does not run yet is not found (reconcileExistingPods).
THEOREM ExclusiveWithoutPreemption == Spec => [](Truthful /\ Regular /\ ~Preemption => ExclusiveOccupancy)
<1>1. Init => NoEvictions
  BY DEF Init, NoEvictions
<1>2. NoEvictions /\ [Next]_vars => NoEvictions'
  BY NoEvictionsStep
<1>3. NoEvictions /\ NoOverbooking => (Truthful /\ Regular /\ ~Preemption => ExclusiveOccupancy)
  <2> SUFFICES ASSUME NoEvictions, NoOverbooking, Truthful, Regular, ~Preemption, NEW g \in GPUs \ MPSGPUs
               PROVE  Cardinality(Occupants(g)) <= 1
    BY DEF ExclusiveOccupancy
  <2>1. Occupants(g) \ pendingEvictions = Occupants(g)
    BY DEF NoEvictions
  <2>2. Cardinality(Occupants(g) \ pendingEvictions) <= 1
    BY DEF NoOverbooking
  <2> QED  BY <2>1, <2>2
<1> QED  BY <1>1, <1>2, <1>3, NoOverbookingHolds, PTL DEF Spec

=============================================================================
