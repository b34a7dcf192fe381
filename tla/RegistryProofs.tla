--------------------------- MODULE RegistryProofs ---------------------------
(***************************************************************************)
(* Proofs that the GPU registry keeps its books: for any pods, GPUs, MIG   *)
(* instances and memory sizes, the counters of registry.go agree with its  *)
(* allocation entries, no GPU is over-reserved or given away twice, and    *)
(* the registry implements Ledger.                                         *)
(*                                                                         *)
(* Memory is counted in units: an entry of m MB is a segment of m units,   *)
(* so that a mark adds a segment to a finite set and a release removes one,*)
(* and the reserved memory is a cardinality.                               *)
(***************************************************************************)
EXTENDS Registry, FiniteSetTheorems, TLAPS

\* The units of one entry.
Segment(s, m) == {<<s, k>> : k \in 1..m}

\* The pods' entries name devices of their own kind.
EntryKinds ==
  \A p \in Pods : \A i \in DOMAIN podAllocations[p] :
     /\ podAllocations[p][i].isMIG => podAllocations[p][i].dev \in MIGs
     /\ ~podAllocations[p][i].isMIG => podAllocations[p][i].dev \in GPUs

\* ReleasePod's loop stays within the entries it releases.
ReleaseBounds ==
  ~mutexFree => /\ releasing[2] >= 1
                /\ releasing[2] <= Len(podAllocations[releasing[1]]) + 1

\* The inductive invariant.
Inv == /\ TypeOK /\ EntryKinds /\ ReleaseBounds
       /\ Accounting /\ ChoiceFits /\ WithinTotal /\ ExclusiveGPU

-----------------------------------------------------------------------------
(* Counting.                                                                *)

\* An entry of m MB stands for m units.
LEMMA SegmentCard ==
  ASSUME NEW s, NEW m \in Nat
  PROVE  IsFiniteSet(Segment(s, m)) /\ Cardinality(Segment(s, m)) = m
<1> DEFINE f == [k \in 1..m |-> <<s, k>>]
<1>1. f \in Bijection(1..m, Segment(s, m))
  <2>1. f \in [1..m -> Segment(s, m)]
    BY DEF Segment
  <2>2. \A a, b \in 1..m : f[a] = f[b] => a = b
    OBVIOUS
  <2>3. \A t \in Segment(s, m) : \E k \in 1..m : f[k] = t
    BY DEF Segment
  <2> QED  BY <2>1, <2>2, <2>3 DEF Bijection, Injection, Surjection, IsInjective
<1>2. ExistsBijection(1..m, Segment(s, m))
  BY <1>1 DEF ExistsBijection
<1>3. IsFiniteSet(1..m) /\ Cardinality(1..m) = m
  BY FS_Interval
<1> QED  BY <1>2, <1>3, FS_Bijection

\* Slots and units are finitely many.
LEMMA UnitsFinite == IsFiniteSet(L!Slots) /\ IsFiniteSet(L!Units)
<1>1. IsFiniteSet(1..MaxEntries) /\ IsFiniteSet(1..MaxMem)
  BY FS_Interval, RegistryAssumption
<1>2. IsFiniteSet(L!Slots)
  BY <1>1, FS_Product, RegistryAssumption DEF L!Slots
<1> QED  BY <1>1, <1>2, FS_Product DEF L!Units

\* Adding a set that is disjoint adds its size.
LEMMA AddDisjoint ==
  ASSUME NEW S, NEW T, IsFiniteSet(S), IsFiniteSet(T), S \cap T = {}
  PROVE  /\ IsFiniteSet(S \cup T)
         /\ Cardinality(S \cup T) = Cardinality(S) + Cardinality(T)
<1>1. Cardinality(S) \in Nat /\ Cardinality(T) \in Nat
  BY FS_CardinalityType
<1>2. Cardinality(S \cap T) = 0
  BY FS_EmptySet
<1>3. /\ IsFiniteSet(S \cup T)
      /\ Cardinality(S \cup T) = Cardinality(S) + Cardinality(T) - Cardinality(S \cap T)
  BY FS_Union, Zenon
<1> QED  BY <1>1, <1>2, <1>3

\* Removing a subset removes its size.
LEMMA RemoveSubset ==
  ASSUME NEW S, NEW T, IsFiniteSet(S), T \subseteq S
  PROVE  /\ Cardinality(S \ T) = Cardinality(S) - Cardinality(T)
         /\ Cardinality(T) <= Cardinality(S)
<1>1. S \cap T = T
  OBVIOUS
<1> QED  BY <1>1, FS_Difference, FS_Subset, ZenonT(60)

-----------------------------------------------------------------------------
(* What a mark and a release do to the books.                               *)

\* All sets that are counted are finite.
LEMMA BookedFinite ==
  ASSUME NEW g
  PROVE  /\ IsFiniteSet(L!BookedSlots(g)) /\ IsFiniteSet(L!BookedUnits(g))
         /\ IsFiniteSet(LiveSlots(g)) /\ IsFiniteSet(LiveUnits(g))
<1>1. /\ L!BookedSlots(g) \in SUBSET L!Slots /\ L!BookedUnits(g) \in SUBSET L!Units
      /\ LiveSlots(g) \in SUBSET L!Slots /\ LiveUnits(g) \in SUBSET L!Units
  BY DEF L!BookedSlots, L!BookedUnits, LiveSlots, LiveUnits
<1> QED  BY <1>1, UnitsFinite, FS_Subset

\* Appending an entry leaves the others where they are.
LEMMA AppendTyped ==
  ASSUME TypeOK, NEW p \in Pods, NEW d \in GPUs \cup MIGs, NEW m \in 0..MaxMem, NEW b \in BOOLEAN,
         AppendEntry(p, d, m, b)
  PROVE  /\ podAllocations' \in [Pods -> Seq(Entry)]
         /\ Len(podAllocations[p]) \in Nat
         /\ Len(podAllocations'[p]) = Len(podAllocations[p]) + 1
         /\ podAllocations'[p][Len(podAllocations[p]) + 1] = [dev |-> d, mem |-> m, isMIG |-> b]
         /\ \A i \in 1..Len(podAllocations[p]) : podAllocations'[p][i] = podAllocations[p][i]
         /\ \A q \in Pods \ {p} : podAllocations'[q] = podAllocations[q]
<1> DEFINE e == [dev |-> d, mem |-> m, isMIG |-> b]
<1>1. e \in Entry
  BY DEF Entry
<1>2. podAllocations[p] \in Seq(Entry) /\ podAllocations \in [Pods -> Seq(Entry)]
  BY DEF TypeOK
<1>3. podAllocations' = [podAllocations EXCEPT ![p] = Append(podAllocations[p], e)]
  BY DEF AppendEntry
<1> HIDE DEF e
<1>4. /\ Append(podAllocations[p], e) \in Seq(Entry)
      /\ Len(podAllocations[p]) \in Nat
      /\ Len(Append(podAllocations[p], e)) = Len(podAllocations[p]) + 1
      /\ Append(podAllocations[p], e)[Len(podAllocations[p]) + 1] = e
      /\ \A i \in 1..Len(podAllocations[p]) : Append(podAllocations[p], e)[i] = podAllocations[p][i]
  BY <1>1, <1>2
<1>5. podAllocations'[p] = Append(podAllocations[p], e)
  BY <1>2, <1>3
<1>6. podAllocations' \in [Pods -> Seq(Entry)] /\ \A q \in Pods \ {p} : podAllocations'[q] = podAllocations[q]
  BY <1>2, <1>3, <1>4
<1> QED  BY <1>4, <1>5, <1>6 DEF e

\* The slot of the next entry of p.
NewSlot(p) == <<p, Len(podAllocations[p]) + 1>>

\* A new entry books one more slot, and its memory, on its GPU and nothing elsewhere.
LEMMA AppendBooks ==
  ASSUME TypeOK, NEW p \in Pods, NEW e \in Entry,
         AppendEntry(p, e.dev, e.mem, e.isMIG), Len(podAllocations[p]) + 1 <= MaxEntries,
         NEW g
  PROVE  /\ NewSlot(p) \notin L!BookedSlots(g)
         /\ Segment(NewSlot(p), e.mem) \cap L!BookedUnits(g) = {}
         /\ ~e.isMIG /\ e.dev = g =>
               /\ L!BookedSlots(g)' = L!BookedSlots(g) \cup {NewSlot(p)}
               /\ L!BookedUnits(g)' = L!BookedUnits(g) \cup Segment(NewSlot(p), e.mem)
         /\ e.isMIG \/ e.dev # g => /\ L!BookedSlots(g)' = L!BookedSlots(g)
                         /\ L!BookedUnits(g)' = L!BookedUnits(g)
<1> DEFINE n == Len(podAllocations[p])
<1>0. PICK s : s = NewSlot(p)
  OBVIOUS
<1>1. /\ n \in Nat
      /\ Len(podAllocations'[p]) = n + 1
      /\ podAllocations'[p][n + 1] = e
      /\ \A i \in 1..n : podAllocations'[p][i] = podAllocations[p][i]
      /\ \A q \in Pods \ {p} : podAllocations'[q] = podAllocations[q]
  <2>1. /\ e.dev \in GPUs \cup MIGs /\ e.mem \in 0..MaxMem /\ e.isMIG \in BOOLEAN
        /\ e = [dev |-> e.dev, mem |-> e.mem, isMIG |-> e.isMIG]
    BY DEF Entry
  <2> QED  BY <2>1, AppendTyped
<1>2. MaxEntries \in Nat /\ MaxMem \in Nat /\ s \in L!Slots /\ s[1] = p /\ s[2] = n + 1 /\ e.mem \in 0..MaxMem
  BY <1>0, <1>1, RegistryAssumption DEF L!Slots, Entry, NewSlot
<1>3. \A t \in L!Slots : t # s => (t[1] \in Pods /\ t[2] \in Nat /\ (t[1] = p => t[2] # n + 1) /\ t[2] >= 1)
  BY <1>2 DEF L!Slots
<1>4. \A t \in L!Slots : t # s => (L!Books(t, g)' <=> L!Books(t, g))
  <2> SUFFICES ASSUME NEW t \in L!Slots, t # s PROVE L!Books(t, g)' <=> L!Books(t, g)
    OBVIOUS
  <2>1. CASE t[1] # p
    BY <2>1, <1>1, <1>3 DEF L!Books
  <2>2. CASE t[1] = p /\ t[2] <= n
    BY <2>2, <1>1, <1>3 DEF L!Books
  <2>3. CASE t[1] = p /\ ~(t[2] <= n)
    BY <2>3, <1>1, <1>3 DEF L!Books
  <2> QED  BY <2>1, <2>2, <2>3
<1>5. ~L!Books(s, g) /\ (L!Books(s, g)' <=> ~e.isMIG /\ e.dev = g)
  BY <1>1, <1>2, SMTT(60) DEF L!Books
<1>6. \A t \in L!Slots : t # s /\ L!Books(t, g) => podAllocations'[t[1]][t[2]] = podAllocations[t[1]][t[2]]
  BY <1>1, <1>3 DEF L!Books
<1>7. podAllocations'[s[1]][s[2]].mem = e.mem
  BY <1>1, <1>2
<1>8. /\ s \notin L!BookedSlots(g)
      /\ ~e.isMIG /\ e.dev = g => L!BookedSlots(g)' = L!BookedSlots(g) \cup {s}
      /\ e.isMIG \/ e.dev # g => L!BookedSlots(g)' = L!BookedSlots(g)
  BY <1>2, <1>4, <1>5 DEF L!BookedSlots
<1>9. \A u \in L!Units : u[1] \in L!Slots /\ u[2] \in 1..MaxMem /\ u = <<u[1], u[2]>>
  BY DEF L!Units
<1>10. Segment(s, e.mem) \cap L!BookedUnits(g) = {}
  BY <1>5 DEF L!BookedUnits, Segment
<1>11. \A u \in L!Units : u \in Segment(s, e.mem) <=> (u[1] = s /\ u[2] <= e.mem)
  BY <1>9 DEF Segment
<1>12. Segment(s, e.mem) \subseteq L!Units
  BY <1>2 DEF Segment, L!Units
<1>13. \A u \in L!Units : u \in L!BookedUnits(g)' <=>
          (u \in L!BookedUnits(g) \/ (~e.isMIG /\ e.dev = g /\ u \in Segment(s, e.mem)))
  <2> SUFFICES ASSUME NEW u \in L!Units
               PROVE  u \in L!BookedUnits(g)' <=>
                        (u \in L!BookedUnits(g) \/ (~e.isMIG /\ e.dev = g /\ u \in Segment(s, e.mem)))
    OBVIOUS
  <2>1. CASE u[1] = s
    BY <2>1, <1>5, <1>7, <1>11 DEF L!BookedUnits
  <2>2. CASE u[1] # s
    BY <2>2, <1>4, <1>6, <1>9, <1>11 DEF L!BookedUnits
  <2> QED  BY <2>1, <2>2
<1>14. L!BookedUnits(g) \subseteq L!Units /\ L!BookedUnits(g)' \subseteq L!Units
  BY DEF L!BookedUnits, L!Units, L!Slots
<1>15. /\ ~e.isMIG /\ e.dev = g => L!BookedUnits(g)' = L!BookedUnits(g) \cup Segment(s, e.mem)
       /\ e.isMIG \/ e.dev # g => L!BookedUnits(g)' = L!BookedUnits(g)
  BY <1>12, <1>13, <1>14
<1> QED  BY <1>0, <1>8, <1>10, <1>15

-----------------------------------------------------------------------------
(* What the placement decisions guarantee about the GPUs they return.       *)

\* The GPU fits m more and is empty unless shared through MPS or joined by p.
Fits(g, m, p) == /\ g \in GPUs
                 /\ reservations[g] + m <= Total[g]
                 /\ g \in MPSGPUs \/ podCountPerGPU[g] = 0 \/ p \in SharedMulti

\* What a pod asks for, and that routing and reserving go by the same number, whichever
\* annotations the pod has (GetGPUMemoryFromPod, extractGPUMemoryRequest).
LEMMA SameMem == \A p \in Pods : Mem(p) \in 0..MaxMem /\ RoutedMem(p) = Mem(p)
BY RegistryAssumption DEF Mem, RoutedMem, extractGPUMemoryRequest

\* FindAvailableFullGPU offers only GPUs with room: the reported use only lowers what
\* the reservations leave free.
LEMMA FullGPUFits ==
  ASSUME TypeOK, NEW m \in Nat, NEW g \in FindAvailableFullGPU(View, m)
  PROVE  g \in GPUs /\ reservations[g] + m <= Total[g]
<1>1. g \in GPUs /\ NodeOf[g] \in known
  BY DEF FindAvailableFullGPU, View
<1>2. /\ View[g].free = Total[g] - report[g].used /\ View[g].total = Total[g]
      /\ View[g].used = report[g].used /\ View[g].reserved = reservations[g]
  BY <1>1 DEF View
<1>3. Total[g] \in Nat /\ report[g].used \in Nat /\ report[g].used <= Total[g] /\ reservations[g] \in Nat
  BY <1>1, RegistryAssumption DEF TypeOK, Reading
<1>4. FreeMB(View, g) >= m
  BY DEF FindAvailableFullGPU
<1> QED  BY <1>1, <1>2, <1>3, <1>4 DEF FreeMB

\* A single-GPU pod is routed to a MIG instance or to a GPU that fits it.
LEMMA SingleFits ==
  ASSUME TypeOK, NEW p \in Pods,
         NEW r \in AllocateWithRouting(View, MIGView, RoutedMem(p), p \in SharedPods, "auto", TRUE)
  PROVE  /\ r.isMIG \in BOOLEAN
         /\ r.isMIG => r.dev \in MIGs
         /\ ~r.isMIG => Fits(r.dev, Mem(p), p)
<1> DEFINE m == RoutedMem(p)
           sh == p \in SharedPods
<1>1. m = Mem(p) /\ m \in Nat
  BY SameMem, RegistryAssumption
<1>2. r \in allocateFromMIG(View, MIGView, m, sh) \/ r \in allocateFromFullGPU(View, m, sh)
  BY DEF AllocateWithRouting, tryPool
<1>3. CASE r \in allocateFromMIG(View, MIGView, m, sh)
  <2>1. PICK i \in FindAvailableMIG(View, MIGView, m) : r = [isMIG |-> TRUE, dev |-> i]
    BY <1>3 DEF allocateFromMIG, SelectBestMIG, LeastBy
  <2>2. i \in MIGs
    BY DEF FindAvailableMIG, MIGView
  <2> QED  BY <2>1, <2>2
<1>4. CASE r \in allocateFromFullGPU(View, m, sh)
  <2> DEFINE C == IF sh THEN FindAvailableMPSGPU(View, m) ELSE FindAvailableNonMPSGPU(View, m)
  <2>1. PICK g \in C : r = [isMIG |-> FALSE, dev |-> g]
    BY <1>4 DEF allocateFromFullGPU, SelectBestFullGPU, LeastBy
  <2>2. g \in FindAvailableFullGPU(View, m) /\ (View[g].mps \/ View[g].pods = 0)
    BY <2>1 DEF FindAvailableMPSGPU, FindAvailableNonMPSGPU
  <2>3. g \in GPUs /\ NodeOf[g] \in known
    BY <2>2 DEF FindAvailableFullGPU, View
  <2>4. (View[g].mps <=> g \in MPSGPUs) /\ View[g].pods = podCountPerGPU[g]
    BY <2>3 DEF View
  <2>5. reservations[g] + m <= Total[g]
    BY <1>1, <2>2, FullGPUFits
  <2> QED  BY <1>1, <2>1, <2>2, <2>3, <2>4, <2>5 DEF Fits
<1> QED  BY <1>2, <1>3, <1>4

\* A multi-GPU pod is given as many GPUs as it asks for, each of which fits it.
LEMMA MultiFits ==
  ASSUME TypeOK, NEW p \in Pods, GPUCount[p] > 1,
         NEW S \in BinPackScheduleGang(View, Mem(p), GPUCount[p], "per-gpu", p \in SharedPods)
  PROVE  /\ S \subseteq GPUs /\ Cardinality(S) = GPUCount[p] /\ S # {}
         /\ \A g \in S : Fits(g, Mem(p), p)
<1> DEFINE ok == Eligible(View, Mem(p), p \in SharedPods)
<1>1. RequiredMemory(Mem(p), GPUCount[p], "per-gpu") = Mem(p)
  BY DEF RequiredMemory
<1>2. PICK n \in NodesOf(View) : S \in NodeBest(View, ok, n, GPUCount[p])
  BY <1>1 DEF BinPackScheduleGang, LeastBy
<1>3. S \subseteq ok /\ Cardinality(S) = GPUCount[p]
  BY <1>2 DEF NodeBest, kSubset
<1>4. p \in SharedPods => p \in SharedMulti
  BY DEF SharedMulti
<1>5. ASSUME NEW g \in S PROVE Fits(g, Mem(p), p)
  <2>1. g \in GPUs /\ NodeOf[g] \in known
    BY <1>3 DEF Eligible, View
  <2>2. View[g].pods = podCountPerGPU[g] /\ View[g].total = Total[g] /\ View[g].reserved = reservations[g]
    BY <2>1 DEF View
  <2>3. (p \in SharedMulti \/ View[g].pods <= 0) /\ AvailableMemoryMB(View, g) >= Mem(p)
    BY <1>3, <1>4 DEF Eligible
  <2>4. Total[g] \in Nat /\ reservations[g] \in Nat /\ podCountPerGPU[g] \in Nat /\ Mem(p) \in Nat
    BY <2>1, SameMem, RegistryAssumption DEF TypeOK
  <2> QED  BY <2>1, <2>2, <2>3, <2>4 DEF Fits, AvailableMemoryMB
<1>6. S \subseteq GPUs
  BY <1>5 DEF Fits
<1>7. S # {}
  BY <1>3, FS_EmptySet
<1> QED  BY <1>3, <1>5, <1>6, <1>7

-----------------------------------------------------------------------------
(* The invariant holds initially and is kept by every action.               *)

\* Steps that touch neither the entries nor the mutex leave the books alone.
LEMMA SameBooks ==
  ASSUME UNCHANGED <<podAllocations, releasing>>, NEW g
  PROVE  /\ L!BookedSlots(g)' = L!BookedSlots(g) /\ L!BookedUnits(g)' = L!BookedUnits(g)
         /\ LiveSlots(g)' = LiveSlots(g) /\ LiveUnits(g)' = LiveUnits(g)
BY DEF L!BookedSlots, L!BookedUnits, L!Books, L!Slots, L!Units, LiveSlots, LiveUnits, Outstanding, mutexFree

\* While nothing is being released every booked entry is outstanding.
LEMMA FreeBooks ==
  ASSUME mutexFree, NEW g
  PROVE  LiveSlots(g) = L!BookedSlots(g) /\ LiveUnits(g) = L!BookedUnits(g)
BY DEF LiveSlots, LiveUnits, Outstanding, L!BookedSlots, L!BookedUnits

\* The empty registry satisfies the invariant.
LEMMA InitInv == Init => Inv
<1> SUFFICES ASSUME Init PROVE Inv
  OBVIOUS
<1>1. TypeOK
  <2>1. report \in [GPUs -> Reading] /\ \A g \in GPUs : report[g].used <= Total[g]
    <3>1. \A g \in GPUs : 0 \in 0..Total[g] /\ 0..Total[g] \in {0..Total[h] : h \in GPUs}
      BY RegistryAssumption
    <3>2. \A g \in GPUs : [used |-> 0, healthy |-> TRUE] \in Reading
      BY <3>1 DEF Reading
    <3> QED  BY <3>1, <3>2, RegistryAssumption DEF Init
  <2>2. podAllocations \in [Pods -> Seq(Entry)] /\ \A p \in Pods : Len(podAllocations[p]) <= MaxEntries
    <3>1. <<>> \in Seq(Entry) /\ Len(<<>>) = 0 /\ 0 <= MaxEntries
      BY RegistryAssumption
    <3> QED  BY <3>1 DEF Init
  <2> QED  BY <2>1, <2>2 DEF TypeOK, Init
<1>2. \A g \in GPUs : L!BookedSlots(g) = {} /\ L!BookedUnits(g) = {}
  <2>1. \A t \in L!Slots : t[1] \in Pods /\ t[2] >= 1 /\ t[2] \in Int
    BY DEF L!Slots
  <2>2. \A p \in Pods : Len(podAllocations[p]) = 0
    BY DEF Init
  <2>3. \A t \in L!Slots, g \in GPUs : ~L!Books(t, g)
    BY <2>1, <2>2 DEF L!Books
  <2> QED  BY <2>3 DEF L!BookedSlots, L!BookedUnits, L!Units
<1>3. mutexFree
  BY DEF mutexFree, Init
<1>4. Accounting
  BY <1>2, <1>3, FreeBooks, FS_EmptySet DEF Accounting, Init
<1>5. EntryKinds /\ ReleaseBounds /\ ChoiceFits
  BY <1>3 DEF EntryKinds, ReleaseBounds, ChoiceFits, Init
<1>6. WithinTotal
  BY RegistryAssumption DEF WithinTotal, Init
<1>7. ExclusiveGPU
  BY <1>2, FS_EmptySet DEF ExclusiveGPU, SoleSlots
<1> QED  BY <1>1, <1>4, <1>5, <1>6, <1>7 DEF Inv

\* Steps that leave entries, counters, mutex and choice alone.
LEMMA QuietStep ==
  ASSUME Inv, TypeOK', UNCHANGED <<reservations, podCountPerGPU, podAllocations, releasing, choice>>
  PROVE  Inv'
<1>1. EntryKinds' /\ ReleaseBounds' /\ ChoiceFits' /\ WithinTotal'
  BY DEF Inv, EntryKinds, ReleaseBounds, mutexFree, ChoiceFits, WithinTotal
<1>2. Accounting'
  BY SameBooks DEF Inv, Accounting
<1>3. ExclusiveGPU'
  BY SameBooks DEF Inv, ExclusiveGPU, SoleSlots
<1> QED  BY <1>1, <1>2, <1>3 DEF Inv

\* UpdateFromReport touches only what the agents report.
LEMMA ReportStep ==
  ASSUME Inv, NEW n \in Nodes, UpdateFromReport(n)
  PROVE  Inv'
<1> USE DEF UpdateFromReport
<1>1. PICK r \in [{g \in GPUs : NodeOf[g] = n} -> Reading] :
        /\ \A g \in DOMAIN r : r[g].used <= Total[g]
        /\ report' = [g \in GPUs |-> IF NodeOf[g] = n THEN r[g] ELSE report[g]]
  OBVIOUS
<1>2. report' \in [GPUs -> Reading] /\ \A g \in GPUs : report'[g].used <= Total[g]
  BY <1>1 DEF Inv, TypeOK
<1>3. migAvail' \in [MIGs -> BOOLEAN]
  BY DEF Inv, TypeOK
<1>4. TypeOK'
  BY <1>2, <1>3 DEF Inv, TypeOK
<1> QED  BY <1>4, QuietStep

\* RemoveStaleNodes keeps every reservation.
LEMMA StaleStep ==
  ASSUME Inv, NEW n \in Nodes, RemoveStaleNodes(n)
  PROVE  Inv'
<1>1. TypeOK'
  BY DEF RemoveStaleNodes, Inv, TypeOK
<1> QED  BY <1>1, QuietStep DEF RemoveStaleNodes

\* A choice whose GPUs fit.
LEMMA ChoiceStep ==
  ASSUME Inv, NEW p \in Pods, NEW b \in BOOLEAN, NEW S \in SUBSET (GPUs \cup MIGs), IsFiniteSet(S),
         Len(podAllocations[p]) + Cardinality(S) <= MaxEntries,
         b => S \subseteq MIGs, ~b => \A g \in S : Fits(g, Mem(p), p),
         choice' = [pod |-> p, isMIG |-> b, todo |-> S, mem |-> Mem(p)],
         UNCHANGED <<known, report, migAvail, reservations, podCountPerGPU, podAllocations, releasing>>
  PROVE  Inv'
<1>1. TypeOK'
  BY SameMem DEF Inv, TypeOK, Choice
<1>2. EntryKinds' /\ ReleaseBounds' /\ WithinTotal'
  BY DEF Inv, EntryKinds, ReleaseBounds, mutexFree, WithinTotal
<1>3. Accounting'
  BY SameBooks DEF Inv, Accounting
<1>4. ExclusiveGPU'
  BY SameBooks DEF Inv, ExclusiveGPU, SoleSlots
<1>5. ChoiceFits'
  BY DEF ChoiceFits, Fits
<1> QED  BY <1>1, <1>2, <1>3, <1>4, <1>5 DEF Inv

\* A choice made by AllocateWithRouting fits.
LEMMA ChooseSingleStep ==
  ASSUME Inv, NEW p \in Pods, ChooseSingle(p)
  PROVE  Inv'
<1>1. PICK r \in AllocateWithRouting(View, MIGView, RoutedMem(p), p \in SharedPods, "auto", TRUE) :
        choice' = [pod |-> p, isMIG |-> r.isMIG, todo |-> {r.dev}, mem |-> Mem(p)]
  BY DEF ChooseSingle
<1>2. /\ r.isMIG \in BOOLEAN
      /\ r.isMIG => r.dev \in MIGs
      /\ ~r.isMIG => Fits(r.dev, Mem(p), p)
  BY SingleFits DEF Inv
<1>3. {r.dev} \in SUBSET (GPUs \cup MIGs)
  BY <1>2 DEF Fits
<1>4. IsFiniteSet({r.dev}) /\ Cardinality({r.dev}) = 1
  BY FS_Singleton
<1> QED  BY <1>1, <1>2, <1>3, <1>4, ChoiceStep DEF ChooseSingle

\* A choice made by the strategy's ScheduleGang fits.
LEMMA ChooseMultiStep ==
  ASSUME Inv, NEW p \in Pods, ChooseMulti(p)
  PROVE  Inv'
<1>1. PICK S \in BinPackScheduleGang(View, Mem(p), GPUCount[p], "per-gpu", p \in SharedPods) :
        choice' = [pod |-> p, isMIG |-> FALSE, todo |-> S, mem |-> Mem(p)]
  BY DEF ChooseMulti
<1>2. /\ S \subseteq GPUs /\ Cardinality(S) = GPUCount[p] /\ S # {}
      /\ \A g \in S : Fits(g, Mem(p), p)
  BY MultiFits DEF Inv, ChooseMulti
<1>3. IsFiniteSet(S)
  BY <1>2, FS_Subset, RegistryAssumption
<1>4. S \in SUBSET (GPUs \cup MIGs)
  BY <1>2
<1> QED  BY <1>1, <1>2, <1>3, <1>4, ChoiceStep DEF ChooseMulti

\* Marking appends an entry of the chosen pod; what is left of the choice still fits.
LEMMA MarkCommon ==
  ASSUME Inv, mutexFree, choice # NoChoice, NEW d \in choice.todo,
         AppendEntry(choice.pod, d, choice.mem, choice.isMIG), Marked(d)
  PROVE  /\ choice \in Choice
         /\ Len(podAllocations[choice.pod]) + 1 <= MaxEntries
         /\ podAllocations' \in [Pods -> Seq(Entry)]
         /\ \A p \in Pods : Len(podAllocations'[p]) <= MaxEntries
         /\ EntryKinds'
         /\ choice' \in {NoChoice} \cup Choice
         /\ choice' # NoChoice => /\ choice' = [choice EXCEPT !.todo = choice.todo \ {d}]
                                  /\ IsFiniteSet(choice'.todo)
                                  /\ Len(podAllocations'[choice'.pod]) + Cardinality(choice'.todo) <= MaxEntries
<1>1. choice \in Choice
  BY DEF Inv, TypeOK
<1>2. /\ choice.pod \in Pods /\ choice.isMIG \in BOOLEAN /\ choice.mem \in 0..MaxMem
      /\ choice.todo \in SUBSET (GPUs \cup MIGs) /\ d \in GPUs \cup MIGs
  BY <1>1 DEF Choice
<1>3. /\ IsFiniteSet(choice.todo) /\ Len(podAllocations[choice.pod]) + Cardinality(choice.todo) <= MaxEntries
      /\ choice.isMIG => d \in MIGs
      /\ ~choice.isMIG => d \in GPUs
  BY DEF Inv, ChoiceFits
<1>4. /\ IsFiniteSet(choice.todo \ {d}) /\ Cardinality(choice.todo \ {d}) = Cardinality(choice.todo) - 1
      /\ Cardinality(choice.todo) \in Nat /\ Cardinality(choice.todo \ {d}) \in Nat
  BY <1>3, FS_RemoveElement, FS_CardinalityType
<1>5. /\ podAllocations' \in [Pods -> Seq(Entry)]
      /\ Len(podAllocations[choice.pod]) \in Nat
      /\ Len(podAllocations'[choice.pod]) = Len(podAllocations[choice.pod]) + 1
      /\ podAllocations'[choice.pod][Len(podAllocations[choice.pod]) + 1]
           = [dev |-> d, mem |-> choice.mem, isMIG |-> choice.isMIG]
      /\ \A i \in 1..Len(podAllocations[choice.pod]) : podAllocations'[choice.pod][i] = podAllocations[choice.pod][i]
      /\ \A q \in Pods \ {choice.pod} : podAllocations'[q] = podAllocations[q]
  <2>1. TypeOK
    BY DEF Inv
  <2>2. PICK p \in Pods, m \in 0..MaxMem, b \in BOOLEAN :
          p = choice.pod /\ m = choice.mem /\ b = choice.isMIG
    BY <1>2
  <2>3. AppendEntry(p, d, m, b)
    BY <2>2
  <2>4. /\ podAllocations' \in [Pods -> Seq(Entry)]
        /\ Len(podAllocations[p]) \in Nat
        /\ Len(podAllocations'[p]) = Len(podAllocations[p]) + 1
        /\ podAllocations'[p][Len(podAllocations[p]) + 1] = [dev |-> d, mem |-> m, isMIG |-> b]
        /\ \A i \in 1..Len(podAllocations[p]) : podAllocations'[p][i] = podAllocations[p][i]
        /\ \A q \in Pods \ {p} : podAllocations'[q] = podAllocations[q]
    BY <2>1, <2>3, <1>2, AppendTyped
  <2> QED  BY <2>2, <2>4
<1>6. Len(podAllocations[choice.pod]) + 1 <= MaxEntries
  BY <1>3, <1>4, <1>5, RegistryAssumption, SMTT(60)
<1>7. \A p \in Pods : Len(podAllocations'[p]) <= MaxEntries
  BY <1>5, <1>6 DEF Inv, TypeOK
<1>8. EntryKinds'
  <2> SUFFICES ASSUME NEW p \in Pods, NEW i \in DOMAIN podAllocations'[p]
               PROVE  /\ podAllocations'[p][i].isMIG => podAllocations'[p][i].dev \in MIGs
                      /\ ~podAllocations'[p][i].isMIG => podAllocations'[p][i].dev \in GPUs
    BY DEF EntryKinds
  <2>1. CASE p # choice.pod
    BY <2>1, <1>5 DEF Inv, EntryKinds
  <2>2. CASE p = choice.pod /\ i = Len(podAllocations[choice.pod]) + 1
    BY <2>2, <1>3, <1>5
  <2>3. CASE p = choice.pod /\ i # Len(podAllocations[choice.pod]) + 1
    <3>1. podAllocations[p] \in Seq(Entry) /\ podAllocations'[p] \in Seq(Entry)
      BY <1>5 DEF Inv, TypeOK
    <3>2. i \in 1..Len(podAllocations[p]) /\ i \in DOMAIN podAllocations[p]
      BY <2>3, <3>1, <1>5
    <3> QED  BY <2>3, <3>2, <1>5 DEF Inv, EntryKinds
  <2> QED  BY <2>1, <2>2, <2>3
<1>9. choice' \in {NoChoice} \cup Choice
  BY <1>1 DEF Marked, Choice
<1>10. choice' # NoChoice =>
         /\ choice' = [choice EXCEPT !.todo = choice.todo \ {d}]
         /\ choice'.todo = choice.todo \ {d} /\ choice'.pod = choice.pod
  BY <1>1 DEF Marked, Choice
<1>11. choice' # NoChoice => Len(podAllocations'[choice'.pod]) + Cardinality(choice'.todo) <= MaxEntries
  <2>1. Len(podAllocations'[choice.pod]) + Cardinality(choice.todo \ {d}) <= MaxEntries
    BY <1>3, <1>4, <1>5, RegistryAssumption
  <2> QED  BY <2>1, <1>10
<1> QED  BY <1>1, <1>4, <1>5, <1>6, <1>7, <1>8, <1>9, <1>10, <1>11

\* MarkGPUAllocatedForPod keeps the books.
LEMMA MarkGPUStep ==
  ASSUME Inv, NEW d \in GPUs, MarkGPUAllocatedForPod(d)
  PROVE  Inv'
<1> DEFINE p == choice.pod  m == choice.mem  s == NewSlot(p)
<1>1. /\ mutexFree /\ choice # NoChoice /\ d \in choice.todo /\ choice.isMIG = FALSE
      /\ AppendEntry(p, d, m, choice.isMIG) /\ Marked(d)
  <2>1. choice.isMIG \in BOOLEAN
    BY DEF MarkGPUAllocatedForPod, Inv, TypeOK, Choice
  <2> QED  BY <2>1 DEF MarkGPUAllocatedForPod
<1>2. /\ choice \in Choice
      /\ Len(podAllocations[p]) + 1 <= MaxEntries
      /\ podAllocations' \in [Pods -> Seq(Entry)]
      /\ \A q \in Pods : Len(podAllocations'[q]) <= MaxEntries
      /\ EntryKinds'
      /\ choice' \in {NoChoice} \cup Choice
      /\ choice' # NoChoice => /\ choice' = [choice EXCEPT !.todo = choice.todo \ {d}]
                               /\ IsFiniteSet(choice'.todo)
                               /\ Len(podAllocations'[choice'.pod]) + Cardinality(choice'.todo) <= MaxEntries
  BY <1>1, MarkCommon
<1>3. p \in Pods /\ m \in 0..MaxMem /\ m \in Nat /\ MaxMem \in Nat
  BY <1>2, RegistryAssumption DEF Choice
<1>4. /\ reservations' = [reservations EXCEPT ![d] = reservations[d] + m]
      /\ podCountPerGPU' = [podCountPerGPU EXCEPT ![d] = podCountPerGPU[d] + 1]
      /\ UNCHANGED <<known, report, migAvail, releasing>>
  BY DEF MarkGPUAllocatedForPod
<1>5. reservations \in [GPUs -> Nat] /\ podCountPerGPU \in [GPUs -> Nat]
  BY DEF Inv, TypeOK
<1>6. TypeOK'
  BY <1>2, <1>3, <1>4, <1>5, SMTT(60) DEF Inv, TypeOK
<1>7. mutexFree' /\ ReleaseBounds'
  BY <1>1, <1>4 DEF mutexFree, ReleaseBounds
<1>8. \A g \in GPUs :
        /\ s \notin L!BookedSlots(g) /\ Segment(s, m) \cap L!BookedUnits(g) = {}
        /\ d = g => /\ L!BookedSlots(g)' = L!BookedSlots(g) \cup {s}
                    /\ L!BookedUnits(g)' = L!BookedUnits(g) \cup Segment(s, m)
        /\ d # g => /\ L!BookedSlots(g)' = L!BookedSlots(g)
                    /\ L!BookedUnits(g)' = L!BookedUnits(g)
  <2> DEFINE e == [dev |-> d, mem |-> m, isMIG |-> FALSE]
  <2>1. /\ TypeOK /\ e \in Entry /\ p \in Pods /\ Len(podAllocations[p]) + 1 <= MaxEntries
        /\ e.dev = d /\ e.mem = m /\ ~e.isMIG
        /\ AppendEntry(p, e.dev, e.mem, e.isMIG)
    BY <1>1, <1>2, <1>3 DEF Inv, Entry
  <2> HIDE DEF e
  <2> QED  BY <2>1, AppendBooks
<1>9. \A g \in GPUs : /\ LiveSlots(g) = L!BookedSlots(g) /\ LiveUnits(g) = L!BookedUnits(g)
                      /\ LiveSlots(g)' = L!BookedSlots(g)' /\ LiveUnits(g)' = L!BookedUnits(g)'
  BY <1>1, <1>7 DEF LiveSlots, LiveUnits, Outstanding, L!BookedSlots, L!BookedUnits
<1>10. /\ Cardinality(L!BookedUnits(d)') = Cardinality(L!BookedUnits(d)) + m
       /\ Cardinality(L!BookedSlots(d)') = Cardinality(L!BookedSlots(d)) + 1
  <2>1. IsFiniteSet(L!BookedSlots(d)) /\ IsFiniteSet(L!BookedUnits(d))
    BY BookedFinite
  <2>2. IsFiniteSet(Segment(s, m)) /\ Cardinality(Segment(s, m)) = m
    BY <1>3, SegmentCard
  <2>3. L!BookedUnits(d) \cap Segment(s, m) = {}
    BY <1>8
  <2>4. Cardinality(L!BookedUnits(d) \cup Segment(s, m)) = Cardinality(L!BookedUnits(d)) + m
    BY <2>1, <2>2, <2>3, AddDisjoint
  <2>5. Cardinality(L!BookedSlots(d) \cup {s}) = Cardinality(L!BookedSlots(d)) + 1
    BY <2>1, <1>8, FS_AddElement
  <2> QED  BY <1>8, <2>4, <2>5
<1>11. Accounting'
  <2> SUFFICES ASSUME NEW g \in GPUs
               PROVE  /\ reservations'[g] = Cardinality(LiveUnits(g)')
                      /\ podCountPerGPU'[g] = Cardinality(LiveSlots(g)')
    BY DEF Accounting
  <2>1. reservations[g] = Cardinality(LiveUnits(g)) /\ podCountPerGPU[g] = Cardinality(LiveSlots(g))
    BY DEF Inv, Accounting
  <2>2. CASE g = d
    BY <2>1, <2>2, <1>4, <1>5, <1>9, <1>10
  <2>3. CASE g # d
    BY <2>1, <2>3, <1>4, <1>5, <1>8, <1>9
  <2> QED  BY <2>2, <2>3
<1>12. reservations[d] + m <= Total[d] /\ (d \in MPSGPUs \/ podCountPerGPU[d] = 0 \/ p \in SharedMulti)
  BY <1>1 DEF Inv, ChoiceFits
<1>13. WithinTotal'
  BY <1>4, <1>5, <1>12 DEF Inv, WithinTotal
<1>14. ExclusiveGPU'
  <2> SUFFICES ASSUME NEW g \in GPUs \ MPSGPUs
               PROVE  Cardinality(SoleSlots(g)') <= 1
    BY DEF ExclusiveGPU
  <2>1. CASE g = d /\ p \in SharedMulti
    <3>1. s[1] = p
      BY DEF NewSlot
    <3>2. SoleSlots(d)' = SoleSlots(d)
      BY <3>1, <2>1, <1>8 DEF SoleSlots
    <3> QED  BY <3>2, <2>1 DEF Inv, ExclusiveGPU
  <2>3. CASE g = d /\ p \notin SharedMulti
    <3>1. Cardinality(L!BookedSlots(d)) = 0
      BY <2>3, <1>9, <1>12 DEF Inv, Accounting
    <3>2. L!BookedSlots(d) = {}
      BY <3>1, BookedFinite, FS_EmptySet
    <3>3. SoleSlots(d)' \in SUBSET {s}
      BY <3>2, <1>8 DEF SoleSlots
    <3>4. /\ Cardinality(SoleSlots(d)') <= Cardinality({s}) /\ Cardinality({s}) = 1
          /\ Cardinality(SoleSlots(d)') \in Nat
      BY <3>3, FS_Singleton, FS_Subset, FS_CardinalityType
    <3> QED  BY <3>4, <2>3
  <2>2. CASE g # d
    BY <2>2, <1>8 DEF Inv, ExclusiveGPU, SoleSlots
  <2> QED  BY <2>1, <2>2, <2>3
<1>15. ChoiceFits'
  <2> SUFFICES ASSUME choice' # NoChoice
               PROVE  /\ choice'.isMIG => choice'.todo \subseteq MIGs
                      /\ ~choice'.isMIG => /\ choice'.todo \subseteq GPUs
                                           /\ \A g \in choice'.todo :
                                                /\ reservations'[g] + choice'.mem <= Total[g]
                                                /\ \/ g \in MPSGPUs \/ podCountPerGPU'[g] = 0
                                                   \/ choice'.pod \in SharedMulti
    BY <1>2 DEF ChoiceFits
  <2>1. /\ choice'.isMIG = FALSE /\ choice'.todo = choice.todo \ {d} /\ choice'.mem = m /\ choice'.pod = p
    BY <1>1, <1>2 DEF Choice
  <2>2. \A g \in choice.todo : /\ g \in GPUs /\ reservations[g] + m <= Total[g]
                               /\ g \in MPSGPUs \/ podCountPerGPU[g] = 0 \/ p \in SharedMulti
    BY <1>1 DEF Inv, ChoiceFits
  <2>3. \A g \in choice.todo \ {d} : reservations'[g] = reservations[g] /\ podCountPerGPU'[g] = podCountPerGPU[g]
    BY <2>2, <1>4, <1>5
  <2> QED  BY <2>1, <2>2, <2>3
<1> QED  BY <1>2, <1>6, <1>7, <1>11, <1>13, <1>14, <1>15 DEF Inv

\* MarkMIGAllocatedForPod leaves the books of the full GPUs alone.
LEMMA MarkMIGStep ==
  ASSUME Inv, NEW d \in MIGs, MarkMIGAllocatedForPod(d)
  PROVE  Inv'
<1> DEFINE p == choice.pod  m == choice.mem  s == NewSlot(p)
<1>1. /\ mutexFree /\ choice # NoChoice /\ d \in choice.todo /\ choice.isMIG = TRUE
      /\ AppendEntry(p, d, m, choice.isMIG) /\ Marked(d)
  <2>1. choice.isMIG \in BOOLEAN
    BY DEF MarkMIGAllocatedForPod, Inv, TypeOK, Choice
  <2> QED  BY <2>1 DEF MarkMIGAllocatedForPod
<1>2. /\ choice \in Choice
      /\ Len(podAllocations[p]) + 1 <= MaxEntries
      /\ podAllocations' \in [Pods -> Seq(Entry)]
      /\ \A q \in Pods : Len(podAllocations'[q]) <= MaxEntries
      /\ EntryKinds'
      /\ choice' \in {NoChoice} \cup Choice
      /\ choice' # NoChoice => /\ choice' = [choice EXCEPT !.todo = choice.todo \ {d}]
                               /\ IsFiniteSet(choice'.todo)
                               /\ Len(podAllocations'[choice'.pod]) + Cardinality(choice'.todo) <= MaxEntries
  BY <1>1, MarkCommon
<1>3. UNCHANGED <<known, report, reservations, podCountPerGPU, releasing>>
  BY DEF MarkMIGAllocatedForPod
<1>4. migAvail' \in [MIGs -> BOOLEAN]
  BY DEF MarkMIGAllocatedForPod, Inv, TypeOK
<1>5. TypeOK'
  BY <1>2, <1>3, <1>4 DEF Inv, TypeOK
<1>6. mutexFree' /\ ReleaseBounds' /\ WithinTotal'
  BY <1>1, <1>3 DEF mutexFree, ReleaseBounds, Inv, WithinTotal
<1>7. p \in Pods /\ m \in 0..MaxMem
  BY <1>2 DEF Choice
<1>8. \A g \in GPUs : L!BookedSlots(g)' = L!BookedSlots(g) /\ L!BookedUnits(g)' = L!BookedUnits(g)
  <2> DEFINE e == [dev |-> d, mem |-> m, isMIG |-> TRUE]
  <2>1. /\ TypeOK /\ e \in Entry /\ p \in Pods /\ Len(podAllocations[p]) + 1 <= MaxEntries
        /\ e.isMIG /\ AppendEntry(p, e.dev, e.mem, e.isMIG)
    BY <1>1, <1>2, <1>7 DEF Inv, Entry
  <2> HIDE DEF e
  <2> QED  BY <2>1, AppendBooks
<1>9. \A g \in GPUs : /\ LiveSlots(g) = L!BookedSlots(g) /\ LiveUnits(g) = L!BookedUnits(g)
                      /\ LiveSlots(g)' = L!BookedSlots(g)' /\ LiveUnits(g)' = L!BookedUnits(g)'
  BY <1>1, <1>6 DEF LiveSlots, LiveUnits, Outstanding, L!BookedSlots, L!BookedUnits
<1>10. Accounting'
  BY <1>3, <1>8, <1>9 DEF Inv, Accounting
<1>11. ExclusiveGPU'
  BY <1>8 DEF Inv, ExclusiveGPU, SoleSlots
<1>12. ChoiceFits'
  <2>1. choice' # NoChoice => choice'.isMIG = TRUE /\ choice'.todo = choice.todo \ {d}
    BY <1>1, <1>2 DEF Choice
  <2>2. choice.todo \subseteq MIGs
    BY <1>1 DEF Inv, ChoiceFits
  <2> QED  BY <2>1, <2>2, <1>2 DEF ChoiceFits
<1> QED  BY <1>2, <1>5, <1>6, <1>10, <1>11, <1>12 DEF Inv

\* When ReleasePod takes the mutex every entry is still outstanding.
LEMMA ReleasePodStep ==
  ASSUME Inv, NEW p \in Pods, ReleasePod(p)
  PROVE  Inv'
<1>1. /\ mutexFree /\ releasing' = <<p, 1>>
      /\ UNCHANGED <<known, report, migAvail, reservations, podCountPerGPU, podAllocations, choice>>
  BY DEF ReleasePod
<1>2. ~mutexFree' /\ releasing'[1] = p /\ releasing'[2] = 1
  BY <1>1, RegistryAssumption DEF mutexFree
<1>3. TypeOK'
  BY <1>1 DEF Inv, TypeOK
<1>4. podAllocations[p] \in Seq(Entry)
  BY DEF Inv, TypeOK
<1>5. EntryKinds' /\ ReleaseBounds' /\ ChoiceFits' /\ WithinTotal'
  <2>1. ReleaseBounds'
    BY <1>1, <1>2, <1>4 DEF ReleaseBounds
  <2> QED  BY <2>1, <1>1 DEF Inv, EntryKinds, ChoiceFits, WithinTotal
<1>6. \A g \in GPUs : L!BookedSlots(g)' = L!BookedSlots(g) /\ L!BookedUnits(g)' = L!BookedUnits(g)
  BY <1>1 DEF L!BookedSlots, L!BookedUnits, L!Books, L!Slots, L!Units
<1>7. \A t \in L!Slots : Outstanding(t) /\ Outstanding(t)'
  BY <1>1, <1>2 DEF Outstanding, L!Slots
<1>8. \A g \in GPUs : LiveSlots(g)' = LiveSlots(g) /\ LiveUnits(g)' = LiveUnits(g)
  <2>1. \A g \in GPUs : L!BookedSlots(g) \subseteq L!Slots /\ \A u \in L!BookedUnits(g) : u[1] \in L!Slots
    BY DEF L!BookedSlots, L!BookedUnits, L!Units
  <2> QED  BY <2>1, <1>6, <1>7 DEF LiveSlots, LiveUnits
<1>9. Accounting'
  BY <1>1, <1>8 DEF Inv, Accounting
<1>10. ExclusiveGPU'
  BY <1>6 DEF Inv, ExclusiveGPU, SoleSlots
<1> QED  BY <1>3, <1>5, <1>9, <1>10 DEF Inv

\* One iteration of ReleasePod's loop takes one entry out of the outstanding ones.
LEMMA ReleaseBooks ==
  ASSUME TypeOK, ReleaseBounds, ~mutexFree, NEW p, NEW i, releasing = <<p, i>>,
         i <= Len(podAllocations[p]), releasing' = <<p, i + 1>>, UNCHANGED podAllocations, NEW g
  PROVE  LET s == <<p, i>>  e == podAllocations[p][i]
         IN  /\ ~e.isMIG /\ e.dev = g => /\ s \in LiveSlots(g) /\ Segment(s, e.mem) \subseteq LiveUnits(g)
                                         /\ LiveSlots(g)' = LiveSlots(g) \ {s}
                                         /\ LiveUnits(g)' = LiveUnits(g) \ Segment(s, e.mem)
             /\ e.isMIG \/ e.dev # g => LiveSlots(g)' = LiveSlots(g) /\ LiveUnits(g)' = LiveUnits(g)
<1> DEFINE s == <<p, i>>  e == podAllocations[p][i]
<1>1. p \in Pods /\ i \in Nat /\ i >= 1
  BY DEF TypeOK, ReleaseBounds, mutexFree
<1>2. /\ podAllocations[p] \in Seq(Entry) /\ e \in Entry /\ Len(podAllocations[p]) <= MaxEntries
      /\ MaxEntries \in Nat /\ MaxMem \in Nat
  BY <1>1, RegistryAssumption DEF TypeOK
<1>3. e.mem \in 0..MaxMem /\ s \in L!Slots
  BY <1>1, <1>2 DEF Entry, L!Slots
<1>4. ~mutexFree'
  BY <1>1, RegistryAssumption DEF mutexFree
<1>5. \A t \in L!Slots : t[1] \in Pods /\ t[2] \in Nat /\ (t = s <=> t[1] = p /\ t[2] = i)
  BY <1>1 DEF L!Slots
<1>6. \A t \in L!Slots : Outstanding(t)' <=> Outstanding(t) /\ t # s
  BY <1>1, <1>4, <1>5 DEF Outstanding
<1>7. Outstanding(s)
  BY <1>1 DEF Outstanding
<1>8. L!Books(s, g) <=> ~e.isMIG /\ e.dev = g
  BY <1>1, <1>2 DEF L!Books
<1>9. L!BookedSlots(g)' = L!BookedSlots(g) /\ L!BookedUnits(g)' = L!BookedUnits(g)
  BY DEF L!BookedSlots, L!BookedUnits, L!Books, L!Slots, L!Units
<1>10. \A u \in L!Units : u[1] \in L!Slots /\ u[2] \in 1..MaxMem /\ u = <<u[1], u[2]>>
  BY DEF L!Units
<1>11. \A u \in L!Units : u \in Segment(s, e.mem) <=> (u[1] = s /\ u[2] <= e.mem)
  BY <1>3, <1>10 DEF Segment
<1>12. Segment(s, e.mem) \subseteq L!Units
  <2>1. 1..e.mem \subseteq 1..MaxMem
    BY <1>2, <1>3
  <2> QED  BY <2>1, <1>3 DEF Segment, L!Units
<1>13. s \in L!BookedSlots(g) <=> ~e.isMIG /\ e.dev = g
  BY <1>3, <1>8 DEF L!BookedSlots
<1>14. \A u \in L!Units : u[1] = s => (u \in L!BookedUnits(g) <=> ~e.isMIG /\ e.dev = g /\ u \in Segment(s, e.mem))
  BY <1>8, <1>11 DEF L!BookedUnits
<1>15. L!BookedSlots(g) \subseteq L!Slots /\ L!BookedUnits(g) \subseteq L!Units
  BY DEF L!BookedSlots, L!BookedUnits
<1> HIDE DEF s, e
<1>16. LiveSlots(g)' = LiveSlots(g) \ {s}
  BY <1>6, <1>9, <1>15 DEF LiveSlots
<1>17. LiveUnits(g)' = {u \in LiveUnits(g) : u[1] # s}
  BY <1>6, <1>9, <1>10, <1>15 DEF LiveUnits
<1>18. ASSUME ~e.isMIG, e.dev = g
       PROVE  /\ s \in LiveSlots(g) /\ Segment(s, e.mem) \subseteq LiveUnits(g)
              /\ LiveUnits(g)' = LiveUnits(g) \ Segment(s, e.mem)
  <2>1. s \in LiveSlots(g)
    BY <1>7, <1>13, <1>18 DEF LiveSlots
  <2>2. Segment(s, e.mem) \subseteq LiveUnits(g)
    BY <1>7, <1>11, <1>12, <1>14, <1>18 DEF LiveUnits
  <2>3. \A u \in LiveUnits(g) : u[1] # s <=> u \notin Segment(s, e.mem)
    BY <1>11, <1>14, <1>15, <1>18 DEF LiveUnits
  <2> QED  BY <2>1, <2>2, <2>3, <1>17
<1>19. ASSUME e.isMIG \/ e.dev # g
       PROVE  LiveSlots(g)' = LiveSlots(g) /\ LiveUnits(g)' = LiveUnits(g)
  <2>1. s \notin LiveSlots(g)
    BY <1>13, <1>19 DEF LiveSlots
  <2>2. \A u \in LiveUnits(g) : u[1] # s
    BY <1>14, <1>15, <1>19 DEF LiveUnits
  <2> QED  BY <2>1, <2>2, <1>16, <1>17
<1> QED  BY <1>16, <1>18, <1>19 DEF s, e

\* Facts shared by both kinds of iteration.
LEMMA ReleaseCommon ==
  ASSUME Inv, ~mutexFree, releasing[2] <= Len(podAllocations[releasing[1]]),
         releasing' = <<releasing[1], releasing[2] + 1>>, UNCHANGED podAllocations
  PROVE  /\ releasing = <<releasing[1], releasing[2]>> /\ releasing[1] \in Pods
         /\ releasing[2] \in DOMAIN podAllocations[releasing[1]]
         /\ podAllocations[releasing[1]][releasing[2]] \in Entry
         /\ releasing' \in Pods \X Nat /\ ReleaseBounds' /\ EntryKinds' /\ ExclusiveGPU'
<1>1. releasing \in Pods \X Nat /\ releasing[1] \in Pods /\ releasing[2] \in Nat /\ releasing[2] >= 1
  BY DEF Inv, TypeOK, ReleaseBounds, mutexFree
<1>2. podAllocations[releasing[1]] \in Seq(Entry)
  BY <1>1 DEF Inv, TypeOK
<1>3. ReleaseBounds'
  BY <1>1, <1>2 DEF ReleaseBounds
<1>4. EntryKinds'
  BY DEF Inv, EntryKinds
<1>5. \A g \in GPUs : L!BookedSlots(g)' = L!BookedSlots(g)
  BY DEF L!BookedSlots, L!Books, L!Slots
<1>6. ExclusiveGPU'
  BY <1>5 DEF Inv, ExclusiveGPU, SoleSlots
<1> QED  BY <1>1, <1>2, <1>3, <1>4, <1>6

\* Giving back a full-GPU entry keeps the books, and the clamp does not fire.
LEMMA ReleaseGPUStep ==
  ASSUME Inv, ReleaseGPUEntry
  PROVE  Inv'
<1>0. PICK p, i, e : p = releasing[1] /\ i = releasing[2] /\ e = podAllocations[p][i]
  OBVIOUS
<1> DEFINE left == reservations[e.dev] - e.mem
<1>1. /\ ~mutexFree /\ i <= Len(podAllocations[p]) /\ ~e.isMIG
      /\ reservations' = [reservations EXCEPT ![e.dev] = IF left < 0 THEN 0 ELSE left]
      /\ podCountPerGPU' = [podCountPerGPU EXCEPT ![e.dev] = IF left < 0 THEN 0 ELSE podCountPerGPU[e.dev] - 1]
      /\ releasing' = <<p, i + 1>>
      /\ UNCHANGED <<known, report, migAvail, podAllocations, choice>>
  BY <1>0 DEF ReleaseGPUEntry
<1>2. /\ releasing = <<p, i>> /\ p \in Pods /\ i \in DOMAIN podAllocations[p] /\ e \in Entry
      /\ releasing' \in Pods \X Nat /\ ReleaseBounds' /\ EntryKinds' /\ ExclusiveGPU'
  BY <1>0, <1>1, ReleaseCommon
<1>3. e.dev \in GPUs /\ e.mem \in Nat
  <2>1. e.dev \in GPUs
    BY <1>0, <1>1, <1>2, SMTT(60) DEF Inv, EntryKinds
  <2> QED  BY <2>1, <1>2, RegistryAssumption DEF Entry
<1>4. reservations \in [GPUs -> Nat] /\ podCountPerGPU \in [GPUs -> Nat]
  BY DEF Inv, TypeOK
<1> DEFINE g == e.dev  s == <<p, i>>
<1>5. /\ s \in LiveSlots(g) /\ Segment(s, e.mem) \subseteq LiveUnits(g)
      /\ LiveSlots(g)' = LiveSlots(g) \ {s}
      /\ LiveUnits(g)' = LiveUnits(g) \ Segment(s, e.mem)
  <2>1. TypeOK /\ ReleaseBounds /\ UNCHANGED podAllocations
    BY <1>1 DEF Inv
  <2> QED  BY <2>1, <1>0, <1>1, <1>2, ReleaseBooks, SMTT(60)
<1>6. \A h \in GPUs \ {g} : LiveSlots(h)' = LiveSlots(h) /\ LiveUnits(h)' = LiveUnits(h)
  <2>1. TypeOK /\ ReleaseBounds /\ UNCHANGED podAllocations
    BY <1>1 DEF Inv
  <2> QED  BY <2>1, <1>0, <1>1, <1>2, ReleaseBooks, ZenonT(60)
<1>7. reservations[g] = Cardinality(LiveUnits(g)) /\ podCountPerGPU[g] = Cardinality(LiveSlots(g))
  BY <1>3 DEF Inv, Accounting
<1>8. /\ Cardinality(LiveUnits(g)') = Cardinality(LiveUnits(g)) - e.mem
      /\ e.mem <= Cardinality(LiveUnits(g))
      /\ Cardinality(LiveSlots(g)') = Cardinality(LiveSlots(g)) - 1
  <2>1. IsFiniteSet(LiveSlots(g)) /\ IsFiniteSet(LiveUnits(g))
    BY BookedFinite
  <2>2. Cardinality(Segment(s, e.mem)) = e.mem
    BY <1>3, SegmentCard
  <2>3. /\ Cardinality(LiveUnits(g) \ Segment(s, e.mem)) = Cardinality(LiveUnits(g)) - e.mem
        /\ e.mem <= Cardinality(LiveUnits(g))
    BY <2>1, <2>2, <1>5, RemoveSubset
  <2>4. Cardinality(LiveSlots(g) \ {s}) = Cardinality(LiveSlots(g)) - 1
    BY <2>1, <1>5, FS_RemoveElement
  <2> QED  BY <2>3, <2>4, <1>5
<1>9. Cardinality(LiveSlots(g)') \in Nat
  <2>1. IsFiniteSet(LiveSlots(g) \ {s})
    BY BookedFinite, FS_RemoveElement
  <2> QED  BY <2>1, <1>5, FS_CardinalityType
<1> HIDE DEF s
<1>10. /\ reservations' = [reservations EXCEPT ![g] = Cardinality(LiveUnits(g)')]
       /\ podCountPerGPU' = [podCountPerGPU EXCEPT ![g] = Cardinality(LiveSlots(g)')]
       /\ Cardinality(LiveUnits(g)') \in Nat /\ Cardinality(LiveUnits(g)') <= reservations[g]
       /\ Cardinality(LiveSlots(g)') < podCountPerGPU[g]
  <2>1. reservations[g] \in Nat /\ podCountPerGPU[g] \in Nat
    BY <1>3, <1>4
  <2>2. /\ ~(left < 0) /\ left = Cardinality(LiveUnits(g)') /\ left \in Nat /\ left <= reservations[g]
        /\ podCountPerGPU[g] - 1 = Cardinality(LiveSlots(g)') /\ podCountPerGPU[g] - 1 < podCountPerGPU[g]
    BY <2>1, <1>3, <1>7, <1>8
  <2> QED  BY <2>2, <1>1
<1>11. TypeOK'
  BY <1>1, <1>2, <1>3, <1>4, <1>9, <1>10 DEF Inv, TypeOK
<1>12. Accounting'
  <2> SUFFICES ASSUME NEW h \in GPUs
               PROVE  /\ reservations'[h] = Cardinality(LiveUnits(h)')
                      /\ podCountPerGPU'[h] = Cardinality(LiveSlots(h)')
    BY DEF Accounting
  <2>1. CASE h = g
    BY <2>1, <1>3, <1>4, <1>10
  <2>2. CASE h # g
    <3>1. reservations'[h] = reservations[h] /\ podCountPerGPU'[h] = podCountPerGPU[h]
      BY <2>2, <1>4, <1>10
    <3>2. reservations[h] = Cardinality(LiveUnits(h)) /\ podCountPerGPU[h] = Cardinality(LiveSlots(h))
      BY DEF Inv, Accounting
    <3> QED  BY <2>2, <3>1, <3>2, <1>6
  <2> QED  BY <2>1, <2>2
<1>13. \A h \in GPUs : reservations'[h] <= reservations[h] /\ podCountPerGPU'[h] <= podCountPerGPU[h]
  BY <1>3, <1>4, <1>9, <1>10
<1>14. WithinTotal'
  BY <1>4, <1>11, <1>13, RegistryAssumption DEF Inv, WithinTotal, TypeOK
<1>15. ChoiceFits'
  <2> SUFFICES ASSUME choice # NoChoice, ~choice.isMIG, NEW h \in choice.todo
               PROVE  /\ reservations'[h] + choice.mem <= Total[h]
                      /\ h \in MPSGPUs \/ podCountPerGPU'[h] = 0 \/ choice.pod \in SharedMulti
    BY <1>1 DEF Inv, ChoiceFits
  <2>1. /\ h \in GPUs /\ reservations[h] + choice.mem <= Total[h]
        /\ h \in MPSGPUs \/ podCountPerGPU[h] = 0 \/ choice.pod \in SharedMulti
    BY DEF Inv, ChoiceFits
  <2>2. /\ reservations'[h] \in Nat /\ podCountPerGPU'[h] \in Nat /\ reservations[h] \in Nat
        /\ choice.mem \in Nat /\ Total[h] \in Nat
    BY <2>1, <1>4, <1>11, RegistryAssumption DEF Inv, TypeOK, Choice
  <2> QED  BY <2>1, <2>2, <1>13
<1> QED  BY <1>2, <1>11, <1>12, <1>14, <1>15 DEF Inv

\* Giving back a MIG entry leaves the books of the full GPUs alone.
LEMMA ReleaseMIGStep ==
  ASSUME Inv, ReleaseMIGEntry
  PROVE  Inv'
<1>0. PICK p, i, e : p = releasing[1] /\ i = releasing[2] /\ e = podAllocations[p][i]
  OBVIOUS
<1>1. /\ ~mutexFree /\ i <= Len(podAllocations[p]) /\ e.isMIG
      /\ migAvail' = [migAvail EXCEPT ![e.dev] = migAvail[e.dev] \/ NodeOf[Parent[e.dev]] \in known]
      /\ releasing' = <<p, i + 1>>
      /\ UNCHANGED <<known, report, reservations, podCountPerGPU, podAllocations, choice>>
  BY <1>0 DEF ReleaseMIGEntry
<1>2. /\ releasing = <<p, i>> /\ p \in Pods
      /\ releasing' \in Pods \X Nat /\ ReleaseBounds' /\ EntryKinds' /\ ExclusiveGPU'
  BY <1>0, <1>1, ReleaseCommon
<1>3. migAvail' \in [MIGs -> BOOLEAN]
  <2>1. migAvail \in [MIGs -> BOOLEAN]
    BY DEF Inv, TypeOK
  <2>2. PICK v \in BOOLEAN : v = (migAvail[e.dev] \/ NodeOf[Parent[e.dev]] \in known)
    OBVIOUS
  <2>3. migAvail' = [migAvail EXCEPT ![e.dev] = v]
    BY <2>2, <1>1, Zenon
  <2> QED  BY <2>1, <2>3
<1>4. TypeOK'
  BY <1>1, <1>2, <1>3 DEF Inv, TypeOK
<1>5. \A g \in GPUs : LiveSlots(g)' = LiveSlots(g) /\ LiveUnits(g)' = LiveUnits(g)
  <2>1. TypeOK /\ ReleaseBounds /\ UNCHANGED podAllocations /\ podAllocations[p][i].isMIG
    BY <1>0, <1>1 DEF Inv
  <2> QED  BY <2>1, <1>1, <1>2, ReleaseBooks, ZenonT(60)
<1>6. Accounting'
  BY <1>1, <1>5 DEF Inv, Accounting
<1>7. WithinTotal' /\ ChoiceFits'
  BY <1>1 DEF Inv, WithinTotal, ChoiceFits
<1> QED  BY <1>2, <1>4, <1>6, <1>7 DEF Inv

\* When ReleasePod deletes the pod's entries none of them is outstanding any more.
LEMMA ReleaseDoneStep ==
  ASSUME Inv, ReleaseDone
  PROVE  Inv'
<1>0. PICK p, i : p = releasing[1] /\ i = releasing[2]
  OBVIOUS
<1>1. /\ ~mutexFree /\ i > Len(podAllocations[p])
      /\ podAllocations' = [podAllocations EXCEPT ![p] = <<>>]
      /\ releasing' = NoRelease
      /\ UNCHANGED <<known, report, migAvail, reservations, podCountPerGPU, choice>>
  BY <1>0 DEF ReleaseDone
<1>2. p \in Pods /\ i \in Nat
  BY <1>0, <1>1 DEF Inv, TypeOK, mutexFree
<1>3. /\ podAllocations \in [Pods -> Seq(Entry)] /\ Len(podAllocations[p]) \in Nat
      /\ podAllocations'[p] = <<>> /\ Len(podAllocations'[p]) = 0
      /\ \A q \in Pods \ {p} : podAllocations'[q] = podAllocations[q]
  BY <1>1, <1>2 DEF Inv, TypeOK
<1>4. TypeOK'
  <2>1. podAllocations' \in [Pods -> Seq(Entry)]
    <3>1. <<>> \in Seq(Entry)
      OBVIOUS
    <3> QED  BY <3>1, <1>1, <1>3
  <2>2. ASSUME NEW q \in Pods PROVE Len(podAllocations'[q]) <= MaxEntries
    <3>1. CASE q = p
      BY <3>1, <1>3, RegistryAssumption
    <3>2. CASE q # p
      BY <3>2, <1>3 DEF Inv, TypeOK
    <3> QED  BY <3>1, <3>2
  <2> QED  BY <2>1, <2>2, <1>1 DEF Inv, TypeOK
<1>5. EntryKinds'
  BY <1>3 DEF Inv, EntryKinds
<1>6. mutexFree' /\ ReleaseBounds' /\ WithinTotal'
  BY <1>1 DEF mutexFree, ReleaseBounds, Inv, WithinTotal
<1>7. ChoiceFits'
  <2>1. ASSUME NEW q \in Pods
        PROVE  /\ Len(podAllocations'[q]) \in Nat /\ Len(podAllocations[q]) \in Nat
               /\ Len(podAllocations'[q]) <= Len(podAllocations[q])
    <3>1. CASE q = p
      BY <3>1, <1>3
    <3>2. CASE q # p
      BY <3>2, <1>3
    <3> QED  BY <3>1, <3>2
  <2> SUFFICES ASSUME choice # NoChoice
               PROVE  Len(podAllocations'[choice.pod]) + Cardinality(choice.todo) <= MaxEntries
    BY <1>1 DEF Inv, ChoiceFits
  <2>2. choice.pod \in Pods
    BY DEF Inv, TypeOK, Choice
  <2>3. Cardinality(choice.todo) \in Nat /\ Len(podAllocations[choice.pod]) + Cardinality(choice.todo) <= MaxEntries
    BY FS_CardinalityType DEF Inv, ChoiceFits
  <2> QED  BY <2>1, <2>2, <2>3, RegistryAssumption
<1>8. \A t \in L!Slots : t[1] \in Pods /\ t[2] \in Nat /\ t[2] >= 1
  BY DEF L!Slots
<1>9. \A t \in L!Slots, g \in GPUs : L!Books(t, g)' <=> L!Books(t, g) /\ Outstanding(t)
  <2> SUFFICES ASSUME NEW t \in L!Slots, NEW g \in GPUs
               PROVE  L!Books(t, g)' <=> L!Books(t, g) /\ Outstanding(t)
    OBVIOUS
  <2>1. CASE t[1] # p
    BY <2>1, <1>0, <1>3, <1>8 DEF L!Books, Outstanding
  <2>2. CASE t[1] = p
    <3>1. ~L!Books(t, g)'
      BY <2>2, <1>3, <1>8 DEF L!Books
    <3>2. L!Books(t, g) => ~Outstanding(t)
      BY <2>2, <1>0, <1>1, <1>2, <1>3, <1>8 DEF L!Books, Outstanding
    <3> QED  BY <3>1, <3>2
  <2> QED  BY <2>1, <2>2
<1>10. \A t \in L!Slots, g \in GPUs : L!Books(t, g)' => podAllocations'[t[1]][t[2]] = podAllocations[t[1]][t[2]]
  <2>1. \A t \in L!Slots, g \in GPUs : L!Books(t, g)' => t[1] # p
    BY <1>3, <1>8 DEF L!Books
  <2> QED  BY <2>1, <1>3, <1>8
<1>11. \A g \in GPUs : L!BookedSlots(g)' = LiveSlots(g) /\ L!BookedUnits(g)' = LiveUnits(g)
  <2> SUFFICES ASSUME NEW g \in GPUs
               PROVE  L!BookedSlots(g)' = LiveSlots(g) /\ L!BookedUnits(g)' = LiveUnits(g)
    OBVIOUS
  <2>1. L!BookedSlots(g)' = LiveSlots(g)
    BY <1>9 DEF LiveSlots, L!BookedSlots
  <2>2. \A u \in L!Units : u[1] \in L!Slots
    BY DEF L!Units
  <2>3. L!BookedUnits(g)' = LiveUnits(g)
    BY <2>2, <1>9, <1>10 DEF LiveUnits, L!BookedUnits
  <2> QED  BY <2>1, <2>3
<1>12. \A g \in GPUs : LiveSlots(g)' = LiveSlots(g) /\ LiveUnits(g)' = LiveUnits(g)
  <2>1. \A g \in GPUs : LiveSlots(g)' = L!BookedSlots(g)' /\ LiveUnits(g)' = L!BookedUnits(g)'
    BY <1>6 DEF LiveSlots, LiveUnits, Outstanding, L!BookedSlots, L!BookedUnits
  <2> QED  BY <2>1, <1>11
<1>13. Accounting'
  BY <1>1, <1>12 DEF Inv, Accounting
<1>14. ExclusiveGPU'
  <2> SUFFICES ASSUME NEW g \in GPUs \ MPSGPUs
               PROVE  Cardinality(SoleSlots(g)') <= 1
    BY DEF ExclusiveGPU
  <2>1. SoleSlots(g)' \in SUBSET SoleSlots(g) /\ SoleSlots(g) \in SUBSET L!BookedSlots(g)
    BY <1>11 DEF LiveSlots, SoleSlots
  <2>2. Cardinality(SoleSlots(g)) <= 1
    BY DEF Inv, ExclusiveGPU
  <2>3. IsFiniteSet(SoleSlots(g))
    BY <2>1, BookedFinite, FS_Subset
  <2>4. /\ Cardinality(SoleSlots(g)') <= Cardinality(SoleSlots(g))
        /\ Cardinality(SoleSlots(g)') \in Nat /\ Cardinality(SoleSlots(g)) \in Nat
    BY <2>1, <2>3, FS_Subset, FS_CardinalityType
  <2> QED  BY <2>2, <2>4
<1> QED  BY <1>4, <1>5, <1>6, <1>7, <1>13, <1>14 DEF Inv

\* Every step keeps the invariant.
LEMMA NextInv == Inv /\ [Next]_vars => Inv'
<1> SUFFICES ASSUME Inv, [Next]_vars PROVE Inv'
  OBVIOUS
<1>1. ASSUME NEW n \in Nodes, UpdateFromReport(n) PROVE Inv'
  BY <1>1, ReportStep
<1>2. ASSUME NEW n \in Nodes, RemoveStaleNodes(n) PROVE Inv'
  BY <1>2, StaleStep
<1>3. ASSUME NEW p \in Pods, ChooseSingle(p) PROVE Inv'
  BY <1>3, ChooseSingleStep
<1>4. ASSUME NEW p \in Pods, ChooseMulti(p) PROVE Inv'
  BY <1>4, ChooseMultiStep
<1>5. ASSUME NEW p \in Pods, ReleasePod(p) PROVE Inv'
  BY <1>5, ReleasePodStep
<1>6. ASSUME NEW d \in GPUs, MarkGPUAllocatedForPod(d) PROVE Inv'
  BY <1>6, MarkGPUStep
<1>7. ASSUME NEW d \in MIGs, MarkMIGAllocatedForPod(d) PROVE Inv'
  BY <1>7, MarkMIGStep
<1>8. CASE ReleaseGPUEntry
  BY <1>8, ReleaseGPUStep
<1>9. CASE ReleaseMIGEntry
  BY <1>9, ReleaseMIGStep
<1>10. CASE ReleaseDone
  BY <1>10, ReleaseDoneStep
<1>11. CASE UNCHANGED vars
  <2>1. TypeOK'
    BY <1>11 DEF Inv, TypeOK, vars
  <2> QED  BY <1>11, <2>1, QuietStep DEF vars
<1> QED  BY <1>1, <1>2, <1>3, <1>4, <1>5, <1>6, <1>7, <1>8, <1>9, <1>10, <1>11 DEF Next

-----------------------------------------------------------------------------
(* The theorems.                                                            *)

\* The invariant holds in every reachable state.
LEMMA Invariance == Spec => []Inv
<1>1. Init => Inv
  BY InitInv
<1>2. Inv /\ [Next]_vars => Inv'
  BY NextInv
<1> QED  BY <1>1, <1>2, PTL DEF Spec

\* Every variable keeps its type; in particular a pod count never becomes negative,
\* which ReleasePod's plain decrement does not ensure by itself.
THEOREM TypeCorrect == Spec => []TypeOK
<1>1. Inv => TypeOK
  BY DEF Inv
<1> QED  BY <1>1, Invariance, PTL

\* The reservation and pod counters of registry.go always agree with the entries that
\* ReleasePod has not given back: no mark is lost, none is counted twice, and the clamp
\* at zero never fires.
THEOREM AccountingCorrect == Spec => []Accounting
<1>1. Inv => Accounting
  BY DEF Inv
<1> QED  BY <1>1, Invariance, PTL

\* What was chosen under one lock acquisition still fits when it is marked under a
\* later one; its GPUs are then still empty unless they have MPS or the pod is a shared one
\* with several GPUs, for which ScheduleGang did not ask.
THEOREM ChoiceStaysValid == Spec => []ChoiceFits
<1>1. Inv => ChoiceFits
  BY DEF Inv
<1> QED  BY <1>1, Invariance, PTL

\* No GPU is ever reserved beyond its memory.
THEOREM NeverOverReserved == Spec => []WithinTotal
<1>1. Inv => WithinTotal
  BY DEF Inv
<1> QED  BY <1>1, Invariance, PTL

\* A GPU without MPS never has two entries of pods that FindAvailableNonMPSGPU or the
\* AllocatedPods check of ScheduleGang placed: all but the shared pods with several GPUs,
\* which that check lets in.
THEOREM NeverShared == Spec => []ExclusiveGPU
<1>1. Inv => ExclusiveGPU
  BY DEF Inv
<1> QED  BY <1>1, Invariance, PTL

\* Entry k of p is an outstanding one for the MIG instance i.
HoldsMIG(p, k, i) == /\ Outstanding(<<p, k>>)
                     /\ podAllocations[p][k].isMIG /\ podAllocations[p][k].dev = i

\* A MIG instance becomes unavailable only with an entry, and is made available again
\* when that entry is given back, unless its node is not known, in which case the next
\* report does it.
LEMMA MIGStep ==
  ASSUME Inv, MIGNotLeaked, [Next]_vars
  PROVE  MIGNotLeaked'
<1> SUFFICES ASSUME NEW i \in MIGs, migAvail'[i] = FALSE, NodeOf[Parent[i]] \in known'
             PROVE  \E p \in Pods : \E k \in DOMAIN podAllocations'[p] : HoldsMIG(p, k, i)'
  <2>1. Inv'
    BY NextInv
  <2>2. \A i \in MIGs : migAvail'[i] \in BOOLEAN
    BY <2>1 DEF Inv, TypeOK
  <2> QED  BY <2>2 DEF MIGNotLeaked, HoldsMIG
<1>1. migAvail[i] = FALSE /\ NodeOf[Parent[i]] \in known =>
        \E p \in Pods : \E k \in DOMAIN podAllocations[p] : HoldsMIG(p, k, i)
  BY DEF MIGNotLeaked, HoldsMIG
<1>2. migAvail \in [MIGs -> BOOLEAN] /\ podAllocations \in [Pods -> Seq(Entry)]
  BY DEF Inv, TypeOK
<1>3. ASSUME NEW n \in Nodes, UpdateFromReport(n) \/ RemoveStaleNodes(n)
      PROVE  \E p \in Pods : \E k \in DOMAIN podAllocations'[p] : HoldsMIG(p, k, i)'
  <2>1. UNCHANGED <<podAllocations, releasing>>
    BY <1>3 DEF UpdateFromReport, RemoveStaleNodes
  <2>2. CASE UpdateFromReport(n)
    <3>1. migAvail'[i] = (NodeOf[Parent[i]] = n \/ migAvail[i]) /\ known' = known \cup {n}
      BY <2>2 DEF UpdateFromReport
    <3>2. migAvail[i] = FALSE /\ NodeOf[Parent[i]] \in known
      BY <1>2, <3>1, Zenon
    <3> QED  BY <1>1, <2>1, <3>2 DEF HoldsMIG, Outstanding, mutexFree
  <2>3. CASE RemoveStaleNodes(n)
    BY <1>1, <2>1, <2>3 DEF RemoveStaleNodes, HoldsMIG, Outstanding, mutexFree
  <2> QED  BY <1>3, <2>2, <2>3
<1>4. CASE UNCHANGED vars \/ \E p \in Pods : ChooseSingle(p) \/ ChooseMulti(p)
  <2>1. UNCHANGED <<known, migAvail, podAllocations, releasing>>
    BY <1>4 DEF vars, ChooseSingle, ChooseMulti
  <2> QED  BY <1>1, <2>1 DEF HoldsMIG, Outstanding, mutexFree
<1>5. ASSUME NEW q \in Pods, ReleasePod(q)
      PROVE  \E p \in Pods : \E k \in DOMAIN podAllocations'[p] : HoldsMIG(p, k, i)'
  <2>1. UNCHANGED <<known, migAvail, podAllocations>> /\ releasing' = <<q, 1>>
    BY <1>5 DEF ReleasePod
  <2>2. PICK p, k : p \in Pods /\ k \in DOMAIN podAllocations[p] /\ HoldsMIG(p, k, i)
    BY <1>1, <2>1
  <2>3. k >= 1
    BY <1>2, <2>2
  <2>4. Outstanding(<<p, k>>)'
    BY <2>1, <2>3 DEF Outstanding
  <2> QED  BY <2>1, <2>2, <2>4 DEF HoldsMIG
<1>6. ASSUME NEW d \in GPUs \cup MIGs, NEW b \in BOOLEAN, mutexFree, UNCHANGED <<known, releasing>>,
             choice.pod \in Pods, choice.mem \in 0..MaxMem,
             AppendEntry(choice.pod, d, choice.mem, b),
             migAvail'[i] = migAvail[i] \/ (d = i /\ b = TRUE)
      PROVE  \E p \in Pods : \E k \in DOMAIN podAllocations'[p] : HoldsMIG(p, k, i)'
  <2>1. PICK c \in Pods : c = choice.pod
    BY <1>6
  <2>2. /\ podAllocations' \in [Pods -> Seq(Entry)] /\ Len(podAllocations[c]) \in Nat
        /\ Len(podAllocations'[c]) = Len(podAllocations[c]) + 1
        /\ podAllocations'[c][Len(podAllocations[c]) + 1] = [dev |-> d, mem |-> choice.mem, isMIG |-> b]
        /\ \A k \in 1..Len(podAllocations[c]) : podAllocations'[c][k] = podAllocations[c][k]
        /\ \A q \in Pods \ {c} : podAllocations'[q] = podAllocations[q]
    <3>1. TypeOK
      BY DEF Inv
    <3>2. choice.mem \in 0..MaxMem /\ AppendEntry(c, d, choice.mem, b)
      BY <1>6, <2>1, Zenon
    <3> QED  BY <3>1, <3>2, AppendTyped
  <2>3. \A p \in Pods : DOMAIN podAllocations[p] = 1..Len(podAllocations[p]) /\ DOMAIN podAllocations'[p] = 1..Len(podAllocations'[p])
    BY <1>2, <2>2
  <2>4. \A s : Outstanding(s)'
    BY <1>6 DEF Outstanding, mutexFree
  <2>5. CASE d = i /\ b = TRUE
    <3>1. Len(podAllocations[c]) + 1 \in DOMAIN podAllocations'[c]
      BY <2>2, <2>3
    <3> QED  BY <2>2, <2>4, <2>5, <3>1 DEF HoldsMIG
  <2>6. CASE ~(d = i /\ b = TRUE)
    <3>1. PICK p, k : p \in Pods /\ k \in DOMAIN podAllocations[p] /\ HoldsMIG(p, k, i)
      BY <1>1, <1>6, <2>6
    <3>2. k \in DOMAIN podAllocations'[p] /\ podAllocations'[p][k] = podAllocations[p][k]
      <4>1. CASE p = c
        BY <2>2, <2>3, <3>1, <4>1
      <4>2. CASE p # c
        BY <2>2, <3>1, <4>2
      <4> QED  BY <4>1, <4>2
    <3> QED  BY <2>4, <3>1, <3>2 DEF HoldsMIG
  <2> QED  BY <2>5, <2>6
<1>7. ASSUME NEW d \in GPUs, MarkGPUAllocatedForPod(d)
      PROVE  \E p \in Pods : \E k \in DOMAIN podAllocations'[p] : HoldsMIG(p, k, i)'
  <2>1. choice.pod \in Pods /\ choice.mem \in 0..MaxMem
    BY <1>7 DEF MarkGPUAllocatedForPod, Inv, TypeOK, Choice
  <2> QED  BY <1>6, <1>7, <2>1 DEF MarkGPUAllocatedForPod
<1>8. ASSUME NEW d \in MIGs, MarkMIGAllocatedForPod(d)
      PROVE  \E p \in Pods : \E k \in DOMAIN podAllocations'[p] : HoldsMIG(p, k, i)'
  <2>1. choice.pod \in Pods /\ choice.mem \in 0..MaxMem
    BY <1>8 DEF MarkMIGAllocatedForPod, Inv, TypeOK, Choice
  <2>2. migAvail'[i] = migAvail[i] \/ d = i
    BY <1>2, <1>8 DEF MarkMIGAllocatedForPod
  <2> QED  BY <1>6, <1>8, <2>1, <2>2 DEF MarkMIGAllocatedForPod
<1>9. CASE ReleaseGPUEntry \/ ReleaseMIGEntry
  <2>0. PICK q, j, e : q = releasing[1] /\ j = releasing[2] /\ e = podAllocations[q][j]
    BY SMTT(60)
  <2>1. /\ ~mutexFree /\ releasing' = <<q, j + 1>> /\ UNCHANGED <<known, podAllocations>>
        /\ releasing[2] <= Len(podAllocations[releasing[1]])
    BY <1>9, <2>0 DEF ReleaseGPUEntry, ReleaseMIGEntry
  <2>2. q \in Pods /\ j \in Nat
    BY <2>0, <2>1 DEF Inv, TypeOK, mutexFree
  <2>3. migAvail[i] = FALSE /\ ~(e.isMIG /\ e.dev = i)
    <3>1. CASE ReleaseGPUEntry
      BY <2>0, <3>1 DEF ReleaseGPUEntry
    <3>2. CASE ReleaseMIGEntry
      <4>1. migAvail' = [migAvail EXCEPT ![e.dev] = @ \/ NodeOf[Parent[e.dev]] \in known]
        BY <2>0, <3>2 DEF ReleaseMIGEntry
      <4>2. CASE e.dev = i
        BY <1>2, <2>1, <4>1, <4>2
      <4>3. CASE e.dev # i
        BY <1>2, <4>1, <4>3
      <4> QED  BY <4>2, <4>3
    <3> QED  BY <1>9, <3>1, <3>2
  <2>4. PICK p, k : p \in Pods /\ k \in DOMAIN podAllocations[p] /\ HoldsMIG(p, k, i)
    BY <1>1, <2>1, <2>3
  <2>5. ~(p = q /\ k = j)
    BY <2>0, <2>3, <2>4 DEF HoldsMIG
  <2>6. k \in Nat
    BY <1>2, <2>4
  <2>7. p # q \/ k >= j + 1
    BY <2>0, <2>1, <2>2, <2>4, <2>5, <2>6 DEF HoldsMIG, Outstanding
  <2>8. Outstanding(<<p, k>>)'
    BY <2>1, <2>7 DEF Outstanding
  <2> QED  BY <2>1, <2>4, <2>8 DEF HoldsMIG
<1>10. CASE ReleaseDone
  <2>1. /\ ~mutexFree /\ releasing' = NoRelease /\ UNCHANGED <<known, migAvail>>
        /\ releasing[2] > Len(podAllocations[releasing[1]])
        /\ podAllocations' = [podAllocations EXCEPT ![releasing[1]] = <<>>]
    BY <1>10 DEF ReleaseDone
  <2>2. PICK p, k : p \in Pods /\ k \in DOMAIN podAllocations[p] /\ HoldsMIG(p, k, i)
    BY <1>1, <2>1
  <2>3. releasing[1] \in Pods /\ releasing[2] \in Nat
    BY <2>1 DEF Inv, TypeOK, mutexFree
  <2>4. p # releasing[1]
    BY <1>2, <2>1, <2>2, <2>3 DEF HoldsMIG, Outstanding
  <2>5. podAllocations'[p] = podAllocations[p] /\ Outstanding(<<p, k>>)'
    BY <1>2, <2>1, <2>4 DEF Outstanding, mutexFree
  <2> QED  BY <2>2, <2>5 DEF HoldsMIG
<1> QED  BY <1>3, <1>4, <1>5, <1>7, <1>8, <1>9, <1>10 DEF Next

\* A MIG instance that the registry of a known node calls unavailable is held by a pod:
\* no interleaving of marks, releases, reports and node expiry loses one.
THEOREM NoMIGLost == Spec => []MIGNotLeaked
<1>1. Init => MIGNotLeaked
  BY DEF Init, MIGNotLeaked
<1>2. Inv /\ MIGNotLeaked /\ [Next]_vars => MIGNotLeaked'
  BY MIGStep
<1> QED  BY <1>1, <1>2, Invariance, PTL DEF Spec

\* The ledger counts as the registry does.
LEMMA SameCardinality == \A S : L!Cardinality(S) = Cardinality(S)
BY DEF L!Cardinality, Cardinality

\* A mark of a full GPU is a grant that the ledger allows.
LEMMA MarkGPUGrants ==
  ASSUME Inv, NEW d \in GPUs, MarkGPUAllocatedForPod(d)
  PROVE  L!Next
<1> DEFINE p == choice.pod  e == [dev |-> d, mem |-> choice.mem, isMIG |-> FALSE]
<1>1. /\ mutexFree /\ choice # NoChoice /\ d \in choice.todo /\ choice.isMIG = FALSE
      /\ AppendEntry(p, d, choice.mem, choice.isMIG) /\ Marked(d)
  <2>1. choice.isMIG \in BOOLEAN
    BY DEF MarkGPUAllocatedForPod, Inv, TypeOK, Choice
  <2> QED  BY <2>1 DEF MarkGPUAllocatedForPod
<1>2. choice \in Choice /\ Len(podAllocations[p]) + 1 <= MaxEntries
  BY <1>1, MarkCommon
<1>3. p \in Pods /\ e \in L!Entry /\ podAllocations[p] \in Seq(Entry)
  BY <1>2 DEF Choice, L!Entry, Inv, TypeOK
<1>4. podAllocations' = [podAllocations EXCEPT ![p] = Append(podAllocations[p], e)]
  BY <1>1 DEF AppendEntry
<1>5. /\ reservations[d] + choice.mem <= Total[d]
      /\ d \in MPSGPUs \/ podCountPerGPU[d] = 0 \/ p \in SharedMulti
  BY <1>1 DEF Inv, ChoiceFits
<1>6. /\ reservations[d] = Cardinality(L!BookedUnits(d))
      /\ podCountPerGPU[d] = Cardinality(L!BookedSlots(d))
  BY <1>1, FreeBooks DEF Inv, Accounting
<1>7. d \in MPSGPUs \/ L!BookedSlots(d) = {} \/ p \in SharedMulti
  BY <1>5, <1>6, BookedFinite, FS_EmptySet
<1>8. Len(podAllocations[p]) < MaxEntries
  BY <1>2, <1>3, RegistryAssumption
<1>9. e.dev = d /\ e.mem = choice.mem /\ e.isMIG = FALSE
  OBVIOUS
<1>10. L!Cardinality(L!BookedUnits(e.dev)) + e.mem <= Total[e.dev]
  BY <1>5, <1>6, <1>9, SameCardinality
<1>11. e.dev \in MPSGPUs \/ L!BookedSlots(e.dev) = {} \/ p \in SharedMulti
  BY <1>7, <1>9
<1> HIDE DEF e
<1>12. L!Grant(p, e)
  BY <1>4, <1>8, <1>9, <1>10, <1>11 DEF L!Grant
<1> QED  BY <1>3, <1>12 DEF L!Next

\* A mark of a MIG instance is a grant too; the ledger asks nothing of it.
LEMMA MarkMIGGrants ==
  ASSUME Inv, NEW d \in MIGs, MarkMIGAllocatedForPod(d)
  PROVE  L!Next
<1> DEFINE p == choice.pod  e == [dev |-> d, mem |-> choice.mem, isMIG |-> TRUE]
<1>1. /\ mutexFree /\ choice # NoChoice /\ d \in choice.todo /\ choice.isMIG = TRUE
      /\ AppendEntry(p, d, choice.mem, choice.isMIG) /\ Marked(d)
  <2>1. choice.isMIG \in BOOLEAN
    BY DEF MarkMIGAllocatedForPod, Inv, TypeOK, Choice
  <2> QED  BY <2>1 DEF MarkMIGAllocatedForPod
<1>2. choice \in Choice /\ Len(podAllocations[p]) + 1 <= MaxEntries
  BY <1>1, MarkCommon
<1>3. p \in Pods /\ e \in L!Entry /\ podAllocations[p] \in Seq(Entry)
  BY <1>2 DEF Choice, L!Entry, Inv, TypeOK
<1>4. podAllocations' = [podAllocations EXCEPT ![p] = Append(podAllocations[p], e)]
  BY <1>1 DEF AppendEntry
<1>5. Len(podAllocations[p]) < MaxEntries
  BY <1>2, <1>3, RegistryAssumption
<1>6. L!Grant(p, e)
  BY <1>4, <1>5 DEF L!Grant
<1> QED  BY <1>3, <1>6 DEF L!Next

\* The registry with its counters, clamp, MIG flags, entry-by-entry release and separate
\* choosing and marking implements the ledger of atomic grants and returns, in which the
\* shared pods with several GPUs are the ones that join.
THEOREM RegistryImplementsLedger == Spec => ImplementsLedger
<1>1. Init => L!Init
  BY DEF Init, L!Init
<1>2. Inv /\ [Next]_vars => [L!Next]_podAllocations
  <2> SUFFICES ASSUME Inv, [Next]_vars PROVE L!Next \/ UNCHANGED podAllocations
    OBVIOUS
  <2>1. ASSUME NEW d \in GPUs, MarkGPUAllocatedForPod(d) PROVE L!Next
    BY <2>1, MarkGPUGrants
  <2>2. ASSUME NEW d \in MIGs, MarkMIGAllocatedForPod(d) PROVE L!Next
    BY <2>2, MarkMIGGrants
  <2>3. CASE ReleaseDone
    <3>1. releasing[1] \in Pods
      BY <2>3 DEF ReleaseDone, mutexFree, Inv, TypeOK
    <3>2. L!Return(releasing[1])
      BY <2>3 DEF ReleaseDone, L!Return
    <3> QED  BY <3>1, <3>2 DEF L!Next
  <2>4. CASE UNCHANGED vars
    BY <2>4 DEF vars
  <2>5. ASSUME NEW n \in Nodes, UpdateFromReport(n) \/ RemoveStaleNodes(n) PROVE UNCHANGED podAllocations
    BY <2>5 DEF UpdateFromReport, RemoveStaleNodes
  <2>6. ASSUME NEW p \in Pods, ChooseSingle(p) \/ ChooseMulti(p) \/ ReleasePod(p) PROVE UNCHANGED podAllocations
    BY <2>6 DEF ChooseSingle, ChooseMulti, ReleasePod
  <2>7. CASE ReleaseGPUEntry \/ ReleaseMIGEntry
    BY <2>7 DEF ReleaseGPUEntry, ReleaseMIGEntry
  <2> QED  BY <2>1, <2>2, <2>3, <2>4, <2>5, <2>6, <2>7 DEF Next
<1> QED  BY <1>1, <1>2, Invariance, PTL DEF Spec, ImplementsLedger, L!Spec

-----------------------------------------------------------------------------
(* What it takes for a MIG instance to be given away twice.                 *)

\* Entry k of p is for the MIG instance i, given back already or not.
MIGEntry(p, k, i) == k \in DOMAIN podAllocations[p] /\ podAllocations[p][k].isMIG /\ podAllocations[p][k].dev = i

\* No report comes for a node while an instance of it is held.
ReportsSpareHeld ==
  \A n \in Nodes : UpdateFromReport(n) =>
    \A p \in Pods : \A k : \A i \in MIGs : MIGEntry(p, k, i) => NodeOf[Parent[i]] # n

\* An instance that is held is not on offer, and the one that is chosen is not held.
NotOffered ==
  /\ \A p, q \in Pods : \A j, k : \A i \in MIGs : MIGEntry(p, j, i) /\ MIGEntry(q, k, i) => p = q /\ j = k
  /\ \A p \in Pods : \A k : \A i \in MIGs :
       MIGEntry(p, k, i) /\ Outstanding(<<p, k>>) => migAvail[i] = FALSE \/ NodeOf[Parent[i]] \notin known
  /\ choice # NoChoice /\ choice.isMIG => \A p \in Pods : \A k : \A i \in choice.todo : ~MIGEntry(p, k, i)

\* FindAvailableMIG offers instances of known nodes that are marked available.
LEMMA OfferedMIG ==
  ASSUME NEW p \in Pods,
         NEW r \in AllocateWithRouting(View, MIGView, RoutedMem(p), p \in SharedPods, "auto", TRUE), r.isMIG
  PROVE  r.dev \in MIGs /\ migAvail[r.dev] /\ NodeOf[Parent[r.dev]] \in known
<1> DEFINE m == RoutedMem(p)
           sh == p \in SharedPods
<1>1. r \in allocateFromMIG(View, MIGView, m, sh) \/ r \in allocateFromFullGPU(View, m, sh)
  BY DEF AllocateWithRouting, tryPool
<1>2. r \in allocateFromFullGPU(View, m, sh) => ~r.isMIG
  BY DEF allocateFromFullGPU
<1>3. PICK i \in FindAvailableMIG(View, MIGView, m) : r = [isMIG |-> TRUE, dev |-> i]
  BY <1>1, <1>2 DEF allocateFromMIG, SelectBestMIG, LeastBy
<1>4. i \in MIGs /\ MIGView[i].avail /\ MIGView[i].gpu \in DOMAIN View
  BY DEF FindAvailableMIG, MIGView
<1>5. migAvail[i] /\ Parent[i] \in DOMAIN View
  BY <1>4 DEF MIGView
<1>6. NodeOf[Parent[i]] \in known
  BY <1>5 DEF View
<1> QED  BY <1>3, <1>4, <1>5, <1>6

\* A step that leaves the entries alone, and takes from none what it may still hold.
LEMMA NotOfferedKept ==
  ASSUME NotOffered, UNCHANGED podAllocations,
         \A p \in Pods : \A k : \A i \in MIGs :
           MIGEntry(p, k, i) /\ Outstanding(<<p, k>>)' =>
             Outstanding(<<p, k>>) /\ (migAvail'[i] = migAvail[i] \/ migAvail'[i] = FALSE)
                                   /\ (NodeOf[Parent[i]] \in known' => NodeOf[Parent[i]] \in known),
         choice' # NoChoice /\ choice'.isMIG => \A p \in Pods : \A k : \A i \in choice'.todo : ~MIGEntry(p, k, i)
  PROVE  NotOffered'
<1>1. \A p, k, i : MIGEntry(p, k, i)' <=> MIGEntry(p, k, i)
  BY DEF MIGEntry
<1>2. \A p \in Pods : \A k : \A i \in MIGs :
        MIGEntry(p, k, i) /\ Outstanding(<<p, k>>)' => migAvail'[i] = FALSE \/ NodeOf[Parent[i]] \notin known'
  BY DEF NotOffered
<1> QED  BY <1>1, <1>2 DEF NotOffered

\* Every step but a report for a node with a held instance keeps held instances off offer.
LEMMA NotOfferedStep ==
  ASSUME Inv, NotOffered, [Next]_vars, [ReportsSpareHeld]_vars
  PROVE  NotOffered'
<1>0. /\ migAvail \in [MIGs -> BOOLEAN] /\ podAllocations \in [Pods -> Seq(Entry)]
      /\ \A p \in Pods : Len(podAllocations[p]) \in Nat /\ DOMAIN podAllocations[p] = 1..Len(podAllocations[p])
  BY DEF Inv, TypeOK
<1>1. ASSUME NEW n \in Nodes, UpdateFromReport(n) PROVE NotOffered'
  <2>1. UNCHANGED <<podAllocations, releasing, choice>> /\ known' = known \cup {n}
        /\ \A i \in MIGs : migAvail'[i] = (NodeOf[Parent[i]] = n \/ migAvail[i])
    BY <1>1 DEF UpdateFromReport
  <2>2. CASE UNCHANGED vars
    BY <2>2 DEF vars, NotOffered, MIGEntry, Outstanding, mutexFree
  <2>3. CASE ReportsSpareHeld
    <3>1. \A p \in Pods : \A k : \A i \in MIGs : MIGEntry(p, k, i) => NodeOf[Parent[i]] # n
      BY <1>1, <2>3 DEF ReportsSpareHeld
    <3>2. \A p \in Pods : \A k : Outstanding(<<p, k>>)' = Outstanding(<<p, k>>)
      BY <2>1 DEF Outstanding, mutexFree
    <3>3. \A p \in Pods : \A k : \A i \in MIGs :
            MIGEntry(p, k, i) => migAvail'[i] = migAvail[i] /\ (NodeOf[Parent[i]] \in known' => NodeOf[Parent[i]] \in known)
      BY <1>0, <2>1, <3>1
    <3>4. choice' # NoChoice /\ choice'.isMIG => \A p \in Pods : \A k : \A i \in choice'.todo : ~MIGEntry(p, k, i)
      BY <2>1 DEF NotOffered
    <3> QED  BY <2>1, <3>2, <3>3, <3>4, NotOfferedKept
  <2> QED  BY <2>2, <2>3
<1>2. CASE UNCHANGED vars \/ \E n \in Nodes : RemoveStaleNodes(n)
  <2>1. UNCHANGED <<podAllocations, releasing, choice, migAvail>> /\ known' \subseteq known
    BY <1>2 DEF RemoveStaleNodes, vars
  <2>2. \A p \in Pods : \A k : Outstanding(<<p, k>>)' = Outstanding(<<p, k>>)
    BY <2>1 DEF Outstanding, mutexFree
  <2>3. choice' # NoChoice /\ choice'.isMIG => \A p \in Pods : \A k : \A i \in choice'.todo : ~MIGEntry(p, k, i)
    BY <2>1 DEF NotOffered
  <2> QED  BY <2>1, <2>2, <2>3, NotOfferedKept
<1>3. ASSUME NEW p \in Pods, ChooseSingle(p) \/ ChooseMulti(p) PROVE NotOffered'
  <2>1. UNCHANGED <<podAllocations, releasing, migAvail, known>> /\ mutexFree
    BY <1>3 DEF ChooseSingle, ChooseMulti
  <2>2. \A s : Outstanding(s)' = Outstanding(s) /\ Outstanding(s)
    BY <2>1 DEF Outstanding, mutexFree
  <2>3. ASSUME choice'.isMIG PROVE \A q \in Pods : \A k : \A i \in choice'.todo : ~MIGEntry(q, k, i)
    <3>1. CASE ChooseMulti(p)
      BY <2>3, <3>1 DEF ChooseMulti
    <3>2. CASE ChooseSingle(p)
      <4>1. PICK r \in AllocateWithRouting(View, MIGView, RoutedMem(p), p \in SharedPods, "auto", TRUE) :
              choice' = [pod |-> p, isMIG |-> r.isMIG, todo |-> {r.dev}, mem |-> Mem(p)]
        BY <3>2 DEF ChooseSingle
      <4>2. r.isMIG /\ choice'.todo = {r.dev}
        BY <2>3, <4>1
      <4>3. r.dev \in MIGs /\ migAvail[r.dev] /\ NodeOf[Parent[r.dev]] \in known
        BY <4>2, OfferedMIG
      <4>4. PICK i \in MIGs : i = r.dev /\ migAvail[i] # FALSE /\ NodeOf[Parent[i]] \in known
        BY <4>3
      <4>5. ASSUME NEW q \in Pods, NEW k, MIGEntry(q, k, i) PROVE FALSE
        <5>1. Outstanding(<<q, k>>)
          BY <2>2, Zenon
        <5>2. migAvail[i] = FALSE \/ NodeOf[Parent[i]] \notin known
          BY <4>5, <5>1, Zenon DEF NotOffered
        <5> QED  BY <4>4, <5>2
      <4> QED  BY <4>2, <4>4, <4>5
    <3> QED  BY <1>3, <3>1, <3>2
  <2> QED  BY <2>1, <2>2, <2>3, NotOfferedKept
<1>4. ASSUME NEW d \in GPUs \cup MIGs, NEW b \in BOOLEAN, mutexFree, choice # NoChoice, d \in choice.todo,
             UNCHANGED <<known, releasing>>, choice.pod \in Pods, choice.mem \in 0..MaxMem, choice.isMIG = b,
             AppendEntry(choice.pod, d, choice.mem, b), Marked(d),
             \A i \in MIGs : migAvail'[i] = (migAvail[i] /\ ~(d = i /\ b /\ NodeOf[Parent[i]] \in known))
      PROVE  NotOffered'
  <2>1. PICK c \in Pods : c = choice.pod
    BY <1>4
  <2> DEFINE new == Len(podAllocations[c]) + 1
  <2>2. /\ podAllocations' \in [Pods -> Seq(Entry)] /\ Len(podAllocations'[c]) = new
        /\ podAllocations'[c][new] = [dev |-> d, mem |-> choice.mem, isMIG |-> b]
        /\ \A k \in 1..Len(podAllocations[c]) : podAllocations'[c][k] = podAllocations[c][k]
        /\ \A q \in Pods \ {c} : podAllocations'[q] = podAllocations[q]
    BY <1>4, <2>1, AppendTyped DEF Inv
  <2>3. DOMAIN podAllocations'[c] = 1..new
    BY <2>2
  <2>4. ASSUME NEW p \in Pods, NEW k, NEW i \in MIGs, MIGEntry(p, k, i)'
        PROVE  MIGEntry(p, k, i) \/ (p = c /\ k = new /\ i = d /\ b)
    <3>1. CASE p = c /\ k = new
      BY <2>2, <2>4, <3>1 DEF MIGEntry
    <3>2. CASE p = c /\ k # new
      <4>1. k \in 1..Len(podAllocations[c])
        BY <1>0, <2>3, <2>4, <3>2 DEF MIGEntry
      <4> QED  BY <1>0, <2>2, <2>4, <3>2, <4>1 DEF MIGEntry
    <3>3. CASE p # c
      BY <2>2, <2>4, <3>3 DEF MIGEntry
    <3> QED  BY <3>1, <3>2, <3>3
  <2>5. b => \A p \in Pods : \A k : ~MIGEntry(p, k, d)
    BY <1>4 DEF NotOffered
  <2>6. \A s : Outstanding(s)
    BY <1>4 DEF Outstanding
  <2>7. \A p, q \in Pods : \A j, k : \A i \in MIGs : MIGEntry(p, j, i)' /\ MIGEntry(q, k, i)' => p = q /\ j = k
    BY <2>4, <2>5 DEF NotOffered
  <2>8. ASSUME NEW p \in Pods, NEW k, NEW i \in MIGs, MIGEntry(p, k, i)'
        PROVE  migAvail'[i] = FALSE \/ NodeOf[Parent[i]] \notin known'
    <3>1. CASE MIGEntry(p, k, i)
      BY <1>0, <1>4, <2>6, <3>1 DEF NotOffered
    <3>2. CASE i = d /\ b
      BY <1>0, <1>4, <3>2
    <3> QED  BY <2>4, <2>8, <3>1, <3>2
  <2>9. ASSUME choice' # NoChoice, choice'.isMIG, NEW p \in Pods, NEW k, NEW i \in choice'.todo, MIGEntry(p, k, i)'
        PROVE  FALSE
    <3>1. choice \in Choice /\ choice' = [choice EXCEPT !.todo = choice.todo \ {d}]
      BY <1>4, <2>9 DEF Marked, Inv, TypeOK
    <3>2. choice.isMIG /\ i \in choice.todo /\ i # d
      BY <2>9, <3>1 DEF Choice
    <3>3. i \in MIGs
      BY <1>4, <3>2 DEF Inv, ChoiceFits
    <3>4. MIGEntry(p, k, i)
      BY <2>4, <2>9, <3>2, <3>3
    <3> QED  BY <1>4, <3>2, <3>4 DEF NotOffered
  <2> QED  BY <2>7, <2>8, <2>9 DEF NotOffered
<1>5. ASSUME NEW d \in GPUs, MarkGPUAllocatedForPod(d) PROVE NotOffered'
  <2>1. choice.pod \in Pods /\ choice.mem \in 0..MaxMem /\ choice.isMIG = FALSE
    BY <1>5 DEF MarkGPUAllocatedForPod, Inv, TypeOK, Choice
  <2>2. \A i \in MIGs : migAvail'[i] = (migAvail[i] /\ ~(d = i /\ FALSE /\ NodeOf[Parent[i]] \in known))
    BY <1>0, <1>5 DEF MarkGPUAllocatedForPod
  <2> QED  BY <1>4, <1>5, <2>1, <2>2 DEF MarkGPUAllocatedForPod
<1>6. ASSUME NEW d \in MIGs, MarkMIGAllocatedForPod(d) PROVE NotOffered'
  <2>1. choice.pod \in Pods /\ choice.mem \in 0..MaxMem /\ choice.isMIG = TRUE
    BY <1>6 DEF MarkMIGAllocatedForPod, Inv, TypeOK, Choice
  <2>2. \A i \in MIGs : migAvail'[i] = (migAvail[i] /\ ~(d = i /\ TRUE /\ NodeOf[Parent[i]] \in known))
    BY <1>0, <1>6 DEF MarkMIGAllocatedForPod
  <2> QED  BY <1>4, <1>6, <2>1, <2>2 DEF MarkMIGAllocatedForPod
<1>7. ASSUME NEW q \in Pods, ReleasePod(q) PROVE NotOffered'
  <2>1. UNCHANGED <<podAllocations, migAvail, known, choice>> /\ mutexFree
    BY <1>7 DEF ReleasePod
  <2>2. \A s : Outstanding(s)
    BY <2>1 DEF Outstanding
  <2>3. choice' # NoChoice /\ choice'.isMIG => \A p \in Pods : \A k : \A i \in choice'.todo : ~MIGEntry(p, k, i)
    BY <2>1 DEF NotOffered
  <2> QED  BY <2>1, <2>2, <2>3, NotOfferedKept
<1>8. CASE ReleaseGPUEntry \/ ReleaseMIGEntry
  <2>1. PICK q, j : q = releasing[1] /\ j = releasing[2]
    OBVIOUS
  <2>2. /\ ~mutexFree /\ releasing' = <<q, j + 1>> /\ UNCHANGED <<podAllocations, known, choice>>
        /\ j <= Len(podAllocations[q])
    BY <1>8, <2>1 DEF ReleaseGPUEntry, ReleaseMIGEntry
  <2>3. q \in Pods /\ j \in Nat /\ j >= 1
    BY <2>1, <2>2 DEF Inv, TypeOK, ReleaseBounds, mutexFree
  <2>4. ASSUME NEW p \in Pods, NEW k, NEW i \in MIGs, MIGEntry(p, k, i), Outstanding(<<p, k>>)'
        PROVE  Outstanding(<<p, k>>) /\ migAvail'[i] = migAvail[i]
    <3>1. k \in Nat
      BY <1>0, <2>4 DEF MIGEntry
    <3>2. NoRelease # <<q, j + 1>> => p # q \/ k >= j + 1
      BY <2>2, <2>4 DEF Outstanding, mutexFree
    <3>3. NoRelease # <<q, j + 1>>
      <4>1. <<q, j + 1>> \in Pods \X Nat
        BY <2>3
      <4> QED  BY <4>1, RegistryAssumption
    <3>4. p # q \/ k > j
      BY <2>3, <3>1, <3>2, <3>3
    <3>5. Outstanding(<<p, k>>)
      BY <2>1, <2>3, <3>1, <3>4 DEF Outstanding
    <3>6. CASE ReleaseGPUEntry
      BY <3>5, <3>6 DEF ReleaseGPUEntry
    <3>7. CASE ReleaseMIGEntry
      <4>1. PICK e : e = podAllocations[q][j]
        OBVIOUS
      <4>2. e.isMIG /\ migAvail' = [migAvail EXCEPT ![e.dev] = @ \/ NodeOf[Parent[e.dev]] \in known]
        BY <2>1, <3>7, <4>1 DEF ReleaseMIGEntry
      <4>3. e.dev # i
        <5>1. MIGEntry(q, j, e.dev)
          BY <1>0, <2>2, <2>3, <4>1, <4>2 DEF MIGEntry
        <5> QED  BY <2>3, <2>4, <3>1, <3>4, <5>1 DEF NotOffered
      <4> QED  BY <1>0, <3>5, <4>2, <4>3
    <3> QED  BY <1>8, <3>6, <3>7
  <2>5. choice' # NoChoice /\ choice'.isMIG => \A p \in Pods : \A k : \A i \in choice'.todo : ~MIGEntry(p, k, i)
    BY <2>2 DEF NotOffered
  <2> QED  BY <2>2, <2>4, <2>5, NotOfferedKept
<1>9. CASE ReleaseDone
  <2>1. /\ ~mutexFree /\ releasing' = NoRelease /\ UNCHANGED <<known, migAvail, choice>>
        /\ podAllocations' = [podAllocations EXCEPT ![releasing[1]] = <<>>]
    BY <1>9 DEF ReleaseDone
  <2>2. releasing[1] \in Pods
    BY <2>1 DEF Inv, TypeOK, mutexFree
  <2>3. \A p \in Pods : \A k, i : MIGEntry(p, k, i)' => MIGEntry(p, k, i) /\ p # releasing[1]
    BY <1>0, <2>1, <2>2 DEF MIGEntry
  <2>4. \A p \in Pods : \A k : p # releasing[1] => Outstanding(<<p, k>>)
    BY DEF Outstanding
  <2> QED  BY <2>1, <2>3, <2>4 DEF NotOffered
<1> QED  BY <1>1, <1>2, <1>3, <1>5, <1>6, <1>7, <1>8, <1>9 DEF Next

\* The report is the whole of it: a MIG instance is held by at most one pod in every run in
\* which no report comes for a node while an instance of it is held, whatever is marked and
\* released, and although nodes expire between a choice and its mark (FindAvailableMIG,
\* MarkMIGAllocatedForPod, ReleasePod; UpdateFromReport replaces the flags they set).
THEOREM ExclusiveMIGUnlessReported == Spec /\ [][ReportsSpareHeld]_vars => []ExclusiveMIG
<1>1. Init => NotOffered
  BY DEF Init, NotOffered, MIGEntry
<1>2. Inv /\ NotOffered /\ [Next]_vars /\ [ReportsSpareHeld]_vars => NotOffered'
  BY NotOfferedStep
<1>3. Inv /\ NotOffered => ExclusiveMIG
  BY DEF Inv, EntryKinds, NotOffered, ExclusiveMIG, MIGEntry
<1> QED  BY <1>1, <1>2, <1>3, Invariance, PTL DEF Spec

=============================================================================
