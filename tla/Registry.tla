------------------------------ MODULE Registry ------------------------------
(***************************************************************************)
(* internal/gpu/registry.go: the in-memory GPU registry, and the one       *)
(* scheduling thread that reads candidates from it and marks what it       *)
(* chose.  Callers: the watcher loop (choose, mark), informer callbacks    *)
(* and the watcher (ReleasePod), the gpu-report endpoint                   *)
(* (UpdateFromReport), every reader of GetAllNodes (RemoveStaleNodes).     *)
(*                                                                         *)
(* All methods take the mutex, so each is one step; ReleasePod is a loop   *)
(* over the entries of the pod, modelled as one step per entry with the    *)
(* mutex held (releasing # NoRelease) until the pod's entries are deleted. *)
(* Choosing and marking take the mutex separately: reports and releases    *)
(* come in between, and between the marks of a multi-GPU pod.              *)
(***************************************************************************)
EXTENDS Placement

CONSTANTS
  Pods, GPUs, MIGs, Total, MPSGPUs, MaxMem, MaxEntries,   \* as in Ledger
  Nodes,
  NodeOf,      \* GPU -> node
  Parent,      \* MIG instance -> its GPU (which then has MIG enabled)
  MIGMem,      \* MIG instance -> memory of its profile
  MemIO,       \* pod -> annotation gpu-scheduler.io/memory-mb, NoAnnotation if it has no number
  MemOther,    \* pod -> what its other annotation and its resource requests say, or 0
  SharedPods,  \* pods annotated shared
  GPUCount,    \* pod -> annotation gpu-count
  NoRelease, NoChoice, NoAnnotation

ASSUME RegistryAssumption ==
  /\ IsFiniteSet(Pods) /\ IsFiniteSet(GPUs) /\ IsFiniteSet(MIGs)
  /\ MaxMem \in Nat /\ MaxEntries \in Nat
  /\ Total \in [GPUs -> Nat] /\ MPSGPUs \subseteq GPUs
  /\ NodeOf \in [GPUs -> Nodes]
  /\ Parent \in [MIGs -> GPUs] /\ MIGMem \in [MIGs -> Nat]
  /\ MemIO \in [Pods -> (0..MaxMem) \cup {NoAnnotation}] /\ NoAnnotation \notin 0..MaxMem
  /\ MemOther \in [Pods -> 0..MaxMem]
  /\ SharedPods \subseteq Pods
  /\ GPUCount \in [Pods -> Nat \ {0}]
  /\ NoRelease \notin Pods \X Nat
  /\ GPUs \cap MIGs = {}
  /\ NoChoice \notin [pod : Pods, isMIG : BOOLEAN, todo : SUBSET (GPUs \cup MIGs), mem : 0..MaxMem]

VARIABLES
  known,           \* nodes in r.nodes: reported and not removed as stale
  report,          \* GPU -> what its node last reported: [used, healthy]
  migAvail,        \* MIG instance -> IsAvailable in r.nodes
  reservations,    \* GPU -> reserved memory
  podCountPerGPU,  \* GPU -> number of entries on it
  podAllocations,  \* pod key -> sequence of entries
  releasing,       \* <<p, i>>: ReleasePod(p) holds the mutex, entry i is next
  choice           \* what the scheduling thread still has to mark

vars == <<known, report, migAvail, reservations, podCountPerGPU, podAllocations, releasing, choice>>

Entry  == [dev : GPUs \cup MIGs, mem : 0..MaxMem, isMIG : BOOLEAN]
Reading == [used : UNION {0..Total[g] : g \in GPUs}, healthy : BOOLEAN]
Choice == [pod : Pods, isMIG : BOOLEAN, todo : SUBSET (GPUs \cup MIGs), mem : 0..MaxMem]

Init ==
  /\ known = {}
  /\ report = [g \in GPUs |-> [used |-> 0, healthy |-> TRUE]]
  /\ migAvail = [i \in MIGs |-> TRUE]
  /\ reservations = [g \in GPUs |-> 0]
  /\ podCountPerGPU = [g \in GPUs |-> 0]
  /\ podAllocations = [p \in Pods |-> <<>>]
  /\ releasing = NoRelease
  /\ choice = NoChoice

mutexFree == releasing = NoRelease

-----------------------------------------------------------------------------
(* Reports from the agents.                                                 *)

\* The report replaces the node's record; the agent's NVML code reports every MIG
\* instance as available.
UpdateFromReport(n) ==
  /\ mutexFree
  /\ known' = known \cup {n}
  /\ \E r \in [{g \in GPUs : NodeOf[g] = n} -> Reading] :
       /\ \A g \in DOMAIN r : r[g].used <= Total[g]
       /\ report' = [g \in GPUs |-> IF NodeOf[g] = n THEN r[g] ELSE report[g]]
  /\ migAvail' = [i \in MIGs |-> NodeOf[Parent[i]] = n \/ migAvail[i]]
  /\ UNCHANGED <<reservations, podCountPerGPU, podAllocations, releasing, choice>>

\* GetAllNodes drops nodes not heard of for 30 seconds; reservations stay.
RemoveStaleNodes(n) ==
  /\ mutexFree
  /\ n \in known
  /\ known' = known \ {n}
  /\ UNCHANGED <<report, migAvail, reservations, podCountPerGPU, podAllocations, releasing, choice>>

-----------------------------------------------------------------------------
(* The scheduling thread.                                                   *)

\* What GetNodes and the FindAvailable methods see.
View == [g \in {h \in GPUs : NodeOf[h] \in known} |->
          [node |-> NodeOf[g], idx |-> 0, total |-> Total[g], util |-> 0,
           used |-> report[g].used, free |-> Total[g] - report[g].used,
           reserved |-> reservations[g], pods |-> podCountPerGPU[g],
           healthy |-> report[g].healthy, mps |-> g \in MPSGPUs,
           mig |-> \E i \in MIGs : Parent[i] = g]]

MIGView == [i \in MIGs |-> [gpu |-> Parent[i], mem |-> MIGMem[i], avail |-> migAvail[i]]]

\* What the watcher reserves for a pod (GetGPUMemoryFromPod), and what AllocateWithRouting
\* looks for (extractGPUMemoryRequest, and the job's memory when that finds none).
Mem(p) == IF MemIO[p] # NoAnnotation THEN MemIO[p] ELSE MemOther[p]

extractGPUMemoryRequest(p) == IF MemIO[p] # NoAnnotation THEN MemIO[p] ELSE 0

RoutedMem(p) == IF extractGPUMemoryRequest(p) = 0 THEN Mem(p) ELSE extractGPUMemoryRequest(p)

\* A single-GPU pod: AllocateWithRouting.
ChooseSingle(p) ==
  /\ mutexFree /\ choice = NoChoice
  /\ GPUCount[p] = 1
  /\ Len(podAllocations[p]) + 1 <= MaxEntries
  /\ \E r \in AllocateWithRouting(View, MIGView, RoutedMem(p), p \in SharedPods, "auto", TRUE) :
       choice' = [pod |-> p, isMIG |-> r.isMIG, todo |-> {r.dev}, mem |-> Mem(p)]
  /\ UNCHANGED <<known, report, migAvail, reservations, podCountPerGPU, podAllocations, releasing>>

\* A multi-GPU pod: the strategy's ScheduleGang over GetNodes.
ChooseMulti(p) ==
  /\ mutexFree /\ choice = NoChoice
  /\ GPUCount[p] > 1
  /\ Len(podAllocations[p]) + GPUCount[p] <= MaxEntries
  /\ \E S \in BinPackScheduleGang(View, Mem(p), GPUCount[p], "per-gpu", p \in SharedPods) :
       choice' = [pod |-> p, isMIG |-> FALSE, todo |-> S, mem |-> Mem(p)]
  /\ UNCHANGED <<known, report, migAvail, reservations, podCountPerGPU, podAllocations, releasing>>

\* Mutant: a new entry replaces the pod's earlier ones.
AppendEntryReplaces(p, d, m, isMIG) ==
  podAllocations' = [podAllocations EXCEPT ![p] = <<[dev |-> d, mem |-> m, isMIG |-> isMIG]>>]

AppendEntry(p, d, m, isMIG) ==
  podAllocations' = [podAllocations EXCEPT ![p] = Append(@, [dev |-> d, mem |-> m, isMIG |-> isMIG])]

Marked(d) == choice' = IF choice.todo = {d} THEN NoChoice ELSE [choice EXCEPT !.todo = @ \ {d}]

MarkGPUAllocatedForPod(d) ==
  /\ mutexFree /\ choice # NoChoice
  /\ d \in choice.todo /\ ~choice.isMIG
  /\ reservations' = [reservations EXCEPT ![d] = @ + choice.mem]
  /\ podCountPerGPU' = [podCountPerGPU EXCEPT ![d] = @ + 1]
  /\ AppendEntry(choice.pod, d, choice.mem, FALSE)
  /\ Marked(d)
  /\ UNCHANGED <<known, report, migAvail, releasing>>

\* The flag is only cleared when the node is still known; MIG entries are not counted.
MarkMIGAllocatedForPod(d) ==
  /\ mutexFree /\ choice # NoChoice
  /\ d \in choice.todo /\ choice.isMIG
  /\ migAvail' = [migAvail EXCEPT ![d] = @ /\ NodeOf[Parent[d]] \notin known]
  /\ AppendEntry(choice.pod, d, choice.mem, TRUE)
  /\ Marked(d)
  /\ UNCHANGED <<known, report, reservations, podCountPerGPU, releasing>>

-----------------------------------------------------------------------------
(* ReleasePod: lock, one iteration per entry, delete the pod's entries.     *)

ReleasePod(p) ==
  /\ mutexFree
  /\ podAllocations[p] # <<>>
  /\ releasing' = <<p, 1>>
  /\ UNCHANGED <<known, report, migAvail, reservations, podCountPerGPU, podAllocations, choice>>

\* Mutants: the pod count is left alone, or decremented twice.
ReleaseGPUEntryKeepsCount ==
  /\ ~mutexFree
  /\ releasing[2] <= Len(podAllocations[releasing[1]])
  /\ LET e == podAllocations[releasing[1]][releasing[2]]
     IN  /\ ~e.isMIG
         /\ reservations' = [reservations EXCEPT ![e.dev] = @ - e.mem]
  /\ releasing' = <<releasing[1], releasing[2] + 1>>
  /\ UNCHANGED <<known, report, migAvail, podCountPerGPU, podAllocations, choice>>

ReleaseGPUEntryTwice ==
  /\ ~mutexFree
  /\ releasing[2] <= Len(podAllocations[releasing[1]])
  /\ LET e == podAllocations[releasing[1]][releasing[2]]
     IN  /\ ~e.isMIG
         /\ reservations' = [reservations EXCEPT ![e.dev] = @ - e.mem]
         /\ podCountPerGPU' = [podCountPerGPU EXCEPT ![e.dev] = @ - 2]
  /\ releasing' = <<releasing[1], releasing[2] + 1>>
  /\ UNCHANGED <<known, report, migAvail, podAllocations, choice>>

ReleaseGPUEntry ==
  /\ ~mutexFree
  /\ releasing[2] <= Len(podAllocations[releasing[1]])
  /\ LET e    == podAllocations[releasing[1]][releasing[2]]
         left == reservations[e.dev] - e.mem
     IN  /\ ~e.isMIG
         /\ reservations' = [reservations EXCEPT ![e.dev] = IF left < 0 THEN 0 ELSE left]
         /\ podCountPerGPU' = [podCountPerGPU EXCEPT ![e.dev] = IF left < 0 THEN 0 ELSE @ - 1]
  /\ releasing' = <<releasing[1], releasing[2] + 1>>
  /\ UNCHANGED <<known, report, migAvail, podAllocations, choice>>

\* Mutant: the instance stays unavailable.
ReleaseMIGEntryKeepsFlag ==
  /\ ~mutexFree
  /\ releasing[2] <= Len(podAllocations[releasing[1]])
  /\ podAllocations[releasing[1]][releasing[2]].isMIG
  /\ releasing' = <<releasing[1], releasing[2] + 1>>
  /\ UNCHANGED <<known, report, migAvail, reservations, podCountPerGPU, podAllocations, choice>>

ReleaseMIGEntry ==
  /\ ~mutexFree
  /\ releasing[2] <= Len(podAllocations[releasing[1]])
  /\ LET e == podAllocations[releasing[1]][releasing[2]]
     IN  /\ e.isMIG
         /\ migAvail' = [migAvail EXCEPT ![e.dev] = @ \/ NodeOf[Parent[e.dev]] \in known]
  /\ releasing' = <<releasing[1], releasing[2] + 1>>
  /\ UNCHANGED <<known, report, reservations, podCountPerGPU, podAllocations, choice>>

ReleaseDone ==
  /\ ~mutexFree
  /\ releasing[2] > Len(podAllocations[releasing[1]])
  /\ podAllocations' = [podAllocations EXCEPT ![releasing[1]] = <<>>]
  /\ releasing' = NoRelease
  /\ UNCHANGED <<known, report, migAvail, reservations, podCountPerGPU, choice>>

-----------------------------------------------------------------------------
Next ==
  \/ \E n \in Nodes : UpdateFromReport(n) \/ RemoveStaleNodes(n)
  \/ \E p \in Pods : ChooseSingle(p) \/ ChooseMulti(p) \/ ReleasePod(p)
  \/ \E d \in GPUs : MarkGPUAllocatedForPod(d)
  \/ \E d \in MIGs : MarkMIGAllocatedForPod(d)
  \/ ReleaseGPUEntry \/ ReleaseMIGEntry \/ ReleaseDone

Spec == Init /\ [][Next]_vars

-----------------------------------------------------------------------------
(* Properties.                                                              *)

\* Every variable has its type, counters of reserved memory are never negative and
\* a pod key never has more entries than the bound.
TypeOK ==
  /\ known \subseteq Nodes
  /\ report \in [GPUs -> Reading]
  /\ \A g \in GPUs : report[g].used <= Total[g]
  /\ migAvail \in [MIGs -> BOOLEAN]
  /\ reservations \in [GPUs -> Nat]
  /\ podCountPerGPU \in [GPUs -> Nat]
  /\ podAllocations \in [Pods -> Seq(Entry)]
  /\ \A p \in Pods : Len(podAllocations[p]) <= MaxEntries
  /\ releasing \in {NoRelease} \cup (Pods \X Nat)
  /\ choice \in {NoChoice} \cup Choice

\* Shared pods that ask for several GPUs: ScheduleGang is told that they share and asks
\* neither whether a GPU is empty nor whether it has MPS.
SharedMulti == {p \in SharedPods : GPUCount[p] > 1}

L == INSTANCE Ledger WITH alloc <- podAllocations, Joining <- SharedMulti

\* The entries that ReleasePod has not given back yet.
Outstanding(s) == mutexFree \/ releasing[1] # s[1] \/ s[2] >= releasing[2]
LiveSlots(g) == {s \in L!BookedSlots(g) : Outstanding(s)}
LiveUnits(g) == {u \in L!BookedUnits(g) : Outstanding(u[1])}

\* The incremental counters agree with the entries they were built from, in every
\* interleaving of marks, releases and reports: registry.go adds on mark, subtracts
\* entry by entry on release and clamps at zero, and none of it loses or invents
\* memory (in particular the clamp, which would also reset the pod count, never fires).
Accounting ==
  \A g \in GPUs : /\ reservations[g] = Cardinality(LiveUnits(g))
                  /\ podCountPerGPU[g] = Cardinality(LiveSlots(g))

\* No GPU is ever reserved beyond its memory, although candidates are read under one
\* lock acquisition and marked under another with releases and reports in between.
WithinTotal == \A g \in GPUs : reservations[g] <= Total[g]

\* The entries on a GPU that are not of shared pods with several GPUs.
SoleSlots(g) == {s \in L!BookedSlots(g) : s[1] \notin SharedMulti}

\* A GPU without MPS is never given to two pods at once (FindAvailableNonMPSGPU's
\* PodCount check and the strategies' AllocatedPods check, read before the mark), but for
\* the shared pods with several GPUs: of all others it holds one at most.
ExclusiveGPU == \A g \in GPUs \ MPSGPUs : Cardinality(SoleSlots(g)) <= 1

\* What the scheduling thread has chosen still fits when it comes to mark it: releases
\* and reports between FindAvailable and Mark, and its own earlier marks for the same
\* pod, leave room on every GPU that is still to be marked, and leave it empty unless it
\* is an MPS GPU or the pod is a shared one with several GPUs.
ChoiceFits ==
  choice # NoChoice =>
    /\ IsFiniteSet(choice.todo)
    /\ Len(podAllocations[choice.pod]) + Cardinality(choice.todo) <= MaxEntries
    /\ choice.isMIG => choice.todo \subseteq MIGs
    /\ ~choice.isMIG => /\ choice.todo \subseteq GPUs
                        /\ \A g \in choice.todo : /\ reservations[g] + choice.mem <= Total[g]
                                                  /\ \/ g \in MPSGPUs \/ podCountPerGPU[g] = 0
                                                     \/ choice.pod \in SharedMulti

\* A MIG instance is held by at most one pod ("marks a MIG instance unavailable").
ExclusiveMIG ==
  \A p, q \in Pods : \A i \in DOMAIN podAllocations[p], j \in DOMAIN podAllocations[q] :
     /\ podAllocations[p][i].isMIG /\ podAllocations[q][j].isMIG
     /\ podAllocations[p][i].dev = podAllocations[q][j].dev
     => p = q /\ i = j

\* A MIG instance that the registry of a known node calls unavailable is held by a
\* pod: no interleaving of marks, releases, reports and node expiry loses one.
MIGNotLeaked ==
  \A i \in MIGs :
    ~migAvail[i] /\ NodeOf[Parent[i]] \in known =>
      \E p \in Pods : \E k \in DOMAIN podAllocations[p] :
         /\ Outstanding(<<p, k>>)
         /\ podAllocations[p][k].isMIG /\ podAllocations[p][k].dev = i

\* The registry with its counters, clamp and MIG flags implements the ledger, in which the
\* shared pods with several GPUs may join others: every mark is a grant the ledger allows,
\* every release one atomic return.
ImplementsLedger == L!Spec
=============================================================================
