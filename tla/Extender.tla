------------------------------ MODULE Extender ------------------------------
(***************************************************************************)
(* The extender mode of the scheduler: kube-scheduler asks /filter and     *)
(* /prioritize about the one node of internal/gpu/manager.go and then has  *)
(* /bind choose a GPU, book it with the manager and bind the pod.          *)
(*                                                                         *)
(* Handlers run concurrently.  Manager.GetNodes copies the node but not    *)
(* its GPU slice, so the filter and the bin packer read the live records   *)
(* without the lock, one GPU after the other, while Allocate, Release and  *)
(* RefreshAll hold it.  A refresh asks the discoverer about one GPU at a   *)
(* time: the mock discoverer has no memory to report, the NVML one stores  *)
(* what nvidia-smi measured.  Utilisation is left out: where it breaks a   *)
(* tie either GPU may be chosen.                                           *)
(***************************************************************************)
EXTENDS Placement, Functions

CONSTANTS
  Total,     \* the memory of each GPU, in the order of the node's list
  Pods,
  Memory,    \* pod -> memory asked for, 0 when it asks for a GPU and no memory
  Calls      \* <<pod, n>>: the n-th time kube-scheduler tries to place the pod

ASSUME ExtenderAssumption ==
  /\ Total \in Seq(Nat) /\ Total # <<>>
  /\ Memory \in [Pods -> Nat]
  /\ Calls \subseteq Pods \X (Nat \ {0})

VARIABLES
  discoverer,   \* "mock" or "nvml", fixed by the configuration
  used,         \* node.GPUs[i].UsedMemoryMB
  refreshing,   \* the GPU RefreshAll has come to, holding the lock; 0 when there is none
  allocations,  \* m.allocations: job -> GPU.  Each bind makes a job of its own
  bind,         \* call -> [phase, seen, gpu]: where its handler is, what it read and chose
  pod           \* the API server: pod -> "pending", "bound" or "gone"

vars == <<discoverer, used, refreshing, allocations, bind, pod>>

GPUs == DOMAIN Total
Mem(j) == Memory[j[1]]
NoCall == [phase |-> "idle", seen |-> <<>>, gpu |-> 0]

Init ==
  /\ discoverer \in {"mock", "nvml"}
  /\ used \in [GPUs -> 0..Max(Range(Total))]
  /\ \A g \in GPUs : used[g] <= IF discoverer = "mock" THEN 0 ELSE Total[g]
  /\ refreshing = 0
  /\ allocations = <<>>
  /\ bind = [j \in Calls |-> NoCall]
  /\ pod = [p \in Pods |-> "pending"]

AvailableMB(g) == Total[g] - used[g]

-----------------------------------------------------------------------------
(* FilterHandler and PrioritizeHandler.                                     *)

HasCapacity(mem) == \E g \in GPUs : AvailableMB(g) >= mem

\* Mutant: the first GPU that has room, not the one with the least waste.
ScoreFirstFit(mem) ==
  LET fit == {g \in GPUs : AvailableMB(g) >= mem}
  IN  IF fit = {} THEN 0 ELSE 100 - ((AvailableMB(Min(fit)) - mem) * 100) \div Total[Min(fit)]

\* The first GPU of least waste decides.
Score(mem) ==
  LET fit  == {g \in GPUs : AvailableMB(g) >= mem}
      best == Min({g \in fit : \A h \in fit : AvailableMB(g) <= AvailableMB(h)})
  IN  IF fit = {} THEN 0 ELSE 100 - ((AvailableMB(best) - mem) * 100) \div Total[best]

\* kube-scheduler comes back when an earlier call failed or timed out, which need
\* not mean that its handler has returned.
Filter(j) ==
  /\ bind[j].phase = "idle"
  /\ pod[j[1]] # "gone"
  /\ \A i \in Calls : i[1] = j[1] /\ i[2] < j[2] => bind[i].phase # "idle"
  /\ HasCapacity(Mem(j))
  /\ bind' = [bind EXCEPT ![j].phase = "filtered"]
  /\ UNCHANGED <<discoverer, used, refreshing, allocations, pod>>

-----------------------------------------------------------------------------
(* BindHandler.                                                             *)

\* The pod is read; when it is not there the handler answers with an error.
GetPod(j) ==
  /\ bind[j].phase = "filtered"
  /\ bind' = [bind EXCEPT ![j].phase = IF pod[j[1]] = "gone" THEN "failed" ELSE "scan"]
  /\ UNCHANGED <<discoverer, used, refreshing, allocations, pod>>

\* What the bin packer sees: no pod counts are kept here and every GPU is healthy.
View(seen) ==
  [g \in DOMAIN seen |-> [node |-> "node", total |-> Total[g], reserved |-> seen[g],
                          pods |-> 0, util |-> 0, healthy |-> TRUE]]

\* findCandidates copies the next GPU's record; after the last one selectBestFit chooses.
ScanGPU(j) ==
  LET seen   == Append(bind[j].seen, used[Len(bind[j].seen) + 1])
      choice == BinPackSchedule(View(seen), Mem(j), FALSE)
  IN  /\ bind[j].phase = "scan"
      /\ IF Len(seen) < Len(Total)
         THEN bind' = [bind EXCEPT ![j].seen = seen]
         ELSE IF choice = {}
         THEN bind' = [bind EXCEPT ![j] = [phase |-> "failed", seen |-> <<>>, gpu |-> 0]]
         ELSE \E g \in choice : bind' = [bind EXCEPT ![j] = [phase |-> "allocate", seen |-> <<>>, gpu |-> g]]
      /\ UNCHANGED <<discoverer, used, refreshing, allocations, pod>>

\* Mutant: the memory is not looked at again under the lock.
AllocateUnchecked(j) ==
  LET g == bind[j].gpu
  IN  /\ bind[j].phase = "allocate" /\ refreshing = 0
      /\ used' = [used EXCEPT ![g] = IF Mem(j) = 0 THEN Total[g] ELSE @ + Mem(j)]
      /\ allocations' = [i \in DOMAIN allocations \cup {j} |-> IF i = j THEN g ELSE allocations[i]]
      /\ bind' = [bind EXCEPT ![j].phase = "bind"]
      /\ UNCHANGED <<discoverer, refreshing, pod>>

\* Manager.Allocate, with the lock: a job without memory takes what is left of the GPU.
Allocate(j) ==
  LET g == bind[j].gpu
  IN  /\ bind[j].phase = "allocate" /\ refreshing = 0
      /\ IF AvailableMB(g) < Mem(j)
         THEN /\ bind' = [bind EXCEPT ![j].phase = "failed"]
              /\ UNCHANGED <<used, allocations>>
         ELSE /\ used' = [used EXCEPT ![g] = IF Mem(j) = 0 THEN Total[g] ELSE @ + Mem(j)]
              /\ allocations' = [i \in DOMAIN allocations \cup {j} |-> IF i = j THEN g ELSE allocations[i]]
              /\ bind' = [bind EXCEPT ![j].phase = "bind"]
      /\ UNCHANGED <<discoverer, refreshing, pod>>

\* The API server takes a pending pod, and the answer may be lost; it refuses one that
\* is bound or gone, and the call may fail.  An error of any kind leads to Release.
BindPod(j) ==
  /\ bind[j].phase = "bind"
  /\ \/ /\ pod[j[1]] = "pending"
        /\ pod' = [pod EXCEPT ![j[1]] = "bound"]
        /\ \E phase \in {"answered", "release"} : bind' = [bind EXCEPT ![j].phase = phase]
     \/ /\ bind' = [bind EXCEPT ![j].phase = "release"]
        /\ UNCHANGED pod
  /\ UNCHANGED <<discoverer, used, refreshing, allocations>>

\* Mutant: jobs are named after their pod, so a retry that fails gives back both bookings.
ReleaseByPod(j) ==
  /\ bind[j].phase = "release" /\ refreshing = 0
  /\ LET mine == {i \in DOMAIN allocations : i[1] = j[1]}
     IN  /\ used' = [g \in GPUs |-> used[g] - Mem(j) * Cardinality({i \in mine : allocations[i] = g})]
         /\ allocations' = Restrict(allocations, DOMAIN allocations \ mine)
  /\ bind' = [bind EXCEPT ![j].phase = "failed"]
  /\ UNCHANGED <<discoverer, refreshing, pod>>

\* Manager.Release after a failed bind, the only place that calls it.
Release(j) ==
  /\ bind[j].phase = "release" /\ refreshing = 0
  /\ used' = [used EXCEPT ![allocations[j]] = @ - Mem(j)]
  /\ allocations' = Restrict(allocations, DOMAIN allocations \ {j})
  /\ bind' = [bind EXCEPT ![j].phase = "failed"]
  /\ UNCHANGED <<discoverer, refreshing, pod>>

-----------------------------------------------------------------------------
(* refreshLoop and the rest of the cluster.                                 *)

RefreshAll ==
  /\ refreshing = 0
  /\ refreshing' = 1
  /\ UNCHANGED <<discoverer, used, allocations, bind, pod>>

\* discoverer.Refresh of the next GPU.  nvidia-smi may fail, which ends the refresh.
RefreshGPU ==
  /\ refreshing # 0
  /\ \/ /\ discoverer = "mock" /\ UNCHANGED used
        /\ refreshing' = (refreshing + 1) % (Len(Total) + 1)
     \/ /\ discoverer = "nvml"
        /\ \E measured \in 0..Total[refreshing] : used' = [used EXCEPT ![refreshing] = measured]
        /\ refreshing' = (refreshing + 1) % (Len(Total) + 1)
     \/ discoverer = "nvml" /\ refreshing' = 0 /\ UNCHANGED used
  /\ UNCHANGED <<discoverer, allocations, bind, pod>>

\* A pod ends or is deleted.  Nothing in this mode watches for it.
PodGone(p) ==
  /\ pod[p] # "gone"
  /\ pod' = [pod EXCEPT ![p] = "gone"]
  /\ UNCHANGED <<discoverer, used, refreshing, allocations, bind>>

Next ==
  \/ \E j \in Calls : \/ Filter(j) \/ GetPod(j) \/ ScanGPU(j)
                      \/ Allocate(j) \/ BindPod(j) \/ Release(j)
  \/ RefreshAll \/ RefreshGPU
  \/ \E p \in Pods : PodGone(p)

Spec == Init /\ [][Next]_vars

-----------------------------------------------------------------------------
(* Properties.                                                              *)

\* The values the handlers, the manager and the API server can hold.
TypeOK ==
  /\ discoverer \in {"mock", "nvml"}
  /\ used \in [GPUs -> Int]
  /\ refreshing \in {0} \cup GPUs
  /\ DOMAIN allocations \subseteq Calls /\ \A j \in DOMAIN allocations : allocations[j] \in GPUs
  /\ bind \in [Calls -> [phase : {"idle", "filtered", "scan", "allocate", "bind", "answered", "release", "failed"},
                         seen : Seq(Int), gpu : {0} \cup GPUs]]
  /\ \A j \in Calls : bind[j].phase = "scan" => Len(bind[j].seen) < Len(Total)
  /\ pod \in [Pods -> {"pending", "bound", "gone"}]

\* The memory the jobs on a GPU were given, counted unit by unit.
BookedUnits(g) == Units(Mem, {j \in DOMAIN allocations : allocations[j] = g})
Booked(g) == Cardinality(BookedUnits(g))

\* However the handlers, the unlocked reads and the refreshes interleave, a GPU's used
\* memory never passes its size, and with the mock discoverer it covers what the jobs on
\* the GPU were given.  More than that is used only where a job without a memory request
\* was put: every other failed bind returns exactly what it took (Manager.Allocate,
\* Release, RefreshAll).
LedgerCovers ==
  \A g \in GPUs : /\ used[g] <= Total[g]
                  /\ discoverer = "mock" =>
                       /\ Booked(g) <= used[g]
                       /\ used[g] > Booked(g) => \E j \in Calls : Mem(j) = 0 /\ bind[j].gpu = g

\* A job is booked from Allocate until its bind fails: a retry that is refused gives
\* back its own booking and never the one its pod runs on, and no pod has two bookings
\* that were both answered (BindHandler, a fresh job for every call).
BookedWhileBound ==
  /\ DOMAIN allocations = {j \in Calls : bind[j].phase \in {"bind", "answered", "release"}}
  /\ \A p \in Pods : Cardinality({j \in Calls : j[1] = p /\ bind[j].phase = "answered"}) <= 1

\* What the manager's book says to one who knows the ledger of the registry: a job has one
\* entry, and every GPU may be shared.
Book ==
  [j \in Calls |-> IF j \in DOMAIN allocations
                  THEN <<[dev |-> allocations[j], mem |-> Mem(j), isMIG |-> FALSE]>> ELSE <<>>]

L == INSTANCE Ledger WITH Pods <- Calls, MIGs <- {}, MPSGPUs <- GPUs, Joining <- {}, MaxMem <- Max(Range(Total)),
                          MaxEntries <- 1, alloc <- Book

\* Chosen from unlocked reads and booked later, with refreshes between, the GPUs are still
\* given and taken back as by the ledger: each step of the manager is one grant that fits
\* into what the jobs have left of the GPU, or the return of one job's memory.  This is the
\* promise of the mock discoverer; the NVML one may forget what the manager booked
\* (Manager.Allocate, Release, RefreshAll).
ImplementsLedger == (discoverer = "mock" => L!Init) /\ [][discoverer = "mock" => L!Next]_Book

\* A pod with a memory request passes the filter exactly when the bin packer would find
\* it a GPU at that moment, and the node's score is that of a GPU the bin packer may take
\* (FilterHandler and PrioritizeHandler against BinPacker.Schedule).
AdviceMatchesBind ==
  \A mem \in 1..Max(Range(Total)) :
    LET choice == BinPackSchedule(View(used), mem, FALSE)
    IN  /\ HasCapacity(mem) <=> choice # {}
        /\ Score(mem) \in IF choice = {} THEN {0}
                          ELSE {100 - ((AvailableMB(g) - mem) * 100) \div Total[g] : g \in choice}
=============================================================================
