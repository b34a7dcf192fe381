----------------------------- MODULE Placement -----------------------------
(***************************************************************************)
(* The pure placement decisions of internal/allocator and of               *)
(* internal/scheduler: which GPU, MIG instance or set of GPUs a job is put *)
(* on, given what the registry shows.                                      *)
(*                                                                         *)
(* A view V is a function from GPUs to records                             *)
(*   [node, idx, total, free, used, reserved, pods, util,                  *)
(*    healthy, mps, mig]                                                   *)
(* total/free/used/util/healthy/mps/mig are what the node's agent reported,*)
(* reserved and pods are the registry's own counters, idx is the position  *)
(* of the GPU in its node's report.  M is a function from MIG instances to *)
(* [gpu, mem, avail].                                                      *)
(*                                                                         *)
(* The code iterates over Go maps of nodes and sorts with sort.Slice, so   *)
(* which of several equally good candidates it returns is not determined.  *)
(* Every decision is therefore the SET of the results the code may return; *)
(* the empty set is the error return.                                      *)
(***************************************************************************)
EXTENDS Integers, Sequences, FiniteSets, FiniteSetsExt, SequencesExt

\* The elements of S on which f is smallest.
LeastBy(f(_), S) == {x \in S : \A y \in S : f(x) <= f(y)}

\* A set of as many elements as f adds up to over S: f(x) units for each x.
Units(f(_), S) == UNION {{x} \X (1..f(x)) : x \in S}

-----------------------------------------------------------------------------
(* Strategies over Registry.GetNodes(): used memory is the RESERVED memory. *)

AvailableMemoryMB(V, g) == V[g].total - V[g].reserved

\* The filter shared by BinPacker and FIFOScheduler.
Eligible(V, mem, shared) ==
  {g \in DOMAIN V :
     /\ V[g].healthy
     /\ shared \/ V[g].pods <= 0
     /\ ~(V[g].total > 0 /\ AvailableMemoryMB(V, g) = 0)
     /\ AvailableMemoryMB(V, g) >= mem}

NodeGPUs(V, n) == {g \in DOMAIN V : V[g].node = n}
NodesOf(V) == {V[g].node : g \in DOMAIN V}

\* BinPacker.Schedule: least waste, then highest utilisation.
BinPackSchedule(V, mem, shared) ==
  LET tight == LeastBy(LAMBDA g : AvailableMemoryMB(V, g) - mem, Eligible(V, mem, shared))
  IN  LeastBy(LAMBDA g : 0 - V[g].util, tight)

\* FIFOScheduler.Schedule: the first eligible GPU of whichever node comes first.
FIFOSchedule(V, mem, shared) ==
  LET ok == Eligible(V, mem, shared)
  IN  UNION {LeastBy(LAMBDA g : V[g].idx, ok \cap NodeGPUs(V, n)) : n \in NodesOf(V)}

\* The memory each GPU of a multi-GPU job must have.
RequiredMemory(mem, gpuCount, mode) ==
  CASE mode = "total"   -> (mem + gpuCount - 1) \div gpuCount
    [] mode = "per-gpu" -> mem
    [] mode = "none"    -> 0

TotalWaste(V, S, req) == MapThenSumSet(LAMBDA g : AvailableMemoryMB(V, g) - req, S)

\* findGangCandidates: on one node, the gpuCount eligible GPUs of least waste.
NodeBest(V, ok, n, gpuCount) ==
  {S \in kSubset(gpuCount, ok \cap NodeGPUs(V, n)) :
     \A g \in S, h \in (ok \cap NodeGPUs(V, n)) \ S :
        AvailableMemoryMB(V, g) <= AvailableMemoryMB(V, h)}

\* BinPacker.ScheduleGang: the sets of GPUs, all on one node, it may return.
BinPackScheduleGang(V, mem, gpuCount, mode, shared) ==
  LET req == RequiredMemory(mem, gpuCount, mode)
      ok  == Eligible(V, req, shared)
  IN  LeastBy(LAMBDA S : TotalWaste(V, S, req),
              UNION {NodeBest(V, ok, n, gpuCount) : n \in NodesOf(V)})

\* FIFOScheduler.ScheduleGang: the first gpuCount eligible GPUs of a node.
FIFOScheduleGang(V, mem, gpuCount, mode, shared) ==
  LET ok == Eligible(V, RequiredMemory(mem, gpuCount, mode), shared)
  IN  UNION {{S \in kSubset(gpuCount, ok \cap NodeGPUs(V, n)) :
                \A g \in S, h \in (ok \cap NodeGPUs(V, n)) \ S : V[g].idx < V[h].idx}
             : n \in NodesOf(V)}

-----------------------------------------------------------------------------
(* Routing of a single-GPU job between the MIG pool and the full-GPU pool.  *)

\* Mutant: forgets what the scheduler has reserved.
FreeMBReportedOnly(V, g) == V[g].free

FreeMB(V, g) ==
  (IF V[g].free = 0 /\ V[g].total > V[g].used THEN V[g].total - V[g].used ELSE V[g].free)
    - V[g].reserved

FindAvailableFullGPU(V, mem) ==
  {g \in DOMAIN V : ~V[g].mig /\ V[g].healthy /\ FreeMB(V, g) >= mem}

FindAvailableMPSGPU(V, mem) == {g \in FindAvailableFullGPU(V, mem) : V[g].mps}

\* Mutant: does not ask for an empty GPU.
FindAvailableNonMPSGPUBusy(V, mem) == {g \in FindAvailableFullGPU(V, mem) : ~V[g].mps}

FindAvailableNonMPSGPU(V, mem) ==
  {g \in FindAvailableFullGPU(V, mem) : ~V[g].mps /\ V[g].pods = 0}

FindAvailableMIG(V, M, mem) ==
  {i \in DOMAIN M : /\ M[i].gpu \in DOMAIN V
                    /\ V[M[i].gpu].mig /\ V[M[i].gpu].healthy
                    /\ M[i].avail /\ M[i].mem >= mem}

\* Ties on memory go to the busiest GPU for a shared pod, to the least busy otherwise.
ByPodCount(V, shared, g) == IF shared THEN 0 - V[g].pods ELSE V[g].pods

SelectBestFullGPU(V, C, shared) ==
  LeastBy(LAMBDA g : ByPodCount(V, shared, g), LeastBy(LAMBDA g : FreeMB(V, g), C))

SelectBestMIG(V, M, C, shared) ==
  LeastBy(LAMBDA i : ByPodCount(V, shared, M[i].gpu), LeastBy(LAMBDA i : M[i].mem, C))

allocateFromMIG(V, M, mem, shared) ==
  {[isMIG |-> TRUE, dev |-> i] : i \in SelectBestMIG(V, M, FindAvailableMIG(V, M, mem), shared)}

allocateFromFullGPU(V, mem, shared) ==
  LET C == IF shared THEN FindAvailableMPSGPU(V, mem) ELSE FindAvailableNonMPSGPU(V, mem)
  IN  {[isMIG |-> FALSE, dev |-> g] : g \in SelectBestFullGPU(V, C, shared)}

tryPool(V, M, pool, mem, shared) ==
  IF pool = "mig" THEN allocateFromMIG(V, M, mem, shared)
                  ELSE allocateFromFullGPU(V, mem, shared)

autoSelectPool(V, M, mem) == IF FindAvailableMIG(V, M, mem) # {} THEN "mig" ELSE "full"

getOtherPool(pool) == IF pool = "mig" THEN "full" ELSE "mig"

\* ClassifyJob: the pool label and whether falling back is forbidden.
StrictMode(poolLabel, allowFallback) == poolLabel \in {"mig", "full"} /\ ~allowFallback

AllocateWithRouting(V, M, mem, shared, poolLabel, allowFallback) ==
  LET preferred == IF poolLabel \in {"mig", "full"} THEN poolLabel ELSE autoSelectPool(V, M, mem)
      first     == tryPool(V, M, preferred, mem, shared)
  IN  IF first # {} \/ StrictMode(poolLabel, allowFallback) THEN first
      ELSE tryPool(V, M, getOtherPool(preferred), mem, shared)

\* collectDisaggFullGPUCandidates: the empty non-MPS GPUs with enough room.
DisaggCandidates(V, mem) ==
  {g \in DOMAIN V : V[g].healthy /\ ~V[g].mps /\ V[g].pods <= 0 /\ AvailableMemoryMB(V, g) >= mem}

\* selectDisaggFullGPUCandidate: the first preferred node (a sequence) with a
\* candidate, else any node; there, the GPU with the least memory left.
selectDisaggFullGPUCandidate(V, preferred, mem) ==
  LET all  == DisaggCandidates(V, mem)
      hits == {k \in DOMAIN preferred : all \cap NodeGPUs(V, preferred[k]) # {}}
  IN  LeastBy(LAMBDA g : AvailableMemoryMB(V, g),
              IF hits = {} THEN all ELSE all \cap NodeGPUs(V, preferred[Min(hits)]))

\* resolveDisaggPreferredNodes over the listed pods of the model group, a sequence
\* of [role, node].  A node counts for the role of the FIRST pod seen on it.
resolveDisaggPreferredNodes(role, pods) ==
  IF role \notin {"prefill", "decode"} THEN <<>>
  ELSE LET other == IF role = "prefill" THEN "decode" ELSE "prefill"
           seen(r) == SelectSeq([k \in DOMAIN pods |-> k],
                        LAMBDA k : /\ pods[k].role = r
                                   /\ \A l \in 1..(k-1) : pods[l].node = pods[k].node
                                                        => pods[l].role \notin {role, other})
           nodes(ks) == [k \in DOMAIN ks |-> pods[ks[k]].node]
       IN  nodes(seen(other)) \o nodes(seen(role))

-----------------------------------------------------------------------------
(* Several pods at once: ScheduleMultiPodGang.  A job is                     *)
(* [mem, gpuCount, shared]; a placement is the set of GPUs given to it.      *)

\* Mutant: the shadow never changes.
ShadowNot(V, jobs, placed, k) == V

\* The shadow nodes when pod k has its turn: subtractFromShadow has taken off what the
\* pods before it were given, each one's memory divided over its GPUs.
Shadow(V, jobs, placed, k) ==
  LET before(g) == {i \in 1..(k-1) : g \in placed[i]}
      perGPU(i) == IF Cardinality(placed[i]) > 1 THEN jobs[i].mem \div Cardinality(placed[i]) ELSE jobs[i].mem
  IN  [g \in DOMAIN V |-> [V[g] EXCEPT !.reserved = @ + Cardinality(Units(perGPU, before(g))),
                                      !.pods = @ + Cardinality(before(g))]]

\* One pod of the gang on the shadow nodes, by the strategy "binpack" or "fifo".
StrategyPlace(strategy, V, job) ==
  LET one == IF strategy = "fifo" THEN FIFOSchedule(V, job.mem, job.shared)
                                  ELSE BinPackSchedule(V, job.mem, job.shared)
  IN  IF job.gpuCount <= 1 THEN {{g} : g \in one}
      ELSE IF strategy = "fifo"
           THEN FIFOScheduleGang(V, job.mem, job.gpuCount, "per-gpu", job.shared)
           ELSE BinPackScheduleGang(V, job.mem, job.gpuCount, "per-gpu", job.shared)

\* All pods of the gang in order, or nothing.
ScheduleMultiPodGang(strategy, V, jobs) ==
  LET sets == UNION {kSubset(n, DOMAIN V) : n \in {1} \cup {jobs[k].gpuCount : k \in DOMAIN jobs}}
  IN  {placed \in [DOMAIN jobs -> sets] :
         \A k \in DOMAIN jobs : placed[k] \in StrategyPlace(strategy, Shadow(V, jobs, placed, k), jobs[k])}

-----------------------------------------------------------------------------
(* Preemption.  C is a function from candidate pods to                       *)
(* [prio, workflow, preemptible, mem].                                       *)

workflowEvictOrder(w) == CASE w = "training" -> 0 [] w = "inference" -> 1 [] OTHER -> 2

\* The order victims are taken in.
EvictBefore(C, c, d) ==
  LET oc == workflowEvictOrder(C[c].workflow)  od == workflowEvictOrder(C[d].workflow)
  IN  oc < od \/ (oc = od /\ C[c].prio < C[d].prio)

\* Mutant: the priorities compared the wrong way round.
PreemptableHigher(C, requesterPriority) ==
  {c \in DOMAIN C : C[c].preemptible /\ C[c].prio > requesterPriority}

Preemptable(C, requesterPriority) ==
  {c \in DOMAIN C : C[c].preemptible /\ C[c].prio < requesterPriority}

FreedMB(C, S) == MapThenSumSet(LAMBDA c : C[c].mem, S)

\* The orders sort.Slice may leave the eligible candidates in.
EvictOrders(C, E) ==
  {l \in SetToSeqs(E) : \A i, k \in DOMAIN l : i < k => ~EvictBefore(C, l[k], l[i])}

\* SelectVictims: take candidates in that order until enough is freed.
SelectVictims(C, requesterPriority, requiredMemoryMB) ==
  LET first(l, k) == {l[i] : i \in 1..k}
      enough(l) == {k \in DOMAIN l : FreedMB(C, first(l, k)) >= requiredMemoryMB}
  IN  {first(l, Min(enough(l))) :
         l \in {m \in EvictOrders(C, Preemptable(C, requesterPriority)) : enough(m) # {}}}
=============================================================================
