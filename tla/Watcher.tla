------------------------------ MODULE Watcher ------------------------------
(***************************************************************************)
(* internal/scheduler/watcher.go with preemption.go and gang.go: the       *)
(* scheduling loop, its informer callbacks, preemption with auto-resume,   *)
(* gang scheduling and the restart of the scheduler, composed with the     *)
(* parts of Kubernetes they talk to (API server, watch, kubelet, users).   *)
(*                                                                         *)
(* Threads: the loop goroutine (one step per API call or lock acquisition),*)
(* the informer goroutine (HandleEvent), the cluster.  A pod is known to   *)
(* the scheduler only by its name, so a deleted and re-created pod is the  *)
(* same key.  A pod name is <<j, k>>: the k-th resume of job j             *)
(* ("<name>-resume-k"), k = 0 being the pod the user created.              *)
(*                                                                         *)
(* The registry is its ledger of allocations: reserved memory and pod      *)
(* counts are derived from it (Registry.tla shows that the counters agree).*)
(* Nodes are reported, healthy and idle in the eyes of their agents, the   *)
(* case in which the registry offers the most.                             *)
(***************************************************************************)
EXTENDS Placement

CONSTANTS
  Jobs,
  JobSpec,      \* job -> [mem, prio, workflow, preemptible, shared, gpuCount, mode,
                \*         gang, intent, autoResume, gpuPod]: what its annotations say
  GangSize,     \* gang id -> annotation gang-size
  NoGang,
  GPUs, NodeOf, Total, MPSGPUs,
  Index,        \* GPU -> its position in its node's report
  Preemption,   \* whether preemption is configured
  MaxRetries, PriorityBoost,
  Scenarios     \* what may happen, a bound for each: see Kinds

NoNode == "no node"
Pods == {p \in Jobs \X (0..MaxRetries) : p[2] = 0 \/ JobSpec[p[1]].autoResume}
JobOf(p) == JobSpec[p[1]]

\* What a scenario counts besides the submissions of each job: faults, and two settings
\* that are on or off: the FIFO strategy is configured; what runs need not end by itself.
Kinds == {"userDelete", "patchError", "bindError", "bindReplyLost",
          "evictError", "createError", "crash", "fifo", "endless"}

ASSUME WatcherAssumption ==
  /\ Scenarios \subseteq [Kinds \cup Jobs -> Nat] /\ Jobs \cap Kinds = {}
  /\ MaxRetries \in Nat
  /\ IsFiniteSet(Jobs) /\ IsFiniteSet(GPUs) /\ MPSGPUs \subseteq GPUs
  /\ Total \in [GPUs -> Nat] /\ Index \in [GPUs -> Nat]
  /\ \A g, h \in GPUs : NodeOf[g] = NodeOf[h] /\ Index[g] = Index[h] => g = h
  /\ NoNode \notin {NodeOf[g] : g \in GPUs}
  /\ NoGang \notin DOMAIN GangSize /\ \A G \in DOMAIN GangSize : GangSize[G] \in Nat
  /\ \A j \in Jobs : /\ JobSpec[j].mem \in Nat /\ JobSpec[j].gpuCount \in Nat \ {0}
                     /\ JobSpec[j].mode \in {"total", "per-gpu", "none"}
                     /\ JobSpec[j].shared \in BOOLEAN /\ JobSpec[j].gpuPod \in BOOLEAN
                     /\ JobSpec[j].autoResume \in BOOLEAN

VARIABLES
  api,               \* pod -> its object in the API server
  events,            \* pod -> informer events not handled yet
  watching,          \* the informer's cache is synced
  alloc,             \* the registry: pod -> sequence of [dev, mem]
  pendingEvictions,  \* the watcher's map of evicted pod keys
  pc,                \* where the loop goroutine is
  gangs, standalone, \* what is left of this cycle's snapshot of pending pods
  todo,              \* placements to mark and bind: sequence of [pod, gpus, mem]
  victims, toDelete, \* this preemption's victims, and those not deleted yet
  resuming,          \* the victim whose resume pod is to be created (a set)
  gaveUp,            \* jobs reported as out of retries
  listed,            \* [pod, gpus] that reconcileExistingPods listed
  budget             \* [limit, spent]: this behaviour's scenario and what has happened of it

cluster == <<api, events, watching>>
loop    == <<gangs, standalone, todo, victims, toDelete, resuming, gaveUp, listed>>
vars    == <<cluster, alloc, pendingEvictions, pc, loop, budget>>

NoPod == [phase |-> "none", node |-> NoNode, gpus |-> {}, term |-> FALSE]
NewPod == [NoPod EXCEPT !.phase = "Pending"]

Init ==
  /\ api = [p \in Pods |-> NoPod]
  /\ events = [p \in Pods |-> <<>>]
  /\ watching = TRUE
  /\ alloc = [p \in Pods |-> <<>>]
  /\ pendingEvictions = {}
  /\ pc = "idle"
  /\ gangs = {} /\ standalone = {} /\ todo = <<>>
  /\ victims = {} /\ toDelete = {} /\ resuming = {} /\ gaveUp = {} /\ listed = {}
  /\ \E s \in Scenarios : budget = [limit |-> s, spent |-> [k \in Kinds \cup Jobs |-> 0]]

Spend(kind) ==
  /\ budget.spent[kind] < budget.limit[kind]
  /\ budget' = [budget EXCEPT !.spent[kind] = @ + 1]
Happened(kind) == budget.spent[kind] > 0
Chosen(kind) == budget.limit[kind] > 0

Exists(p) == api[p].phase # "none"
Unbound(p) == api[p].phase = "Pending" /\ api[p].node = NoNode

-----------------------------------------------------------------------------
(* The cluster.                                                             *)

Emit(p, kind) == events' = IF watching THEN [events EXCEPT ![p] = Append(@, kind)] ELSE events

\* A DELETE reaching the API server: a pod that runs nowhere goes at once, a bound
\* one is marked and goes when its kubelet has stopped it.
ApiDelete(p) ==
  IF Unbound(p) \/ api[p].phase = "Done"
  THEN api' = [api EXCEPT ![p] = NoPod] /\ Emit(p, "deleted")
  ELSE api' = [api EXCEPT ![p].term = TRUE] /\ UNCHANGED events

UserCreate(j) ==
  /\ ~Exists(<<j, 0>>)
  /\ Spend(j)
  /\ api' = [api EXCEPT ![<<j, 0>>] = NewPod]
  /\ UNCHANGED <<events, watching, alloc, pendingEvictions, pc, loop>>

UserDelete(p) ==
  /\ Exists(p) /\ ~api[p].term
  /\ Spend("userDelete")
  /\ ApiDelete(p)
  /\ UNCHANGED <<watching, alloc, pendingEvictions, pc, loop>>

KubeletStart(p) ==
  /\ api[p].phase = "Pending" /\ api[p].node # NoNode /\ ~api[p].term
  /\ api' = [api EXCEPT ![p].phase = "Running"]
  /\ UNCHANGED <<events, watching, alloc, pendingEvictions, pc, loop, budget>>

KubeletFinish(p) ==
  /\ api[p].phase = "Running"
  /\ api' = [api EXCEPT ![p].phase = "Done"]
  /\ Emit(p, "done")
  /\ UNCHANGED <<watching, alloc, pendingEvictions, pc, loop, budget>>

KubeletRemove(p) ==
  /\ Exists(p) /\ api[p].term
  /\ api' = [api EXCEPT ![p] = NoPod]
  /\ Emit(p, "deleted")
  /\ UNCHANGED <<watching, alloc, pendingEvictions, pc, loop, budget>>

Cluster ==
  \/ \E j \in Jobs : UserCreate(j)
  \/ \E p \in Pods : UserDelete(p) \/ KubeletStart(p) \/ KubeletFinish(p) \/ KubeletRemove(p)

-----------------------------------------------------------------------------
(* The registry, as its ledger.                                             *)

Entry == [dev : GPUs, mem : Nat]
HeldSlots(g) == {s \in UNION {{p} \X DOMAIN alloc[p] : p \in Pods} : alloc[s[1]][s[2]].dev = g}
HeldUnits(g) == Units(LAMBDA s : alloc[s[1]][s[2]].mem, HeldSlots(g))
Reserved(g) == Cardinality(HeldUnits(g))

View == [g \in GPUs |->
          [node |-> NodeOf[g], idx |-> Index[g], total |-> Total[g], used |-> 0, free |-> Total[g],
           util |-> 0, reserved |-> Reserved(g), pods |-> Cardinality(HeldSlots(g)),
           healthy |-> TRUE, mps |-> g \in MPSGPUs, mig |-> FALSE]]

\* Mutant: of a multi-GPU placement only one GPU is marked.
MarkFirst(p, gpus, mem) ==
  alloc' = [alloc EXCEPT ![p] = Append(@, [dev |-> CHOOSE g \in gpus : TRUE, mem |-> mem])]

Mark(p, gpus, mem) ==
  alloc' = [alloc EXCEPT ![p] = @ \o [i \in 1..Cardinality(gpus) |->
                                        [dev |-> SetToSeq(gpus)[i], mem |-> mem]]]

ReleaseAll(P) == alloc' = [p \in Pods |-> IF p \in P THEN <<>> ELSE alloc[p]]

-----------------------------------------------------------------------------
(* The informer goroutine: UpdateFunc for a finished pod, DeleteFunc.       *)

\* Mutant: no UpdateFunc, only deletions release.
HandleEventDeleteOnly(p) ==
  /\ events[p] # <<>>
  /\ events' = [events EXCEPT ![p] = Tail(@)]
  /\ IF JobOf(p).gpuPod /\ Head(events[p]) = "deleted"
     THEN ReleaseAll({p}) /\ pendingEvictions' = pendingEvictions \ {p}
     ELSE UNCHANGED <<alloc, pendingEvictions>>
  /\ UNCHANGED <<api, watching, pc, loop, budget>>

HandleEvent(p) ==
  /\ events[p] # <<>>
  /\ events' = [events EXCEPT ![p] = Tail(@)]
  /\ IF JobOf(p).gpuPod
     THEN ReleaseAll({p}) /\ pendingEvictions' = pendingEvictions \ {p}
     ELSE UNCHANGED <<alloc, pendingEvictions>>
  /\ UNCHANGED <<api, watching, pc, loop, budget>>

\* Every 30 seconds the informer replays its cache as updates, which matters for a pod
\* that ended before the informer was watching.  A key with queued events is skipped.
Resync(p) ==
  /\ watching /\ events[p] = <<>>
  /\ api[p].phase = "Done"
  /\ alloc[p] # <<>> \/ p \in pendingEvictions
  /\ Emit(p, "done")
  /\ UNCHANGED <<api, watching, alloc, pendingEvictions, pc, loop, budget>>

-----------------------------------------------------------------------------
(* processQueue.                                                            *)

Priority(p) ==
  IF p[2] = 0 THEN JobOf(p).prio
  ELSE LET boosted == JobOf(p).prio + p[2] * PriorityBoost
       IN  IF boosted > 100 THEN 100 ELSE boosted

PendingPods == {p \in Pods : Unbound(p)}

\* GangCollector.Collect
GangMembers(P, G) == {p \in P : JobOf(p).gang = G}
\* Mutant: a gang is ready with its first pod.
ReadyGangsEarly(P) ==
  {GangMembers(P, G) : G \in {H \in DOMAIN GangSize : GangMembers(P, H) # {}}}

ReadyGangs(P) ==
  {GangMembers(P, G) : G \in {H \in DOMAIN GangSize :
      /\ GangMembers(P, H) # {}
      /\ Cardinality(GangMembers(P, H)) >= GangSize[H]}}
Standalone(P) == {p \in P : JobOf(p).gang = NoGang}

\* An evicted pod's key is still listed: nothing is scheduled this cycle.  The map is
\* walked in any order, so some keys of vanished pods may have been dropped first.
ProcessQueueDeferred ==
  /\ pc = "idle" /\ PendingPods # {}
  /\ \E p \in pendingEvictions : Exists(p)
  /\ \E gone \in SUBSET {p \in pendingEvictions : ~Exists(p)} :
       pendingEvictions' = pendingEvictions \ gone
  /\ UNCHANGED <<cluster, alloc, pc, loop, budget>>

\* Mutant: the loop never drops the key of a vanished pod.
ProcessQueueKeepsKeys ==
  /\ pc = "idle" /\ PendingPods # {}
  /\ pendingEvictions = {}
  /\ gangs' = ReadyGangs(PendingPods)
  /\ standalone' = Standalone(PendingPods)
  /\ pc' = "cycle"
  /\ UNCHANGED <<cluster, alloc, pendingEvictions, todo, victims, toDelete, resuming, gaveUp, listed, budget>>

ProcessQueue ==
  /\ pc = "idle" /\ PendingPods # {}
  /\ \A p \in pendingEvictions : ~Exists(p)
  /\ pendingEvictions' = {}
  /\ gangs' = ReadyGangs(PendingPods)
  /\ standalone' = Standalone(PendingPods)
  /\ pc' = "cycle"
  /\ UNCHANGED <<cluster, alloc, todo, victims, toDelete, resuming, gaveUp, listed, budget>>

CycleDone ==
  /\ pc = "cycle" /\ gangs = {} /\ standalone = {}
  /\ pc' = "idle"
  /\ UNCHANGED <<cluster, alloc, pendingEvictions, loop, budget>>

-----------------------------------------------------------------------------
(* schedulePod and scheduleGang decide ...                                  *)

\* The other pods of the model group, in the order the API server may list them.
RolePods == {q \in Pods : api[q].phase = "Running" /\ api[q].node # NoNode
                          /\ JobOf(q).intent \in {"prefill", "decode"}}
PreferredNodes(p) ==
  {resolveDisaggPreferredNodes(JobOf(p).intent,
      [k \in DOMAIN l |-> [role |-> JobOf(l[k]).intent, node |-> api[l[k]].node]])
   : l \in SetToSeqs(RolePods)}

\* The sets of GPUs schedulePod may choose; empty when nothing fits.
PodPlacements(p) ==
  LET j == JobOf(p)
  IN  IF j.gpuCount > 1
      THEN IF Chosen("fifo")
           THEN FIFOScheduleGang(View, j.mem, j.gpuCount, j.mode, j.shared)
           ELSE BinPackScheduleGang(View, j.mem, j.gpuCount, j.mode, j.shared)
      ELSE IF j.intent \in {"prefill", "decode"}
      THEN {{g} : g \in UNION {selectDisaggFullGPUCandidate(View, n, j.mem) : n \in PreferredNodes(p)}}
      ELSE {{r.dev} : r \in AllocateWithRouting(View, <<>>, j.mem, j.shared, "auto", TRUE)}

\* Mutant: one unit short.
PlacedMemShort(j) == j.mem - 1

PlacedMem(j) == IF j.gpuCount > 1 THEN RequiredMemory(j.mem, j.gpuCount, j.mode) ELSE j.mem

\* Standalone pods come after the gangs, highest priority first.
Turn(p) ==
  /\ pc = "cycle" /\ gangs = {} /\ p \in standalone
  /\ \A q \in standalone : Priority(q) <= Priority(p)
  /\ standalone' = standalone \ {p}

SchedulePod(p) ==
  /\ Turn(p)
  /\ JobOf(p).intent # "invalid"
  /\ \E S \in PodPlacements(p) :
       todo' = <<[pod |-> p, gpus |-> S, mem |-> PlacedMem(JobOf(p))]>>
  /\ pc' = "mark"
  /\ UNCHANGED <<cluster, alloc, pendingEvictions, gangs, victims, toDelete, resuming, gaveUp, listed, budget>>

SkipInvalidPod(p) ==
  /\ Turn(p)
  /\ JobOf(p).intent = "invalid"
  /\ UNCHANGED <<cluster, alloc, pendingEvictions, pc, gangs, todo, victims, toDelete, resuming, gaveUp, listed, budget>>

\* The gang's pods in the order of the sorted listing.
GangOrders(P) == {l \in SetToSeqs(P) : \A i, k \in DOMAIN l : i < k => Priority(l[i]) >= Priority(l[k])}

GangPlacements(l) ==
  ScheduleMultiPodGang(IF Chosen("fifo") THEN "fifo" ELSE "binpack", View,
    [i \in DOMAIN l |-> [mem |-> JobOf(l[i]).mem, gpuCount |-> JobOf(l[i]).gpuCount,
                         shared |-> JobOf(l[i]).shared]])

ScheduleGang(P) ==
  /\ pc = "cycle" /\ P \in gangs
  /\ gangs' = gangs \ {P}
  /\ \E l \in GangOrders(P) :
       LET placements == GangPlacements(l)
       IN  IF placements = {} THEN UNCHANGED <<todo, pc>>
       ELSE /\ \E S \in placements :
                 todo' = [i \in DOMAIN l |->
                           [pod |-> l[i], gpus |-> S[i], mem |-> JobOf(l[i]).mem \div Cardinality(S[i])]]
            /\ pc' = "mark"
  /\ UNCHANGED <<cluster, alloc, pendingEvictions, standalone, victims, toDelete, resuming, gaveUp, listed, budget>>

-----------------------------------------------------------------------------
(* ... then mark the registry, and patch and bind the pod by its name.      *)

MarkPlacement ==
  /\ pc = "mark"
  /\ Mark(Head(todo).pod, Head(todo).gpus, Head(todo).mem)
  /\ pc' = "bind"
  /\ UNCHANGED <<cluster, pendingEvictions, loop, budget>>

BindReturns ==
  /\ todo' = Tail(todo)
  /\ pc' = IF Len(todo) = 1 THEN "cycle" ELSE "mark"
  /\ UNCHANGED <<events, watching, pendingEvictions, gangs, standalone, victims, toDelete,
                 resuming, gaveUp, listed>>

\* The patch succeeded or was refused (only logged); the binding was accepted.
BindOK ==
  LET pl == Head(todo)  p == Head(todo).pod
  IN  /\ pc = "bind" /\ Unbound(p)
      /\ \/ /\ api' = [api EXCEPT ![p].node = NodeOf[CHOOSE g \in pl.gpus : TRUE], ![p].gpus = pl.gpus]
            /\ UNCHANGED budget
         \/ /\ Spend("patchError")
            /\ api' = [api EXCEPT ![p].node = NodeOf[CHOOSE g \in pl.gpus : TRUE]]
      /\ UNCHANGED alloc
      /\ BindReturns

\* Mutant: a failed bind is not rolled back.
BindFailsNoRollback ==
  LET pl == Head(todo)  p == Head(todo).pod
  IN  /\ pc = "bind"
      /\ \/ ~Unbound(p) /\ UNCHANGED <<api, budget>>
         \/ /\ Unbound(p) /\ Spend("bindError")
            /\ api' = [api EXCEPT ![p].gpus = pl.gpus]
      /\ UNCHANGED alloc
      /\ BindReturns

\* The call failed: the pod is gone, the API server refused, or it accepted and the
\* reply was lost.  The reservation is rolled back.
BindFails ==
  LET pl == Head(todo)  p == Head(todo).pod
  IN  /\ pc = "bind"
      /\ \/ ~Unbound(p) /\ UNCHANGED <<api, budget>>
         \/ /\ Unbound(p) /\ Spend("bindError")
            /\ api' = [api EXCEPT ![p].gpus = pl.gpus]
         \/ /\ Unbound(p) /\ Spend("bindReplyLost")
            /\ api' = [api EXCEPT ![p].node = NodeOf[CHOOSE g \in pl.gpus : TRUE], ![p].gpus = pl.gpus]
      /\ ReleaseAll({p})
      /\ BindReturns
-----------------------------------------------------------------------------
(* handleNoCapacityForPod: Preempt, then release every victim.              *)

\* buildPreemptionCandidates
Candidates ==
  [q \in {r \in Pods : api[r].phase = "Running" /\ r \notin pendingEvictions /\ api[r].gpus # {}} |->
     [prio |-> Priority(q), workflow |-> JobOf(q).workflow, preemptible |-> JobOf(q).preemptible,
      mem |-> JobOf(q).mem]]

VictimSets(p) == IF Preemption THEN SelectVictims(Candidates, Priority(p), JobOf(p).mem) ELSE {}

NoRoom(p) == Turn(p) /\ JobOf(p).intent # "invalid" /\ PodPlacements(p) = {}

NoCapacity(p) ==
  /\ NoRoom(p)
  /\ VictimSets(p) = {}
  /\ UNCHANGED <<cluster, alloc, pendingEvictions, pc, gangs, todo, victims, toDelete, resuming, gaveUp, listed, budget>>

Preempt(p) ==
  /\ NoRoom(p)
  /\ \E S \in VictimSets(p) : victims' = S /\ toDelete' = S
  /\ pc' = "evict"
  /\ UNCHANGED <<cluster, alloc, pendingEvictions, gangs, todo, resuming, gaveUp, listed, budget>>

\* Mutant: the victim is resumed without being deleted.
EvictVictimKeepsPod(v) ==
  /\ pc = "evict" /\ resuming = {} /\ v \in toDelete
  /\ toDelete' = toDelete \ {v}
  /\ resuming' = {v}
  /\ UNCHANGED <<api, events, budget>>
  /\ UNCHANGED <<watching, alloc, pendingEvictions, pc, gangs, standalone, todo, victims, gaveUp, listed>>

\* Checkpoint (its failure is ignored) and delete; a failed delete is skipped.
EvictVictim(v) ==
  /\ pc = "evict" /\ resuming = {} /\ v \in toDelete
  /\ toDelete' = toDelete \ {v}
  /\ \/ Exists(v) /\ ApiDelete(v) /\ resuming' = {v} /\ UNCHANGED budget
     \/ ~Exists(v) /\ UNCHANGED <<api, events, resuming, budget>>
     \/ Exists(v) /\ Spend("evictError") /\ UNCHANGED <<api, events, resuming>>
  /\ UNCHANGED <<watching, alloc, pendingEvictions, pc, gangs, standalone, todo, victims, gaveUp, listed>>

\* Mutant: gives up silently one attempt early.
AutoResumeEarly(v) ==
  LET r == <<v[1], v[2] + 1>>
  IN  /\ pc = "evict" /\ v \in resuming
      /\ resuming' = {}
      /\ IF JobOf(v).autoResume /\ v[2] + 1 < MaxRetries
         THEN api' = (IF Exists(r) THEN api ELSE [api EXCEPT ![r] = NewPod])
         ELSE UNCHANGED api
      /\ UNCHANGED <<events, watching, alloc, pendingEvictions, pc, gangs, standalone, todo,
                     victims, toDelete, gaveUp, listed, budget>>

\* tryAutoResume
AutoResume(v) ==
  LET r == <<v[1], v[2] + 1>>
  IN  /\ pc = "evict" /\ v \in resuming
      /\ resuming' = {}
      /\ IF JobOf(v).autoResume /\ v[2] + 1 <= MaxRetries
         THEN \/ api' = (IF Exists(r) THEN api ELSE [api EXCEPT ![r] = NewPod]) /\ UNCHANGED budget
              \/ Spend("createError") /\ UNCHANGED api
         ELSE UNCHANGED <<api, budget>>
      /\ gaveUp' = IF JobOf(v).autoResume /\ v[2] + 1 > MaxRetries THEN gaveUp \cup {v[1]} ELSE gaveUp
      /\ UNCHANGED <<events, watching, alloc, pendingEvictions, pc, gangs, standalone, todo,
                     victims, toDelete, listed>>

ReleaseVictims ==
  /\ pc = "evict" /\ toDelete = {} /\ resuming = {}
  /\ ReleaseAll(victims)
  /\ pendingEvictions' = pendingEvictions \cup victims
  /\ victims' = {}
  /\ pc' = "cycle"
  /\ UNCHANGED <<cluster, gangs, standalone, todo, toDelete, resuming, gaveUp, listed, budget>>

-----------------------------------------------------------------------------
(* The process dies and NewWatcher starts it again: the informer is started *)
(* and, without waiting for it, reconcileExistingPods lists and marks.      *)

Crash ==
  /\ pc # "boot" /\ pc # "reconcile"
  /\ Spend("crash")
  /\ pc' = "boot"
  /\ watching' = FALSE
  /\ events' = [p \in Pods |-> <<>>]
  /\ ReleaseAll(Pods)
  /\ pendingEvictions' = {}
  /\ gangs' = {} /\ standalone' = {} /\ todo' = <<>>
  /\ victims' = {} /\ toDelete' = {} /\ resuming' = {} /\ listed' = {}
  /\ UNCHANGED <<api, gaveUp>>

InformerSync ==
  /\ ~watching
  /\ watching' = TRUE
  /\ UNCHANGED <<api, events, alloc, pendingEvictions, pc, loop, budget>>

ReconcileList ==
  /\ pc = "boot"
  /\ listed' = {[pod |-> p, gpus |-> api[p].gpus] :
                p \in {q \in Pods : api[q].phase = "Running" /\ api[q].node # NoNode /\ api[q].gpus # {}}}
  /\ pc' = "reconcile"
  /\ UNCHANGED <<cluster, alloc, pendingEvictions, gangs, standalone, todo, victims, toDelete, resuming,
                 gaveUp, budget>>

\* Mutant: a listed pod is marked again and again.
ReconcileMarkAgain(r) ==
  /\ pc = "reconcile" /\ r \in listed
  /\ Mark(r.pod, r.gpus, JobOf(r.pod).mem \div Cardinality(r.gpus))
  /\ UNCHANGED <<cluster, pendingEvictions, pc, loop, budget>>

ReconcileMark(r) ==
  /\ pc = "reconcile" /\ r \in listed
  /\ Mark(r.pod, r.gpus, JobOf(r.pod).mem \div Cardinality(r.gpus))
  /\ listed' = listed \ {r}
  /\ UNCHANGED <<cluster, pendingEvictions, pc, gangs, standalone, todo, victims, toDelete, resuming,
                 gaveUp, budget>>

ReconcileDone ==
  /\ pc = "reconcile" /\ listed = {}
  /\ pc' = "idle"
  /\ UNCHANGED <<cluster, alloc, pendingEvictions, loop, budget>>

-----------------------------------------------------------------------------
Loop ==
  \/ ProcessQueue \/ ProcessQueueDeferred \/ CycleDone
  \/ \E P \in gangs : ScheduleGang(P)
  \/ \E p \in standalone : SchedulePod(p) \/ SkipInvalidPod(p) \/ NoCapacity(p) \/ Preempt(p)
  \/ MarkPlacement \/ BindOK \/ BindFails
  \/ \E v \in toDelete : EvictVictim(v)
  \/ \E v \in resuming : AutoResume(v)
  \/ ReleaseVictims
  \/ ReconcileList \/ ReconcileDone \/ \E r \in listed : ReconcileMark(r)

Next ==
  \/ Cluster
  \/ \E p \in Pods : HandleEvent(p) \/ Resync(p)
  \/ Loop
  \/ Crash \/ InformerSync

Spec == Init /\ [][Next]_vars

\* The loop is a ticker, one informer goroutine dispatches what arrives, kubelets start
\* what is bound to them and finish terminating what was deleted.
Fairness ==
  /\ WF_vars(Loop)
  /\ WF_vars(InformerSync)
  /\ WF_vars(\E p \in Pods : HandleEvent(p) \/ Resync(p))
  /\ WF_vars(\E p \in Pods : KubeletStart(p) \/ KubeletRemove(p))

\* Batch workloads end, services need not.
Batch == ~Chosen("endless")

FairSpec == Spec /\ Fairness /\ WF_vars(Batch /\ \E p \in Pods : KubeletFinish(p))

-----------------------------------------------------------------------------
(* Properties.                                                              *)

\* Every variable has its type.
TypeOK ==
  /\ api \in [Pods -> [phase : {"none", "Pending", "Running", "Done"},
                       node : {NoNode} \cup {NodeOf[g] : g \in GPUs},
                       gpus : SUBSET GPUs, term : BOOLEAN]]
  /\ events \in [Pods -> Seq({"done", "deleted"})]
  /\ watching \in BOOLEAN
  /\ alloc \in [Pods -> Seq(Entry)]
  /\ pendingEvictions \subseteq Pods
  /\ pc \in {"idle", "cycle", "mark", "bind", "evict", "boot", "reconcile"}
  /\ gangs \subseteq SUBSET Pods /\ standalone \subseteq Pods
  /\ todo \in Seq([pod : Pods, gpus : SUBSET GPUs, mem : Nat])
  /\ victims \subseteq Pods /\ toDelete \subseteq Pods /\ resuming \subseteq Pods
  /\ gaveUp \subseteq Jobs
  /\ listed \subseteq [pod : Pods, gpus : SUBSET GPUs]
  /\ budget \in [limit : Scenarios, spent : [Kinds \cup Jobs -> Nat]]

\* Pod p is bound, has not ended, and was told to use GPU g.
Occupies(p, g) == api[p].phase \in {"Pending", "Running"} /\ api[p].node # NoNode /\ g \in api[p].gpus
Occupants(g) == {p \in Pods : Occupies(p, g)}

\* What a pod may use of each of its GPUs.
UsedMem(p) ==
  LET j == JobOf(p)
  IN  IF j.gpuCount = 1 THEN j.mem
      ELSE RequiredMemory(j.mem, j.gpuCount, IF j.gang = NoGang THEN j.mode ELSE "per-gpu")

\* The scheduler was not restarted and no user gave a second pod the name of an earlier
\* one, so that a key of the registry stands for one pod.
Steady == ~Happened("crash") /\ \A j \in Jobs : budget.spent[j] <= 1

\* Nothing has happened after which the registry or the annotations are known to lie:
\* besides a restart and a name used again, a lost reply to a binding, or a refused
\* binding followed by a refused patch, which leaves the annotation of the first placement
\* on the second.
Truthful == Steady /\ ~Happened("bindReplyLost") /\ ~(Happened("bindError") /\ Happened("patchError"))

\* The jobs for which the strategies check what is used: the multi-GPU and the gang paths
\* do not look for MPS, and a gang member's memory is divided over its GPUs although it
\* may use all of it on each.
Regular == \A j \in Jobs : /\ JobSpec[j].shared => JobSpec[j].gpuCount = 1 /\ JobSpec[j].gang = NoGang
                           /\ JobSpec[j].gang # NoGang => JobSpec[j].gpuCount = 1

\* A GPU without MPS runs at most one pod of the scheduler.
ExclusiveOccupancy == \A g \in GPUs \ MPSGPUs : Cardinality(Occupants(g)) <= 1

\* As long as the scheduler's records are not known to lie, the pods the cluster runs on
\* a GPU, those being evicted aside, fit in its memory, and without MPS there is one of
\* them, although pods are chosen from a stale listing, reserved, bound by name, deleted,
\* finished and released by events that arrive late.
NoOverbooking ==
  Truthful /\ Regular => \A g \in GPUs :
    LET here == Occupants(g) \ pendingEvictions
    IN  /\ g \notin MPSGPUs => Cardinality(here) <= 1
        /\ Cardinality(Units(UsedMem, here)) <= Total[g]

\* Whatever is bound and has not ended is in the registry, unless it was evicted: the
\* watcher reserves before it binds, and only a bind failure, the pod's own end or its
\* eviction releases.
BoundIsReserved ==
  Truthful => \A g \in GPUs : \A p \in Occupants(g) \ pendingEvictions :
                 \E i \in DOMAIN alloc[p] : alloc[p][i].dev = g

\* The reservation of p belongs to a pod that was bound and still exists, or whose end
\* the informer is about to report.
Accounted(p) == alloc[p] # <<>> => (Exists(p) /\ ~Unbound(p)) \/ events[p] # <<>>

\* Without a restart nothing leaks that the informer's handlers recognise as theirs,
\* whatever was deleted, refused, finished or created anew in the middle of a cycle.
NoLeak == pc = "idle" /\ ~Happened("crash") => \A p \in Pods : JobOf(p).gpuPod => Accounted(p)

\* A pod is entered once: no retry, rollback or reconciliation reserves twice for it,
\* unless its name was used before, by a user or, after a restart, by a second resume.
EnteredOnce ==
  (\A j \in Jobs : budget.spent[j] <= 1) =>
    \A p \in Pods : p[2] = 0 \/ ~Happened("crash") => Len(alloc[p]) <= JobOf(p).gpuCount

\* Gangs are bound whole: between two cycles no member is bound while another is pending.
GangWhole ==
  pc = "idle" => \A p, q \in Pods :
     JobOf(p).gang # NoGang /\ JobOf(p).gang = JobOf(q).gang /\ Unbound(q) => api[p].node = NoNode

\* The gang has no more jobs than its size says, and none that comes back when evicted.
Sized(G) == /\ G \in DOMAIN GangSize
            /\ Cardinality({j \in Jobs : JobSpec[j].gang = G}) <= GangSize[G]
            /\ \A j \in Jobs : JobSpec[j].gang = G => ~JobSpec[j].autoResume

\* Without a restart and a refused binding that is what happens, even if members are
\* deleted, finish or are evicted in the middle of the cycle that places the gang.
GangAtomic ==
  pc = "idle" /\ Steady /\ ~Happened("bindError") => \A p, q \in Pods :
     Sized(JobOf(p).gang) /\ JobOf(p).gang = JobOf(q).gang /\ Unbound(q) => api[p].node = NoNode

\* Until the scheduler restarts, a job submitted once has one instance at a time that is
\* neither ended nor being deleted: a resume pod is created only for a victim whose
\* deletion was accepted, and only once.
OneInstance ==
  Steady =>
    \A j \in Jobs : Cardinality({p \in Pods : /\ p[1] = j
                                              /\ api[p].phase \in {"Pending", "Running"}
                                              /\ ~api[p].term}) <= 1

\* An auto-resume job that the user left alone is never lost while the scheduler runs and
\* the API server accepts the resume pods it creates: the job lives, has ended, is about to
\* be re-created, or was reported to be out of retries.  (A refused creation is not retried.)
JobSurvives ==
  Steady /\ ~Happened("userDelete") /\ ~Happened("createError") =>
    \A j \in Jobs : Happened(j) /\ JobSpec[j].autoResume /\ j \notin gaveUp =>
      \E p \in Pods : p[1] = j /\ (p \in resuming \/ (Exists(p) /\ (api[p].phase = "Done" \/ ~api[p].term)))

\* Pod p waits for the scheduler: its intent is valid and its gang, if any, is complete.
Waiting(p) ==
  /\ Unbound(p) /\ JobOf(p).intent # "invalid"
  /\ JobOf(p).gang = NoGang \/ \E P \in ReadyGangs(PendingPods) : p \in P

\* Every pod of the scenario is one for the informer's handlers (IsGPUPod).
Recognised == \A j \in Jobs : Chosen(j) => JobSpec[j].gpuPod

\* No name was used again and, if the scheduler was restarted, no pod was deleted or could
\* be evicted: what vanishes between the listing of reconcileExistingPods and the first
\* watch keeps its reservation for ever.
KeepsBooks ==
  /\ Recognised
  /\ \A j \in Jobs : budget.spent[j] <= 1
  /\ Happened("crash") => /\ ~Happened("userDelete")
                          /\ \A j, k \in Jobs : Chosen(j) /\ Chosen(k) => JobSpec[j].prio <= JobSpec[k].prio

\* Where what runs ends and the books are kept, every pod that waits, alone or with its
\* gang, is eventually bound or withdrawn; each fits in the idle cluster.
EventuallyPlaced == \A p \in Pods : []<>~(Waiting(p) /\ Batch /\ KeepsBooks)

\* The reservation of a pod that ended is eventually returned, if the pod is one for the
\* informer's handlers.
EventuallyReturned ==
  \A p \in Pods : JobOf(p).gpuPod => []<>~(api[p].phase = "Done" /\ alloc[p] # <<>>)

\* Every victim goes: the scheduler was not restarted, no name was used again, and if the
\* deletion of a victim was refused, the victim ends by itself and the informer notices.
\* A victim that stays, or comes back under its name, keeps its key in pendingEvictions.
VictimsGo == Steady /\ (Happened("evictError") => Batch /\ Recognised)

\* Then evictions never block the loop for ever: while pods wait, the keys of evicted
\* pods are eventually gone, although a key is written after the victim's last event.
EvictionsClear == []<>(VictimsGo => pendingEvictions = {} \/ PendingPods = {})

\* An MPS GPU is all that p can have.
Sharing(p) == LET j == JobOf(p)
              IN  j.shared /\ j.gpuCount = 1 /\ j.gang = NoGang /\ j.intent = "none"

\* Preemption can make room for p: all that lives is of lower priority, preemptible, on
\* the one MPS GPU (SelectVictims adds up victims of all GPUs), annotated with it, and
\* asks for no less than p (SelectVictims does not count what is free).
CanMakeRoom(p) ==
  /\ Preemption /\ Recognised /\ ~Happened("patchError")
  /\ Sharing(p) /\ \E g \in GPUs : MPSGPUs = {g} /\ JobOf(p).mem <= Total[g]
  /\ \A q \in Pods \ {p} : api[q].phase \in {"Pending", "Running"} =>
       /\ Sharing(q) /\ JobOf(q).preemptible /\ JobOf(q).mem >= JobOf(p).mem
       /\ Priority(q) < Priority(p)

\* A pod that outranks all others, and for which preemption can make room, is eventually
\* bound if its victims go, even if nothing that runs ever ends by itself.
TopPriorityPlaced == \A p \in Pods : []<>~(Unbound(p) /\ VictimsGo /\ CanMakeRoom(p))
=============================================================================
