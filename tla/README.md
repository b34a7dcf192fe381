# Verification of gpu-scheduler

TLA+ models of the GPU scheduler in this repository, the TLC runs that check them
on small instances, and TLAPS proofs of the safety properties for every value of the
constants. `PROJECT.json` lists the components, the runs, the mutants that show each
property can fail, the source lines behind every definition, the findings, the
hazards and the theorems.

    tlc -workers 2 -config Registry.cfg MCRegistry      # a run
    tlapm RegistryProofs.tla                            # the proofs

## 1. Inventory

| Component | State | Operations | Talks to |
|---|---|---|---|
| GPU registry `internal/gpu/registry.go` | node reports, `reservations`, `podCountPerGPU`, `podAllocations`, MIG availability, one mutex | `UpdateFromReport`, `RemoveStaleNodes` (inside `GetAllNodes`), `FindAvailable*`, `GetNodes`, `Mark{GPU,MIG}AllocatedForPod`, `ReleasePod` | agents (HTTP reports), watcher, informer callbacks, dashboard |
| Allocator and routing `internal/allocator/{allocator,routing}.go` | none | `AllocateWithRouting`: pool preference, fallback, best fit | registry |
| Strategies `internal/allocator/{binpack,fifo}.go` | none | `Schedule`, `ScheduleGang` | the nodes `GetNodes` returns |
| Multi-pod gangs `allocator/gang_multi_pod.go`, `scheduler/gang.go` | first-seen times of gangs | `Collect`, `ScheduleMultiPodGang` on a shadow of the nodes | strategies |
| Watcher `internal/scheduler/{watcher,helpers}.go` | `pendingEvictions` (shared by two goroutines), the current cycle | `processQueue`, `schedulePod`, `scheduleGang`, bind and rollback, `handleNoCapacityForPod`, `reconcileExistingPods`, informer callbacks | Kubernetes API, registry, orchestrator |
| Preemption `internal/scheduler/{preemption,executor}.go` | retry counts in pod annotations | `SelectVictims`, `Preempt`, `tryAutoResume` | Kubernetes API |
| Rebalancer `scheduler/rebalancer.go`, `cmd/scheduler/main.go` | hot-since and normal-since times and `lastActionAt` per model, draining annotations | `Evaluate`, deduplication, drain, scale scripts | proxy metrics, Kubernetes API |
| Inference proxy `internal/proxy/*` | worker list, in-flight counters, latency averages, pressure trackers and reports | worker and pressure polling, `FindRequestWorker`, two-phase request handling | workers, scheduler |
| Manager and extender `gpu/manager.go`, `scheduler/extender.go` | used memory per GPU and bookings per job of the extender mode | `Allocate`, `Release`, `RefreshAll`, `Filter`, `Prioritize`, `Bind` | kube-scheduler, Kubernetes API, discoverer |
| Webhook `scheduler/webhook.go` | none; what it writes stays in the pod | `HandleMutate`, `buildSharedGPUPatches` | API server |
| Dashboard `internal/dashboard/*` | subscribers and their channels, ring of log lines | `Subscribe`, `Unsubscribe`, `Publish`, `Write`, `GetRecent`, create and delete pods | browsers, the scheduler's log, Kubernetes API |
| Agent, discovery, injector, metrics, configuration, UI, benchmarks | little or none | input, output and wiring | |

**What is hard.** The scheduler is three threads over one registry: the polling loop,
the informer's callback goroutine and the HTTP handlers. The registry's mutex is
released between choosing a GPU and marking it. The loop works through a listing of
pending pods that gets older with every API call of the cycle, and the API server,
kubelets and users act in between. A reservation is taken before the binding and has
to be given back by whichever comes first of a bind failure, the pod's end, its
deletion and its eviction: exactly once. Evictions are asynchronous, and the loop
remembers them by pod name. A restart loses the registry and rebuilds it from the API
server. In the extender mode the handlers read GPU records that others are writing. The
proxy's report is computed from what its own routing did. A resumed pod passes the
webhook a second time. Every log line goes through a lock that browsers also take.

**What makes each component correct.**

* Registry: the counters say what the entries add up to; no GPU beyond its memory, no
  exclusive GPU twice, no MIG instance twice, nothing unavailable without a holder.
* Placement: every result fits, gangs are placed jointly or not at all, victims have
  lower priority.
* Watcher: what runs is reserved, what is reserved runs or is about to; pods fit in
  their GPUs; gangs are bound whole; pending pods are placed; reservations return.
* Preemption: one live instance of a job, no job lost, evictions never block the loop,
  the top-priority pod gets its GPU.
* Rebalancer: never a role's last worker, never beyond the maximum, the worker that was
  drained is the one that goes, no draining annotation left behind.
* Proxy: in-flight counters say how many requests a worker has, whatever they come to; a
  report is earned by sustained observations and does not outlive them.
* Manager and extender: the books cover what was given out and failed binds return it.
* Webhook: each patch applies, shared pods get their access once, the user's part stays.
* Dashboard: no send on a closed channel, log lines in order, nobody waits for ever.

## 2. Plan

Modules in order, the most important behaviour first. Groups 1 to 5 are done.

1. `Placement` (pure decisions), `Ledger` (abstract book of grants), `Registry` (refines
   `Ledger`), `Watcher` (composes placement, registry, preemption, gangs, restart and the
   cluster).
2. `Rebalancer` (evaluation, de-duplication, drain, script), `Proxy` (worker list, choice,
   counts), and `Serving`, which composes the two.
3. `Pressure`, which composes `Proxy` with the latency averages and `pressureLoop`.
4. `Extender` (the other scheduling mode, over `Placement`), `Webhook`, `Dashboard`.
5. Proofs: `RegistryProofs`; `WatcherProofs` and, on it, `WatcherLedgerProofs`;
   `ExtenderProofs`, `ServingProofs`, `PressureProofs`, `DashboardProofs`, `WebhookProofs`.
6. Left: the lemmas on `Placement` that several proofs share, in one place; the order of
   victims and the memory they free, which are only model-checked.

## 3. Modules and the code

**`Placement.tla`** has no state. A decision of the code is the *set* of results it may
return: the code iterates over Go maps and uses an unstable sort, so ties are open. The
empty set is the error return. `FreeMB` and the `FindAvailable*` operators are the
registry's queries (reported free memory minus reservations), `AvailableMemoryMB` and
the strategies work on `GetNodes` (total minus reservations): the two views of the code
are kept apart. `ScheduleMultiPodGang` is the set of placements in which every pod of the
gang is placed by the strategy on `Shadow`: the nodes less what the pods before it got. `EvictOrders` are the orders `sort.Slice` may
leave the candidates in, `SelectVictims` takes a prefix.

**`Registry.tla`**: one variable per field. A method is one step because it holds the
mutex. `ReleasePod` is a step per entry with the mutex held (`releasing`), so that the
arithmetic of its loop, clamp included, is visible. The scheduling thread is `choice`:
`ChooseSingle` / `ChooseMulti` read candidates, `Mark*` write them one lock acquisition
at a time. Reports may say anything about used memory and health, and always say that a
MIG instance is available, as `internal/agent/nvml_linux.go` does. `Mem` is what the watcher
reserves for a pod and `RoutedMem` what the routing looks for, each read from the annotations
in its own way; the lemma `SameMem` shows that they agree. `SharedMulti` are the shared pods
that ask for several GPUs: they take the path of `ScheduleGang`, which for them asks neither
whether a GPU is empty nor whether it has MPS.

**`Ledger.tla`** is the abstract specification: one variable, `Grant` and `Return`. A
grant requires room on the GPU and, but for the pods in `Joining`, an empty GPU unless it has
MPS. Both books of the code implement it: the registry's, whose joining pods are
`SharedMulti`, and the manager's of the extender mode, whose entries are the
jobs (`Book` of `Extender.tla`), whose GPUs may all be shared and where nobody joins. The manager does so with
the mock discoverer only; an NVML refresh overwrites its book.

**`Watcher.tla`** composes the loop, the informer and the cluster.

| Variable | Code |
|---|---|
| `alloc` | `Registry.podAllocations`; the counters are derived, which `Accounting` and its proof justify |
| `pendingEvictions` | the map of that name |
| `pc`, `gangs`, `standalone`, `todo` | where `processQueue` is and what is left of its listing |
| `victims`, `toDelete`, `resuming` | the locals of `Preempt` |
| `listed` | the locals of `reconcileExistingPods` |
| `api`, `events`, `watching` | API server, undelivered informer events, whether the cache is synced (external) |
| `gaveUp` | the log line of a job out of retries |
| `budget` | the scene of this behaviour and how much of it has happened (bound) |

Every API call of the loop that changes something is a step of its own, so the informer and
the cluster act between any two. A listing is one step with the decision made from it: the
one of `processQueue`, those of running peers and of preemption candidates, which `SchedulePod`
and `Preempt` contain, and the one of `reconcileExistingPods`. `ProcessQueue` lists, `SchedulePod` or `ScheduleGang` decides,
`MarkPlacement` reserves, `BindOK` / `BindFails` patch and bind, `EvictVictim`,
`AutoResume` and `ReleaseVictims` carry out a preemption, `ReconcileList` and
`ReconcileMark` rebuild the registry after `Crash`. The patch with the assigned GPUs
and the binding are one step: nothing reads the annotation of an unbound pod. A refused
binding leaves the annotation behind. `Index` is the position of a GPU in its node's report,
by which FIFO takes the first that fit. Pods are
`<<job, k>>`, the k-th resume; the informer knows only that name.

**`Rebalancer.tla`** is one model group's rebalancing goroutine: `rpc` is where it is,
`decision` and `target` are its locals, `state` holds its timers as ages in ticks. Every
listing, update, wait and script is a step: `RunTick` lists and evaluates,
`CheckDeduplication` lists again, `SelectTarget` a third time, `MarkPodDraining`,
`DrainSucceeds` / `DrainFails`, then the script. The script is the one the repository has
in `examples/inference`: it applies or deletes the manifest of one more pod of the role.
`pods` is what the API server shows, `older` who of two pods of a role was created first,
by which the worker to drain is selected; kubelets make pods ready and unready.

**`Proxy.tla`** is the proxy for that model group: the copied worker list, the in-flight
counts (with the set of workers that have any, which the choice prefers), and each request
from the choice under the read lock, over the counting under the write lock, to the
deferred calls that end it. Latencies only break ties and are left open. All nodes are
taken to have NVLink, without which the proxy skips prefill and decode workers.

**`Serving.tla`** composes them where they meet: the worker list, the pressure report (an
input that may change at any time) and the counts a drain waits for. `owed` is a history
variable: the requests counted on a worker when its drain began.

**`Pressure.tla`** takes the requests of `Proxy` and adds what they leave behind and what
becomes of it. `latency` is the moving average of a worker, `tracker` the state, the three
counters and the age of the last change that `pressureLoop` keeps; the report is the
tracker's state, because a tick writes both. `Tick` is one round of the loop under the
proxy's lock; `Observation` is what it sees, `Count` and `Target` are its counters and
what they ask for. Latencies are levels: below the threshold, at it, and none. The averages
of up to two workers are exact in halves. In `Serving` the report stays an input that
may change at any time, which includes everything `Pressure` can make of it. `seen`,
`calm` and `bare` are history.

**`Extender.tla`** is the mode in which kube-scheduler calls the scheduler. `bind` is where
the handler of each call is. `ScanGPU` reads one GPU record per step, because
`Manager.GetNodes` copies the node and not its slice; `Allocate`, `Release` and the refresh
exclude each other by the manager's lock, and `RefreshGPU` asks the discoverer about one
GPU at a time with the lock held. kube-scheduler may call again while an earlier handler is
running. The choice is `BinPackSchedule` of `Placement` on what was read.

**`Webhook.tla`** has the arrays of a pod specification that the webhook touches, what the
patches of each array make of it in the code's order and whether each of them found what it
needs (`[names, ok]`; patches of different arrays do not touch), the API server that
validates the result, and `Resume`, which creates the next pod of the job from the last one's
specification as `buildResumePod` does. The webhook may be unreachable for any pod.

**`Dashboard.tla`**: `publish` is where each publisher is in `Publish`, one subscriber per
step; `stream` is where each browser's `EventHandler` is. The lock is Go's `RWMutex`: a
waiting writer keeps new readers out, and a writer that is done lets the waiting readers
in. The log package calls `Write` one at a time.

**`MCRegistry`, `MCWatcher`, `MCServing`, `MCPressure`, `MCExtender`, `MCWebhook`** hold the
instances, the modules named **`...Proofs`** the proofs.

## 4. Runs

| Run | Instance | What it shows |
|---|---|---|
| `Registry` | exclusive and MPS GPU on a node, a GPU with a MIG instance on another; a two-GPU, a plain, a sharing and a sharing two-GPU pod, whose memory comes from different annotations; two entries per pod | `TypeOK`, `Accounting`, `WithinTotal`, `ExclusiveGPU`, `ChoiceFits`, `MIGNotLeaked`, and that it implements `Ledger` |
| `Watcher` | five scenes on an exclusive and an MPS GPU of one node and an exclusive GPU of another, see below | reservation, exclusivity and memory of what runs, no leak, one entry per pod, whole gangs, one live instance per job, no job lost |
| `WatcherLiveness` | five smaller scenes on the same GPUs | every pod that waits is placed, every reservation returned, evictions clear, the top-priority pod is placed |
| `Serving` | prefill, decode and unified worker, a second decode worker that the script adds; two requests; one failing call or script, one pod that loses its readiness | exact counts, a drain that waits for them, removes what was drained and leaves no mark; no role loses its last worker |
| `Pressure` | one prefill, one or two decode workers, with or without a unified one, or none listed; two requests | equal counts on both sides, reports earned by observations in a row, calm that settles, a pair that is never measured beside a unified worker |
| `Extender` | two GPUs of sizes 1 and 2; a pod of memory 1 tried twice and one without a memory request; both discoverers | books that cover what was given out, failed binds that return it, one booking per answered bind, filter and score that agree with the bin packer, and that the manager implements `Ledger` with the mock discoverer |
| `Webhook` | a container and an init container with every combination of absent and present arrays, a variable the user set twice, a volume of a name the webhook uses; two resumes | patches that apply, access once, the user's part kept, a pod refused only if it was changed twice or the name was taken |
| `Dashboard` | two browsers, a logger and another publisher, channels of one event, a ring of two, three log lines | no send on a closed channel, log order, a ring that is the tail of the log, publishing and locking that end |
| `RegistryMIGExclusive`, `GangPartialBind`, `RestartOverbooks`, `SharedResume` | violations | section 6 |

**Scenes of the watcher.** A behaviour starts by picking one scene: which jobs are
submitted and which faults may happen, each once. For safety: *Core*, FIFO strategy, a
two-GPU, a disaggregated and a sharing pod; a user's deletion, a refused patch, a refused
binding. *Anew*, bin packing, a gang of two and a rival that may be created twice under its
name; a deletion. *Crowd*, a resumable, a plain and a sharing training pod and an inference
pod that outranks them; a refused deletion of a victim, a refused creation of a resume pod.
*Withdrawn*, preemption with a user's deletion, a refused eviction and a crash. *Fault*, a
two-GPU and a plain pod and one with a broken intent; a crash at any step, a binding
accepted although its reply is lost, a deletion. For liveness: *Core*; *Gang*, the gang and
its rival; *Service*, preemption where what runs need not end by itself and the deletion of a victim may
be refused; *Preempt*, the
preempting pods with a refused eviction and a refused creation, where jobs end; *Restart*,
the pods of *Fault* with a crash and a lost reply.

The safety properties leave out exactly the faults they are known not to survive, in
conditions of their own that the scenes make true and false: `Steady` (no restart, no name
used twice by a user), `Truthful` (besides, no lost reply and no refused binding followed by
a refused patch), `Regular` (no job for which the strategies check less than it may use:
shared pods with several GPUs or in gangs, gang members with several GPUs). `GangAtomic` is
about gangs with no more jobs than their size says (`Sized`). In `Registry` the exception is
`SharedMulti`: `ExclusiveGPU` counts the other pods, `ChoiceFits` and the ledger let these join.

The liveness properties have conditions too. `KeepsBooks` (of `EventuallyPlaced`): every pod is
one that the informer's callbacks recognise, no name was used twice, and a restart did not
coincide with deletions. `VictimsGo` (of `EvictionsClear` and `TopPriorityPlaced`): `Steady`,
and if the deletion of a victim was refused, what runs ends by itself; the scene *Service*
makes it false, and without the condition both properties fail there. `CanMakeRoom` (of
`TopPriorityPlaced`): all that lives shares the one MPS GPU the pod needs, has lower priority,
is preemptible and annotated, and asks for no less memory than the pod. `EventuallyPlaced` is
about jobs that fit in the idle cluster, as all of the instance do. Section 6 says what happens
otherwise.

**Bounds.** `MaxMem`, `MaxEntries` (entries per pod key), `MaxRetries` and the scenes. Each
fault happens once; TLC chooses where, so every window between two steps is tried.
Memory is 0 or 1 on GPUs of 1 or 2 units: enough for a GPU to be full, to be shared, and
to have room that a reservation hides. Zero is a pod without a memory annotation, which
is limited only by the pod count. Three GPUs are enough for a placement with several marks
and a rival. `OneScene` of `Registry` is a state constraint: the MIG node is known only
while the two-GPU pods are idle and the MPS GPU reports nothing used, and one of the two-GPU
pods is busy at a time, so that the three questions are each asked in full and their product
is not. In `Serving` the sustain
window is one tick, the cooldown two and `MaxGap`, the largest number of ticks between two
evaluations, two: enough for a pressure that is not yet sustained, one that is, and an
action the cooldown stops; ages beyond what they are compared with are not told apart.
`RebalanceFaults` allows one failing call or script and one loss of readiness. In
`Pressure` the sustain window is two ticks and the cooldown three: a window that can be
interrupted, and a cooldown that outlasts it. Two requests are enough for a difference of
one request in flight per worker. `MaxEntries` of `Dashboard` lets the ring be exactly full
and wrap. The requests are symmetric; the other runs use no symmetry, since they are small
or check liveness.

**Fairness.** The loop is driven by a ticker and never blocks on anything but API calls
with timeouts, so `WF(Loop)`. client-go dispatches callbacks as they arrive and resyncs
every 30 s, the informer syncs after a restart, kubelets start what is bound to them and
finish deletions: `WF` of each of these kinds of step. `Batch` scenes add that running pods
end; *Service* does without, since its claims are about preemption. No fairness is assumed
of users or faults. In `Dashboard` a goroutine that can run does (`WF` of the steps of
`Publish`); browsers that want the lock get it if they can again and again (`SF`), since
the writers' mutex is handed over in turn; browsers need never read. `CHECK_DEADLOCK` is
off for the watcher and the webhook: a cluster in which everything has finished, and a job
that is over or refused, have nothing left to do. All other passing runs check deadlock.
`Serving`, `Pressure`, `Extender` and `Webhook` need no fairness: their properties are
safety. That a drain settles is stated of the states in which no scale-down is under way,
and that calm settles of the number of calm ticks.

## 5. Proofs

All are checked by tlapm to the last leaf, for every value of the constants that satisfies
the named assumptions. Most are of the form `Spec => []P` for an invariant `P` that a run
checks. `Spec => Earned` is an action property, `Spec => ImplementsLedger` a refinement,
proved of `Registry` and of `Extender`. Three go beyond the runs. `ExclusiveMIGUnlessReported`
and `ExclusiveWithoutPreemption` are about properties that violation runs refute, and say
under which condition they hold; the condition is written in the theorem.
`RegistryNeverOverbooked` is about the registry's book where `NoOverbooking` is about what
runs. `TypeOK` of `Extender` is proved and not part of its run.

| Module | Theorems |
|---|---|
| `RegistryProofs` | `TypeCorrect`, `AccountingCorrect`, `ChoiceStaysValid`, `NeverOverReserved`, `NeverShared`, `NoMIGLost`, `RegistryImplementsLedger`, `ExclusiveMIGUnlessReported` |
| `WatcherProofs` | `TypeCorrect`, `OneInstanceHolds`, `JobSurvivesHolds`, `NoLeakHolds` |
| `WatcherLedgerProofs` | `EnteredOnceHolds`, `BoundIsReservedHolds`, `GangAtomicHolds`, `NoOverbookingHolds`, `RegistryNeverOverbooked`, `ExclusiveWithoutPreemption` |
| `ExtenderProofs` | `TypeCorrect`, `LedgerCoversHolds`, `BookedWhileBoundHolds`, `AdviceMatchesBindHolds`, `ManagerImplementsLedger` |
| `ServingProofs` | `InflightExactHolds`, `RoleKeptHolds`, `RemovesDrainedHolds`, `DrainWaitsHolds`, `DrainSettlesHolds` |
| `PressureProofs` | `InflightBalancedHolds`, `AbsorbedByUnifiedHolds`, `EarnedHolds`, `CalmSettlesHolds` |
| `DashboardProofs` | `NoSendOnClosedHolds`, `LogOrderHolds`, `RingIsTailHolds` |
| `WebhookProofs` | `SharedAccessHolds`, `UsersPartKeptHolds`, `RefusedOnlyTwiceHolds` |

Sums are avoided throughout: an amount of *m* is a segment of *m* units, a total is the
cardinality of a finite set of units, and adding or taking away is a union with or the
removal of a disjoint segment, for which the library has theorems.

**Registry.** Assumption: `RegistryAssumption` (finite sets, types; any annotations). That
routing and reserving go by the same memory is the lemma `SameMem`; that shared pods with
several GPUs join others is part of what is proved. The inductive invariant `Inv` is the
conjunction of the properties with `EntryKinds` (entries name devices of their own kind) and
`ReleaseBounds` (the loop index of `ReleasePod`). None of them is inductive alone. A pod
count stays non-negative only because it counts entries (`Accounting`). `WithinTotal` and
`ExclusiveGPU` survive a mark only because the choice made earlier still fits
(`ChoiceFits`). `ChoiceFits` survives the first mark of a two-GPU pod only because the
second is on another GPU, and survives releases only because these never raise a counter,
which again needs `Accounting`. While `ReleasePod` runs, entries it has passed are no
longer outstanding; they disappear from `podAllocations` only at its end, which is the
ledger's `Return`. The clamp of `ReleasePod` at zero, which would also reset the pod count,
never fires.

That a MIG instance has one holder (`ExclusiveMIG`) is refuted by a run, in which a report
arrives. `ExclusiveMIGUnlessReported` shows that the report is the whole cause: in a
behaviour in which no report comes for a node while one of its instances is held
(`ReportsSpareHeld`), it holds. The invariant that carries it, `NotOffered`, says that an
instance that is held is not available, if its node is known, and not what the scheduling
thread has chosen.

**Watcher.** Assumption: `WatcherAssumption` (finitely many jobs and GPUs, types; any
scenarios). `Base` is what every proof uses: types, which variables are in use at which
`pc` (`Control`), that no pod has its turn twice in a cycle (`Disjoint`), what the API
server may say of a pod (`PodStates`), what is left to place (`Placements`). On it:

* `Lives`: while `Steady`, a pod name is fresh until its pod is created, resume names are
  created in order, and only after the predecessor's deletion was accepted. `OneInstance`
  follows: a live older instance would make the younger name fresh. `Survival` strengthens
  `JobSurvives` by which pod carries the job on.
* `Ledgered` says in the middle of a cycle what `NoLeak` says between cycles: the pod being
  bound may have a reservation that nothing else backs.
* `Entries`: what may still be marked has no entries, and the registry is empty when
  reconciliation starts. `Reservations` adds to `BoundIsReserved` that the placement being
  bound is reserved already; it needs `Lives`, since an event that releases a name must be
  about the pod that has it.
* `Wholes`: of a gang of its declared size all or none were created and taken in hand, and
  once one is being placed every unbound member is among the placements left.
* `Capacity`: what the registry holds fits (`Within`); the placements not yet marked are on
  different GPUs (`Apart`) and still fit (`Fitting`), which is proved of every result of the
  strategies, the routing, the disaggregated choice and the shadow of a gang. With
  `Reservations` this gives `NoOverbooking`, and alone `RegistryNeverOverbooked`, which
  lost replies and re-used names do not disturb. In a scene without preemption no pod is
  ever being evicted (`NoEvictions`), and the same argument gives
  `ExclusiveWithoutPreemption`, for the pods that are being deleted too.

**Extender.** `ExtenderAssumption` (types). `Inv`: what a handler has read and chosen by
where it is, a booking exactly for the handlers between `Allocate` and the end of their call
(`Bookings`), at most one answered call per pod, and used memory that is the number of booked
units. `AdviceMatchesBind` compares three definitions of the best GPU and needs that a
finite set of numbers has a least one. The refinement needs that the check in `Allocate`,
made with the lock held, is the ledger's condition of a grant, whatever the bin packer read
before without it: the used memory it compares with is the number of units in the book.

**Serving.** `RebalancerAssumption`, `DeploymentAssumption` (as in `examples/inference`: per
role at most one pod in the base and one that a script adds; with more, scheduler and script
may disagree) and `RequestsAssumption`. `ProxyOK` has the counts, `RebalancerOK` the step the
goroutine has come to: the base pods are there, unmarked and older than what scripts add, so
what a scale-down selects is the script's pod (`NewestIsAdded`). Then the worker that is
drained is the one that is removed and the base pod keeps the role. `Owing` ties the two: a
request the drain waits for is still counted on the worker.

**Pressure.** `PressureAssumption` (positive sustain count and threshold, finitely many
workers and requests). `Runs`: the tracker's counters are the runs the observations end with.
`Settling`: the longer it has been calm, the higher the counter and, while the report is not
normal, the older the last change; so when the calm has lasted `Settled` ticks both guards
hold. `Balanced`: the units in flight on either side are equally many. `Absorbed`: while no
pair was listed alone, no request uses a pair, so its counts and latencies are zero, so a tick
observes nothing, so the report stays normal and the router stays with the unified worker:
a circle that only the conjunction closes.

**Dashboard.** `DashboardAssumption`. `Bus`: who still has subscribers to reach holds the
read lock, and all of them are subscribed. `Log`: the entry being published is newer than
what the streams not yet reached have. `Ring`: which entry each slot holds, by arithmetic
modulo the ring size.

**Webhook.** `WebhookAssumption` (types; users submit specifications that the API server
accepts). `Inv` says of every array what all admissions so far have made of it: it begins
with the user's, a variable stands where the user put it or in one place of its own
(`SetOnce`), and the pod is valid unless it was refused, which takes two changes, or one if
the volume names were taken. `Built` is the lemma about one admission, array by
array: every patch finds what it needs, because the first one creates the array that the
next appends to. `SharedAccess` survives a second change because `hasEnv` finds what the
first one set, and appending does not take away.

**Only model-checked.** Liveness (`WatcherLiveness`, `PublishReturns`, `LockIsTaken`), which
is out of the prover's reach. Of the choices `Placement` makes only what the capacity proof needs is proved; in particular the
order of victims, and the memory they free, are only model-checked.

## 6. Disagreements with the documentation

Shown by violation runs:

* `RegistryMIGExclusive`: the next report of a node makes an allocated MIG instance
  available again (`registry.go:60`).
* `GangPartialBind`: a refused binding of one gang member leaves the others bound.
* `RestartOverbooks`: a pod that is bound but not yet running when the scheduler restarts
  is not reconciled, and its GPU is given away.
* `SharedResume`: the resume pod of a shared pod carries the volumes and mounts the webhook
  gave its predecessor, the webhook adds them again, and the API server refuses the pod:
  the job is lost although auto-resume is on.

What the first and the third need besides is proved (section 5,
`ExclusiveMIGUnlessReported`, `ExclusiveWithoutPreemption`).

Known from the same models, without a run of their own. A shared pod that asks for several
GPUs is placed by `ScheduleGang`, which with `allowShared` skips the check for pods already
there (`binpack.go:168`, `fifo.go` alike) and never looks at MPS, so it joins the pod of an
exclusive GPU. ARCHITECTURE.md:159 says "Shared pods are routed only to MPS-enabled GPUs" and
README.md:281 "exclusively"; the webhook sets up MPS for exactly such pods
(`webhook.go:302-306`). The run `Registry` has the case: the plain pod is marked on the
exclusive GPU, then the sharing two-GPU pod on the same one and on the MPS GPU. `ExclusiveGPU`,
`ChoiceFits` and the ledger name it as their exception. `SelectVictims` does not find the
"minimal set of victims" of docs/gpu-scheduler.md:229 and :250 and of its own comment
(`preemption.go:61`, `:67`): it takes victims in eviction order, small ones before a larger one
that would do alone, does not count the memory that is free, and adds up victims of different
GPUs, which may leave no GPU with room for the pod. After a preemption the same cycle
goes on and places the next pod on the victims' memory while they are still terminating,
although `watcher.go:155` says "Wait for evicted pods to fully terminate"; the wait is at
the start of a cycle only. The late deletion event of a pod releases the reservation of its
re-created namesake, and the namesake's exclusive GPU can be given to another pod. The comment
"Wait for cache sync" (`watcher.go:117`) is followed by no wait: a pod deleted between the
reconcile listing and the informer's first list keeps its reservation for ever, although
docs/gpu-scheduler.md:504 says "The scheduler never holds stale reservations"; nor is that so
of a pod that `IsGPUPod` does not recognise (`helpers.go:102`: no memory or shared annotation,
no request for `nvidia.com/gpu`), which is scheduled and whose end the callbacks skip. The rebalancer
counts the workers in one listing and looks for unready ones in a later one; a worker that
becomes ready in between is in neither, and the scale-up script is run at the maximum (the one
of `examples/inference` then changes nothing). Further: a request that the proxy chose a worker for before
its drain and counts after the drain's last reading is cut off by the script; a failed
scale-down script leaves its worker marked, which blocks later scale-downs; a refused
deletion of a victim blocks scheduling for as long as the victim runs; a victim that is
re-created under its name before its key is remembered blocks it for ever; a crash between an eviction and the creation of the resume pod loses the
job; after a crash a victim that is still terminating may be resumed a second time; a binding accepted with a lost reply frees a GPU in use; a multi-GPU
pod that is not shared may get MPS GPUs; a refused binding followed by a refused patch
leaves the first GPU's annotation on a pod bound to the second; the rest of a gang that was
bound in part is never collected again. The properties of section 4 leave out
exactly that fault.

In the other parts: with a unified worker beside a prefill and decode pair, requests go to
the unified worker until the pair is reported hot, and the pair is measured only by its own
requests, so the report stays normal however slow the service is (`AbsorbedByUnified`);
averages move only with requests, so a hot report stays while nobody calls; since a request
counts on both sides from beginning to end, the difference of in-flight averages says how
many workers each side has (`InflightBalanced`). In the extender mode an NVML refresh
overwrites the bookings, a pod without a memory request whose bind fails takes its GPU with
it (`LedgerCovers` says that nothing else does), such a pod passes the filter on a full
node, and nothing returns the memory of a pod that ended. `GetRecent` with a limit below the
ring's size returns the oldest entries of the ring. Shared pods keep the GPU requests of
their init containers. A shared pod with a volume of its own called `gpu-info` or
`nvidia-mps` is refused when it is first created: the webhook asks which variables there are
and not which volumes.

Outside what the models tell apart: `GetNodes` offers MIG-enabled GPUs as whole GPUs to the
multi-GPU, gang and disaggregated paths; the memory of a multi-GPU gang member is divided
over its GPUs in the shadow;
the rebalancer's cooldown counts from the decision, carried out or not; the proxy records
the durations of error answers too, so a worker that fails fast attracts requests.

## 7. Not modelled

Left out for good: the web UI, the benchmark and gang-test tools, Prometheus metrics,
configuration loading, how the agent and the discoverers parse NVML, nvidia-smi and node
labels (inputs; the agent's report is an input of `Registry`, a measurement one of
`Extender`), the dashboard's read-only handlers, the injector, which only tests call, and
`FIFOQueue`, which no binary uses. In the modelled files: the registry's
`MarkGPUAllocated` / `ReleaseGPU` without a pod have no caller; the checkpoint command of
a preemption is best effort and changes no scheduler state; timed-out gangs are only
logged; the Go data race on `pendingEvictions` can abort the process, which is `Crash`.
`Watcher` has no MIG instances and no reports: nodes are known, healthy and idle, the case
in which the registry offers the most; `Registry` covers the rest.
