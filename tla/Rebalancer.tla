----------------------------- MODULE Rebalancer -----------------------------
(***************************************************************************)
(* internal/scheduler/rebalancer.go and the rebalancing loop of            *)
(* cmd/scheduler/main.go, for one model group: a tick evaluates the        *)
(* proxy's pressure report, and the decision is carried out by a script,   *)
(* for a scale-down after draining a worker.  The script is the one of     *)
(* examples/inference: it knows the one pod per role that it adds.         *)
(*                                                                         *)
(* Times are kept as their age in ticks, up to the age they are compared   *)
(* with; Never is the zero time.  A tick comes up to MaxGap ticks after    *)
(* the last one: scripts run for minutes, and a tick whose fetch fails     *)
(* changes nothing.                                                        *)
(***************************************************************************)
EXTENDS Integers, FiniteSets

CONSTANTS
  Workers, RoleOf,
  Base,           \* the workers that are there from the start
  MaxWorkers,     \* role -> MaxPrefillWorkers, MaxDecodeWorkers of the policy
  Sustain, Cooldown, AllowScaleUp, AllowScaleDown, DryRun,
  MaxGap,         \* bound: ticks from one that has a report to the next; longer gaps are the same
  RebalanceFaults \* bound: fault -> how often it may happen

ASSUME RebalancerAssumption ==
  /\ Sustain \in Nat /\ Cooldown \in Nat /\ MaxGap \in Nat
  /\ MaxGap >= Sustain /\ MaxGap >= Cooldown
  /\ RebalanceFaults \in [{"callError", "unready"} -> Nat]

\* The deployment of examples/inference: the base has one pod per role, and so has each
\* manifest that a script applies.
ASSUME DeploymentAssumption ==
  /\ Base \subseteq Workers /\ IsFiniteSet(Workers)
  /\ RoleOf \in [Workers -> {"prefill", "decode", "unified"}]
  /\ \A v, w \in Workers : RoleOf[v] = RoleOf[w] /\ (v \in Base <=> w \in Base) => v = w

Never == 0 - 1
Pressures == {"normal", "prefill_hot", "decode_hot"}

VARIABLES
  pods,      \* worker -> [phase, draining]: its pod in the API server
  older,     \* <<v, w>>: of two pods of a role, v was created first (ties go by name)
  state,     \* ModelGroupRebalanceState as ages
  rpc,       \* where the rebalancing goroutine is
  decision,  \* what it is carrying out: [kind, role]
  target,    \* the worker being drained, or those a script waits for
  rbudget    \* what is left of RebalanceFaults

rebalancerVars == <<pods, older, state, rpc, decision, target, rbudget>>

NoDecision == [kind |-> "none", role |-> "unified"]

\* The orders in which the pods of S may have been created, told apart within a role.
Creations(S) ==
  {R \in SUBSET (S \X S) :
     /\ \A v, w \in S : (<<v, w>> \in R \/ <<w, v>> \in R) <=> v # w /\ RoleOf[v] = RoleOf[w]
     /\ \A v, w \in S : <<v, w>> \in R => <<w, v>> \notin R
     /\ \A u, v, w \in S : <<u, v>> \in R /\ <<v, w>> \in R => <<u, w>> \in R}

RebalancerInit ==
  /\ pods = [w \in Workers |-> [phase |-> IF w \in Base THEN "ready" ELSE "absent", draining |-> FALSE]]
  /\ older \in Creations(Base)
  /\ state = [prefillHot |-> Never, decodeHot |-> Never, normal |-> Never, lastAction |-> Never]
  /\ rpc = "idle" /\ decision = NoDecision /\ target = {}
  /\ rbudget = RebalanceFaults

SpendOn(kind) == rbudget[kind] > 0 /\ rbudget' = [rbudget EXCEPT ![kind] = @ - 1]

-----------------------------------------------------------------------------
(* Rebalancer.Evaluate.                                                     *)

\* d ticks later.  A timer that has reached Sustain need not grow, and an action whose
\* cooldown is over is as if it had never been.
Aged(s, d) ==
  [f \in DOMAIN s |->
     IF s[f] = Never THEN Never
     ELSE IF f = "lastAction" THEN IF s[f] + d >= Cooldown THEN Never ELSE s[f] + d
     ELSE IF s[f] + d >= Sustain THEN Sustain ELSE s[f] + d]

\* The timers of the reported pressure start or run on, the others are reset.
Timed(s, pressure) ==
  LET since(age, mine) == IF ~mine THEN Never ELSE IF age = Never THEN 0 ELSE age
  IN  [s EXCEPT !.prefillHot = since(@, pressure = "prefill_hot"),
                !.decodeHot = since(@, pressure = "decode_hot"),
                !.normal = since(@, pressure = "normal")]

sustainedSince(age) == age # Never /\ age >= Sustain
inCooldown(s) == s.lastAction # Never /\ s.lastAction < Cooldown

\* The action the guards leave before the cooldown is looked at.  n counts the listed
\* workers of a role, above says that the reported latency is over its threshold.
Wanted(s, pressure, above, n) ==
  LET add(role, timer) == IF AllowScaleUp /\ above /\ n[role] < MaxWorkers[role] /\ sustainedSince(timer)
                          THEN [kind |-> "add", role |-> role] ELSE NoDecision
      unifiedOnly == n["unified"] = 1 /\ n["prefill"] = 0 /\ n["decode"] = 0
      hotTimer == IF pressure = "prefill_hot" THEN s.prefillHot ELSE s.decodeHot
      extra == n["decode"] > 1 \/ n["prefill"] > 1
  IN  IF unifiedOnly
      THEN IF /\ pressure # "normal" /\ AllowScaleUp
              /\ MaxWorkers["prefill"] > 0 /\ MaxWorkers["decode"] > 0
              /\ sustainedSince(hotTimer)
           THEN [kind |-> "both", role |-> "unified"] ELSE NoDecision
      ELSE CASE pressure = "decode_hot"  -> add("decode", s.decodeHot)
             [] pressure = "prefill_hot" -> add("prefill", s.prefillHot)
             [] OTHER -> IF extra /\ sustainedSince(s.normal) /\ AllowScaleDown
                         THEN [kind |-> "remove",
                               role |-> IF n["decode"] > 1 THEN "decode" ELSE "prefill"]
                         ELSE NoDecision

\* The new timers and the decision; lastActionAt is set with the decision.
Evaluate(s, pressure, above, n) ==
  LET t == Timed(s, pressure)
      want == Wanted(t, pressure, above, n)
  IN  IF n["prefill"] + n["decode"] + n["unified"] = 0 THEN [state |-> s, decision |-> NoDecision]
      ELSE IF want = NoDecision \/ inCooldown(t) THEN [state |-> t, decision |-> NoDecision]
      ELSE [state |-> [t EXCEPT !.lastAction = 0], decision |-> want]

-----------------------------------------------------------------------------
(* A tick of the loop.                                                      *)

Exists(w) == pods[w].phase # "absent"
Ready(w) == pods[w].phase = "ready"
OfRoleThat(role, P(_)) == {w \in Workers : RoleOf[w] = role /\ P(w)}

\* collectInferenceWorkers: the ready pods, the draining ones too; only those that
\* are not draining are routable.
Listed == [role \in {"prefill", "decode", "unified"} |-> Cardinality(OfRoleThat(role, Ready))]
Routable == {w \in Workers : Ready(w) /\ ~pods[w].draining}

RunTick(d, pressure, above) ==
  LET e == Evaluate(Aged(state, d), pressure, above, Listed)
  IN  /\ rpc = "idle"
      /\ state' = e.state
      /\ IF DryRun \/ e.decision = NoDecision
         THEN UNCHANGED <<rpc, decision>>
         ELSE rpc' = "dedupe" /\ decision' = e.decision
      /\ UNCHANGED <<pods, older, target, rbudget>>

Done == rpc' = "idle" /\ decision' = NoDecision /\ target' = {}

\* hasInProgressInferencePod and hasDrainingInferencePod list the pods anew.
InProgress(role) == \E w \in Workers : RoleOf[w] = role /\ Exists(w) /\ ~Ready(w)
Draining(role) == \E w \in Workers : RoleOf[w] = role /\ Exists(w) /\ pods[w].draining

\* checkDeduplication: the worker count was checked by Evaluate against the same list.
\* ScaleBoth is always blocked, and so is everything when the pods cannot be listed.
CheckDeduplication ==
  /\ rpc = "dedupe"
  /\ IF \/ decision.kind = "both"
        \/ decision.kind = "add" /\ InProgress(decision.role)
        \/ decision.kind = "remove" /\ Draining(decision.role)
     THEN Done
     ELSE /\ rpc' = IF decision.kind = "add" THEN "script" ELSE "select"
          /\ UNCHANGED <<decision, target>>
  /\ UNCHANGED <<pods, older, state, rbudget>>

\* The listing that checkDeduplication or selectScaleDownTargetPod needs fails.
ListFails ==
  /\ rpc \in {"dedupe", "select"}
  /\ SpendOn("callError")
  /\ Done
  /\ UNCHANGED <<pods, older, state>>

-----------------------------------------------------------------------------
(* handleRebalancerAction.                                                  *)

\* Mutant: the last ready worker may be drained too.
ScaleDownTargetsLast(role) ==
  LET C == OfRoleThat(role, LAMBDA w : Ready(w) /\ ~pods[w].draining)
  IN  {w \in C : \A v \in C \ {w} : <<v, w>> \in older}

\* Mutant: the oldest worker is drained.
ScaleDownTargetsOldest(role) ==
  LET C == OfRoleThat(role, LAMBDA w : Ready(w) /\ ~pods[w].draining)
  IN  IF Cardinality(C) <= 1 THEN {} ELSE {w \in C : \A v \in C \ {w} : <<w, v>> \in older}

\* selectScaleDownTargetPod: the newest ready worker that is not draining, if it is
\* not the only one.
ScaleDownTargets(role) ==
  LET C == OfRoleThat(role, LAMBDA w : Ready(w) /\ ~pods[w].draining)
  IN  IF Cardinality(C) <= 1 THEN {} ELSE {w \in C : \A v \in C \ {w} : <<v, w>> \in older}

SelectTarget ==
  /\ rpc = "select"
  /\ IF ScaleDownTargets(decision.role) = {} THEN Done
     ELSE target' = ScaleDownTargets(decision.role) /\ rpc' = "mark" /\ UNCHANGED decision
  /\ UNCHANGED <<pods, older, state, rbudget>>

SetDraining(b) == pods' = [w \in Workers |-> IF w \in target /\ Exists(w) THEN [pods[w] EXCEPT !.draining = b] ELSE pods[w]]

MarkPodDraining ==
  /\ rpc = "mark"
  /\ \/ SetDraining(TRUE) /\ rpc' = "drain" /\ UNCHANGED <<decision, target, rbudget>>
     \/ SpendOn("callError") /\ Done /\ UNCHANGED pods
  /\ UNCHANGED <<older, state>>

\* waitForWorkerInflightZero over the proxy's statistics: a worker the proxy has never
\* used counts as drained.
Drained(stats) == \A w \in target : w \in DOMAIN stats => stats[w] = 0

DrainSucceeds(stats) ==
  /\ rpc = "drain" /\ Drained(stats)
  /\ rpc' = "script"
  /\ UNCHANGED <<pods, older, state, decision, target, rbudget>>

\* Mutant: a drain that timed out goes on to the script.
DrainFailsGoesOn ==
  /\ rpc = "drain"
  /\ rpc' = "script"
  /\ UNCHANGED <<pods, older, state, decision, target, rbudget>>

\* Mutant: a drain that failed does not take the annotation back.
DrainFailsKeepsMark ==
  /\ rpc = "drain"
  /\ Done
  /\ UNCHANGED <<pods, older, state, rbudget>>

\* The deadline passed, or the statistics could not be fetched: the annotation is
\* taken back, if the API server lets it.
DrainFails ==
  /\ rpc = "drain"
  /\ \/ SetDraining(FALSE) /\ UNCHANGED rbudget
     \/ SpendOn("callError") /\ UNCHANGED pods
  /\ Done
  /\ UNCHANGED <<older, state>>

\* What scale-<role>-up applies and scale-<role>-down deletes.
Manifest(role) == {w \in Workers \ Base : RoleOf[w] = role}

\* The pods of the manifest are created if they are not there (a pod that exists keeps
\* its annotations), and the script waits until they are ready.
ScriptAdds ==
  LET new == {w \in Manifest(decision.role) : ~Exists(w)}
  IN  /\ rpc = "script" /\ decision.kind = "add"
      /\ pods' = [w \in Workers |-> IF w \in new THEN [phase |-> "starting", draining |-> FALSE] ELSE pods[w]]
      /\ \E R \in Creations(new) :
           older' = older \cup R \cup {e \in Workers \X new : Exists(e[1]) /\ RoleOf[e[1]] = RoleOf[e[2]]}
      /\ target' = Manifest(decision.role)
      /\ rpc' = "wait"
      /\ UNCHANGED <<state, decision, rbudget>>

\* The pods are ready, or the wait times out.
ScriptReturns ==
  /\ rpc = "wait"
  /\ \/ (\A w \in target : Ready(w)) /\ UNCHANGED rbudget
     \/ SpendOn("callError")
  /\ Done
  /\ UNCHANGED <<pods, older, state>>

\* The pods of the manifest are deleted; the script is not told which worker was drained.
ScriptRemoves ==
  /\ rpc = "script" /\ decision.kind = "remove"
  /\ pods' = [w \in Workers |-> IF w \in Manifest(decision.role)
                                THEN [phase |-> "absent", draining |-> FALSE] ELSE pods[w]]
  /\ older' = {e \in older : e[1] \notin Manifest(decision.role) /\ e[2] \notin Manifest(decision.role)}
  /\ Done
  /\ UNCHANGED <<state, rbudget>>

\* The script is missing, which is noticed before a worker is drained, or it fails:
\* nothing is undone.
ScriptFails ==
  /\ rpc = "script" \/ rpc = "select"
  /\ SpendOn("callError")
  /\ Done
  /\ UNCHANGED <<pods, older, state>>

-----------------------------------------------------------------------------
(* Kubelets: a pod becomes ready, and may lose its readiness.               *)

PodReady(w) ==
  /\ pods[w].phase = "starting"
  /\ pods' = [pods EXCEPT ![w].phase = "ready"]
  /\ UNCHANGED <<older, state, rpc, decision, target, rbudget>>

PodUnready(w) ==
  /\ pods[w].phase = "ready"
  /\ SpendOn("unready")
  /\ pods' = [pods EXCEPT ![w].phase = "starting"]
  /\ UNCHANGED <<older, state, rpc, decision, target>>
=============================================================================
