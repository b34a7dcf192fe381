------------------------------ MODULE Serving ------------------------------
(***************************************************************************)
(* The rebalancer and the proxy together.  They meet in three places, each *)
(* an HTTP call: the proxy copies the scheduler's worker list, the         *)
(* rebalancer reads the proxy's pressure report at a tick and, while it    *)
(* drains a worker, its in-flight counts.                                  *)
(*                                                                         *)
(* The pressure report is an input of ticks and requests: it may change    *)
(* between any two of them, which includes whatever the proxy's            *)
(* pressureLoop makes of its load.                                         *)
(***************************************************************************)
EXTENDS Rebalancer

CONSTANT Requests

ASSUME RequestsAssumption == IsFiniteSet(Requests)

VARIABLES workers, stats, request,   \* as in Proxy
          owed                                \* requests counted on the worker when its drain began

INSTANCE Proxy

proxyVars == <<workers, stats, request>>
vars == <<rebalancerVars, proxyVars, owed>>

Init == RebalancerInit /\ ProxyInit /\ owed = {}

Tick ==
  /\ \E d \in 1..MaxGap, pressure \in Pressures, above \in BOOLEAN : RunTick(d, pressure, above)
  /\ UNCHANGED <<proxyVars, owed>>

BeginDrain ==
  /\ MarkPodDraining
  /\ owed' = IF rpc' = "drain" THEN UNION {ActiveOn(w) : w \in target} ELSE {}
  /\ UNCHANGED proxyVars

\* One step of the rebalancing goroutine after its tick.
Act ==
  /\ \/ CheckDeduplication \/ ListFails \/ SelectTarget
     \/ DrainSucceeds(stats) \/ DrainFails
     \/ ScriptAdds \/ ScriptReturns \/ ScriptRemoves \/ ScriptFails
  /\ UNCHANGED <<proxyVars, owed>>

Kubelet ==
  /\ \E w \in Workers : PodReady(w) \/ PodUnready(w)
  /\ UNCHANGED <<proxyVars, owed>>

Sync ==
  /\ FetchWorkers(Routable)
  /\ UNCHANGED <<rebalancerVars, owed>>

Serve(r) ==
  /\ Handle(r)
  /\ owed' = IF request'[r].phase = "none" THEN owed \ {r} ELSE owed
  /\ UNCHANGED rebalancerVars

Next ==
  \/ Tick \/ BeginDrain \/ Act \/ Kubelet \/ Sync
  \/ \E r \in Requests : Serve(r)

Spec == Init /\ [][Next]_vars

-----------------------------------------------------------------------------
(* Properties.                                                              *)

\* The count the drain relies on is the number of requests being forwarded to the
\* worker, whatever each of them comes to and however the worker list changes meanwhile.
InflightExact == \A w \in Workers : (IF w \in DOMAIN stats THEN stats[w] ELSE 0) = Cardinality(ActiveOn(w))

\* A scale-down never takes a role's last worker: although workers lose and regain
\* their readiness between the evaluation, the selection, the drain and the script,
\* every role of the base deployment keeps a pod that is not draining.
RoleKept == \A b \in Base : \E w \in Workers : RoleOf[w] = RoleOf[b] /\ Exists(w) /\ ~pods[w].draining

\* What the script removes is the worker that was drained: the newest ready worker,
\* which the scheduler selects, is the one the script added, although the script is
\* not told and readiness may change between the selection and the script.
RemovesDrained == rpc = "script" /\ decision.kind = "remove" => target = Manifest(decision.role)

\* Requests that were in flight on a worker when its drain began have ended when the
\* script that removes it starts.
DrainWaits == rpc = "script" /\ decision.kind = "remove" => owed = {}

\* No worker stays marked as draining, taking no requests but counted as a worker: when
\* no scale-down is under way the mark has been taken back or its worker removed, unless
\* a script or a call to the API server failed.
DrainSettles ==
  ~(decision.kind = "remove" /\ rpc \in {"drain", "script"}) /\ rbudget["callError"] = RebalanceFaults["callError"]
    => \A w \in Workers : ~pods[w].draining
=============================================================================
