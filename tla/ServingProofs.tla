--------------------------- MODULE ServingProofs ---------------------------
(***************************************************************************)
(* Proofs about the rebalancer and the proxy together, for any number of   *)
(* workers and requests: the in-flight counts are exact, and what the      *)
(* rebalancer drains is what its script removes.                           *)
(*                                                                         *)
(* The inductive invariant has a part for the proxy, ProxyOK, which only   *)
(* requests and the worker list can disturb, and one for the rebalancer,   *)
(* RebalancerOK, which they leave alone; Owing relates the two.            *)
(***************************************************************************)
EXTENDS Serving, FiniteSetTheorems, TLAPS

Roles == {"prefill", "decode", "unified"}
Request == [phase : {"none", "chosen", "prefill", "decode", "single"}, uses : SUBSET Workers]
Active == {"prefill", "decode", "single"}

\* The proxy: a request uses known workers, and counts on each exactly while it is active.
ProxyOK ==
  /\ workers \subseteq Workers
  /\ DOMAIN stats \subseteq Workers /\ \A w \in DOMAIN stats : stats[w] \in Nat
  /\ request \in [Requests -> Request]
  /\ InflightExact

\* Values of the rebalancer's variables.
RebalancerTypes ==
  /\ pods \in [Workers -> [phase : {"absent", "starting", "ready"}, draining : BOOLEAN]]
  /\ target \subseteq Workers
  /\ rpc \in {"idle", "dedupe", "select", "mark", "drain", "script", "wait"}
  /\ decision \in [kind : {"none", "add", "remove", "both"}, role : Roles]
  /\ rbudget \in [{"callError", "unready"} -> Nat]
  /\ rbudget["callError"] <= RebalanceFaults["callError"]

\* What is being carried out, by where the goroutine is.
Carrying ==
  /\ rpc = "dedupe" => decision.kind # "none"
  /\ rpc \in {"select", "mark", "drain"} => decision.kind = "remove"
  /\ rpc = "wait" => decision.kind = "add"

\* A removal is under way and its worker has been selected.
Removing == rpc \in {"mark", "drain"} \/ (rpc = "script" /\ decision.kind = "remove")

\* The pods of the base are never deleted nor drained, and older than those a script adds.
BaseKept ==
  /\ \A b \in Base : Exists(b) /\ ~pods[b].draining
  /\ \A b \in Base, w \in Workers \ Base :
       <<w, b>> \notin older /\ (Exists(w) /\ RoleOf[b] = RoleOf[w] => <<b, w>> \in older)

\* Without a failed call, only the worker of the removal under way is marked.
Marked ==
  /\ \A w \in Workers : pods[w].draining => Exists(w)
  /\ rbudget["callError"] = RebalanceFaults["callError"] =>
       \A w \in Workers : pods[w].draining =>
          w \in target /\ decision.kind = "remove" /\ rpc \in {"drain", "script"}

RebalancerOK ==
  /\ RebalancerTypes /\ Carrying /\ BaseKept /\ Marked
  /\ Removing => target = Manifest(decision.role)

\* Requests the drain waits for are still counted on the worker.
Owing ==
  /\ owed \subseteq Requests
  /\ rpc = "drain" => owed \subseteq UNION {ActiveOn(w) : w \in target}
  /\ DrainWaits

\* The inductive invariant.
Inv == ProxyOK /\ RebalancerOK /\ Owing

-----------------------------------------------------------------------------
(* The proxy.                                                               *)

\* The count of a worker, 0 when the proxy has no statistics of it.
CountOn(w) == IF w \in DOMAIN stats THEN stats[w] ELSE 0

\* The requests on a worker are finitely many, and none when the count is 0.
LEMMA ActiveFinite ==
  ASSUME NEW w
  PROVE  /\ IsFiniteSet(ActiveOn(w)) /\ Cardinality(ActiveOn(w)) \in Nat
         /\ Cardinality(ActiveOn(w)) = 0 => ActiveOn(w) = {}
<1>1. ActiveOn(w) \subseteq Requests
  BY DEF ActiveOn
<1>2. IsFiniteSet(ActiveOn(w))
  BY <1>1, RequestsAssumption, FS_Subset
<1> QED  BY <1>2, FS_CardinalityType, FS_EmptySet

\* The workers a request may be sent to are on the proxy's list.
LEMMA ChosenListed ==
  ASSUME NEW pressure, NEW S \in FindRequestWorker(pressure)
  PROVE  S \subseteq workers
<1>1. \A W : FindBest(W) \subseteq W
  BY DEF FindBest
<1> DEFINE prefill == OfRole(workers, "prefill")
           decode  == OfRole(workers, "decode")
           unified == OfRole(workers, "unified")
<1>2. \/ S \in {{p, d} : p \in FindBest(prefill), d \in FindBest(decode)}
      \/ S \in {{u} : u \in FindBest(unified)}
  BY DEF FindRequestWorker
<1>3. prefill \subseteq workers /\ decode \subseteq workers /\ unified \subseteq workers
  BY DEF OfRole
<1> HIDE DEF prefill, decode, unified
<1> QED  BY <1>1, <1>2, <1>3

\* A request that begins counts on its workers from then on.
LEMMA BeginCounts ==
  ASSUME ProxyOK, NEW r \in Requests, BeginRequest(r)
  PROVE  ProxyOK' /\ \A w \in Workers : ActiveOn(w) \subseteq ActiveOn(w)'
<1> USE DEF ProxyOK
<1>1. PICK uses, phase : uses = request[r].uses /\ phase = request'[r].phase
  OBVIOUS
<1>2. /\ uses \subseteq Workers /\ phase \in {"prefill", "single"} /\ request[r].phase = "chosen"
      /\ request'[r].uses = uses /\ request' \in [Requests -> Request]
      /\ \A q \in Requests \ {r} : request'[q] = request[q]
  BY <1>1 DEF BeginRequest, Request
<1>3. /\ DOMAIN stats' = DOMAIN stats \cup uses
      /\ \A w \in DOMAIN stats' : stats'[w] = (IF w \in DOMAIN stats THEN stats[w] ELSE 0) + (IF w \in uses THEN 1 ELSE 0)
  BY <1>1 DEF BeginRequest
<1>4. ASSUME NEW w \in Workers
      PROVE  ActiveOn(w)' = IF w \in uses THEN ActiveOn(w) \cup {r} ELSE ActiveOn(w)
  BY <1>1, <1>2 DEF ActiveOn
<1>5. ASSUME NEW w \in Workers
      PROVE  CountOn(w)' = Cardinality(ActiveOn(w)')
  <2>1. r \notin ActiveOn(w)
    BY <1>2 DEF ActiveOn
  <2>2. CountOn(w) = Cardinality(ActiveOn(w)) /\ IsFiniteSet(ActiveOn(w)) /\ Cardinality(ActiveOn(w)) \in Nat
    BY ActiveFinite DEF InflightExact, CountOn
  <2>3. CASE w \in uses
    <3>1. Cardinality(ActiveOn(w) \cup {r}) = Cardinality(ActiveOn(w)) + 1
      BY <2>1, <2>2, FS_AddElement
    <3>2. CountOn(w)' = CountOn(w) + 1
      BY <1>3, <2>2, <2>3 DEF CountOn
    <3> QED  BY <1>4, <2>2, <2>3, <3>1, <3>2
  <2>4. CASE w \notin uses
    BY <1>3, <1>4, <2>2, <2>4 DEF CountOn
  <2> QED  BY <2>3, <2>4
<1>6. InflightExact'
  BY <1>5 DEF InflightExact, CountOn
<1>7. DOMAIN stats' \subseteq Workers /\ \A w \in DOMAIN stats' : stats'[w] \in Nat
  BY <1>2, <1>3
<1> QED  BY <1>2, <1>4, <1>6, <1>7 DEF BeginRequest

\* A request that ends is taken off its workers, whose counts are not 0.
LEMMA EndCounts ==
  ASSUME ProxyOK, NEW r \in Requests, EndRequest(r)
  PROVE  /\ ProxyOK' /\ request'[r].phase = "none"
         /\ \A w \in Workers : ActiveOn(w) \ {r} \subseteq ActiveOn(w)'
<1> USE DEF ProxyOK
<1>1. PICK uses : uses = request[r].uses
  OBVIOUS
<1>2. /\ uses \subseteq Workers /\ request[r].phase \in Active
      /\ request'[r] = NoRequest /\ request' \in [Requests -> Request]
      /\ \A q \in Requests \ {r} : request'[q] = request[q]
  BY <1>1 DEF EndRequest, Request, NoRequest, Active
<1>3. /\ DOMAIN stats' = DOMAIN stats
      /\ \A w \in DOMAIN stats : stats'[w] = IF w \in uses /\ stats[w] > 0 THEN stats[w] - 1 ELSE stats[w]
  BY <1>1 DEF EndRequest
<1>4. ASSUME NEW w \in Workers
      PROVE  ActiveOn(w)' = ActiveOn(w) \ {r}
  BY <1>2 DEF ActiveOn, NoRequest
<1>5. ASSUME NEW w \in Workers
      PROVE  CountOn(w)' = Cardinality(ActiveOn(w)')
  <2>1. r \in ActiveOn(w) <=> w \in uses
    BY <1>1, <1>2 DEF ActiveOn, Active
  <2>2. CountOn(w) = Cardinality(ActiveOn(w)) /\ IsFiniteSet(ActiveOn(w)) /\ Cardinality(ActiveOn(w)) \in Nat
        /\ (Cardinality(ActiveOn(w)) = 0 => ActiveOn(w) = {})
    BY ActiveFinite DEF InflightExact, CountOn
  <2>3. CASE w \in uses
    <3>1. Cardinality(ActiveOn(w) \ {r}) = Cardinality(ActiveOn(w)) - 1
      BY <2>1, <2>2, <2>3, FS_RemoveElement
    <3>2. Cardinality(ActiveOn(w)) # 0
      BY <2>1, <2>2, <2>3
    <3>3. w \in DOMAIN stats /\ stats[w] > 0
      BY <2>2, <3>2 DEF CountOn
    <3> QED  BY <1>3, <1>4, <2>2, <2>3, <3>1, <3>3 DEF CountOn
  <2>4. CASE w \notin uses
    <3>1. ActiveOn(w) \ {r} = ActiveOn(w)
      BY <2>1, <2>4
    <3> QED  BY <1>3, <1>4, <2>2, <2>4, <3>1 DEF CountOn
  <2> QED  BY <2>3, <2>4
<1>6. InflightExact'
  BY <1>5 DEF InflightExact, CountOn
<1>7. \A w \in DOMAIN stats' : stats'[w] \in Nat
  BY <1>3
<1> QED  BY <1>2, <1>3, <1>4, <1>6, <1>7 DEF EndRequest, NoRequest

\* Whatever a request does, the counts stay exact, no other request is touched, and its
\* own place on a worker is given up only when it is over.
LEMMA HandleCounts ==
  ASSUME ProxyOK, NEW r \in Requests, Handle(r)
  PROVE  /\ ProxyOK'
         /\ \A w \in Workers : ActiveOn(w) \ {r} \subseteq ActiveOn(w)'
         /\ request'[r].phase # "none" => \A w \in Workers : ActiveOn(w) \subseteq ActiveOn(w)'
<1>1. ASSUME NEW pressure, ChooseWorkers(r, pressure)
      PROVE  ProxyOK' /\ \A w \in Workers : ActiveOn(w)' = ActiveOn(w)
  <2>1. PICK S \in FindRequestWorker(pressure) : request' = [request EXCEPT ![r] = [phase |-> "chosen", uses |-> S]]
    BY <1>1 DEF ChooseWorkers
  <2>2. S \subseteq Workers
    BY <2>1, ChosenListed DEF ProxyOK
  <2>3. /\ request' \in [Requests -> Request] /\ request'[r].phase = "chosen" /\ request[r].phase = "none"
        /\ \A q \in Requests \ {r} : request'[q] = request[q]
    BY <1>1, <2>1, <2>2 DEF ProxyOK, Request, ChooseWorkers
  <2>4. \A w \in Workers : ActiveOn(w)' = ActiveOn(w)
    BY <2>3 DEF ActiveOn
  <2> QED  BY <1>1, <2>3, <2>4 DEF ProxyOK, InflightExact, ChooseWorkers
<1>2. ASSUME PrefillDone(r)
      PROVE  ProxyOK' /\ \A w \in Workers : ActiveOn(w)' = ActiveOn(w)
  <2>1. /\ request' \in [Requests -> Request] /\ request'[r].phase = "decode" /\ request[r].phase = "prefill"
        /\ request'[r].uses = request[r].uses
        /\ \A q \in Requests \ {r} : request'[q] = request[q]
    BY <1>2 DEF ProxyOK, Request, PrefillDone
  <2>2. \A w \in Workers : ActiveOn(w)' = ActiveOn(w)
    BY <2>1 DEF ActiveOn
  <2> QED  BY <1>2, <2>1, <2>2 DEF ProxyOK, InflightExact, PrefillDone
<1>3. ASSUME BeginRequest(r) PROVE ProxyOK' /\ \A w \in Workers : ActiveOn(w) \subseteq ActiveOn(w)'
  BY <1>3, BeginCounts
<1>4. ASSUME EndRequest(r)
      PROVE  /\ ProxyOK' /\ request'[r].phase = "none"
             /\ \A w \in Workers : ActiveOn(w) \ {r} \subseteq ActiveOn(w)'
  BY <1>4, EndCounts
<1> QED  BY <1>1, <1>2, <1>3, <1>4 DEF Handle

-----------------------------------------------------------------------------
(* The rebalancer.                                                          *)

\* A set whose elements are all equal has one of them at most.
LEMMA AtMostOne ==
  ASSUME NEW S, \A x, y \in S : x = y
  PROVE  Cardinality(S) <= 1
<1>1. S = {} => Cardinality(S) <= 1
  BY FS_EmptySet
<1>2. ASSUME NEW x \in S PROVE Cardinality(S) <= 1
  <2>1. S = {x}
    BY <1>2
  <2> QED  BY <2>1, FS_Singleton
<1> QED  BY <1>1, <1>2

\* What is selected for a scale-down is what the script adds: of two ready workers of a
\* role one is the base's, and the other is newer.
LEMMA NewestIsAdded ==
  ASSUME RebalancerOK, NEW role \in Roles, ScaleDownTargets(role) # {}
  PROVE  ScaleDownTargets(role) = Manifest(role)
<1> DEFINE C == OfRoleThat(role, LAMBDA w : Ready(w) /\ ~pods[w].draining)
<1>1. ~(Cardinality(C) <= 1) /\ ScaleDownTargets(role) = {w \in C : \A v \in C \ {w} : <<v, w>> \in older}
  BY DEF ScaleDownTargets
<1>2. \A w \in C : w \in Workers /\ RoleOf[w] = role /\ Exists(w)
  BY DEF OfRoleThat, Ready, Exists
<1> HIDE DEF C
<1>3. PICK x \in C, y \in C : x # y
  BY <1>1, AtMostOne
<1>4. PICK b, m : b \in C /\ m \in C /\ b \in Base /\ m \in Workers \ Base
  <2>1. ~(x \in Base <=> y \in Base)
    BY <1>2, <1>3, DeploymentAssumption
  <2> QED  BY <1>2, <2>1
<1>5. C = {b, m}
  <2>1. \A w \in C : w = b \/ w = m
    BY <1>2, <1>4, DeploymentAssumption
  <2> QED  BY <1>4, <2>1
<1>6. <<b, m>> \in older /\ <<m, b>> \notin older
  BY <1>2, <1>4 DEF RebalancerOK, BaseKept
<1>7. {w \in C : \A v \in C \ {w} : <<v, w>> \in older} = {m}
  BY <1>4, <1>5, <1>6
<1>8. Manifest(role) = {m}
  BY <1>2, <1>4, DeploymentAssumption DEF Manifest
<1> QED  BY <1>1, <1>7, <1>8

\* An evaluation decides nothing, or one of the actions.
LEMMA DecisionTypes ==
  ASSUME NEW s, NEW pressure \in Pressures, NEW above, NEW n
  PROVE  LET d == Evaluate(s, pressure, above, n).decision
         IN  d = NoDecision \/ (d.kind \in {"add", "remove", "both"} /\ d \in [kind : {"none", "add", "remove", "both"}, role : Roles])
<1> DEFINE D == {NoDecision} \cup [kind : {"add", "remove", "both"}, role : Roles]
<1>1. ASSUME NEW t PROVE Wanted(t, pressure, above, n) \in D
  BY DEF Wanted, Roles, Pressures
<1>2. Evaluate(s, pressure, above, n).decision \in D
  <2>1. NoDecision \in D
    OBVIOUS
  <2> HIDE DEF D
  <2> QED  BY <1>1, <2>1 DEF Evaluate
<1> QED  BY <1>2 DEF Roles

\* A tick starts a decision or leaves everything but the timers.
LEMMA TickStep ==
  ASSUME Inv, Tick
  PROVE  Inv'
<1> USE DEF Inv
<1>1. PICK d \in 1..MaxGap, pressure \in Pressures, above \in BOOLEAN : RunTick(d, pressure, above)
  BY DEF Tick
<1>2. UNCHANGED <<workers, stats, request, owed, pods, older, target, rbudget>> /\ rpc = "idle"
  BY <1>1 DEF Tick, RunTick, proxyVars
<1>3. \/ UNCHANGED <<rpc, decision>>
      \/ /\ rpc' = "dedupe" /\ decision' \in [kind : {"none", "add", "remove", "both"}, role : Roles]
         /\ decision'.kind \in {"add", "remove", "both"}
  <2> DEFINE e == Evaluate(Aged(state, d), pressure, above, Listed)
  <2>1. \/ UNCHANGED <<rpc, decision>>
        \/ rpc' = "dedupe" /\ decision' = e.decision /\ e.decision # NoDecision
    BY <1>1 DEF RunTick
  <2>2. e.decision = NoDecision \/ (e.decision.kind \in {"add", "remove", "both"}
                                      /\ e.decision \in [kind : {"none", "add", "remove", "both"}, role : Roles])
    BY DecisionTypes
  <2> HIDE DEF e
  <2> QED  BY <2>1, <2>2
<1>4. ProxyOK'
  BY <1>2 DEF ProxyOK, InflightExact, ActiveOn
<1>5. RebalancerTypes' /\ Carrying'
  BY <1>2, <1>3 DEF RebalancerOK, RebalancerTypes, Carrying
<1>6. BaseKept'
  BY <1>2 DEF RebalancerOK, BaseKept, Exists
<1>7. Marked'
  BY <1>2, <1>3 DEF RebalancerOK, Marked, Exists
<1>8. ~Removing' /\ Owing'
  BY <1>2, <1>3 DEF Removing, Owing, DrainWaits
<1> QED  BY <1>4, <1>5, <1>6, <1>7, <1>8 DEF RebalancerOK

\* A step that leaves the proxy alone keeps its counts.
LEMMA ProxyKept ==
  ASSUME ProxyOK, UNCHANGED proxyVars
  PROVE  ProxyOK' /\ \A w : ActiveOn(w)' = ActiveOn(w)
BY DEF ProxyOK, InflightExact, ActiveOn, proxyVars

\* A fault that is spent is not spent again.
LEMMA Spent ==
  ASSUME RebalancerTypes, NEW kind \in {"callError", "unready"}, SpendOn(kind)
  PROVE  /\ rbudget' \in [{"callError", "unready"} -> Nat]
         /\ rbudget'["callError"] <= RebalanceFaults["callError"]
         /\ kind = "callError" => rbudget'["callError"] # RebalanceFaults["callError"]
         /\ kind = "unready" => rbudget'["callError"] = rbudget["callError"]
<1>1. RebalanceFaults["callError"] \in Nat
  BY RebalancerAssumption
<1> QED  BY <1>1 DEF RebalancerTypes, SpendOn

\* The goroutine returns to its loop: no mark may be left unless a call has failed.
LEMMA Finished ==
  ASSUME Inv, Done, UNCHANGED <<workers, stats, request, owed>>, BaseKept',
         pods' \in [Workers -> [phase : {"absent", "starting", "ready"}, draining : BOOLEAN]],
         rbudget' \in [{"callError", "unready"} -> Nat],
         rbudget'["callError"] <= RebalanceFaults["callError"],
         \A w \in Workers : pods'[w].draining => pods'[w].phase # "absent",
         rbudget'["callError"] = RebalanceFaults["callError"] => \A w \in Workers : ~pods'[w].draining
  PROVE  Inv'
<1>1. ProxyOK'
  BY ProxyKept DEF Inv, proxyVars
<1>2. RebalancerTypes' /\ Carrying' /\ ~Removing'
  BY DEF Done, NoDecision, RebalancerTypes, Carrying, Removing, Roles
<1>3. Marked'
  BY DEF Marked, Exists
<1>4. Owing'
  BY DEF Inv, Owing, Done, DrainWaits
<1> QED  BY <1>1, <1>2, <1>3, <1>4 DEF Inv, RebalancerOK

\* A call failed, and the goroutine gives up without touching a pod.
LEMMA GivenUp ==
  ASSUME Inv, Done, SpendOn("callError"), UNCHANGED <<workers, stats, request, owed, pods, older>>
  PROVE  Inv'
<1>1. RebalancerTypes
  BY DEF Inv, RebalancerOK
<1>2. /\ rbudget' \in [{"callError", "unready"} -> Nat]
      /\ rbudget'["callError"] <= RebalanceFaults["callError"]
      /\ rbudget'["callError"] # RebalanceFaults["callError"]
  BY <1>1, Spent
<1>3. BaseKept'
  BY DEF Inv, RebalancerOK, BaseKept, Exists
<1>4. pods' \in [Workers -> [phase : {"absent", "starting", "ready"}, draining : BOOLEAN]]
  BY <1>1 DEF RebalancerTypes
<1>5. \A w \in Workers : pods'[w].draining => pods'[w].phase # "absent"
  BY DEF Inv, RebalancerOK, Marked, Exists
<1> QED  BY <1>2, <1>3, <1>4, <1>5, Finished

\* The goroutine returns when no worker is being removed, and there is nothing to undo.
LEMMA Returned ==
  ASSUME Inv, Done, rpc \in {"dedupe", "select", "wait"},
         UNCHANGED <<workers, stats, request, owed, pods, older, rbudget>>
  PROVE  Inv'
<1>1. RebalancerTypes
  BY DEF Inv, RebalancerOK
<1>2. BaseKept'
  BY DEF Inv, RebalancerOK, BaseKept, Exists
<1>3. /\ pods' \in [Workers -> [phase : {"absent", "starting", "ready"}, draining : BOOLEAN]]
      /\ rbudget' \in [{"callError", "unready"} -> Nat]
      /\ rbudget'["callError"] <= RebalanceFaults["callError"]
  BY <1>1 DEF RebalancerTypes
<1>4. \A w \in Workers : pods'[w].draining => pods'[w].phase # "absent"
  BY DEF Inv, RebalancerOK, Marked, Exists
<1>5. rbudget'["callError"] = RebalanceFaults["callError"] => \A w \in Workers : ~pods'[w].draining
  BY DEF Inv, RebalancerOK, Marked
<1> QED  BY <1>2, <1>3, <1>4, <1>5, Finished

\* The goroutine moves on without touching a pod.
LEMMA MovesOn ==
  ASSUME Inv, UNCHANGED <<workers, stats, request, owed, pods, older, rbudget, decision>>,
         rpc \in {"dedupe", "select", "drain"},
         rpc' \in {"select", "mark", "script"}, target' \subseteq Workers,
         rpc = "drain" => rpc' = "script" /\ target' = target,
         rpc' \in {"select", "mark"} => decision.kind = "remove",
         Removing' => target' = Manifest(decision.role),
         rpc' = "script" /\ decision.kind = "remove" => owed = {}
  PROVE  Inv'
<1>1. ProxyOK'
  BY ProxyKept DEF Inv, proxyVars
<1>2. RebalancerTypes' /\ Carrying'
  BY DEF Inv, RebalancerOK, RebalancerTypes, Carrying
<1>3. BaseKept'
  BY DEF Inv, RebalancerOK, BaseKept, Exists
<1>4. Marked'
  BY DEF Inv, RebalancerOK, Marked, Exists, Carrying
<1>5. Owing'
  BY DEF Inv, Owing, DrainWaits
<1>6. Removing' => target' = Manifest(decision.role)'
  BY DEF Manifest
<1> QED  BY <1>1, <1>2, <1>3, <1>4, <1>5, <1>6 DEF Inv, RebalancerOK

\* Checking, selecting and waiting for the drain.
LEMMA GoroutineSteps ==
  ASSUME Inv, UNCHANGED <<workers, stats, request, owed>>,
         CheckDeduplication \/ ListFails \/ SelectTarget \/ DrainSucceeds(stats) \/ ScriptReturns \/ ScriptFails
  PROVE  Inv'
<1>1. CASE CheckDeduplication
  <2>1. UNCHANGED <<pods, older, rbudget>> /\ rpc = "dedupe" /\ decision.kind \in {"add", "remove", "both"}
    BY <1>1 DEF CheckDeduplication, Inv, RebalancerOK, Carrying, RebalancerTypes
  <2>2. \/ Done
        \/ /\ rpc' = IF decision.kind = "add" THEN "script" ELSE "select"
           /\ decision.kind # "both" /\ UNCHANGED <<decision, target>>
    BY <1>1 DEF CheckDeduplication
  <2>3. target \subseteq Workers
    BY DEF Inv, RebalancerOK, RebalancerTypes
  <2> QED  BY <2>1, <2>2, <2>3, Returned, MovesOn DEF Removing
<1>2. CASE ListFails
  BY <1>2, GivenUp DEF ListFails
<1>3. CASE SelectTarget
  <2>1. UNCHANGED <<pods, older, rbudget>> /\ rpc = "select" /\ decision.kind = "remove" /\ decision.role \in Roles
    BY <1>3 DEF SelectTarget, Inv, RebalancerOK, Carrying, RebalancerTypes
  <2>2. PICK role, T : role = decision.role /\ T = ScaleDownTargets(role)
    OBVIOUS
  <2>3. T # {} => T = Manifest(role)
    BY <2>1, <2>2, NewestIsAdded DEF Inv
  <2>4. Done \/ (T # {} /\ target' = T /\ rpc' = "mark" /\ UNCHANGED decision)
    BY <1>3, <2>2 DEF SelectTarget
  <2>5. Manifest(role) \subseteq Workers
    BY DEF Manifest
  <2> QED  BY <2>1, <2>2, <2>3, <2>4, <2>5, Returned, MovesOn
<1>4. CASE DrainSucceeds(stats)
  <2>1. UNCHANGED <<pods, older, rbudget, decision, target>> /\ rpc = "drain" /\ rpc' = "script"
    BY <1>4 DEF DrainSucceeds
  <2>2. owed = {}
    <3>1. \A w \in target : w \in Workers /\ CountOn(w) = 0
      BY <1>4 DEF DrainSucceeds, Drained, CountOn, Inv, RebalancerOK, RebalancerTypes
    <3>2. \A w \in target : ActiveOn(w) = {}
      BY <3>1, ActiveFinite DEF Inv, ProxyOK, InflightExact, CountOn
    <3> QED  BY <2>1, <3>2 DEF Inv, Owing
  <2>3. target = Manifest(decision.role) /\ target \subseteq Workers
    BY <2>1 DEF Inv, RebalancerOK, RebalancerTypes, Removing
  <2> QED  BY <2>1, <2>2, <2>3, MovesOn
<1>5. CASE ScriptReturns
  <2>1. Done /\ rpc = "wait" /\ UNCHANGED <<pods, older>> /\ (UNCHANGED rbudget \/ SpendOn("callError"))
    BY <1>5 DEF ScriptReturns
  <2> QED  BY <2>1, Returned, GivenUp
<1>6. CASE ScriptFails
  BY <1>6, GivenUp DEF ScriptFails
<1> QED  BY <1>1, <1>2, <1>3, <1>4, <1>5, <1>6

\* The annotation is set on, or taken from, the worker being removed, which is not of the base.
LEMMA DrainingSet ==
  ASSUME RebalancerOK, Removing, NEW b \in BOOLEAN, SetDraining(b), UNCHANGED older
  PROVE  /\ pods' \in [Workers -> [phase : {"absent", "starting", "ready"}, draining : BOOLEAN]]
         /\ BaseKept'
         /\ \A w \in Workers : pods'[w].draining => pods'[w].phase # "absent"
         /\ b => \A w \in Workers : pods'[w].draining => w \in target \/ pods[w].draining
         /\ ~b => \A w \in Workers : pods'[w].draining => pods[w].draining /\ w \notin target
<1>1. pods \in [Workers -> [phase : {"absent", "starting", "ready"}, draining : BOOLEAN]]
  BY DEF RebalancerOK, RebalancerTypes
<1>2. \A w \in Workers : pods[w].draining => pods[w].phase # "absent"
  BY DEF RebalancerOK, Marked, Exists
<1>3. \A w \in Workers : pods'[w] = IF w \in target /\ pods[w].phase # "absent"
                                    THEN [pods[w] EXCEPT !.draining = b] ELSE pods[w]
  BY DEF SetDraining, Exists
<1>4. \A w \in Workers : /\ pods'[w].phase = pods[w].phase
                         /\ w \in target /\ pods[w].phase # "absent" => pods'[w].draining = b
                         /\ ~(w \in target /\ pods[w].phase # "absent") => pods'[w] = pods[w]
  BY <1>1, <1>3
<1>5. pods' \in [Workers -> [phase : {"absent", "starting", "ready"}, draining : BOOLEAN]]
  BY <1>1 DEF SetDraining
<1>6. \A w \in Base : w \notin target
  BY DEF RebalancerOK, Manifest
<1>7. BaseKept'
  <2>1. \A w \in Base : w \in Workers
    BY DeploymentAssumption
  <2> QED  BY <1>4, <1>6, <2>1 DEF RebalancerOK, BaseKept, Exists
<1>8. \A w \in Workers : pods'[w].draining => pods'[w].phase # "absent"
  BY <1>2, <1>4, Zenon
<1>9. b => \A w \in Workers : pods'[w].draining => w \in target \/ pods[w].draining
  BY <1>4, Zenon
<1>10. ~b => \A w \in Workers : pods'[w].draining => pods[w].draining /\ w \notin target
  BY <1>2, <1>4, Zenon
<1> QED  BY <1>5, <1>7, <1>8, <1>9, <1>10

\* markPodDraining: the requests counted on the worker now are those to wait for.
LEMMA BeginDrainStep ==
  ASSUME Inv, BeginDrain
  PROVE  Inv'
<1>1. rpc = "mark" /\ Removing /\ decision.kind = "remove" /\ target = Manifest(decision.role) /\ UNCHANGED older
  BY DEF BeginDrain, MarkPodDraining, Inv, RebalancerOK, Removing, Carrying
<1>2. \/ SetDraining(TRUE) /\ rpc' = "drain" /\ UNCHANGED <<decision, target, rbudget>>
      \/ SpendOn("callError") /\ Done /\ UNCHANGED pods
  BY DEF BeginDrain, MarkPodDraining
<1>3. UNCHANGED proxyVars /\ owed' = IF rpc' = "drain" THEN UNION {ActiveOn(w) : w \in target} ELSE {}
  BY DEF BeginDrain
<1>4. ProxyOK' /\ \A w : ActiveOn(w)' = ActiveOn(w)
  BY <1>3, ProxyKept DEF Inv
<1>5. CASE SetDraining(TRUE) /\ rpc' = "drain" /\ UNCHANGED <<decision, target, rbudget>>
  <2>1. /\ pods' \in [Workers -> [phase : {"absent", "starting", "ready"}, draining : BOOLEAN]]
        /\ BaseKept'
        /\ \A w \in Workers : pods'[w].draining => pods'[w].phase # "absent"
        /\ \A w \in Workers : pods'[w].draining => w \in target \/ pods[w].draining
    BY <1>1, <1>5, DrainingSet DEF Inv
  <2>2. RebalancerTypes' /\ Carrying'
    BY <1>1, <1>5, <2>1 DEF Inv, RebalancerOK, RebalancerTypes, Carrying
  <2>3. Marked'
    BY <1>1, <1>5, <2>1 DEF Inv, RebalancerOK, Marked, Exists
  <2>4. target' = Manifest(decision.role)'
    BY <1>1, <1>5 DEF Manifest
  <2>5. Owing'
    <3>1. owed' = UNION {ActiveOn(w) : w \in target}
      BY <1>3, <1>5
    <3>2. owed' \subseteq Requests
      BY <3>1 DEF ActiveOn
    <3>3. owed' \subseteq UNION {ActiveOn(w)' : w \in target'}
      BY <1>4, <1>5, <3>1
    <3> QED  BY <1>5, <3>2, <3>3 DEF Owing, DrainWaits
  <2> QED  BY <1>4, <2>1, <2>2, <2>3, <2>4, <2>5 DEF Inv, RebalancerOK
<1>6. CASE SpendOn("callError") /\ Done /\ UNCHANGED pods
  <2>1. RebalancerTypes
    BY DEF Inv, RebalancerOK
  <2>2. /\ rbudget' \in [{"callError", "unready"} -> Nat]
        /\ rbudget'["callError"] <= RebalanceFaults["callError"]
        /\ rbudget'["callError"] # RebalanceFaults["callError"]
    BY <1>6, <2>1, Spent
  <2>3. RebalancerTypes' /\ Carrying' /\ ~Removing'
    BY <1>6, <2>1, <2>2 DEF Done, NoDecision, RebalancerTypes, Carrying, Removing, Roles
  <2>4. BaseKept' /\ Marked'
    BY <1>1, <1>6, <2>2 DEF Inv, RebalancerOK, BaseKept, Marked, Exists
  <2>5. Owing'
    BY <1>3, <1>6 DEF Owing, Done, DrainWaits
  <2> QED  BY <1>4, <2>3, <2>4, <2>5 DEF Inv, RebalancerOK
<1> QED  BY <1>2, <1>5, <1>6

\* A drain that failed takes its mark back, and a script that removes takes the pod with it.
LEMMA EndOfRemoval ==
  ASSUME Inv, UNCHANGED <<workers, stats, request, owed>>, DrainFails \/ ScriptRemoves
  PROVE  Inv'
<1>1. RebalancerTypes /\ Marked /\ BaseKept
  BY DEF Inv, RebalancerOK
<1>2. CASE DrainFails
  <2>1. rpc = "drain" /\ Removing /\ Done /\ UNCHANGED older
    BY <1>2 DEF DrainFails, Removing
  <2>2. CASE SetDraining(FALSE) /\ UNCHANGED rbudget
    <3>1. /\ pods' \in [Workers -> [phase : {"absent", "starting", "ready"}, draining : BOOLEAN]]
          /\ BaseKept'
          /\ \A w \in Workers : pods'[w].draining => pods'[w].phase # "absent"
          /\ \A w \in Workers : pods'[w].draining => pods[w].draining /\ w \notin target
      BY <2>1, <2>2, DrainingSet DEF Inv
    <3>2. rbudget'["callError"] = RebalanceFaults["callError"] => \A w \in Workers : ~pods'[w].draining
      BY <1>1, <2>2, <3>1 DEF Marked
    <3>3. rbudget' \in [{"callError", "unready"} -> Nat] /\ rbudget'["callError"] <= RebalanceFaults["callError"]
      BY <1>1, <2>2 DEF RebalancerTypes
    <3> QED  BY <2>1, <3>1, <3>2, <3>3, Finished
  <2>3. CASE SpendOn("callError") /\ UNCHANGED pods
    BY <2>1, <2>3, GivenUp
  <2> QED  BY <1>2, <2>2, <2>3 DEF DrainFails
<1>3. CASE ScriptRemoves
  <2>1. PICK M : M = Manifest(decision.role)
    OBVIOUS
  <2>2. /\ rpc = "script" /\ decision.kind = "remove" /\ Done /\ UNCHANGED rbudget /\ target = M
        /\ pods' = [w \in Workers |-> IF w \in M THEN [phase |-> "absent", draining |-> FALSE] ELSE pods[w]]
        /\ older' = {e \in older : e[1] \notin M /\ e[2] \notin M}
    BY <1>3, <2>1 DEF ScriptRemoves, Inv, RebalancerOK, Removing
  <2>3. M \subseteq Workers \ Base
    BY <2>1 DEF Manifest
  <2>4. pods' \in [Workers -> [phase : {"absent", "starting", "ready"}, draining : BOOLEAN]]
    BY <1>1, <2>2 DEF RebalancerTypes
  <2>5. /\ \A w \in M : pods'[w].phase = "absent" /\ ~pods'[w].draining
        /\ \A w \in Workers \ M : pods'[w] = pods[w]
    BY <2>2, <2>3
  <2>6. BaseKept'
    <3>1. \A b \in Base : b \in Workers \ M
      BY <2>3, DeploymentAssumption
    <3>2. \A b \in Base : pods'[b].phase # "absent" /\ ~pods'[b].draining
      BY <1>1, <2>5, <3>1 DEF BaseKept, Exists
    <3>3. ASSUME NEW b \in Base, NEW w \in Workers \ Base
          PROVE  <<w, b>> \notin older' /\ (pods'[w].phase # "absent" /\ RoleOf[b] = RoleOf[w] => <<b, w>> \in older')
      <4>1. <<w, b>> \notin older /\ (pods[w].phase # "absent" /\ RoleOf[b] = RoleOf[w] => <<b, w>> \in older)
        BY <1>1 DEF BaseKept, Exists
      <4>2. w \in M => pods'[w].phase = "absent"
        BY <2>5
      <4>3. w \notin M => pods'[w] = pods[w]
        BY <2>5
      <4> QED  BY <2>2, <3>1, <4>1, <4>2, <4>3
    <3> QED  BY <3>2, <3>3 DEF BaseKept, Exists
  <2>7. \A w \in Workers : pods'[w].draining => pods'[w].phase # "absent"
    BY <1>1, <2>5 DEF Marked, Exists
  <2>8. rbudget'["callError"] = RebalanceFaults["callError"] => \A w \in Workers : ~pods'[w].draining
    BY <1>1, <2>2, <2>5 DEF Marked
  <2>9. rbudget' \in [{"callError", "unready"} -> Nat] /\ rbudget'["callError"] <= RebalanceFaults["callError"]
    BY <1>1, <2>2 DEF RebalancerTypes
  <2> QED  BY <2>2, <2>4, <2>6, <2>7, <2>8, <2>9, Finished
<1> QED  BY <1>2, <1>3

\* A script that adds creates pods newer than the base's, without the annotation.
LEMMA ScriptAddsStep ==
  ASSUME Inv, UNCHANGED <<workers, stats, request, owed>>, ScriptAdds
  PROVE  Inv'
<1>1. RebalancerTypes /\ Marked /\ BaseKept /\ ProxyOK /\ Owing
  BY DEF Inv, RebalancerOK
<1>2. PICK new, R : /\ new = {w \in Manifest(decision.role) : ~Exists(w)}
                    /\ R \in Creations(new)
                    /\ older' = older \cup R \cup {e \in Workers \X new : Exists(e[1]) /\ RoleOf[e[1]] = RoleOf[e[2]]}
  BY DEF ScriptAdds
<1>3. /\ rpc = "script" /\ decision.kind = "add" /\ rpc' = "wait" /\ UNCHANGED <<decision, rbudget>>
      /\ pods' = [w \in Workers |-> IF w \in new THEN [phase |-> "starting", draining |-> FALSE] ELSE pods[w]]
      /\ target' = Manifest(decision.role)
  BY <1>2 DEF ScriptAdds
<1>4. new \subseteq Workers \ Base /\ R \subseteq new \X new /\ Manifest(decision.role) \subseteq Workers
  BY <1>2 DEF Manifest, Creations
<1>5. ProxyOK'
  BY <1>1, ProxyKept DEF proxyVars
<1>6. RebalancerTypes' /\ Carrying' /\ ~Removing'
  <2>1. pods' \in [Workers -> [phase : {"absent", "starting", "ready"}, draining : BOOLEAN]]
    BY <1>1, <1>3 DEF RebalancerTypes
  <2> QED  BY <1>1, <1>3, <1>4, <2>1 DEF RebalancerTypes, Carrying, Removing
<1>7. /\ \A w \in new : pods'[w].phase = "starting" /\ ~pods'[w].draining
      /\ \A w \in Workers \ new : pods'[w] = pods[w]
  BY <1>3, <1>4
<1>8. BaseKept'
  <2>1. \A b \in Base : b \in Workers /\ b \notin new
    BY <1>4, DeploymentAssumption
  <2>2. \A b \in Base : pods'[b].phase # "absent" /\ ~pods'[b].draining /\ pods[b].phase # "absent"
    BY <1>1, <1>7, <2>1 DEF BaseKept, Exists
  <2>3. ASSUME NEW b \in Base, NEW w \in Workers \ Base
        PROVE  <<w, b>> \notin older' /\ (pods'[w].phase # "absent" /\ RoleOf[b] = RoleOf[w] => <<b, w>> \in older')
    <3>1. <<w, b>> \notin older /\ (pods[w].phase # "absent" /\ RoleOf[b] = RoleOf[w] => <<b, w>> \in older)
      BY <1>1 DEF BaseKept, Exists
    <3>2. <<w, b>> \notin R /\ <<w, b>> \notin Workers \X new
      BY <1>4, <2>1
    <3>3. <<w, b>> \notin older'
      BY <1>2, <3>1, <3>2
    <3>4. ASSUME pods'[w].phase # "absent", RoleOf[b] = RoleOf[w] PROVE <<b, w>> \in older'
      <4>1. CASE w \in new
        BY <1>2, <2>1, <2>2, <3>4, <4>1 DEF Exists
      <4>2. CASE w \notin new
        BY <1>2, <1>7, <3>1, <3>4, <4>2
      <4> QED  BY <4>1, <4>2
    <3> QED  BY <3>3, <3>4
  <2> QED  BY <2>2, <2>3 DEF BaseKept, Exists
<1>9. Marked'
  BY <1>1, <1>3, <1>7 DEF Marked, Exists
<1>10. Owing'
  BY <1>1, <1>3 DEF Owing, DrainWaits
<1> QED  BY <1>5, <1>6, <1>8, <1>9, <1>10 DEF Inv, RebalancerOK

\* A pod that becomes ready, or is no longer, exists and keeps its annotation.
LEMMA KubeletStep ==
  ASSUME Inv, Kubelet
  PROVE  Inv'
<1>1. RebalancerTypes /\ Marked /\ BaseKept /\ ProxyOK /\ Owing /\ Carrying
  BY DEF Inv, RebalancerOK
<1>2. PICK w \in Workers, ph \in {"starting", "ready"} :
        /\ pods' = [pods EXCEPT ![w].phase = ph] /\ pods[w].phase # "absent"
        /\ UNCHANGED rbudget \/ SpendOn("unready")
  BY DEF Kubelet, PodReady, PodUnready
<1>3. UNCHANGED <<older, rpc, decision, target, workers, stats, request, owed>>
  BY DEF Kubelet, PodReady, PodUnready, proxyVars
<1>4. /\ pods' \in [Workers -> [phase : {"absent", "starting", "ready"}, draining : BOOLEAN]]
      /\ \A v \in Workers : pods'[v].draining = pods[v].draining
                            /\ (pods'[v].phase # "absent" <=> pods[v].phase # "absent")
  BY <1>1, <1>2 DEF RebalancerTypes
<1>5. /\ rbudget' \in [{"callError", "unready"} -> Nat]
      /\ rbudget'["callError"] = rbudget["callError"]
  BY <1>1, <1>2, Spent DEF RebalancerTypes
<1>6. ProxyOK' /\ \A v : ActiveOn(v)' = ActiveOn(v)
  BY <1>1, <1>3, ProxyKept DEF proxyVars
<1>7. RebalancerTypes' /\ Carrying'
  BY <1>1, <1>3, <1>4, <1>5 DEF RebalancerTypes, Carrying
<1>8. BaseKept'
  <2>1. \A b \in Base : b \in Workers
    BY DeploymentAssumption
  <2> QED  BY <1>1, <1>3, <1>4, <2>1 DEF BaseKept, Exists
<1>9. Marked'
  BY <1>1, <1>3, <1>4, <1>5 DEF Marked, Exists
<1>10. Removing' => target' = Manifest(decision.role)'
  BY <1>3 DEF Inv, RebalancerOK, Removing, Manifest
<1>11. Owing'
  BY <1>1, <1>3, <1>6 DEF Owing, DrainWaits
<1> QED  BY <1>6, <1>7, <1>8, <1>9, <1>10, <1>11 DEF Inv, RebalancerOK

\* The rebalancer's part is kept by whatever leaves its variables alone.
LEMMA RebalancerKept ==
  ASSUME RebalancerOK, UNCHANGED rebalancerVars
  PROVE  RebalancerOK'
<1>1. UNCHANGED <<pods, older, rpc, decision, target, rbudget>>
  BY DEF rebalancerVars
<1>2. RebalancerTypes' /\ Carrying' /\ BaseKept' /\ Marked'
  BY <1>1 DEF RebalancerOK, RebalancerTypes, Carrying, BaseKept, Marked, Exists
<1>3. Removing' => target' = Manifest(decision.role)'
  BY <1>1 DEF RebalancerOK, Removing, Manifest
<1> QED  BY <1>2, <1>3 DEF RebalancerOK

\* A request leaves the set that the drain waits for when it is over and not before.
LEMMA ServeStep ==
  ASSUME Inv, NEW r \in Requests, Serve(r)
  PROVE  Inv'
<1>1. Handle(r) /\ UNCHANGED rebalancerVars
      /\ owed' = IF request'[r].phase = "none" THEN owed \ {r} ELSE owed
  BY DEF Serve
<1>2. /\ ProxyOK'
      /\ \A w \in Workers : ActiveOn(w) \ {r} \subseteq ActiveOn(w)'
      /\ request'[r].phase # "none" => \A w \in Workers : ActiveOn(w) \subseteq ActiveOn(w)'
  BY <1>1, HandleCounts DEF Inv
<1>3. RebalancerOK'
  BY <1>1, RebalancerKept DEF Inv
<1>4. UNCHANGED <<rpc, decision, target>> /\ target \subseteq Workers
  BY <1>1 DEF rebalancerVars, Inv, RebalancerOK, RebalancerTypes
<1>5. owed' \subseteq owed
  BY <1>1
<1>6. ASSUME rpc = "drain", NEW q \in owed' PROVE q \in UNION {ActiveOn(w)' : w \in target'}
  <2>1. PICK w \in target : q \in ActiveOn(w)
    BY <1>5, <1>6 DEF Inv, Owing
  <2>2. q \in ActiveOn(w)'
    BY <1>1, <1>2, <1>4, <1>6, <2>1
  <2> QED  BY <1>4, <2>1, <2>2
<1>7. Owing'
  BY <1>4, <1>5, <1>6 DEF Inv, Owing, DrainWaits
<1> QED  BY <1>2, <1>3, <1>7 DEF Inv

\* Every step keeps the invariant.
LEMMA InvStep == Inv /\ [Next]_vars => Inv'
<1> SUFFICES ASSUME Inv, [Next]_vars PROVE Inv'
  OBVIOUS
<1>1. CASE Act
  <2>1. UNCHANGED <<workers, stats, request, owed>>
    BY <1>1 DEF Act, proxyVars
  <2> QED  BY <1>1, <2>1, GoroutineSteps, EndOfRemoval, ScriptAddsStep DEF Act
<1>2. CASE Sync
  <2>1. workers' = Routable /\ UNCHANGED <<stats, request, owed>> /\ UNCHANGED rebalancerVars
    BY <1>2 DEF Sync, FetchWorkers
  <2>2. ProxyOK' /\ \A w : ActiveOn(w)' = ActiveOn(w)
    BY <2>1 DEF Inv, ProxyOK, InflightExact, ActiveOn, Routable
  <2>3. RebalancerOK'
    BY <2>1, RebalancerKept DEF Inv
  <2>4. Owing'
    BY <2>1, <2>2 DEF Inv, Owing, DrainWaits, rebalancerVars
  <2> QED  BY <2>2, <2>3, <2>4 DEF Inv
<1>3. CASE UNCHANGED vars
  <2>1. UNCHANGED rebalancerVars /\ UNCHANGED proxyVars /\ UNCHANGED owed
    BY <1>3 DEF vars
  <2>2. ProxyOK' /\ \A w : ActiveOn(w)' = ActiveOn(w)
    BY <2>1, ProxyKept DEF Inv
  <2>3. RebalancerOK'
    BY <2>1, RebalancerKept DEF Inv
  <2>4. Owing'
    BY <2>1, <2>2 DEF Inv, Owing, DrainWaits, rebalancerVars
  <2> QED  BY <2>2, <2>3, <2>4 DEF Inv
<1> QED  BY <1>1, <1>2, <1>3, TickStep, BeginDrainStep, KubeletStep, ServeStep DEF Next

\* The base is ready, nothing is under way, and no request has come.
LEMMA InvInit == Init => Inv
<1> SUFFICES ASSUME Init PROVE Inv
  OBVIOUS
<1> USE DEF Init, RebalancerInit, ProxyInit
<1>1. \A w \in Workers : /\ pods[w].phase = (IF w \in Base THEN "ready" ELSE "absent")
                         /\ pods[w].draining = FALSE
  OBVIOUS
<1>2. \A r \in Requests : request[r] = NoRequest
  OBVIOUS
<1>3. ProxyOK
  <2>1. \A w : ActiveOn(w) = {}
    BY <1>2 DEF ActiveOn, NoRequest
  <2>2. DOMAIN stats = {}
    OBVIOUS
  <2>3. InflightExact
    BY <2>1, <2>2, FS_EmptySet DEF InflightExact
  <2> QED  BY <2>2, <2>3 DEF ProxyOK, Request, NoRequest
<1>4. RebalancerTypes
  <2>1. pods \in [Workers -> [phase : {"absent", "starting", "ready"}, draining : BOOLEAN]]
    OBVIOUS
  <2> QED  BY <2>1, RebalancerAssumption DEF RebalancerTypes, NoDecision, Roles
<1>5. Carrying /\ ~Removing
  BY DEF Carrying, Removing
<1>6. BaseKept
  <2>1. \A b \in Base : b \in Workers
    BY DeploymentAssumption
  <2>2. older \subseteq Base \X Base
    BY DEF Creations
  <2>3. \A b \in Base, w \in Workers \ Base : <<w, b>> \notin older
    BY <2>2
  <2> QED  BY <1>1, <2>1, <2>3 DEF BaseKept, Exists
<1>7. Marked
  BY <1>1 DEF Marked
<1>8. Owing
  BY DEF Owing, DrainWaits
<1> QED  BY <1>3, <1>4, <1>5, <1>6, <1>7, <1>8 DEF Inv, RebalancerOK

\* The invariant holds throughout.
LEMMA Invariance == Spec => []Inv
BY InvInit, InvStep, PTL DEF Spec

-----------------------------------------------------------------------------
(* The theorems.                                                            *)

\* The proxy's count of a worker is the number of requests being forwarded to it, in
\* every state and for any number of requests (beginWorkerRequest, endWorkerRequest).
THEOREM InflightExactHolds == Spec => []InflightExact
<1>1. Inv => InflightExact
  BY DEF Inv, ProxyOK
<1> QED  BY <1>1, Invariance, PTL

\* A scale-down never takes a role's last worker: the base pod of the role is there and
\* takes requests, whatever happens to readiness, calls and scripts
\* (selectScaleDownTargetPod, markPodDraining and the scripts).
THEOREM RoleKeptHolds == Spec => []RoleKept
<1>1. Inv => RoleKept
  BY DeploymentAssumption DEF Inv, RebalancerOK, BaseKept, RoleKept
<1> QED  BY <1>1, Invariance, PTL

\* The script, which is not told, removes the worker that the scheduler drained
\* (handleRebalancerAction).
THEOREM RemovesDrainedHolds == Spec => []RemovesDrained
<1>1. Inv => RemovesDrained
  BY DEF Inv, RebalancerOK, Removing, RemovesDrained
<1> QED  BY <1>1, Invariance, PTL

\* A request that was in flight on a worker when its drain began is over when the script
\* that removes the worker starts (waitForWorkerInflightZero against the proxy's counts).
THEOREM DrainWaitsHolds == Spec => []DrainWaits
<1>1. Inv => DrainWaits
  BY DEF Inv, Owing
<1> QED  BY <1>1, Invariance, PTL

\* Unless a script or a call failed, no worker is marked as draining when no scale-down
\* is under way (clearPodDraining when a drain is given up, the script's removal otherwise).
THEOREM DrainSettlesHolds == Spec => []DrainSettles
<1>1. Inv => DrainSettles
  BY DEF Inv, RebalancerOK, Marked, DrainSettles
<1> QED  BY <1>1, Invariance, PTL

=============================================================================
