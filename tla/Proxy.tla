------------------------------- MODULE Proxy -------------------------------
(***************************************************************************)
(* internal/proxy: the inference proxy of one model group.  It copies the  *)
(* scheduler's worker list every few seconds, chooses workers for a        *)
(* request from the copy, counts requests per worker and forwards them:    *)
(* to one unified worker, or to a prefill worker and then a decode worker. *)
(*                                                                         *)
(* Choosing holds the read lock and counting takes the write lock later:   *)
(* two steps.  A request identifier is used again when its request is over.*)
(* Latencies are left out: where they break a tie any worker may be chosen.*)
(***************************************************************************)
EXTENDS Integers, FiniteSets, FiniteSetsExt, Functions

CONSTANTS
  Workers,    \* the inference pods of the model group
  RoleOf,     \* worker -> "prefill", "decode" or "unified"
  Requests

VARIABLES
  workers,    \* p.inferenceWorkers: those that are ready and routable
  stats,      \* p.workerStats: worker -> requests in flight, for workers seen so far
  request     \* request -> [phase, uses]: where it is and the workers chosen for it

NoRequest == [phase |-> "none", uses |-> {}]

ProxyInit ==
  /\ workers = {}
  /\ stats = <<>>
  /\ request = [r \in Requests |-> NoRequest]

OfRole(W, role) == {w \in W : RoleOf[w] = role}

-----------------------------------------------------------------------------
(* inferenceWorkerLoop.                                                     *)

\* The list is replaced by the scheduler's answer; when the call fails the old one stays.
\* An answer that is out of date when it arrives is not told from an older copy.
FetchWorkers(routable) ==
  /\ workers' = routable
  /\ UNCHANGED <<stats, request>>

-----------------------------------------------------------------------------
(* FindRequestWorker.                                                       *)

\* FindBestPrefillWorker, FindBestDecodeWorker, FindBestUnifiedWorker: fewest in
\* flight among the workers with statistics, the first of the list if none has any.
FindBest(W) ==
  LET seen == W \cap DOMAIN stats
  IN  IF seen = {} THEN W ELSE {w \in seen : \A v \in seen : stats[w] <= stats[v]}

\* The sets of workers that may be chosen, none when there is no capacity.
FindRequestWorker(pressure) ==
  LET prefill == OfRole(workers, "prefill")
      decode  == OfRole(workers, "decode")
      unified == OfRole(workers, "unified")
      disagg  == prefill # {} /\ decode # {}
  IN  IF disagg /\ (unified = {} \/ pressure # "normal")
      THEN {{p, d} : p \in FindBest(prefill), d \in FindBest(decode)}
      ELSE {{u} : u \in FindBest(unified)}

-----------------------------------------------------------------------------
(* handleChatCompletions and the forward functions.                         *)

ChooseWorkers(r, pressure) ==
  /\ request[r].phase = "none"
  /\ \E S \in FindRequestWorker(pressure) : request' = [request EXCEPT ![r] = [phase |-> "chosen", uses |-> S]]
  /\ UNCHANGED <<workers, stats>>

\* beginWorkerRequest for every worker of the request.
BeginRequest(r) ==
  /\ request[r].phase = "chosen"
  /\ stats' = [w \in DOMAIN stats \cup request[r].uses |->
                 (IF w \in DOMAIN stats THEN stats[w] ELSE 0) + (IF w \in request[r].uses THEN 1 ELSE 0)]
  /\ request' = [request EXCEPT ![r].phase = IF OfRole(request[r].uses, "unified") = {} THEN "prefill" ELSE "single"]
  /\ UNCHANGED workers

\* The prefill worker answered with its transfer parameters; the decode worker is next.
PrefillDone(r) ==
  /\ request[r].phase = "prefill"
  /\ request' = [request EXCEPT ![r].phase = "decode"]
  /\ UNCHANGED <<workers, stats>>

\* Mutant: a failed prefill leaves the decode worker counted.
EndRequestDecodeLeaks(r) ==
  /\ request[r].phase \in {"prefill", "decode", "single"}
  /\ stats' = [w \in DOMAIN stats |->
                 IF w \in request[r].uses /\ (request[r].phase = "prefill" => RoleOf[w] = "prefill")
                 THEN stats[w] - 1 ELSE stats[w]]
  /\ request' = [request EXCEPT ![r] = NoRequest]
  /\ UNCHANGED workers

\* The deferred endWorkerRequest calls, whatever the request came to: a failed
\* prefill, a failed or completed decode, a client that went away.
EndRequest(r) ==
  /\ request[r].phase \in {"prefill", "decode", "single"}
  /\ stats' = [w \in DOMAIN stats |->
                 IF w \in request[r].uses /\ stats[w] > 0 THEN stats[w] - 1 ELSE stats[w]]
  /\ request' = [request EXCEPT ![r] = NoRequest]
  /\ UNCHANGED workers

\* The pressure state is whatever the proxy's last report says.
Handle(r) ==
  \/ \E pressure \in {"normal", "prefill_hot", "decode_hot"} : ChooseWorkers(r, pressure)
  \/ BeginRequest(r) \/ PrefillDone(r) \/ EndRequest(r)

\* The requests that are counted on worker w.
ActiveOn(w) == {r \in Requests : request[r].phase \in {"prefill", "decode", "single"} /\ w \in request[r].uses}
=============================================================================
