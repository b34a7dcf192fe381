------------------------------ MODULE Pressure ------------------------------
(***************************************************************************)
(* internal/proxy: where the pressure report comes from.  Requests leave   *)
(* in-flight counts and latency averages with the workers that served      *)
(* them; every five seconds pressureLoop compares the prefill with the     *)
(* decode workers of the list, counts how long a side has been hot, and    *)
(* changes the report, which decides how the next requests are routed.     *)
(*                                                                         *)
(* One model group, Proxy.tla's requests.  Latencies are levels, 0 meaning *)
(* none recorded and HotLevel the configured threshold; a group without    *)
(* thresholds behaves like one whose latencies stay below it.  The report  *)
(* is the tracker's current state: both are written together.  Time is     *)
(* counted in ticks.                                                       *)
(***************************************************************************)
EXTENDS Proxy, Sequences

CONSTANTS
  Lists,       \* the worker lists the scheduler may answer with
  Sustain,     \* sustainTicksRequired
  Cooldown,    \* cooldownDuration, in ticks
  HotLevel,    \* ttftHotMs and itlHotMs
  MaxLevel     \* bound: the highest latency told apart

ASSUME PressureAssumption ==
  /\ Sustain \in Nat \ {0} /\ Cooldown \in Nat /\ MaxLevel \in Nat /\ HotLevel \in 1..MaxLevel
  /\ IsFiniteSet(Workers) /\ IsFiniteSet(Requests) /\ Lists \subseteq SUBSET Workers
  /\ RoleOf \in [Workers -> {"prefill", "decode", "unified"}]

VARIABLES
  latency,     \* worker -> TTFTP95 of a prefill, ITLP95 of a decode worker
  recorded,    \* requests whose decode latency is recorded and which are not yet ended
  tracker,     \* pressureTracker: current, ticks of each observation in a row, age of it
  seen,        \* history: the last observations, one less than Sustain
  calm,        \* history: calm ticks in a row, up to Settled
  bare         \* history: a pair was listed without a unified worker

vars == <<workers, stats, request, latency, recorded, tracker, seen, calm, bare>>
pressureVars == <<latency, recorded, tracker, seen, calm, bare>>

States == {"normal", "prefill_hot", "decode_hot"}

Init ==
  /\ ProxyInit
  /\ latency = [w \in Workers |-> 0]
  /\ recorded = {}
  /\ tracker = [current |-> "normal", ticks |-> [s \in States |-> 0], age |-> Cooldown]
  /\ seen = <<>>
  /\ calm = 0
  /\ bare = FALSE

-----------------------------------------------------------------------------
(* Requests and what they leave behind.                                     *)

\* The average after a request that took d: the first one sets it, a later one moves it
\* some way towards d.
Blend(old, d) ==
  IF old = 0 THEN {d} ELSE {l \in 1..MaxLevel : Min({old, d}) <= l /\ l <= Max({old, d})}

recordWorkerPhase(w) ==
  \E d \in 0..MaxLevel : \E l \in Blend(latency[w], d) : latency' = [latency EXCEPT ![w] = l]

\* The worker of that role among those a request uses.
Of(r, role) == CHOOSE w \in request[r].uses : RoleOf[w] = role

Sync(W) ==
  /\ FetchWorkers(W)
  /\ bare' = (bare \/ (OfRole(W, "prefill") # {} /\ OfRole(W, "decode") # {} /\ OfRole(W, "unified") = {}))
  /\ UNCHANGED <<latency, recorded, tracker, seen, calm>>

\* The router reads the report.
Choose(r) == ChooseWorkers(r, tracker.current) /\ UNCHANGED pressureVars

Begin(r) == BeginRequest(r) /\ UNCHANGED pressureVars

PrefillAnswered(r) ==
  /\ PrefillDone(r)
  /\ recordWorkerPhase(Of(r, "prefill"))
  /\ UNCHANGED <<recorded, tracker, seen, calm, bare>>

\* The answer is recorded under one lock acquisition, and the request ended under another.
DecodeAnswered(r) ==
  /\ request[r].phase = "decode" /\ r \notin recorded
  /\ recordWorkerPhase(Of(r, "decode"))
  /\ recorded' = recorded \cup {r}
  /\ UNCHANGED <<workers, stats, request, tracker, seen, calm, bare>>

End(r) ==
  /\ EndRequest(r)
  /\ recorded' = recorded \ {r}
  /\ UNCHANGED <<latency, tracker, seen, calm, bare>>

-----------------------------------------------------------------------------
(* pressureLoop.                                                            *)

\* Averages in halves: exact for up to two workers of a role.
Scale == 2
Average(sum, n) == IF n = 0 THEN 0 ELSE (Scale * sum) \div n

\* Mutant: unified workers count as decode workers.
MeasuredUnified(role) ==
  IF role = "decode" THEN OfRole(workers, "decode") \cup OfRole(workers, "unified") ELSE OfRole(workers, role)

\* The listed workers that are measured as that side of the group.
Measured(role) == OfRole(workers, role)

\* The sum of f, none of whose values is greater than top.
Added(f, top) == Cardinality({x \in (DOMAIN f) \X (1..top) : x[2] <= f[x[1]]})

InflightOf(role) ==
  Added([w \in Measured(role) |-> IF w \in DOMAIN stats THEN stats[w] ELSE 0], Cardinality(Requests))
AvgInflight(role) == Average(InflightOf(role), Cardinality(Measured(role)))
AvgLatency(role) ==
  LET timed == {w \in Measured(role) : latency[w] > 0}
  IN  Average(Added([w \in timed |-> latency[w]], MaxLevel), Cardinality(timed))

\* How many more requests in flight a worker of that side has than one of the other.
Delta(role) == AvgInflight(role) - AvgInflight(IF role = "prefill" THEN "decode" ELSE "prefill")

Hot(role) ==
  \/ Measured("prefill") # {} /\ Measured("decode") # {} /\ Delta(role) >= Scale
  \/ AvgLatency(role) >= Scale * HotLevel

\* Times HotLevel, to stay with integers.
pressureScore(role) == Max({AvgLatency(role), HotLevel * Delta(role)})

\* What a tick sees; when both sides are hot the higher score decides, decode on a tie.
Observation ==
  IF Hot("prefill") /\ (Hot("decode") => pressureScore("decode") < pressureScore("prefill"))
  THEN "prefill_hot"
  ELSE IF Hot("decode") THEN "decode_hot" ELSE "normal"

\* Mutant: a tick that is not hot does not start the count again.
CountKeeps(o) ==
  [s \in States |-> IF s = o THEN Min({tracker.ticks[s] + 1, Sustain}) ELSE
                    IF o = "normal" THEN tracker.ticks[s] ELSE 0]

\* prefillHotTicks, decodeHotTicks, calmTicks.  Beyond Sustain they are not told apart.
Count(o) == [s \in States |-> IF s = o THEN Min({tracker.ticks[s] + 1, Sustain}) ELSE 0]

Target(ticks) ==
  IF ticks["prefill_hot"] >= Sustain THEN "prefill_hot"
  ELSE IF ticks["decode_hot"] >= Sustain THEN "decode_hot"
  ELSE IF ticks["normal"] >= Sustain \div 2 THEN "normal"
  ELSE tracker.current

\* The bound of CalmSettles.
Settled == Max({Cooldown, Sustain \div 2, 1})

Calm(o) == calm' = IF o = "normal" THEN Min({calm + 1, Settled}) ELSE 0
Remember(o) ==
  LET longer == Append(seen, o) IN IF Len(longer) < Sustain THEN longer ELSE Tail(longer)

\* Mutant: a change that the cooldown refuses starts the cooldown again.
TickRestartsCooldown ==
  LET o == Observation
      wanted == Target(Count(o))
      cool == tracker.age + 1 >= Cooldown
  IN  /\ tracker' = [current |-> IF cool THEN wanted ELSE tracker.current, ticks |-> Count(o),
                     age |-> IF wanted # tracker.current THEN 0 ELSE Min({tracker.age + 1, Cooldown})]
      /\ seen' = Remember(o) /\ Calm(o)
      /\ UNCHANGED <<workers, stats, request, latency, recorded, bare>>

\* A group without listed workers is not looked at: only time passes for it.
Tick ==
  LET o == Observation
      ticks == Count(o)
      target == Target(ticks)
      aged == Min({tracker.age + 1, Cooldown})
      moves == target # tracker.current /\ aged >= Cooldown
  IN  /\ UNCHANGED <<workers, stats, request, latency, recorded, bare>>
      /\ IF workers = {}
         THEN tracker' = [tracker EXCEPT !.age = aged] /\ UNCHANGED <<seen, calm>>
         ELSE /\ tracker' = [current |-> IF moves THEN target ELSE tracker.current,
                             ticks |-> ticks, age |-> IF moves THEN 0 ELSE aged]
              /\ seen' = Remember(o) /\ Calm(o)

-----------------------------------------------------------------------------
Next ==
  \/ \E W \in Lists : Sync(W)
  \/ \E r \in Requests : Choose(r) \/ Begin(r) \/ PrefillAnswered(r) \/ DecodeAnswered(r) \/ End(r)
  \/ Tick

Spec == Init /\ [][Next]_vars

-----------------------------------------------------------------------------
(* Properties.                                                              *)

\* A request counts on its prefill and on its decode worker from beginning to end, so
\* as long as the workers in use are listed both sides have the same number in flight:
\* the comparison of the averages measures how many workers each side has, and with
\* one against one it never calls a side hot.
InflightBalanced ==
  (\A w \in DOMAIN stats : stats[w] > 0 => w \in workers) => InflightOf("prefill") = InflightOf("decode")

\* While every list had a unified worker beside the pairs, requests go to it, the pairs
\* are never measured, and however slow the service is the report stays normal.
AbsorbedByUnified ==
  ~bare => /\ tracker.current = "normal"
           /\ \A r \in Requests : OfRole(request[r].uses, "prefill") = {}

\* A side is reported hot only after Sustain observations of it in a row, and normal
\* only after half as many calm ones, whatever requests, lists and gaps came between.
Earned ==
  [][LET now == tracker'.current
         all == Append(seen, Observation)
         need == IF now = "normal" THEN Sustain \div 2 ELSE Sustain
     IN  now # tracker.current =>
           Len(all) >= need /\ \A i \in (Len(all) - need + 1)..Len(all) : all[i] = now]_vars

\* After as many calm ticks in a row as the cooldown lasts, and at least half of Sustain,
\* the report is normal again: the cooldown delays it but does not keep it, and what
\* happened before the calm does not matter.
CalmSettles == calm >= Settled => tracker.current = "normal"
=============================================================================
