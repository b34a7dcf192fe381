----------------------------- MODULE MCWatcher -----------------------------
(***************************************************************************)
(* The instance of Watcher for TLC: ten jobs, of which a scenario submits  *)
(* a few.  Node n1 has an exclusive GPU ga and an MPS GPU gs, n2 has gb.   *)
(***************************************************************************)
EXTENDS Watcher, TLC

CONSTANTS n1, n2, ga, gb, gs, a, b, c, d, m, s, w, x, y, z, gang1

MCNodeOf == [g \in GPUs |-> IF g = gb THEN n2 ELSE n1]
MCIndex  == [g \in GPUs |-> IF g = gs THEN 1 ELSE 0]
One      == [g \in GPUs |-> 1]

Plain == [mem |-> 1, prio |-> 50, workflow |-> "training", preemptible |-> TRUE, shared |-> FALSE,
          gpuCount |-> 1, mode |-> "per-gpu", gang |-> NoGang, intent |-> "none",
          autoResume |-> FALSE, gpuPod |-> TRUE]

\* The jobs are submitted once each and everything else named happens at most once.
Scenario(jobs, kinds) == [k \in Kinds \cup Jobs |-> IF k \in jobs \cup kinds THEN 1 ELSE 0]

OneGang == gang1 :> 2

\* a, b and c share gs, one at a time: a and b may be evicted by c, and a is resumed when
\* it is; d has a broken intent; m takes two GPUs; w is a prefill worker without a memory
\* annotation; s shares; x and y form a gang; z is plain.
AllJobs == [j \in Jobs |->
  CASE j = a -> [Plain EXCEPT !.shared = TRUE, !.autoResume = TRUE]
    [] j = b -> [Plain EXCEPT !.shared = TRUE, !.prio = 40]
    [] j = c -> [Plain EXCEPT !.shared = TRUE, !.prio = 80, !.workflow = "inference", !.preemptible = FALSE]
    [] j = d -> [Plain EXCEPT !.intent = "invalid"]
    [] j = m -> [Plain EXCEPT !.gpuCount = 2]
    [] j = w -> [Plain EXCEPT !.mem = 0, !.intent = "prefill"]
    [] j = s -> [Plain EXCEPT !.shared = TRUE]
    [] j \in {x, y} -> [Plain EXCEPT !.gang = gang1]
    [] OTHER -> Plain]

CoreScene    == Scenario({m, w, s}, {"fifo", "userDelete", "bindError", "patchError"})
GangScene    == Scenario({x, y, z}, {"userDelete"})
ServiceScene == Scenario({a, b, c}, {"endless", "evictError"})
PreemptScene == Scenario({a, b, c}, {"evictError", "createError"})
RestartScene == Scenario({d, m, z}, {"crash", "bindReplyLost"})

\* For what must hold, names are used again, more jobs compete, and more goes wrong.
AnewScene    == [Scenario({x, y, z}, {"userDelete"}) EXCEPT ![z] = 2]
CrowdScene   == Scenario({a, b, c, s}, {"evictError", "createError"})
WithdrawnScene == Scenario({a, b, c}, {"userDelete", "evictError", "crash"})
FaultScene   == Scenario({d, m, z}, {"crash", "bindReplyLost", "userDelete"})

SafetyScenes  == {CoreScene, AnewScene, CrowdScene, WithdrawnScene, FaultScene}
Scenes        == {CoreScene, GangScene, ServiceScene, PreemptScene, RestartScene}
BindScene     == {Scenario({x, y}, {"fifo", "bindError"})}
CrashScene    == {Scenario({d, m, z}, {"crash"})}
=============================================================================
