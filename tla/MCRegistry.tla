----------------------------- MODULE MCRegistry -----------------------------
(***************************************************************************)
(* Instances of Registry for TLC.  Node n1 has an exclusive GPU ga and an  *)
(* MPS GPU gs; node n2 has a GPU gb cut into one MIG instance m1.  Pod p1  *)
(* takes two whole GPUs, p2 one exclusive GPU with no memory annotation,   *)
(* p3 shares and has both memory annotations, which differ, and p4 shares  *)
(* and takes two GPUs.                                                     *)
(***************************************************************************)
EXTENDS Registry, TLC

CONSTANTS n1, n2, ga, gs, gb, m1, p1, p2, p3, p4

MCNodeOf   == [g \in GPUs |-> IF g = gb THEN n2 ELSE n1]
MCTotal    == [g \in GPUs |-> IF g = gs THEN 2 ELSE 1]
MCParent   == [i \in MIGs |-> gb]
MCMIGMem   == [i \in MIGs |-> 1]
MCMemIO    == [p \in Pods |-> IF p = p3 THEN 1 ELSE NoAnnotation]
MCMemOther == [p \in Pods |-> IF p \in {p1, p4} THEN 1 ELSE 0]
MCGPUCount == [p \in Pods |-> IF p \in {p1, p4} THEN 2 ELSE 1]

\* Three scenes: a two-GPU pod, one of the two, and a used MPS GPU without the MIG node, or
\* the MIG node while they are idle.
MIGScene == n2 \in known \/ \E p \in Pods : \E i \in DOMAIN podAllocations[p] : podAllocations[p][i].isMIG
Busy(p)  == podAllocations[p] # <<>> \/ (choice # NoChoice /\ choice.pod = p)
OneScene == /\ MIGScene => ~Busy(p1) /\ ~Busy(p4) /\ report[gs] = [used |-> 0, healthy |-> TRUE]
            /\ ~Busy(p1) \/ ~Busy(p4)
=============================================================================
