----------------------------- MODULE MCServing -----------------------------
(***************************************************************************)
(* The instance of Serving for TLC.  Prefill worker p0, decode worker d0   *)
(* and unified worker u0 are the base deployment; d1 is the decode worker  *)
(* that the script adds and removes.                                       *)
(***************************************************************************)
EXTENDS Serving, TLC

CONSTANTS p0, d0, d1, u0, r1, r2

MCRoleOf == [w \in Workers |-> IF w = p0 THEN "prefill" ELSE IF w = u0 THEN "unified" ELSE "decode"]
MCMaxWorkers == [role \in {"prefill", "decode"} |-> IF role = "prefill" THEN 1 ELSE 2]
RequestSymmetry == Permutations(Requests)
OneFault == [k \in {"callError", "unready"} |-> 1]
=============================================================================
