----------------------------- MODULE MCPressure -----------------------------
(***************************************************************************)
(* The instance of Pressure for TLC: one prefill worker against one or two *)
(* decode workers, with or without a unified worker.                       *)
(***************************************************************************)
EXTENDS Pressure, TLC

CONSTANTS p0, d0, d1, u0, r1, r2

MCRoleOf == [w \in Workers |-> IF w = p0 THEN "prefill" ELSE IF w = u0 THEN "unified" ELSE "decode"]
MCLists  == {{}, {p0, d0}, {p0, d0, d1}, {p0, d0, u0}}
RequestSymmetry == Permutations(Requests)
=============================================================================
