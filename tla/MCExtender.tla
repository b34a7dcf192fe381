----------------------------- MODULE MCExtender -----------------------------
(***************************************************************************)
(* The instance of Extender for TLC: two GPUs of sizes 1 and 2, a pod that *)
(* is tried twice and one without a memory request.                        *)
(***************************************************************************)
EXTENDS Extender, TLC

CONSTANTS sized, whole

MCTotal  == <<1, 2>>
MCMemory == (sized :> 1) @@ (whole :> 0)
MCCalls  == {<<sized, 1>>, <<sized, 2>>, <<whole, 1>>}
=============================================================================
