---------------------------- MODULE MCProbeDispatch ----------------------------
EXTENDS ProbeDispatch, TLC

(* Calls are started in any order and on any output.                       *)
CallSymmetry == Permutations(Calls) \cup Permutations(Outputs)
===============================================================================
