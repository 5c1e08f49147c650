----------------------------- MODULE MCHandleIO -----------------------------
(* Model checking of HandleIO: the constants are sets of model values.      *)
EXTENDS HandleIO, TLC

Symmetry == Permutations(Procs) \cup Permutations(Handles)
=============================================================================
