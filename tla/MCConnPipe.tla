----------------------------- MODULE MCConnPipe -----------------------------
(* Model checking of ConnPipe. *)
EXTENDS ConnPipe, TLC

Symmetry == Permutations(Asyncs)
=============================================================================
