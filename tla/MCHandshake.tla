---------------------------- MODULE MCHandshake -----------------------------
(* Model checking of Handshake. *)
EXTENDS Handshake, TLC

Symmetry == Permutations(Conns)
=============================================================================
