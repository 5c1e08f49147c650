--------------------------- MODULE MCChangeNotify ---------------------------
(* Model checking of ChangeNotify. *)
EXTENDS ChangeNotify, TLC

Symmetry == Permutations(Opens) \cup Permutations(Conns)

(* With both handles in use, two requests, changes or lost connections in    *)
(* all; with one handle, the bounds of the cfg.                              *)
Few ==
  (\A o \in Opens : open[o].used) => nreq + nev + Cardinality(Conns \ connected) <= 2
=============================================================================
