----------------------------- MODULE MCDirScan ------------------------------
(* Model checking of DirScan. *)
EXTENDS DirScan
=============================================================================
