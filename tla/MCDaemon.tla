------------------------------ MODULE MCDaemon ------------------------------
EXTENDS Daemon

(* After a race the invariants promise nothing more: no third start then.   *)
Few == raced => starts < MaxStarts
=============================================================================
