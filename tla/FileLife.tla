------------------------------ MODULE FileLife ------------------------------
(***************************************************************************)
(* What the file system promises about one descriptor, without the flag,   *)
(* the WaitGroup and the handle table that keep the promise: accesses      *)
(* begin only on a descriptor that was opened and is not closed, a         *)
(* descriptor is closed only while nobody accesses it, and a closed one is *)
(* never opened again.  HandleIO implements this specification.            *)
(***************************************************************************)
CONSTANTS Procs, Handles

VARIABLES file,    \* the state of the descriptor behind each handle
          active   \* the goroutines inside ReadAt or WriteAt, per handle

lifeVars == <<file, active>>

Init ==
  /\ file = [h \in Handles |-> "none"]
  /\ active = [h \in Handles |-> {}]

OpenFile(h) ==
  /\ file[h] = "none"
  /\ file' = [file EXCEPT ![h] = "open"]
  /\ UNCHANGED active

Begin(p, h) ==
  /\ file[h] \in {"open", "nil"}
  /\ active' = [active EXCEPT ![h] = @ \cup {p}]
  /\ UNCHANGED file

End(p, h) ==
  /\ p \in active[h]
  /\ active' = [active EXCEPT ![h] = @ \ {p}]
  /\ UNCHANGED file

CloseFile(h) ==
  /\ file[h] = "open" /\ active[h] = {}
  /\ file' = [file EXCEPT ![h] = "closed"]
  /\ UNCHANGED active

(* The placeholder of a symbolic link gives its descriptor up at any time;  *)
(* this is the one operation that may do so under an access.                *)
Replace(h) ==
  /\ file[h] # "none"
  /\ file' = [file EXCEPT ![h] = "nil"]
  /\ UNCHANGED active

Next == \E h \in Handles :
  \/ OpenFile(h) \/ CloseFile(h) \/ Replace(h)
  \/ \E p \in Procs : Begin(p, h) \/ End(p, h)

Spec == Init /\ [][Next]_lifeVars
=============================================================================
