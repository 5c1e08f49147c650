------------------------------ MODULE HandleIO ------------------------------
(***************************************************************************)
(* The life of an open file of PassthroughFS (fs.go): the sync.Map of open *)
(* files, the `closing` flag and the WaitGroup `ioWG` by which Close waits *)
(* for the reads and writes in progress before it closes the descriptor.   *)
(*                                                                         *)
(* Goroutines (one Run loop per connection) share one PassthroughFS and    *)
(* the server-wide table of opens, so two of them may use one handle.      *)
(* Each atomic access of the code is one action.  ioWG[h] is the SET of    *)
(* goroutines the WaitGroup counts: each adds and removes itself once.     *)
(***************************************************************************)
EXTENDS Naturals

CONSTANTS Procs,     \* the goroutines that call into the file system
          Handles    \* handle values; randHandle never returns one twice

VARIABLES openFiles, \* the keys of fs.openFiles
          file,      \* OpenFile.f: "none" before Open, then "open", "closed" or "nil"
          closing,   \* OpenFile.closing
          ioWG,      \* goroutines counted in OpenFile.ioWG
          waiters,   \* goroutines registered as waiting in ioWG
          pc, hdl,   \* where each goroutine is, and the handle it works on
          panicked   \* the process died in sync.WaitGroup

vars == <<openFiles, file, closing, ioWG, waiters, pc, hdl, panicked>>

IoPc == {"check", "add", "recheck", "io", "done", "release"}
ClosePc == {"mark", "wait", "waiting", "shut", "delete"}

TypeOK ==
  /\ openFiles \subseteq Handles
  /\ file \in [Handles -> {"none", "open", "closed", "nil"}]
  /\ closing \in [Handles -> BOOLEAN]
  /\ ioWG \in [Handles -> SUBSET Procs]
  /\ waiters \in [Handles -> SUBSET Procs]
  /\ pc \in [Procs -> {"idle"} \cup IoPc \cup ClosePc]
  /\ hdl \in [Procs -> Handles]
  /\ panicked \in BOOLEAN

Init ==
  /\ openFiles = {}
  /\ file = [h \in Handles |-> "none"]
  /\ closing = [h \in Handles |-> FALSE]
  /\ ioWG = [h \in Handles |-> {}]
  /\ waiters = [h \in Handles |-> {}]
  /\ pc = [p \in Procs |-> "idle"]
  /\ hdl \in [Procs -> Handles]
  /\ panicked = FALSE

Goto(p, l) == pc' = [pc EXCEPT ![p] = l]

-----------------------------------------------------------------------------
(* Faulty variants of the operations below, each a bug the properties must  *)
(* reveal.  The specification does not use them.                            *)

(* Read goes on after Add without testing closing again. *)
IoRecheckSkipped(p) ==
  /\ pc[p] = "recheck"
  /\ Goto(p, "io")
  /\ UNCHANGED <<openFiles, file, closing, ioWG, waiters, hdl, panicked>>

(* The early return of the second test forgets ioWG.Done. *)
IoRecheckNoDone(p) ==
  /\ pc[p] = "recheck"
  /\ Goto(p, IF closing[hdl[p]] THEN "idle" ELSE "io")
  /\ UNCHANGED <<openFiles, file, closing, ioWG, waiters, hdl, panicked>>

(* A registered Close goes on without having been released. *)
CloseWakeEarly(p) ==
  /\ pc[p] = "waiting"
  /\ waiters' = [waiters EXCEPT ![hdl[p]] = @ \ {p}]
  /\ Goto(p, "shut")
  /\ UNCHANGED <<openFiles, file, closing, ioWG, hdl, panicked>>

(* Close drops the entry without closing the descriptor. *)
CloseFileForgotten(p) ==
  /\ pc[p] = "shut"
  /\ file' = file
  /\ Goto(p, "delete")
  /\ UNCHANGED <<openFiles, closing, ioWG, waiters, hdl, panicked>>

-----------------------------------------------------------------------------
(* Open and OpenDir: the handle is fresh and is stored with its descriptor. *)
Open(p, h) ==
  /\ pc[p] = "idle" /\ file[h] = "none"
  /\ file' = [file EXCEPT ![h] = "open"]
  /\ openFiles' = openFiles \cup {h}
  /\ UNCHANGED <<closing, ioWG, waiters, pc, hdl, panicked>>

(* A call that finds the handle in the map; one that does not returns       *)
(* "bad handle" and changes nothing.                                        *)
Load(p, h, l) ==
  /\ pc[p] = "idle" /\ h \in openFiles
  /\ hdl' = [hdl EXCEPT ![p] = h]
  /\ Goto(p, l)
  /\ UNCHANGED <<openFiles, file, closing, ioWG, waiters, panicked>>

-----------------------------------------------------------------------------
(* Read and Write. *)
IoLoad(p, h) == Load(p, h, "check")

IoCheck(p) ==
  /\ pc[p] = "check"
  /\ Goto(p, IF closing[hdl[p]] THEN "idle" ELSE "add")
  /\ UNCHANGED <<openFiles, file, closing, ioWG, waiters, hdl, panicked>>

(* WaitGroup.Add(1) panics when it takes the counter from zero while a      *)
(* waiter is registered (sync: WaitGroup misuse).                           *)
AddMisuse(h) == waiters[h] # {} /\ ioWG[h] = {}

IoAdd(p) ==
  /\ pc[p] = "add"
  /\ ioWG' = [ioWG EXCEPT ![hdl[p]] = @ \cup {p}]
  /\ panicked' = AddMisuse(hdl[p])
  /\ Goto(p, "recheck")
  /\ UNCHANGED <<openFiles, file, closing, waiters, hdl>>

IoRecheck(p) ==
  /\ pc[p] = "recheck"
  /\ Goto(p, IF closing[hdl[p]] THEN "done" ELSE "io")
  /\ UNCHANGED <<openFiles, file, closing, ioWG, waiters, hdl, panicked>>

(* pc = "io" is the whole time spent in ReadAt or WriteAt; this step ends it. *)
IoAccess(p) ==
  /\ pc[p] = "io"
  /\ Goto(p, "done")
  /\ UNCHANGED <<openFiles, file, closing, ioWG, waiters, hdl, panicked>>

(* WaitGroup.Done: the one that takes the counter to zero with waiters      *)
(* registered releases them in a second step.                               *)
IoDone(p) ==
  /\ pc[p] = "done"
  /\ ioWG' = [ioWG EXCEPT ![hdl[p]] = @ \ {p}]
  /\ Goto(p, IF ioWG[hdl[p]] = {p} /\ waiters[hdl[p]] # {} THEN "release" ELSE "idle")
  /\ UNCHANGED <<openFiles, file, closing, waiters, hdl, panicked>>

IoRelease(p) ==
  /\ pc[p] = "release"
  /\ waiters' = [waiters EXCEPT ![hdl[p]] = {}]
  /\ Goto(p, "idle")
  /\ UNCHANGED <<openFiles, file, closing, ioWG, hdl, panicked>>

-----------------------------------------------------------------------------
(* Close. *)
CloseLoad(p, h) == Load(p, h, "mark")

CloseMark(p) ==
  /\ pc[p] = "mark"
  /\ closing' = [closing EXCEPT ![hdl[p]] = TRUE]
  /\ Goto(p, "wait")
  /\ UNCHANGED <<openFiles, file, ioWG, waiters, hdl, panicked>>

(* WaitGroup.Wait returns at once on a zero counter, else registers. *)
CloseWait(p) ==
  /\ pc[p] = "wait"
  /\ IF ioWG[hdl[p]] = {}
     THEN Goto(p, "shut") /\ UNCHANGED waiters
     ELSE Goto(p, "waiting") /\ waiters' = [waiters EXCEPT ![hdl[p]] = @ \cup {p}]
  /\ UNCHANGED <<openFiles, file, closing, ioWG, hdl, panicked>>

(* A released Wait panics when the WaitGroup is already in use again        *)
(* (sync: WaitGroup is reused before previous Wait has returned).           *)
WakeMisuse(h) == ioWG[h] # {} \/ waiters[h] # {}

CloseWake(p) ==
  /\ pc[p] = "waiting" /\ p \notin waiters[hdl[p]]
  /\ panicked' = WakeMisuse(hdl[p])
  /\ Goto(p, "shut")
  /\ UNCHANGED <<openFiles, file, closing, ioWG, waiters, hdl>>

CloseFile(p) ==
  /\ pc[p] = "shut"
  /\ file' = [file EXCEPT ![hdl[p]] = IF @ = "nil" THEN "nil" ELSE "closed"]
  /\ Goto(p, "delete")
  /\ UNCHANGED <<openFiles, closing, ioWG, waiters, hdl, panicked>>

CloseDelete(p) ==
  /\ pc[p] = "delete"
  /\ openFiles' = openFiles \ {hdl[p]}
  /\ Goto(p, "idle")
  /\ UNCHANGED <<file, closing, ioWG, waiters, hdl, panicked>>

-----------------------------------------------------------------------------
(* Symlink closes the placeholder and forgets the descriptor, outside ioWG. *)
Symlink(p, h) ==
  /\ pc[p] = "idle" /\ h \in openFiles
  /\ file' = [file EXCEPT ![h] = "nil"]
  /\ UNCHANGED <<openFiles, closing, ioWG, waiters, pc, hdl, panicked>>

Step(p) ==
  \/ IoCheck(p) \/ IoAdd(p) \/ IoRecheck(p) \/ IoAccess(p) \/ IoDone(p) \/ IoRelease(p)
  \/ CloseMark(p) \/ CloseWait(p) \/ CloseWake(p) \/ CloseFile(p) \/ CloseDelete(p)

Call(p, h) == Open(p, h) \/ IoLoad(p, h) \/ CloseLoad(p, h) \/ Symlink(p, h)

Next == ~panicked /\ \E p \in Procs : Step(p) \/ \E h \in Handles : Call(p, h)

Spec == Init /\ [][Next]_vars

(* The Go scheduler runs every goroutine that can run; nobody has to call.  *)
Fairness == \A p \in Procs : WF_vars(~panicked /\ Step(p))

FairSpec == Spec /\ Fairness

-----------------------------------------------------------------------------
(* Nobody is inside ReadAt or WriteAt on h. *)
Quiet(h) == \A p \in Procs : hdl[p] = h => pc[p] # "io"

(* The inductive invariant behind NoIoOnClosedFile.  The WaitGroup counts   *)
(* exactly the goroutines between Add and Done; whoever closes has set the  *)
(* flag, is a registered waiter or has been let go; and once a Close was    *)
(* let go, or the descriptor is closed, the flag is set and h is quiet, so  *)
(* that the second test of the flag turns every late Add away.              *)
Counted == \A p \in Procs, h \in Handles :
  p \in ioWG[h] <=> hdl[p] = h /\ pc[p] \in {"recheck", "io", "done"}

ClosersMark == \A p \in Procs :
  pc[p] \in {"wait", "waiting", "shut", "delete"} => closing[hdl[p]]

WaitersWait == \A p \in Procs, h \in Handles :
  p \in waiters[h] => pc[p] = "waiting" /\ hdl[p] = h

Released(p) == \/ pc[p] \in {"release", "shut", "delete"}
               \/ pc[p] = "waiting" /\ p \notin waiters[hdl[p]]

ReleasedIsQuiet == \A p \in Procs :
  Released(p) => closing[hdl[p]] /\ Quiet(hdl[p])

ClosedIsQuiet == \A h \in Handles :
  file[h] = "closed" => closing[h] /\ Quiet(h)

IInv == Counted /\ ClosersMark /\ WaitersWait /\ ReleasedIsQuiet /\ ClosedIsQuiet

(* Close never closes a descriptor under a read or write in progress: this  *)
(* is what the closing flag, tested before and after ioWG.Add, is for.      *)
NoIoOnClosedFile ==
  \A p \in Procs : pc[p] = "io" => file[hdl[p]] # "closed"

(* A handle leaves the table only after its descriptor was released, and a  *)
(* handle that is not being closed still has its entry: no descriptor leaks *)
(* and no entry dangles.                                                    *)
TableMatchesFiles ==
  \A h \in Handles :
    /\ h \in openFiles => file[h] # "none"
    /\ h \notin openFiles => file[h] \in {"none", "closed", "nil"}
    /\ file[h] = "closed" /\ h \in openFiles =>
         \E p \in Procs : pc[p] = "delete" /\ hdl[p] = h

(* Close returns: every read or write counted in ioWG is taken out again,   *)
(* also on the path where the second test of closing turns the call away.   *)
CloseReturns ==
  \A p \in Procs : pc[p] = "mark" ~> (pc[p] = "idle" \/ panicked)

(* The goroutines inside ReadAt or WriteAt on each handle. *)
Active == [h \in Handles |-> {p \in Procs : hdl[p] = h /\ pc[p] = "io"}]

Life == INSTANCE FileLife WITH active <- Active

(* Read, Write, Open, Close and Symlink with all their atomic steps         *)
(* implement the life of a descriptor: no access begins after the close,    *)
(* no close happens during an access, no handle comes back to life.         *)
ImplementsFileLife == Life!Spec
=============================================================================
