------------------------------- MODULE Daemon -------------------------------
(***************************************************************************)
(* The daemon and the commands around it (main.go): `sambam -d` starts it, *)
(* a signal, its expiry or a failure ends it, `sambam stop` and            *)
(* `sambam status` find it by the PID file and clean up behind it.         *)
(*                                                                         *)
(* Every process is its pid, and a pid is used again once its process is   *)
(* gone.  The PID file is an inode with a pid in it, at most one of which  *)
(* has the name; the file's lock (go-daemon's LockFile, an exclusive,      *)
(* non-blocking flock) belongs to the inode.  What the banner and the      *)
(* status block print is left out.                                         *)
(***************************************************************************)
EXTENDS Naturals, FiniteSets

CONSTANTS Pids, NoPid,
          MaxStarts,    \* bound: daemons started
          MaxInodes,    \* bound: PID files created
          MaxCommands   \* bound: stop and status commands run

ASSUME NoPidAssumption == NoPid \notin Pids
ASSUME PidsAssumption == IsFiniteSet(Pids)
ASSUME BoundsAssumption == MaxStarts \in Nat /\ MaxInodes \in Nat /\ MaxCommands \in Nat

VARIABLES
  proc,      \* the processes: [kind, pc, inode, gen, target, gone]
  dir,       \* the inode of the name of the PID file, 0 if there is none
  content,   \* the pid written in each inode
  lock,      \* the process that has the lock of each inode
  status,    \* the daemon the status file describes, 0 if there is none
  starts, inodes, commands, \* daemons, inodes and commands so far
  raced,     \* a start has overlapped with something that removes the PID file (history)
  rivals,    \* two starts have overlapped (history)
  unwritten  \* the live daemons whose starter ended without writing the status file (history)

files == <<dir, content, lock>>
counts == <<starts, inodes, commands>>
vars == <<proc, files, status, counts, raced, rivals, unwritten>>

Begin(kind, pc, inode, gen) ==
  [kind |-> kind, pc |-> pc, inode |-> inode, gen |-> gen, target |-> NoPid, gone |-> FALSE]
Free == Begin("none", "none", 0, 0)

Init ==
  /\ proc = [p \in Pids |-> Free]
  /\ dir = 0 /\ content = [i \in 1 .. MaxInodes |-> NoPid] /\ lock = [i \in 1 .. MaxInodes |-> NoPid]
  /\ status = 0 /\ starts = 0 /\ inodes = 0 /\ commands = 0
  /\ raced = FALSE /\ rivals = FALSE /\ unwritten = {}

At(p, kind, pc) == proc[p].kind = kind /\ proc[p].pc = pc
Goto(p, pc) == proc' = [proc EXCEPT ![p].pc = pc]

(* A process ends: its locks are released, and who has a handle on it sees   *)
(* it gone, whatever its pid is used for next.                               *)
Ended(p) ==
  [q \in Pids |-> IF q = p THEN Free
                  ELSE IF proc[q].target = p THEN [proc[q] EXCEPT !.gone = TRUE] ELSE proc[q]]
Unlocked(p) == [i \in DOMAIN lock |-> IF lock[i] = p THEN NoPid ELSE lock[i]]
Exit(p) == proc' = Ended(p) /\ lock' = Unlocked(p)

-----------------------------------------------------------------------------
(* sambam -d, and go-daemon's Reborn in it. *)
Launch(p) ==
  /\ proc[p].kind = "none" /\ starts < MaxStarts
  /\ starts' = starts + 1
  /\ proc' = [proc EXCEPT ![p] = Begin("launch", "open", 0, starts + 1)]
  /\ UNCHANGED <<files, status, inodes, commands>>

(* OpenLockFile: the file there is, or a new one. *)
LaunchOpen(p) ==
  /\ At(p, "launch", "open")
  /\ \/ dir # 0 /\ UNCHANGED <<dir, inodes>>
     \/ dir = 0 /\ inodes < MaxInodes /\ inodes' = inodes + 1 /\ dir' = inodes + 1
  /\ proc' = [proc EXCEPT ![p].inode = dir', ![p].pc = "lock"]
  /\ UNCHANGED <<content, lock, status, starts, commands>>

(* Faulty: the daemon is started whether or not the lock was free. *)
LaunchLockIgnored(p) ==
  /\ At(p, "launch", "lock")
  /\ lock' = [lock EXCEPT ![proc[p].inode] = p]
  /\ Goto(p, "fork")
  /\ UNCHANGED <<dir, content, status, counts>>

(* "Unable to start daemon" if another process has the lock. *)
LaunchLock(p) ==
  /\ At(p, "launch", "lock")
  /\ IF lock[proc[p].inode] = NoPid
     THEN lock' = [lock EXCEPT ![proc[p].inode] = p] /\ Goto(p, "fork")
     ELSE Exit(p)
  /\ UNCHANGED <<dir, content, status, counts>>

(* The child inherits the lock. *)
LaunchFork(p, c) ==
  /\ At(p, "launch", "fork") /\ proc[c].kind = "none"
  /\ lock' = [lock EXCEPT ![proc[p].inode] = c]
  /\ proc' = [proc EXCEPT ![p].pc = "status", ![p].inode = 0,
                          ![c] = Begin("daemon", "born", proc[p].inode, proc[p].gen)]
  /\ UNCHANGED <<dir, content, status, counts>>

(* The parent writes the status file, or warns that it could not, and ends. *)
LaunchStatus(p) ==
  /\ At(p, "launch", "status")
  /\ status' \in {proc[p].gen, status}
  /\ Exit(p)
  /\ UNCHANGED <<dir, content, counts>>

-----------------------------------------------------------------------------
(* The daemon. *)
WritePid(p) ==
  /\ At(p, "daemon", "born")
  /\ content' = [content EXCEPT ![proc[p].inode] = p]
  /\ Goto(p, "init")
  /\ UNCHANGED <<dir, lock, status, counts>>

(* The server starts and signal.Notify is called. *)
Serve(p) ==
  /\ At(p, "daemon", "init")
  /\ Goto(p, "serve")
  /\ UNCHANGED <<files, status, counts>>

Expire(p) ==
  /\ At(p, "daemon", "serve")
  /\ Goto(p, "stopping")
  /\ UNCHANGED <<files, status, counts>>

(* srv.Shutdown, and ctx.Release: the lock is given up, then the name is     *)
(* removed.                                                                  *)
ReleaseLock(p) ==
  /\ At(p, "daemon", "stopping")
  /\ lock' = Unlocked(p)
  /\ proc' = [proc EXCEPT ![p].pc = "remove", ![p].inode = 0]
  /\ UNCHANGED <<dir, content, status, counts>>

ReleaseRemove(p) ==
  /\ At(p, "daemon", "remove")
  /\ dir' = 0
  /\ Exit(p)
  /\ UNCHANGED <<content, status, counts>>

(* A process is killed at any point, a starter before or after its fork, or  *)
(* the server failed and os.Exit(1) skipped ctx.Release.                     *)
Crash(p) ==
  /\ proc[p].kind # "none"
  /\ Exit(p)
  /\ UNCHANGED <<dir, content, status, counts>>

(* Faulty: a signal while the daemon starts is dropped. *)
SurvivesStart(p) == proc[p].kind = "daemon"

(* What SIGTERM does to a process: it ends it, unless it is a daemon after   *)
(* signal.Notify.                                                            *)
Survives(p) == proc[p].kind = "daemon" /\ proc[p].pc \in {"serve", "stopping", "remove"}

Terminated(p) == IF ~Survives(p) THEN Ended(p)
                 ELSE IF At(p, "daemon", "serve") THEN [proc EXCEPT ![p].pc = "stopping"] ELSE proc

-----------------------------------------------------------------------------
(* sambam stop and sambam status. *)
Command(p, kind) ==
  /\ proc[p].kind = "none" /\ commands < MaxCommands
  /\ commands' = commands + 1
  /\ proc' = [proc EXCEPT ![p] = Begin(kind, "read", 0, 0)]
  /\ UNCHANGED <<files, status, starts, inodes>>

(* Both read the pid; no file, or nothing in it yet, ends them. *)
ReadPid(p) ==
  /\ proc[p].pc = "read"
  /\ IF dir = 0 \/ content[dir] = NoPid THEN Exit(p)
     ELSE proc' = [proc EXCEPT ![p].target = content[dir], ![p].pc = "probe"] /\ UNCHANGED lock
  /\ UNCHANGED <<dir, content, status, counts>>

(* FindProcess and SIGTERM: to whatever process has the pid now, or the      *)
(* command fails.                                                            *)
StopSignal(p) ==
  LET t == proc[p].target IN
  /\ At(p, "stop", "probe")
  /\ IF t = p \/ proc[t].kind = "none" THEN Exit(p)
     ELSE /\ proc' = [Terminated(t) EXCEPT ![p].pc = "wait", ![p].gone = ~Survives(t)]
          /\ lock' = IF Survives(t) THEN lock ELSE Unlocked(t)
  /\ UNCHANGED <<dir, content, status, counts>>

(* Signal(0) fails: the process is gone. *)
StopGone(p) ==
  /\ At(p, "stop", "wait") /\ proc[p].gone
  /\ Goto(p, "rmpid")
  /\ UNCHANGED <<files, status, counts>>

(* 30 tries: "Daemon may not have stopped cleanly". *)
StopTimeout(p) ==
  /\ At(p, "stop", "wait")
  /\ Exit(p)
  /\ UNCHANGED <<dir, content, status, counts>>

(* Faulty: a process that may not be signalled counts as gone. *)
StatusProbeDenied(p) ==
  /\ At(p, "status", "probe")
  /\ Goto(p, "rmpid")
  /\ UNCHANGED <<files, status, counts>>

(* isProcessRunning, of any process with that pid; with one the status file  *)
(* is shown.                                                                 *)
StatusProbe(p) ==
  /\ At(p, "status", "probe")
  /\ IF proc[proc[p].target].kind = "none" THEN Goto(p, "rmpid") /\ UNCHANGED lock ELSE Exit(p)
  /\ UNCHANGED <<dir, content, status, counts>>

(* Both remove the PID file, whatever it is by now, and the status file.     *)
CleanPidFile(p) ==
  /\ proc[p].pc = "rmpid"
  /\ dir' = 0
  /\ Goto(p, "rmstatus")
  /\ UNCHANGED <<content, lock, status, counts>>

CleanStatusFile(p) ==
  /\ proc[p].pc = "rmstatus"
  /\ status' = 0
  /\ Exit(p)
  /\ UNCHANGED <<dir, content, counts>>

-----------------------------------------------------------------------------
Launcher(p) ==
  \/ LaunchOpen(p) \/ LaunchLock(p) \/ LaunchStatus(p)
  \/ \E c \in Pids : LaunchFork(p, c)
DaemonStep(p) == WritePid(p) \/ Serve(p) \/ ReleaseLock(p) \/ ReleaseRemove(p)
CommandStep(p) ==
  \/ ReadPid(p) \/ StopSignal(p) \/ StopGone(p) \/ StopTimeout(p) \/ StatusProbe(p)
  \/ CleanPidFile(p) \/ CleanStatusFile(p)

Step ==
  \E p \in Pids :
    \/ Launch(p) \/ Command(p, "stop") \/ Command(p, "status")
    \/ Launcher(p) \/ DaemonStep(p) \/ CommandStep(p)
    \/ Expire(p) \/ Crash(p)

(* A start lasts until the daemon has written its pid: before, the PID file  *)
(* may name a process that is long gone.                                     *)
Starting == {p \in Pids : proc[p].kind = "launch" \/ At(p, "daemon", "born")}
Removing == {p \in Pids : \/ proc[p].kind \in {"stop", "status"}
                          \/ proc[p].kind = "daemon" /\ proc[p].pc \in {"stopping", "remove"}}

(* The starter of a daemon ends and the status file does not describe it.    *)
Missed(p) == At(p, "launch", "status") /\ proc'[p].kind = "none" /\ status' # proc[p].gen

History ==
  /\ raced' = (raced \/ (Starting # {} /\ Removing # {})')
  /\ rivals' = (rivals \/ Cardinality({p \in Pids : proc'[p].kind = "launch"}) > 1)
  /\ unwritten' = {g \in unwritten \cup {proc[p].gen : p \in {q \in Pids : Missed(q)}} :
                     \E d \in Pids : proc'[d].kind = "daemon" /\ proc'[d].gen = g}

Next == Step /\ History

Spec == Init /\ [][Next]_vars

(* A daemon that was told to end goes on ending; when it is started, when it *)
(* expires and what is typed is nobody's duty.                               *)
FairSpec == Spec /\ \A p \in Pids : WF_vars(DaemonStep(p) /\ History)

-----------------------------------------------------------------------------
Daemons == {p \in Pids : proc[p].kind = "daemon" /\ proc[p].pc \in {"born", "init", "serve", "stopping"}}

(* However starts, crashes and expiries follow each other, there are never   *)
(* two daemons on a PID file: unless a start overlapped with a stop, a       *)
(* status or the end of a daemon, which may unlink the file under the lock.  *)
OneDaemon == ~raced => Cardinality(Daemons) <= 1

(* A daemon that serves can be found: the PID file names it, however its     *)
(* starter and every process before it ended; once its starter is through,   *)
(* the status file describes it, or the starter could not write it or was    *)
(* killed first (the code warns at most).  With the same proviso, and for    *)
(* the status file if no two starts overlapped.                              *)
FilesDescribe ==
  ~raced => \A p \in Daemons : proc[p].pc = "serve" =>
    /\ dir = proc[p].inode /\ content[dir] = p
    /\ ~rivals /\ Starting = {} => status = proc[p].gen \/ proc[p].gen \in unwritten

(* A process that `sambam stop` has signalled ends, at whatever point of its *)
(* start or end the signal finds a daemon, unless stop gives up waiting.     *)
StopEndsDaemon ==
  \A q \in Pids : At(q, "stop", "wait") /\ ~proc[q].gone ~> proc[q].gone \/ ~At(q, "stop", "wait")
=============================================================================
