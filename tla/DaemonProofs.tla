---------------------------- MODULE DaemonProofs ----------------------------
(* Proofs about the daemon's PID file, for any number of processes, starts, *)
(* PID files and commands.                                                  *)
EXTENDS Daemon, FiniteSetTheorems, TLAPS

Pcs == {"none", "open", "lock", "fork", "status", "born", "init", "serve", "stopping", "remove",
        "read", "probe", "wait", "rmpid", "rmstatus"}

Process == [kind : {"none", "launch", "daemon", "stop", "status"},
            pc : Pcs, inode : 0 .. MaxInodes, gen : Nat,
            target : Pids \cup {NoPid}, gone : BOOLEAN]

(* A process is at a point of its own program, one that works on an inode   *)
(* has it open, and a command past reading the PID file has a target.       *)
Placed(p) ==
  /\ proc[p].kind = "none" => proc[p].pc = "none"
  /\ proc[p].kind = "launch" => proc[p].pc \in {"open", "lock", "fork", "status"}
  /\ proc[p].kind = "daemon" => proc[p].pc \in {"born", "init", "serve", "stopping", "remove"}
  /\ proc[p].kind = "stop" => proc[p].pc \in {"read", "probe", "wait", "rmpid", "rmstatus"}
  /\ proc[p].kind = "status" => proc[p].pc \in {"read", "probe", "rmpid", "rmstatus"}
  /\ proc[p].pc \in {"lock", "fork", "born", "init", "serve", "stopping"} => proc[p].inode # 0
  /\ proc[p].pc \in {"probe", "wait", "rmpid", "rmstatus"} => proc[p].target \in Pids

FilesType ==
  /\ dir \in 0 .. MaxInodes /\ inodes \in 0 .. MaxInodes /\ dir <= inodes
  /\ content \in [1 .. MaxInodes -> Pids \cup {NoPid}]
  /\ lock \in [1 .. MaxInodes -> Pids \cup {NoPid}]
  /\ starts \in Nat /\ commands \in Nat /\ status \in Nat

TypeInv == proc \in [Pids -> Process] /\ FilesType /\ \A p \in Pids : Placed(p)

-----------------------------------------------------------------------------
(* Membership in the sets the properties speak of.                          *)
Alive(p) == proc[p].kind = "daemon" /\ proc[p].pc \in {"born", "init", "serve", "stopping"}
Starts(p) == proc[p].kind = "launch" \/ At(p, "daemon", "born")
Removes(p) == \/ proc[p].kind \in {"stop", "status"}
              \/ proc[p].kind = "daemon" /\ proc[p].pc \in {"stopping", "remove"}

(* Nothing that removes the PID file runs while a daemon starts.            *)
Apart == \A p, q \in Pids : Starts(p) => ~Removes(q)

(* Who has the lock of the file with the name: a daemon, or its starter     *)
(* between LockFile and the fork.                                           *)
Holding(p) == At(p, "launch", "fork") \/ Alive(p)
HoldersHaveLock == \A p \in Pids : Holding(p) => dir = proc[p].inode /\ lock[dir] = p

(* The file a starter opened still has the name when it locks it.           *)
OpenedIsNamed == \A p \in Pids : At(p, "launch", "lock") => dir = proc[p].inode

(* The file with the name has the pid of the daemon that has its lock.      *)
FileNames == \A p \in Pids : Alive(p) /\ proc[p].pc # "born" => content[dir] = p

(* What removes files does so after the daemon; a command that has read the *)
(* PID file knows the daemon there is, if there is one.                     *)
Unlinks(p) ==
  \/ At(p, "daemon", "remove")
  \/ proc[p].pc \in {"rmpid", "rmstatus"}
  \/ proc[p].pc = "wait" /\ proc[p].gone
Knows(p) == proc[p].pc \in {"probe", "wait"}

NobodyUnlinked == \A p, q \in Pids : Unlinks(p) => ~Alive(q)
TargetIsDaemon == \A p, q \in Pids : Knows(p) /\ Alive(q) => proc[p].target = q

Exclusive ==
  /\ Apart /\ HoldersHaveLock /\ OpenedIsNamed /\ FileNames
  /\ NobodyUnlinked /\ TargetIsDaemon

(* With one starter at a time: the status file describes the daemon, or its *)
(* starter is about to write it, or ended without.                          *)
OneStarter == \A p, q \in Pids : proc[p].kind = "launch" /\ proc[q].kind = "launch" => p = q
StatusDue(p) == \E q \in Pids : At(q, "launch", "status") /\ proc[q].gen = proc[p].gen
StarterOfDaemon ==
  \A p, q \in Pids : Alive(p) /\ At(q, "launch", "status") => proc[q].gen = proc[p].gen
StatusDescribes ==
  \A p \in Pids : Alive(p) => status = proc[p].gen \/ StatusDue(p) \/ proc[p].gen \in unwritten

Described == OneStarter /\ StarterOfDaemon /\ StatusDescribes

IInv == TypeInv /\ (~raced => Exclusive) /\ (~raced /\ ~rivals => Described)

-----------------------------------------------------------------------------
(* What a process looks like after a step of it.                            *)
LEMMA Fields ==
  \A r \in Process :
    /\ r.kind \in {"none", "launch", "daemon", "stop", "status"} /\ r.pc \in Pcs
    /\ r.inode \in 0 .. MaxInodes /\ r.gen \in Nat
    /\ r.target \in Pids \cup {NoPid} /\ r.gone \in BOOLEAN
BY DEF Process

(* A record whose program counter is set.                                   *)
LEMMA Changed ==
  ASSUME NEW r \in Process, NEW l \in Pcs, NEW s, s = [r EXCEPT !.pc = l]
  PROVE  /\ s \in Process /\ s.kind = r.kind /\ s.pc = l /\ s.inode = r.inode
         /\ s.gen = r.gen /\ s.target = r.target /\ s.gone = r.gone
BY DEF Process

(* A record whose process has been seen gone.                               *)
LEMMA GoneSeen ==
  ASSUME NEW r \in Process
  PROVE  /\ [r EXCEPT !.gone = TRUE] \in Process
         /\ [r EXCEPT !.gone = TRUE].kind = r.kind /\ [r EXCEPT !.gone = TRUE].pc = r.pc
         /\ [r EXCEPT !.gone = TRUE].inode = r.inode /\ [r EXCEPT !.gone = TRUE].gen = r.gen
         /\ [r EXCEPT !.gone = TRUE].target = r.target /\ [r EXCEPT !.gone = TRUE].gone = TRUE
BY DEF Process

(* What Ended leaves of the other processes.                                *)
LEMMA EndedType ==
  ASSUME TypeInv, NEW p \in Pids
  PROVE  /\ Ended(p) \in [Pids -> Process]
         /\ Ended(p)[p] = Free
         /\ \A q \in Pids \ {p} :
              /\ Ended(p)[q].kind = proc[q].kind /\ Ended(p)[q].pc = proc[q].pc
              /\ Ended(p)[q].inode = proc[q].inode /\ Ended(p)[q].gen = proc[q].gen
              /\ Ended(p)[q].target = proc[q].target
              /\ Ended(p)[q].gone = IF proc[q].target = p THEN TRUE ELSE proc[q].gone
<1>1. Free \in Process
  BY BoundsAssumption DEF Free, Begin, Process, Pcs
<1>2. \A q \in Pids : proc[q] \in Process /\ proc[q].gone \in BOOLEAN
  BY DEF TypeInv, Process
<1>3. \A q \in Pids \ {p} :
        Ended(p)[q] = IF proc[q].target = p THEN [proc[q] EXCEPT !.gone = TRUE] ELSE proc[q]
  BY DEF Ended
<1>4. Ended(p)[p] = Free /\ DOMAIN Ended(p) = Pids
  BY DEF Ended
<1>5. ASSUME NEW q \in Pids \ {p}
      PROVE  /\ Ended(p)[q] \in Process
             /\ Ended(p)[q].kind = proc[q].kind /\ Ended(p)[q].pc = proc[q].pc
             /\ Ended(p)[q].inode = proc[q].inode /\ Ended(p)[q].gen = proc[q].gen
             /\ Ended(p)[q].target = proc[q].target
             /\ Ended(p)[q].gone = IF proc[q].target = p THEN TRUE ELSE proc[q].gone
  <2>1. CASE proc[q].target = p
    BY <1>2, <1>3, <2>1, GoneSeen
  <2>2. CASE proc[q].target # p
    BY <1>2, <1>3, <2>2
  <2> QED BY <2>1, <2>2
<1>6. Ended(p) \in [Pids -> Process]
  BY <1>1, <1>4, <1>5 DEF Ended
<1> QED BY <1>4, <1>5, <1>6

(* The processes after a step of p: p is this, the others are as before.    *)
Becomes(p, k, l, i, g, t, b) ==
  /\ proc' \in [Pids -> Process]
  /\ proc'[p].kind = k /\ proc'[p].pc = l /\ proc'[p].inode = i
  /\ proc'[p].gen = g /\ proc'[p].target = t /\ proc'[p].gone = b

Same(q) ==
  /\ proc'[q].kind = proc[q].kind /\ proc'[q].pc = proc[q].pc
  /\ proc'[q].inode = proc[q].inode /\ proc'[q].gen = proc[q].gen
  /\ proc'[q].target = proc[q].target
OthersSame(p) == \A q \in Pids : q # p => Same(q) /\ proc'[q].gone = proc[q].gone

(* ... and after the end of p: the others may have seen it.                 *)
Ends(p) ==
  /\ Becomes(p, "none", "none", 0, 0, NoPid, FALSE)
  /\ \A q \in Pids : q # p =>
       Same(q) /\ proc'[q].gone = IF proc[q].target = p THEN TRUE ELSE proc[q].gone

(* One record is replaced.                                                  *)
LEMMA OneChanges ==
  ASSUME TypeInv, NEW p \in Pids, NEW s \in Process, proc' = [proc EXCEPT ![p] = s]
  PROVE  proc' \in [Pids -> Process] /\ proc'[p] = s /\ OthersSame(p)
BY DEF TypeInv, OthersSame, Same

(* Goto, Exit and each action with an update of its own, field by field.    *)
LEMMA GotoEffect ==
  ASSUME TypeInv, NEW p \in Pids, NEW l \in Pcs, Goto(p, l)
  PROVE  /\ Becomes(p, proc[p].kind, l, proc[p].inode, proc[p].gen, proc[p].target, proc[p].gone)
         /\ OthersSame(p)
<1> DEFINE s == [proc[p] EXCEPT !.pc = l]
<1>1. proc[p] \in Process /\ proc' = [proc EXCEPT ![p] = s]
  BY DEF TypeInv, Goto
<1>2. /\ s \in Process /\ s.kind = proc[p].kind /\ s.pc = l /\ s.inode = proc[p].inode
      /\ s.gen = proc[p].gen /\ s.target = proc[p].target /\ s.gone = proc[p].gone
  BY <1>1, Changed
<1> HIDE DEF s
<1>3. proc' \in [Pids -> Process] /\ proc'[p] = s /\ OthersSame(p)
  BY <1>1, <1>2, OneChanges
<1> QED BY <1>2, <1>3 DEF Becomes

(* A process ends and gives up its lock.                                    *)
LEMMA ExitEffect ==
  ASSUME TypeInv, NEW p \in Pids, Exit(p)
  PROVE  /\ Ends(p) /\ lock' = Unlocked(p)
         /\ lock' \in [1 .. MaxInodes -> Pids \cup {NoPid}]
<1>1. Ends(p)
  <2> DEFINE T == Ended(p)
  <2>1. proc' = T
    BY DEF Exit
  <2>2. /\ T \in [Pids -> Process] /\ T[p] = Free
        /\ \A q \in Pids \ {p} :
             /\ T[q].kind = proc[q].kind /\ T[q].pc = proc[q].pc
             /\ T[q].inode = proc[q].inode /\ T[q].gen = proc[q].gen
             /\ T[q].target = proc[q].target
             /\ T[q].gone = IF proc[q].target = p THEN TRUE ELSE proc[q].gone
    BY EndedType
  <2> HIDE DEF T
  <2>3. Becomes(p, "none", "none", 0, 0, NoPid, FALSE)
    BY <2>1, <2>2 DEF Becomes, Free, Begin
  <2>4. ASSUME NEW q \in Pids, q # p
        PROVE  Same(q) /\ proc'[q].gone = IF proc[q].target = p THEN TRUE ELSE proc[q].gone
    <3>1. q \in Pids \ {p}
      BY <2>4
    <3> QED BY <2>1, <2>2, <3>1 DEF Same
  <2> QED BY <2>3, <2>4 DEF Ends
<1> QED BY <1>1 DEF Exit, Unlocked, TypeInv, FilesType

(* A new launcher.                                                          *)
LEMMA LaunchEffect ==
  ASSUME TypeInv, NEW p \in Pids, Launch(p)
  PROVE  Becomes(p, "launch", "open", 0, starts + 1, NoPid, FALSE) /\ OthersSame(p)
<1> DEFINE s == [kind |-> "launch", pc |-> "open", inode |-> 0, gen |-> starts + 1,
                 target |-> NoPid, gone |-> FALSE]
<1>1. proc' = [proc EXCEPT ![p] = s]
  BY DEF Launch, Begin
<1>2. s \in Process
  BY BoundsAssumption DEF TypeInv, FilesType, Process, Pcs
<1> QED BY <1>1, <1>2, OneChanges DEF Becomes

(* A new stop or status command.                                            *)
LEMMA CommandEffect ==
  ASSUME TypeInv, NEW p \in Pids, NEW k \in {"stop", "status"}, Command(p, k)
  PROVE  Becomes(p, k, "read", 0, 0, NoPid, FALSE) /\ OthersSame(p)
<1> DEFINE s == [kind |-> k, pc |-> "read", inode |-> 0, gen |-> 0,
                 target |-> NoPid, gone |-> FALSE]
<1>1. proc' = [proc EXCEPT ![p] = s]
  BY DEF Command, Begin
<1>2. s \in Process
  BY BoundsAssumption DEF Process, Pcs
<1> QED BY <1>1, <1>2, OneChanges DEF Becomes

(* The launcher opens the PID file, or makes it.                            *)
LEMMA OpenEffect ==
  ASSUME TypeInv, NEW p \in Pids, LaunchOpen(p)
  PROVE  /\ dir' \in 1 .. MaxInodes /\ inodes' \in 0 .. MaxInodes /\ dir' <= inodes'
         /\ dir # 0 => dir' = dir
         /\ Becomes(p, "launch", "lock", dir', proc[p].gen, proc[p].target, proc[p].gone)
         /\ OthersSame(p)
<1> DEFINE s == [proc[p] EXCEPT !.inode = dir', !.pc = "lock"]
<1>1. dir' \in 1 .. MaxInodes /\ inodes' \in 0 .. MaxInodes /\ dir' <= inodes'
        /\ (dir # 0 => dir' = dir)
  BY BoundsAssumption DEF LaunchOpen, TypeInv, FilesType
<1>2. proc[p] \in Process /\ proc' = [proc EXCEPT ![p] = s] /\ proc[p].kind = "launch"
  BY DEF TypeInv, LaunchOpen, At
<1>3. /\ s \in Process /\ s.kind = proc[p].kind /\ s.pc = "lock" /\ s.inode = dir'
      /\ s.gen = proc[p].gen /\ s.target = proc[p].target /\ s.gone = proc[p].gone
  <2>1. "lock" \in Pcs /\ dir' \in 0 .. MaxInodes
    BY <1>1 DEF Pcs
  <2> QED BY <1>2, <2>1 DEF Process
<1> HIDE DEF s
<1>4. proc' \in [Pids -> Process] /\ proc'[p] = s /\ OthersSame(p)
  BY <1>2, <1>3, OneChanges
<1> QED BY <1>1, <1>2, <1>3, <1>4 DEF Becomes

(* The daemon gives up its lock.                                            *)
LEMMA ReleaseEffect ==
  ASSUME TypeInv, NEW p \in Pids, ReleaseLock(p)
  PROVE  /\ Becomes(p, "daemon", "remove", 0, proc[p].gen, proc[p].target, proc[p].gone)
         /\ OthersSame(p)
<1> DEFINE s == [proc[p] EXCEPT !.pc = "remove", !.inode = 0]
<1>1. proc[p] \in Process /\ proc' = [proc EXCEPT ![p] = s] /\ proc[p].kind = "daemon"
  BY DEF TypeInv, ReleaseLock, At
<1>2. /\ s \in Process /\ s.kind = proc[p].kind /\ s.pc = "remove" /\ s.inode = 0
      /\ s.gen = proc[p].gen /\ s.target = proc[p].target /\ s.gone = proc[p].gone
  <2>1. "remove" \in Pcs /\ 0 \in 0 .. MaxInodes
    BY BoundsAssumption DEF Pcs
  <2> QED BY <1>1, <2>1 DEF Process
<1> HIDE DEF s
<1>3. proc' \in [Pids -> Process] /\ proc'[p] = s /\ OthersSame(p)
  BY <1>1, <1>2, OneChanges
<1> QED BY <1>1, <1>2, <1>3 DEF Becomes

(* A command has read the PID file.                                         *)
LEMMA ReadEffect ==
  ASSUME TypeInv, NEW p \in Pids, ReadPid(p), ~Exit(p)
  PROVE  /\ dir # 0 /\ content[dir] \in Pids /\ lock' = lock
         /\ Becomes(p, proc[p].kind, "probe", proc[p].inode, proc[p].gen, content[dir],
                    proc[p].gone)
         /\ OthersSame(p)
<1> DEFINE s == [proc[p] EXCEPT !.target = content[dir], !.pc = "probe"]
<1>1. dir # 0 /\ content[dir] \in Pids /\ lock' = lock
  BY DEF TypeInv, FilesType, ReadPid
<1>2. proc[p] \in Process /\ proc' = [proc EXCEPT ![p] = s]
  BY DEF TypeInv, ReadPid
<1>3. /\ s \in Process /\ s.kind = proc[p].kind /\ s.pc = "probe" /\ s.inode = proc[p].inode
      /\ s.gen = proc[p].gen /\ s.target = content[dir] /\ s.gone = proc[p].gone
  <2>1. "probe" \in Pcs
    BY DEF Pcs
  <2> QED BY <1>1, <1>2, <2>1 DEF Process
<1> HIDE DEF s
<1>4. proc' \in [Pids -> Process] /\ proc'[p] = s /\ OthersSame(p)
  BY <1>2, <1>3, OneChanges
<1> QED BY <1>1, <1>3, <1>4 DEF Becomes

(* A fork changes two processes.                                            *)
LEMMA ForkEffect ==
  ASSUME TypeInv, NEW p \in Pids, NEW c \in Pids, LaunchFork(p, c)
  PROVE  /\ p # c
         /\ Becomes(p, "launch", "status", 0, proc[p].gen, proc[p].target, proc[p].gone)
         /\ Becomes(c, "daemon", "born", proc[p].inode, proc[p].gen, NoPid, FALSE)
         /\ \A q \in Pids : q # p /\ q # c => Same(q) /\ proc'[q].gone = proc[q].gone
<1> DEFINE s == [proc[p] EXCEPT !.pc = "status", !.inode = 0]
<1> DEFINE d == Begin("daemon", "born", proc[p].inode, proc[p].gen)
<1>1. p # c /\ proc[p] \in Process /\ proc[p].kind = "launch"
        /\ proc[p].inode \in 0 .. MaxInodes /\ proc[p].gen \in Nat
  BY Fields DEF TypeInv, LaunchFork, At
<1>2. proc' = [[proc EXCEPT ![p] = s] EXCEPT ![c] = d]
  BY <1>1 DEF TypeInv, LaunchFork
<1>3. /\ s \in Process /\ s.kind = "launch" /\ s.pc = "status" /\ s.inode = 0
      /\ s.gen = proc[p].gen /\ s.target = proc[p].target /\ s.gone = proc[p].gone
  <2>1. "status" \in Pcs /\ 0 \in 0 .. MaxInodes
    BY BoundsAssumption DEF Pcs
  <2> QED BY <1>1, <2>1 DEF Process
<1>4. /\ d \in Process /\ d.kind = "daemon" /\ d.pc = "born" /\ d.inode = proc[p].inode
      /\ d.gen = proc[p].gen /\ d.target = NoPid /\ d.gone = FALSE
  BY <1>1 DEF Process, Pcs, Begin
<1>5. /\ proc' \in [Pids -> Process] /\ proc'[p] = s /\ proc'[c] = d
      /\ \A q \in Pids : q # p /\ q # c => proc'[q] = proc[q]
  <2> HIDE DEF s, d
  <2> QED BY <1>1, <1>2, <1>3, <1>4 DEF TypeInv
<1> QED BY <1>1, <1>3, <1>4, <1>5 DEF Becomes, Same

(* SIGTERM to t: t ends, or goes on to its end; p waits for it.             *)
Signalled(p, t) ==
  /\ t # p /\ proc[t].kind # "none"
  /\ \A q \in Pids : q # p /\ q # t =>
       /\ Same(q)
       /\ proc'[q].gone = IF proc[q].target = t /\ ~Survives(t) THEN TRUE ELSE proc[q].gone
  /\ ~Survives(t) =>
       /\ Becomes(p, "stop", "wait", proc[p].inode, proc[p].gen, t, TRUE)
       /\ Becomes(t, "none", "none", 0, 0, NoPid, FALSE) /\ lock' = Unlocked(t)
  /\ Survives(t) =>
       /\ Becomes(p, "stop", "wait", proc[p].inode, proc[p].gen, t, FALSE)
       /\ Becomes(t, "daemon", IF proc[t].pc = "serve" THEN "stopping" ELSE proc[t].pc,
                  proc[t].inode, proc[t].gen, proc[t].target, proc[t].gone)
       /\ lock' = lock

(* StopSignal, when it finds a process to signal.                           *)
LEMMA SignalEffect ==
  ASSUME TypeInv, NEW p \in Pids, NEW t \in Pids, t = proc[p].target, StopSignal(p), ~Exit(p)
  PROVE  Signalled(p, t)
<1> USE DEF Signalled
<1> DEFINE T == Terminated(t)
<1>1. /\ t # p /\ proc[t].kind # "none" /\ proc[p].kind = "stop"
      /\ proc' = [T EXCEPT ![p].pc = "wait", ![p].gone = ~Survives(t)]
      /\ lock' = IF Survives(t) THEN lock ELSE Unlocked(t)
  BY DEF StopSignal, At
<1>2. CASE ~Survives(t)
  <2> DEFINE s == [T[p] EXCEPT !.pc = "wait", !.gone = TRUE]
  <2>1. T = Ended(t)
    BY <1>2 DEF Terminated
  <2>2. T \in [Pids -> Process] /\ T[p] \in Process /\ T[t] = Free
    BY <2>1, EndedType
  <2> HIDE DEF T
  <2>3. proc' = [T EXCEPT ![p] = s]
    <3>1. (~Survives(t)) = TRUE
      BY <1>2
    <3>2. proc' = [T EXCEPT ![p].pc = "wait", ![p].gone = TRUE]
      BY <1>1, <3>1
    <3> QED BY <2>2, <3>2
  <2>4. /\ s \in Process /\ s.kind = T[p].kind /\ s.pc = "wait" /\ s.inode = T[p].inode
        /\ s.gen = T[p].gen /\ s.target = T[p].target /\ s.gone = TRUE
    <3>1. "wait" \in Pcs
      BY DEF Pcs
    <3> QED BY <2>2, <3>1 DEF Process
  <2> HIDE DEF s
  <2>5. proc' \in [Pids -> Process] /\ proc'[p] = s /\ \A q \in Pids : q # p => proc'[q] = T[q]
    BY <2>2, <2>3, <2>4
  <2>6. /\ Becomes(p, "stop", "wait", proc[p].inode, proc[p].gen, t, TRUE)
        /\ Becomes(t, "none", "none", 0, 0, NoPid, FALSE)
    <3>1. T[p].kind = proc[p].kind /\ T[p].inode = proc[p].inode /\ T[p].gen = proc[p].gen
            /\ T[p].target = proc[p].target
      BY <1>1, <2>1, EndedType
    <3>2. Becomes(p, "stop", "wait", proc[p].inode, proc[p].gen, t, TRUE)
      BY <1>1, <2>4, <2>5, <3>1 DEF Becomes
    <3>3. proc'[t] = Free
      BY <1>1, <2>2, <2>5
    <3> QED BY <2>5, <3>2, <3>3 DEF Becomes, Free, Begin
  <2>7. ASSUME NEW q \in Pids, q # p, q # t
        PROVE  /\ Same(q)
               /\ proc'[q].gone = IF proc[q].target = t THEN TRUE ELSE proc[q].gone
    <3>1. q \in Pids \ {t} /\ proc'[q] = T[q]
      BY <2>5, <2>7
    <3>2. /\ T[q].kind = proc[q].kind /\ T[q].pc = proc[q].pc /\ T[q].inode = proc[q].inode
          /\ T[q].gen = proc[q].gen /\ T[q].target = proc[q].target
          /\ T[q].gone = IF proc[q].target = t THEN TRUE ELSE proc[q].gone
      BY <2>1, <3>1, EndedType
    <3> QED BY <3>1, <3>2 DEF Same
  <2> QED BY <1>1, <1>2, <2>6, <2>7
<1>3. CASE Survives(t)
  <2> DEFINE s == [T[p] EXCEPT !.pc = "wait", !.gone = FALSE]
  <2>1. /\ proc[t] \in Process /\ proc[t].kind = "daemon" /\ proc[t].pc \in Pcs
        /\ proc[p] \in Process
    BY <1>3, Fields DEF TypeInv, Survives
  <2>2. T = IF proc[t].pc = "serve" THEN [proc EXCEPT ![t] = [proc[t] EXCEPT !.pc = "stopping"]]
            ELSE proc
    BY <1>3, <2>1 DEF Terminated, At, TypeInv
  <2>3. /\ T \in [Pids -> Process]
        /\ \A q \in Pids : q # t => T[q] = proc[q]
        /\ T[t].kind = "daemon"
        /\ T[t].pc = IF proc[t].pc = "serve" THEN "stopping" ELSE proc[t].pc
        /\ T[t].inode = proc[t].inode /\ T[t].gen = proc[t].gen
        /\ T[t].target = proc[t].target /\ T[t].gone = proc[t].gone
    <3> DEFINE u == [proc[t] EXCEPT !.pc = "stopping"]
    <3>1. /\ u \in Process /\ u.kind = proc[t].kind /\ u.pc = "stopping"
             /\ u.inode = proc[t].inode
          /\ u.gen = proc[t].gen /\ u.target = proc[t].target /\ u.gone = proc[t].gone
      BY <2>1, Changed DEF Pcs
    <3> HIDE DEF u, T
    <3>2. T = IF proc[t].pc = "serve" THEN [proc EXCEPT ![t] = u] ELSE proc
      BY <2>2 DEF u
    <3>3. CASE proc[t].pc = "serve"
      BY <2>1, <3>1, <3>2, <3>3 DEF TypeInv
    <3>4. CASE proc[t].pc # "serve"
      BY <2>1, <3>2, <3>4 DEF TypeInv
    <3> QED BY <3>3, <3>4
  <2> HIDE DEF T
  <2>4. T[p] = proc[p] /\ proc' = [T EXCEPT ![p] = s]
    <3>1. (~Survives(t)) = FALSE
      BY <1>3
    <3>2. proc' = [T EXCEPT ![p].pc = "wait", ![p].gone = FALSE]
      BY <1>1, <3>1
    <3> QED BY <1>1, <2>1, <2>3, <3>2
  <2>5. /\ s \in Process /\ s.kind = T[p].kind /\ s.pc = "wait" /\ s.inode = T[p].inode
        /\ s.gen = T[p].gen /\ s.target = T[p].target /\ s.gone = FALSE
    <3>1. "wait" \in Pcs
      BY DEF Pcs
    <3> QED BY <2>1, <2>4, <3>1 DEF Process
  <2> HIDE DEF s
  <2>6. proc' \in [Pids -> Process] /\ proc'[p] = s /\ \A q \in Pids : q # p => proc'[q] = T[q]
    BY <2>3, <2>4, <2>5
  <2>7. /\ Becomes(p, "stop", "wait", proc[p].inode, proc[p].gen, t, FALSE)
        /\ Becomes(t, "daemon", IF proc[t].pc = "serve" THEN "stopping" ELSE proc[t].pc,
                   proc[t].inode, proc[t].gen, proc[t].target, proc[t].gone)
    <3>1. Becomes(p, "stop", "wait", proc[p].inode, proc[p].gen, t, FALSE)
      BY <1>1, <2>4, <2>5, <2>6 DEF Becomes
    <3>2. proc'[t] = T[t]
      BY <1>1, <2>6
    <3> QED BY <2>3, <2>6, <3>1, <3>2 DEF Becomes
  <2>8. ASSUME NEW q \in Pids, q # p, q # t
        PROVE  Same(q) /\ proc'[q].gone = proc[q].gone
    BY <2>3, <2>6, <2>8 DEF Same
  <2> QED BY <1>1, <1>3, <2>7, <2>8
<1> QED BY <1>2, <1>3

(* What the history variables tell of a step.                               *)
LEMMA HistoryFacts ==
  ASSUME History
  PROVE  /\ ~raced' => ~raced /\ Apart'
         /\ ~rivals' => ~rivals /\ OneStarter'
<1>1. ASSUME ~raced' PROVE ~raced /\ Apart'
  <2>1. ~raced /\ (Starting' = {} \/ Removing' = {})
    BY <1>1 DEF History
  <2>2. \A p \in Pids : (Starts(p)' <=> p \in Starting') /\ (Removes(p)' <=> p \in Removing')
    BY DEF Starting, Removing, Starts, Removes, At
  <2> QED BY <2>1, <2>2 DEF Apart
<1>2. ASSUME ~rivals' PROVE ~rivals /\ OneStarter'
  <2> DEFINE S == {p \in Pids : proc'[p].kind = "launch"}
  <2>1. ~rivals /\ ~(Cardinality(S) > 1)
    BY <1>2 DEF History
  <2>2. IsFiniteSet(S) /\ Cardinality(S) \in Nat
    BY PidsAssumption, FS_Subset, FS_CardinalityType
  <2>3. ASSUME NEW p \in S, NEW q \in S, p # q PROVE FALSE
    <3>1. {p} \subseteq S /\ {p} # S
      BY <2>3
    <3>2. Cardinality({p}) = 1
      BY FS_Singleton
    <3>3. Cardinality({p}) <= Cardinality(S) /\ Cardinality({p}) # Cardinality(S)
      BY <2>2, <3>1, FS_Subset
    <3> QED BY <2>1, <2>2, <3>2, <3>3
  <2> QED BY <2>1, <2>3 DEF OneStarter
<1> QED BY <1>1, <1>2

(* Who is a daemon after a step stays unwritten, and becomes it when its    *)
(* starter ended without a status file.                                     *)
Unwritten(g) ==
  \/ g \in unwritten
  \/ \E q \in Pids : /\ At(q, "launch", "status") /\ proc'[q].kind = "none"
                    /\ proc[q].gen = g /\ status' # g
Recorded == \A p \in Pids : Alive(p)' /\ Unwritten(proc'[p].gen) => proc'[p].gen \in unwritten'

(* History keeps that record.                                               *)
LEMMA HistoryRecords ==
  ASSUME History
  PROVE  Recorded
<1> SUFFICES ASSUME NEW p \in Pids, Alive(p)', Unwritten(proc'[p].gen)
             PROVE  proc'[p].gen \in unwritten'
  BY DEF Recorded
<1> DEFINE S == unwritten \cup {proc[r].gen : r \in {q \in Pids : Missed(q)}}
<1>1. proc'[p].kind = "daemon"
  BY DEF Alive
<1>2. proc'[p].gen \in S
  BY DEF Unwritten, Missed
<1>3. unwritten' = {g \in S : \E d \in Pids : proc'[d].kind = "daemon" /\ proc'[d].gen = g}
  BY DEF History
<1> QED BY <1>1, <1>2, <1>3

(* A step that changes the processes in P and keeps these in place.         *)
LEMMA Kept ==
  ASSUME TypeInv, NEW P \in SUBSET Pids, proc' \in [Pids -> Process],
         \A q \in Pids \ P : Same(q), \A q \in P : Placed(q)', FilesType'
  PROVE  TypeInv'
<1>1. ASSUME NEW q \in Pids PROVE Placed(q)'
  <2>1. CASE q \in P
    BY <2>1
  <2>2. CASE q \notin P
    <3>1. Same(q) /\ Placed(q)
      BY <1>1, <2>2 DEF TypeInv
    <3> QED BY <3>1 DEF Same, Placed
  <2> QED BY <2>1, <2>2
<1> QED BY <1>1 DEF TypeInv

(* The same for a step of one process.                                      *)
LEMMA KeptOne ==
  ASSUME TypeInv, NEW p \in Pids, proc' \in [Pids -> Process], OthersSame(p),
         Placed(p)', FilesType'
  PROVE  TypeInv'
<1> DEFINE P == {p}
<1>1. P \in SUBSET Pids /\ (\A q \in Pids \ P : Same(q)) /\ (\A q \in P : Placed(q)')
  BY DEF OthersSame
<1> HIDE DEF P
<1> QED BY <1>1, Kept

(* What a process is for the others stays as it is while the process does.  *)
StaysAs(q) ==
  /\ Alive(q)' = Alive(q) /\ Holding(q)' = Holding(q) /\ Knows(q)' = Knows(q)
  /\ Unlinks(q)' = Unlinks(q) /\ At(q, "launch", "lock")' = At(q, "launch", "lock") /\ Same(q)

(* What is the same to the letter stays as it is.                           *)
LEMMA OthersKeep ==
  ASSUME NEW q \in Pids, Same(q), proc'[q].gone = proc[q].gone
  PROVE  StaysAs(q)
BY DEF StaysAs, Same, Alive, Holding, Knows, Unlinks, At

(* Every action keeps the types.                                            *)
LEMMA TypeStep ==
  ASSUME TypeInv, NEW p \in Pids,
         \/ Launch(p) \/ Command(p, "stop") \/ Command(p, "status")
         \/ Launcher(p) \/ DaemonStep(p) \/ CommandStep(p)
         \/ Expire(p) \/ Crash(p)
  PROVE  TypeInv'
<1> USE NoPidAssumption, BoundsAssumption
<1>0. /\ FilesType /\ Placed(p)
      /\ proc[p].inode \in 0 .. MaxInodes /\ proc[p].gen \in Nat
  BY Fields DEF TypeInv
<1>1. ASSUME Exit(p), dir' \in {dir, 0}, status' \in {status, 0, proc[p].gen},
             UNCHANGED <<content, counts>>
      PROVE  TypeInv'
  <2>1. Ends(p) /\ lock' \in [1 .. MaxInodes -> Pids \cup {NoPid}]
    BY <1>1, ExitEffect
  <2>2. FilesType' /\ Placed(p)'
    BY <1>0, <1>1, <2>1 DEF FilesType, Placed, Ends, Becomes, counts
  <2> DEFINE P == {p}
  <2>3. P \in SUBSET Pids /\ (\A q \in Pids \ P : Same(q)) /\ (\A q \in P : Placed(q)')
    BY <2>1, <2>2 DEF Ends
  <2>4. proc' \in [Pids -> Process]
    BY <2>1 DEF Ends, Becomes
  <2> HIDE DEF P
  <2> QED BY <2>2, <2>3, <2>4, Kept
<1>2. CASE Launch(p)
  <2>1. Becomes(p, "launch", "open", 0, starts + 1, NoPid, FALSE) /\ OthersSame(p)
    BY <1>2, LaunchEffect
  <2>2. Placed(p)' /\ FilesType'
    BY <1>2, <2>1, <1>0 DEF Launch, Becomes, Placed, FilesType, At, files, counts
  <2> QED BY <2>1, <2>2, KeptOne DEF Becomes
<1>3. ASSUME NEW k \in {"stop", "status"}, Command(p, k) PROVE TypeInv'
  <2>1. Becomes(p, k, "read", 0, 0, NoPid, FALSE) /\ OthersSame(p)
    BY <1>3, CommandEffect
  <2>2. Placed(p)' /\ FilesType'
    BY <1>3, <2>1, <1>0 DEF Command, Becomes, Placed, FilesType, At, files, counts
  <2> QED BY <2>1, <2>2, KeptOne DEF Becomes
<1>4. CASE Launcher(p)
  <2>1. CASE LaunchOpen(p)
    <3>1. /\ dir' \in 1 .. MaxInodes /\ inodes' \in 0 .. MaxInodes /\ dir' <= inodes'
          /\ Becomes(p, "launch", "lock", dir', proc[p].gen, proc[p].target, proc[p].gone)
          /\ OthersSame(p)
      BY <2>1, OpenEffect
    <3>2. Placed(p)' /\ FilesType'
      BY <2>1, <3>1, <1>0 DEF LaunchOpen, Becomes, Placed, FilesType
    <3> QED BY <3>1, <3>2, KeptOne DEF Becomes
  <2>2. CASE LaunchLock(p)
    <3>1. CASE lock[proc[p].inode] = NoPid
      <4>1. /\ Becomes(p, proc[p].kind, "fork", proc[p].inode,
                       proc[p].gen, proc[p].target, proc[p].gone)
            /\ OthersSame(p)
        BY <2>2, <3>1, GotoEffect DEF LaunchLock, Pcs
      <4>2. Placed(p)' /\ FilesType'
        BY <2>2, <3>1, <4>1, <1>0 DEF LaunchLock, Becomes, Placed, FilesType, At, counts
      <4> QED BY <4>1, <4>2, KeptOne DEF Becomes
    <3>2. CASE lock[proc[p].inode] # NoPid
      BY <1>1, <2>2, <3>2 DEF LaunchLock, counts
    <3> QED BY <3>1, <3>2
  <2>3. CASE LaunchStatus(p)
    BY <1>1, <2>3 DEF LaunchStatus, counts
  <2>4. ASSUME NEW c \in Pids, LaunchFork(p, c) PROVE TypeInv'
    <3>1. /\ p # c
          /\ Becomes(p, "launch", "status", 0, proc[p].gen, proc[p].target, proc[p].gone)
          /\ Becomes(c, "daemon", "born", proc[p].inode, proc[p].gen, NoPid, FALSE)
          /\ \A q \in Pids : q # p /\ q # c => Same(q)
      BY <2>4, ForkEffect
    <3>2. Placed(p)' /\ Placed(c)' /\ FilesType'
      BY <2>4, <3>1, <1>0 DEF LaunchFork, Becomes, Placed, FilesType, At, counts
    <3> DEFINE P == {p, c}
    <3>3. P \in SUBSET Pids /\ (\A q \in Pids \ P : Same(q)) /\ (\A q \in P : Placed(q)')
      BY <3>1, <3>2
    <3>4. proc' \in [Pids -> Process]
      BY <3>1 DEF Becomes
    <3> HIDE DEF P
    <3> QED BY <3>2, <3>3, <3>4, Kept
  <2> QED BY <1>4, <2>1, <2>2, <2>3, <2>4 DEF Launcher
<1>5. CASE DaemonStep(p)
  <2>1. CASE WritePid(p)
    <3>1. /\ Becomes(p, proc[p].kind, "init", proc[p].inode,
                     proc[p].gen, proc[p].target, proc[p].gone)
          /\ OthersSame(p)
      BY <2>1, GotoEffect DEF WritePid, Pcs
    <3>2. Placed(p)' /\ FilesType'
      BY <2>1, <3>1, <1>0 DEF WritePid, Becomes, Placed, FilesType, At, files, counts
    <3> QED BY <3>1, <3>2, KeptOne DEF Becomes
  <2>2. CASE Serve(p)
    <3>1. /\ Becomes(p, proc[p].kind, "serve", proc[p].inode,
                     proc[p].gen, proc[p].target, proc[p].gone)
          /\ OthersSame(p)
      BY <2>2, GotoEffect DEF Serve, Pcs
    <3>2. Placed(p)' /\ FilesType'
      BY <2>2, <3>1, <1>0 DEF Serve, Becomes, Placed, FilesType, At, files, counts
    <3> QED BY <3>1, <3>2, KeptOne DEF Becomes
  <2>3. CASE ReleaseLock(p)
    <3>1. /\ Becomes(p, "daemon", "remove", 0,
                     proc[p].gen, proc[p].target, proc[p].gone)
          /\ OthersSame(p)
      BY <2>3, ReleaseEffect
    <3>2. Placed(p)' /\ FilesType'
      BY <2>3, <3>1, <1>0 DEF ReleaseLock, Becomes, Unlocked, Placed, FilesType, At, files, counts
    <3> QED BY <3>1, <3>2, KeptOne DEF Becomes
  <2>4. CASE ReleaseRemove(p)
    BY <1>1, <2>4 DEF ReleaseRemove, counts
  <2> QED BY <1>5, <2>1, <2>2, <2>3, <2>4 DEF DaemonStep
<1>6. CASE CommandStep(p)
  <2>1. CASE ReadPid(p)
    <3>1. CASE Exit(p)
      BY <1>1, <2>1, <3>1 DEF ReadPid, counts
    <3>2. CASE ~Exit(p)
      <4>1. /\ dir # 0 /\ content[dir] \in Pids /\ lock' = lock
            /\ Becomes(p, proc[p].kind, "probe", proc[p].inode, proc[p].gen, content[dir],
                       proc[p].gone)
            /\ OthersSame(p)
        BY <2>1, <3>2, ReadEffect
      <4>2. Placed(p)' /\ FilesType'
        BY <2>1, <4>1, <1>0 DEF ReadPid, Becomes, Placed, FilesType, counts
      <4> QED BY <4>1, <4>2, KeptOne DEF Becomes
    <3> QED BY <3>1, <3>2
  <2>2. CASE StopSignal(p)
    <3>1. CASE Exit(p)
      BY <1>1, <2>2, <3>1 DEF StopSignal, counts
    <3>2. CASE ~Exit(p)
      <4>0. PICK t \in Pids : t = proc[p].target
        BY <1>0, <2>2 DEF StopSignal, At, Placed
      <4>1. Placed(t) /\ UNCHANGED <<dir, content, status, counts>>
        BY <2>2 DEF StopSignal, TypeInv
      <4>2. Signalled(p, t)
        BY <2>2, <3>2, <4>0, SignalEffect
      <4>3. FilesType'
        BY <1>0, <4>1, <4>2 DEF Signalled, FilesType, Unlocked, counts
      <4>4. Placed(p)'
        BY <1>0, <4>1, <4>2 DEF Signalled, Placed, Becomes
      <4>5. Placed(t)'
        <5>1. CASE Survives(t)
          BY <4>1, <4>2, <5>1 DEF Signalled, Placed, Becomes, Survives
        <5>2. CASE ~Survives(t)
          BY <4>1, <4>2, <5>2 DEF Signalled, Placed, Becomes
        <5> QED BY <5>1, <5>2
      <4>6. proc' \in [Pids -> Process]
        BY <4>2 DEF Signalled, Becomes
      <4> DEFINE P == {p, t}
      <4>7. P \in SUBSET Pids /\ (\A q \in Pids \ P : Same(q)) /\ (\A q \in P : Placed(q)')
        <5>1. \A q \in Pids : q # p /\ q # t => Same(q)
          BY <4>2 DEF Signalled
        <5> QED BY <4>1, <4>4, <4>5, <5>1
      <4> HIDE DEF P
      <4> QED BY <4>3, <4>6, <4>7, Kept
    <3> QED BY <3>1, <3>2
  <2>3. CASE StopGone(p)
    <3>1. /\ Becomes(p, proc[p].kind, "rmpid", proc[p].inode,
                     proc[p].gen, proc[p].target, proc[p].gone)
          /\ OthersSame(p)
      BY <2>3, GotoEffect DEF StopGone, Pcs
    <3>2. Placed(p)' /\ FilesType'
      BY <2>3, <3>1, <1>0 DEF StopGone, Becomes, Placed, FilesType, At, files, counts
    <3> QED BY <3>1, <3>2, KeptOne DEF Becomes
  <2>4. CASE StopTimeout(p)
    BY <1>1, <2>4 DEF StopTimeout, counts
  <2>5. CASE StatusProbe(p)
    <3>1. CASE Exit(p)
      BY <1>1, <2>5, <3>1 DEF StatusProbe, counts
    <3>2. CASE ~Exit(p)
      <4>1. /\ Becomes(p, proc[p].kind, "rmpid", proc[p].inode,
                       proc[p].gen, proc[p].target, proc[p].gone)
            /\ OthersSame(p)
        BY <2>5, <3>2, GotoEffect DEF StatusProbe, Pcs
      <4>2. Placed(p)' /\ FilesType'
        BY <2>5, <3>2, <4>1, <1>0 DEF StatusProbe, Becomes, Placed, FilesType, At, counts
      <4> QED BY <4>1, <4>2, KeptOne DEF Becomes
    <3> QED BY <3>1, <3>2
  <2>6. CASE CleanPidFile(p)
    <3>1. /\ Becomes(p, proc[p].kind, "rmstatus", proc[p].inode,
                     proc[p].gen, proc[p].target, proc[p].gone)
          /\ OthersSame(p)
      BY <2>6, GotoEffect DEF CleanPidFile, Pcs
    <3>2. Placed(p)' /\ FilesType'
      BY <2>6, <3>1, <1>0 DEF CleanPidFile, Becomes, Placed, FilesType, At, files, counts
    <3> QED BY <3>1, <3>2, KeptOne DEF Becomes
  <2>7. CASE CleanStatusFile(p)
    BY <1>1, <2>7 DEF CleanStatusFile, counts
  <2> QED BY <1>6, <2>1, <2>2, <2>3, <2>4, <2>5, <2>6, <2>7 DEF CommandStep
<1>7. CASE Expire(p)
  <2>1. /\ Becomes(p, proc[p].kind, "stopping", proc[p].inode,
                   proc[p].gen, proc[p].target, proc[p].gone)
        /\ OthersSame(p)
    BY <1>7, GotoEffect DEF Expire, Pcs
  <2>2. Placed(p)' /\ FilesType'
    BY <1>7, <2>1, <1>0 DEF Expire, Becomes, Placed, FilesType, At, files, counts
  <2> QED BY <2>1, <2>2, KeptOne DEF Becomes
<1>8. CASE Crash(p)
  BY <1>1, <1>8 DEF Crash, counts
<1> QED BY <1>2, <1>3, <1>4, <1>5, <1>6, <1>7, <1>8

(* Every action that begins no race keeps the PID file with its daemon.     *)
LEMMA ExclusiveStep ==
  ASSUME TypeInv, Exclusive, Apart', NEW p \in Pids,
         \/ Launch(p) \/ Command(p, "stop") \/ Command(p, "status")
         \/ Launcher(p) \/ DaemonStep(p) \/ CommandStep(p)
         \/ Expire(p) \/ Crash(p)
  PROVE  Exclusive'
<1>0. /\ FilesType /\ (\A q \in Pids : Placed(q)) /\ Exclusive /\ Apart'
  BY DEF TypeInv
<1>1. /\ DOMAIN lock = 1 .. MaxInodes /\ DOMAIN content = DOMAIN lock
      /\ \A q \in Pids : Alive(q) => Holding(q)
      /\ \A q \in Pids : Holding(q) => dir \in DOMAIN lock /\ dir = proc[q].inode /\ lock[dir] = q
  BY <1>0 DEF Holding, Alive, At, Placed, FilesType, Exclusive, HoldersHaveLock
<1>2. \A q, r \in Pids : Holding(q) /\ Holding(r) => q = r
  BY <1>1
<1>3. \A q \in Pids : At(q, "launch", "lock") => dir # 0 /\ dir = proc[q].inode
  BY <1>0 DEF At, Placed, Exclusive, OpenedIsNamed
<1>4. \A q \in Pids : Unlinks(q) \/ Knows(q) => Removes(q) /\ ~Alive(q) /\ ~Holding(q)
  <2>1. ASSUME NEW q \in Pids, Unlinks(q) \/ Knows(q) PROVE Removes(q) /\ ~Alive(q) /\ ~Holding(q)
    <3>1. proc[q].kind \in {"none", "launch", "daemon", "stop", "status"} /\ Placed(q)
      BY Fields DEF TypeInv
    <3> QED BY <2>1, <3>1 DEF Unlinks, Knows, Removes, Alive, Holding, Placed, At
  <2> QED BY <2>1
<1>5. \A q, r \in Pids : Starts(q) => ~Removes(r)
  BY <1>0 DEF Exclusive, Apart
<1>6. \A q \in Pids : At(q, "launch", "lock") \/ At(q, "launch", "fork") => Starts(q)
  BY DEF At, Starts
<1>7. \A q, r \in Pids :
         (Unlinks(q) => ~Alive(r)) /\ (Knows(q) /\ Alive(r) => proc[q].target = r)
  BY <1>0 DEF Exclusive, NobodyUnlinked, TargetIsDaemon
<1>8. \A q \in Pids : Holding(q) => At(q, "launch", "fork") \/ Alive(q)
  BY DEF Holding
<1> USE NoPidAssumption
<1>9. ASSUME Exit(p), content' = content,
             dir' = dir \/ \A q \in Pids : ~Holding(q) /\ ~At(q, "launch", "lock")
      PROVE  Exclusive'
  <2>1. Ends(p) /\ lock' = Unlocked(p)
    BY <1>9, ExitEffect
  <2>2. /\ ~Alive(p)' /\ ~Holding(p)' /\ ~At(p, "launch", "lock")' /\ ~Unlinks(p)' /\ ~Knows(p)'
        /\ \A q \in Pids : q # p =>
             /\ Alive(q)' = Alive(q) /\ Holding(q)' = Holding(q) /\ Same(q)
             /\ At(q, "launch", "lock")' = At(q, "launch", "lock") /\ Knows(q)' = Knows(q)
             /\ Unlinks(q)' => Unlinks(q) \/ (Knows(q) /\ proc[q].target = p)
    BY <2>1 DEF Ends, Becomes, Same, Alive, Holding, At, Unlinks, Knows
  <2>3. HoldersHaveLock'
    BY <1>9, <1>1, <2>1, <2>2 DEF HoldersHaveLock, Unlocked, Same
  <2>4. OpenedIsNamed'
    BY <1>0, <1>9, <2>2 DEF OpenedIsNamed, Exclusive, Same
  <2>5. FileNames'
    BY <1>0, <1>9, <2>2 DEF FileNames, Exclusive, Same, Holding
  <2>6. NobodyUnlinked' /\ TargetIsDaemon'
    BY <1>0, <2>2 DEF NobodyUnlinked, TargetIsDaemon, Exclusive, Same
  <2> QED BY <1>0, <2>3, <2>4, <2>5, <2>6 DEF Exclusive
<1>10. CASE Launch(p)
  <2>1. Becomes(p, "launch", "open", 0, starts + 1, NoPid, FALSE) /\ OthersSame(p)
    BY <1>10, LaunchEffect
  <2>2. \A q \in Pids : q # p => StaysAs(q)
    BY <2>1, OthersKeep DEF OthersSame
  <2>3. ~Alive(p)' /\ ~Holding(p)' /\ ~Knows(p)' /\ ~Unlinks(p)' /\ ~At(p, "launch", "lock")'
    BY <1>10, <2>1, <1>0 DEF Launch, Becomes, Alive, Holding, Knows, Unlinks, Removes, Starts,
         At, Placed
  <2> QED BY <1>10, <2>1, <2>2, <2>3, <1>0, <1>1, <1>2
         DEF Launch, Becomes, StaysAs, Same, files, Exclusive, Apart, HoldersHaveLock,
             OpenedIsNamed, FileNames, NobodyUnlinked, TargetIsDaemon
<1>11. ASSUME NEW k \in {"stop", "status"}, Command(p, k) PROVE Exclusive'
  <2>1. Becomes(p, k, "read", 0, 0, NoPid, FALSE) /\ OthersSame(p)
    BY <1>11, CommandEffect
  <2>2. \A q \in Pids : q # p => StaysAs(q)
    BY <2>1, OthersKeep DEF OthersSame
  <2>3. ~Alive(p)' /\ ~Holding(p)' /\ ~Knows(p)' /\ ~Unlinks(p)' /\ ~At(p, "launch", "lock")'
    BY <1>11, <2>1, <1>0 DEF Command, Becomes, Alive, Holding, Knows, Unlinks, Removes, Starts,
         At, Placed
  <2> QED BY <1>11, <2>1, <2>2, <2>3, <1>0, <1>1, <1>2
         DEF Command, Becomes, StaysAs, Same, files, Exclusive, Apart, HoldersHaveLock,
             OpenedIsNamed, FileNames, NobodyUnlinked, TargetIsDaemon
<1>12. CASE Launcher(p)
  <2>1. CASE LaunchOpen(p)
    <3>1. /\ dir' \in 1 .. MaxInodes /\ inodes' \in 0 .. MaxInodes /\ dir' <= inodes'
          /\ dir # 0 => dir' = dir
          /\ /\ Becomes(p, "launch", "lock", dir',
                        proc[p].gen, proc[p].target, proc[p].gone)
             /\ OthersSame(p)
      BY <2>1, OpenEffect
    <3>2. \A q \in Pids : q # p => StaysAs(q)
      BY <3>1, OthersKeep DEF OthersSame
    <3>3. ~Alive(p)' /\ ~Holding(p)' /\ ~Knows(p)' /\ ~Unlinks(p)'
      BY <2>1, <3>1, <1>0 DEF LaunchOpen, Becomes, Alive, Holding, Knows, Unlinks, Removes,
           Starts, At, Placed
    <3> QED BY <2>1, <3>1, <3>2, <3>3, <1>0, <1>1, <1>2, <1>3
           DEF LaunchOpen, Becomes, StaysAs, Same, files, Exclusive, Apart, HoldersHaveLock,
               OpenedIsNamed, FileNames, NobodyUnlinked, TargetIsDaemon
  <2>2. CASE LaunchLock(p)
    <3>1. CASE lock[proc[p].inode] = NoPid
      <4>1. /\ Becomes(p, proc[p].kind, "fork", proc[p].inode,
                       proc[p].gen, proc[p].target, proc[p].gone)
            /\ OthersSame(p)
        BY <2>2, <3>1, GotoEffect DEF LaunchLock, Pcs
      <4>2. \A q \in Pids : q # p => StaysAs(q)
        BY <4>1, OthersKeep DEF OthersSame
      <4>3. /\ At(p, "launch", "lock") /\ ~At(p, "launch", "lock")' /\ ~Alive(p)'
               /\ dir \in DOMAIN lock
            /\ dir' = dir /\ lock' = [lock EXCEPT ![dir] = p] /\ proc'[p].inode = dir
        BY <1>0, <1>3, <1>1, <2>2, <3>1, <4>1 DEF LaunchLock, Becomes, Alive, At, FilesType
      <4>4. \A q \in Pids : ~Holding(q) /\ ~Alive(q)
        BY <1>3, <1>1, <3>1, <4>3
      <4>5. \A q \in Pids : ~Alive(q)' /\ (Holding(q)' => q = p)
              /\ (At(q, "launch", "lock")' => At(q, "launch", "lock") /\ Same(q))
        BY <4>2, <4>3, <4>4 DEF StaysAs
      <4>6. HoldersHaveLock' /\ OpenedIsNamed'
        BY <1>3, <4>3, <4>5 DEF HoldersHaveLock, OpenedIsNamed, Same
      <4> QED BY <1>0, <4>5, <4>6 DEF Exclusive, FileNames, NobodyUnlinked, TargetIsDaemon
    <3>2. CASE lock[proc[p].inode] # NoPid
      BY <1>9, <2>2, <3>2 DEF LaunchLock
    <3> QED BY <3>1, <3>2
  <2>3. CASE LaunchStatus(p)
    BY <1>9, <2>3 DEF LaunchStatus
  <2>4. ASSUME NEW c \in Pids, LaunchFork(p, c) PROVE Exclusive'
    <3>1. /\ p # c
          /\ Becomes(p, "launch", "status", 0, proc[p].gen, proc[p].target, proc[p].gone)
          /\ Becomes(c, "daemon", "born", proc[p].inode, proc[p].gen, NoPid, FALSE)
          /\ \A q \in Pids : q # p /\ q # c => Same(q) /\ proc'[q].gone = proc[q].gone
      BY <2>4, ForkEffect
    <3>2. \A q \in Pids : q # p /\ q # c => StaysAs(q)
      BY <3>1, OthersKeep
    <3>3. /\ Holding(p) /\ ~Alive(p) /\ Starts(p)
          /\ ~Alive(p)' /\ ~Holding(p)' /\ ~Knows(p)' /\ ~Unlinks(p)' /\ ~At(p, "launch", "lock")'
      BY <2>4, <3>1 DEF LaunchFork, Becomes, Alive, Holding, Knows, Unlinks, Starts, At
    <3>4. /\ Alive(c)' /\ ~Knows(c)' /\ ~Unlinks(c)' /\ ~At(c, "launch", "lock")' /\ Starts(c)'
          /\ proc'[c].pc = "born" /\ proc'[c].inode = proc[p].inode
      BY <3>1 DEF Becomes, Alive, Knows, Unlinks, Starts, At
    <3>5. \A q \in Pids : q # p => ~Unlinks(q) /\ ~Knows(q) /\ ~Holding(q) /\ ~Alive(q)
      BY <1>4, <1>1, <1>2, <1>5, <3>3
    <3>6. \A q \in Pids : /\ Alive(q)' => q = c
                          /\ Holding(q)' => q = c
                          /\ ~Unlinks(q)' /\ ~Knows(q)'
                          /\ At(q, "launch", "lock")' => At(q, "launch", "lock") /\ Same(q)
      BY <3>2, <3>3, <3>4, <3>5 DEF StaysAs
    <3>7. dir' = dir /\ dir \in DOMAIN lock /\ dir = proc[p].inode
            /\ lock' = [lock EXCEPT ![dir] = c]
      BY <1>1, <2>4, <3>3 DEF LaunchFork
    <3>8. HoldersHaveLock' /\ OpenedIsNamed' /\ FileNames'
      BY <1>3, <3>4, <3>6, <3>7 DEF HoldersHaveLock, OpenedIsNamed, FileNames, Same
    <3>9. NobodyUnlinked' /\ TargetIsDaemon'
      BY <3>6 DEF NobodyUnlinked, TargetIsDaemon
    <3> QED BY <1>0, <3>8, <3>9 DEF Exclusive
  <2> QED BY <1>12, <2>1, <2>2, <2>3, <2>4 DEF Launcher
<1>13. CASE DaemonStep(p)
  <2>1. CASE WritePid(p)
    <3>1. /\ Becomes(p, proc[p].kind, "init", proc[p].inode,
                     proc[p].gen, proc[p].target, proc[p].gone)
          /\ OthersSame(p)
      BY <2>1, GotoEffect DEF WritePid, Pcs
    <3>2. \A q \in Pids : q # p => StaysAs(q)
      BY <3>1, OthersKeep DEF OthersSame
    <3>3. Alive(p) /\ Alive(p)' /\ Holding(p) /\ ~Knows(p)' /\ ~Unlinks(p)'
            /\ ~At(p, "launch", "lock")'
      BY <2>1, <3>1, <1>0 DEF WritePid, Becomes, Alive, Holding, Knows, Unlinks, Removes,
           Starts, At, Placed
    <3> QED BY <2>1, <3>1, <3>2, <3>3, <1>0, <1>1, <1>2
           DEF WritePid, Becomes, StaysAs, Same, files, Exclusive, Apart, HoldersHaveLock,
               OpenedIsNamed, FileNames, NobodyUnlinked, TargetIsDaemon
  <2>2. CASE Serve(p)
    <3>1. /\ Becomes(p, proc[p].kind, "serve", proc[p].inode,
                     proc[p].gen, proc[p].target, proc[p].gone)
          /\ OthersSame(p)
      BY <2>2, GotoEffect DEF Serve, Pcs
    <3>2. \A q \in Pids : q # p => StaysAs(q)
      BY <3>1, OthersKeep DEF OthersSame
    <3>3. Alive(p) /\ Alive(p)' /\ Holding(p) /\ ~Knows(p)' /\ ~Unlinks(p)'
            /\ ~At(p, "launch", "lock")' /\ proc[p].pc # "born"
      BY <2>2, <3>1, <1>0 DEF Serve, Becomes, Alive, Holding, Knows, Unlinks, Removes, Starts,
           At, Placed
    <3> QED BY <2>2, <3>1, <3>2, <3>3, <1>0, <1>1, <1>2
           DEF Serve, Becomes, StaysAs, Same, files, Exclusive, Apart, HoldersHaveLock,
               OpenedIsNamed, FileNames, NobodyUnlinked, TargetIsDaemon
  <2>3. CASE ReleaseLock(p)
    <3>1. /\ Becomes(p, "daemon", "remove", 0,
                     proc[p].gen, proc[p].target, proc[p].gone)
          /\ OthersSame(p)
      BY <2>3, ReleaseEffect
    <3>2. \A q \in Pids : q # p => StaysAs(q)
      BY <3>1, OthersKeep DEF OthersSame
    <3>3. Alive(p) /\ Holding(p) /\ ~Alive(p)' /\ ~Holding(p)' /\ ~Knows(p)'
            /\ ~At(p, "launch", "lock")' /\ Removes(p)
      BY <2>3, <3>1, <1>0 DEF ReleaseLock, Becomes, Alive, Holding, Knows, Unlinks, Removes,
           Starts, At, Placed
    <3> QED BY <2>3, <3>1, <3>2, <3>3, <1>0, <1>1, <1>2
           DEF ReleaseLock, Becomes, StaysAs, Same, files, Unlocked, Exclusive, Apart,
               HoldersHaveLock, OpenedIsNamed, FileNames, NobodyUnlinked, TargetIsDaemon
  <2>4. CASE ReleaseRemove(p)
    <3>1. Unlinks(p)
      BY <2>4 DEF ReleaseRemove, Unlinks
    <3>2. \A q \in Pids : ~Holding(q) /\ ~At(q, "launch", "lock")
      BY <1>4, <1>5, <1>6, <1>7, <1>8, <3>1
    <3> QED BY <1>9, <2>4, <3>2 DEF ReleaseRemove
  <2> QED BY <1>13, <2>1, <2>2, <2>3, <2>4 DEF DaemonStep
<1>14. CASE CommandStep(p)
  <2>1. CASE ReadPid(p)
    <3>1. CASE Exit(p)
      BY <1>9, <2>1, <3>1 DEF ReadPid
    <3>2. CASE ~Exit(p)
      <4>1. /\ dir # 0 /\ content[dir] \in Pids /\ lock' = lock
            /\ Becomes(p, proc[p].kind, "probe", proc[p].inode, proc[p].gen, content[dir],
                       proc[p].gone)
            /\ OthersSame(p)
        BY <2>1, <3>2, ReadEffect
      <4>2. \A q \in Pids : q # p => StaysAs(q)
        BY <4>1, OthersKeep DEF OthersSame
      <4>3. /\ Knows(p)' /\ ~Unlinks(p)' /\ ~Alive(p)' /\ ~Holding(p)'
               /\ ~At(p, "launch", "lock")'
            /\ proc'[p].target = content[dir] /\ Removes(p) /\ dir' = dir /\ content' = content
        <5>1. proc[p].kind \in {"none", "launch", "daemon", "stop", "status"} /\ Placed(p)
          BY Fields DEF TypeInv
        <5>2. proc[p].kind \in {"stop", "status"}
          BY <2>1, <5>1 DEF ReadPid, Placed
        <5> QED BY <2>1, <4>1, <5>2 DEF ReadPid, Becomes, Knows, Unlinks, Alive, Holding,
                 Removes, At
      <4>4. \A q \in Pids : Alive(q) => content[dir] = q
        BY <1>0, <1>5, <4>3 DEF Exclusive, FileNames, Starts, Alive, At
      <4>5. HoldersHaveLock' /\ OpenedIsNamed' /\ FileNames'
        BY <1>0, <4>1, <4>2, <4>3 DEF Exclusive, HoldersHaveLock, OpenedIsNamed, FileNames,
             StaysAs, Same
      <4>6. NobodyUnlinked' /\ TargetIsDaemon'
        BY <1>7, <4>2, <4>3, <4>4 DEF NobodyUnlinked, TargetIsDaemon, StaysAs, Same
      <4> QED BY <1>0, <4>5, <4>6 DEF Exclusive
    <3> QED BY <3>1, <3>2
  <2>2. CASE StopSignal(p)
    <3>1. CASE Exit(p)
      BY <1>9, <2>2, <3>1 DEF StopSignal
    <3>2. CASE ~Exit(p)
      <4>0. PICK t \in Pids : t = proc[p].target
        BY <1>0, <2>2 DEF StopSignal, At, Placed
      <4>1. /\ dir' = dir /\ content' = content
            /\ Knows(p) /\ ~Alive(p)' /\ ~Holding(p)' /\ ~At(p, "launch", "lock")' /\ t # p
        <5>1. Signalled(p, t)
          BY <2>2, <3>2, <4>0, SignalEffect
        <5> QED BY <2>2, <5>1 DEF StopSignal, Signalled, Becomes, Knows, Alive, Holding, At
      <4>2. Signalled(p, t)
        BY <2>2, <3>2, <4>0, SignalEffect
      <4>3. \A q \in Pids : ~At(q, "launch", "fork") /\ ~At(q, "launch", "lock")
        BY <1>4, <1>5, <1>6, <4>1
      <4>4. \A q \in Pids : (Alive(q) => q = t) /\ (Holding(q) => q = t)
        BY <1>7, <1>8, <4>0, <4>1, <4>3
      <4>5. \A q \in Pids : q # p /\ q # t =>
              /\ ~Alive(q)' /\ ~Holding(q)' /\ ~At(q, "launch", "lock")'
        BY <4>2, <4>3, <4>4 DEF Signalled, Same, Alive, Holding, At
      <4>6. CASE ~Survives(t)
        <5>1. ~Alive(t)' /\ ~Holding(t)' /\ ~At(t, "launch", "lock")'
          BY <4>2, <4>6 DEF Signalled, Becomes, Alive, Holding, At
        <5>2. \A q \in Pids : ~Alive(q)' /\ ~Holding(q)' /\ ~At(q, "launch", "lock")'
          BY <4>1, <4>5, <5>1
        <5> QED BY <1>0, <5>2
                DEF Exclusive, HoldersHaveLock, OpenedIsNamed, FileNames, NobodyUnlinked,
                    TargetIsDaemon
      <4>7. CASE Survives(t)
        <5>1. /\ Becomes(p, "stop", "wait", proc[p].inode, proc[p].gen, t, FALSE)
              /\ Becomes(t, "daemon", IF proc[t].pc = "serve" THEN "stopping" ELSE proc[t].pc,
                         proc[t].inode, proc[t].gen, proc[t].target, proc[t].gone)
              /\ lock' = lock
              /\ \A q \in Pids : q # p /\ q # t => Same(q) /\ proc'[q].gone = proc[q].gone
          BY <4>2, <4>7 DEF Signalled
        <5>2. \A q \in Pids : q # p /\ q # t => StaysAs(q)
          BY <5>1, OthersKeep
        <5>3. ~Unlinks(p)' /\ proc'[p].target = t
          BY <5>1 DEF Becomes, Unlinks, At
        <5>4. /\ Alive(t)' => Alive(t) /\ proc[t].pc # "born"
              /\ Holding(t)' => Holding(t)
              /\ ~Knows(t)' /\ (Unlinks(t)' => Unlinks(t)) /\ ~At(t, "launch", "lock")'
              /\ proc'[t].inode = proc[t].inode
          BY <5>1, <4>7 DEF Becomes, Survives, Alive, Holding, Knows, Unlinks, At
        <5>5. \A q \in Pids : (Alive(q)' => q = t /\ Alive(t) /\ proc[t].pc # "born")
                /\ (Holding(q)' => q = t /\ Holding(t)) /\ ~At(q, "launch", "lock")'
          BY <4>1, <4>5, <5>4
        <5>6. HoldersHaveLock' /\ OpenedIsNamed' /\ FileNames'
          BY <1>0, <4>1, <5>1, <5>4, <5>5 DEF Exclusive, HoldersHaveLock, OpenedIsNamed, FileNames
        <5>7. NobodyUnlinked' /\ TargetIsDaemon'
          BY <1>7, <5>2, <5>3, <5>4, <5>5 DEF NobodyUnlinked, TargetIsDaemon, StaysAs, Same
        <5> QED BY <1>0, <5>6, <5>7 DEF Exclusive
      <4> QED BY <4>6, <4>7
    <3> QED BY <3>1, <3>2
  <2>3. CASE StopGone(p)
    <3>1. /\ Becomes(p, proc[p].kind, "rmpid", proc[p].inode,
                     proc[p].gen, proc[p].target, proc[p].gone)
          /\ OthersSame(p)
      BY <2>3, GotoEffect DEF StopGone, Pcs
    <3>2. \A q \in Pids : q # p => StaysAs(q)
      BY <3>1, OthersKeep DEF OthersSame
    <3>3. Unlinks(p) /\ ~Alive(p)' /\ ~Holding(p)' /\ ~Knows(p)' /\ ~At(p, "launch", "lock")'
      BY <2>3, <3>1, <1>0 DEF StopGone, Becomes, Alive, Holding, Knows, Unlinks, Removes,
           Starts, At, Placed
    <3> QED BY <2>3, <3>1, <3>2, <3>3, <1>0, <1>1, <1>2
           DEF StopGone, Becomes, StaysAs, Same, files, Exclusive, Apart, HoldersHaveLock,
               OpenedIsNamed, FileNames, NobodyUnlinked, TargetIsDaemon
  <2>4. CASE StopTimeout(p)
    BY <1>9, <2>4 DEF StopTimeout
  <2>5. CASE StatusProbe(p)
    <3>1. CASE Exit(p)
      BY <1>9, <2>5, <3>1 DEF StatusProbe
    <3>2. CASE ~Exit(p)
      <4>1. /\ Becomes(p, proc[p].kind, "rmpid", proc[p].inode,
                       proc[p].gen, proc[p].target, proc[p].gone)
            /\ OthersSame(p)
        BY <2>5, <3>2, GotoEffect DEF StatusProbe, Pcs
      <4>2. \A q \in Pids : q # p => StaysAs(q)
        BY <4>1, OthersKeep DEF OthersSame
      <4>3. /\ Knows(p) /\ ~Alive(p)' /\ ~Holding(p)' /\ ~Knows(p)' /\ ~At(p, "launch", "lock")'
            /\ proc[proc[p].target].kind = "none"
            /\ dir' = dir /\ content' = content /\ lock' = lock
        BY <2>5, <3>2, <4>1 DEF StatusProbe, Becomes, Knows, Alive, Holding, At
      <4>4. \A q \in Pids : ~Alive(q)
        BY <1>7, <4>3 DEF Alive
      <4>5. \A q \in Pids : ~Alive(q)'
        BY <4>2, <4>3, <4>4 DEF StaysAs
      <4>6. HoldersHaveLock' /\ OpenedIsNamed'
        BY <1>0, <4>2, <4>3 DEF Exclusive, HoldersHaveLock, OpenedIsNamed, StaysAs, Same
      <4> QED BY <1>0, <4>5, <4>6 DEF Exclusive, FileNames, NobodyUnlinked, TargetIsDaemon
    <3> QED BY <3>1, <3>2
  <2>6. CASE CleanPidFile(p)
    <3>1. /\ Becomes(p, proc[p].kind, "rmstatus", proc[p].inode,
                     proc[p].gen, proc[p].target, proc[p].gone)
          /\ OthersSame(p)
      BY <2>6, GotoEffect DEF CleanPidFile, Pcs
    <3>2. \A q \in Pids : q # p => StaysAs(q)
      BY <3>1, OthersKeep DEF OthersSame
    <3>3. Unlinks(p) /\ ~Holding(p)' /\ ~Alive(p)' /\ ~At(p, "launch", "lock")'
      BY <2>6, <3>1 DEF CleanPidFile, Becomes, Unlinks, Holding, Alive, At
    <3>4. \A q \in Pids : ~Holding(q) /\ ~Alive(q) /\ ~At(q, "launch", "lock")
      BY <1>4, <1>5, <1>6, <1>7, <1>8, <3>3
    <3>5. \A q \in Pids : ~Holding(q)' /\ ~Alive(q)' /\ ~At(q, "launch", "lock")'
      BY <3>2, <3>3, <3>4 DEF StaysAs
    <3> QED BY <1>0, <3>5
            DEF Exclusive, HoldersHaveLock, OpenedIsNamed, FileNames, NobodyUnlinked,
                TargetIsDaemon
  <2>7. CASE CleanStatusFile(p)
    BY <1>9, <2>7 DEF CleanStatusFile
  <2> QED BY <1>14, <2>1, <2>2, <2>3, <2>4, <2>5, <2>6, <2>7 DEF CommandStep
<1>15. CASE Expire(p)
  <2>1. /\ Becomes(p, proc[p].kind, "stopping", proc[p].inode,
                   proc[p].gen, proc[p].target, proc[p].gone)
        /\ OthersSame(p)
    BY <1>15, GotoEffect DEF Expire, Pcs
  <2>2. \A q \in Pids : q # p => StaysAs(q)
    BY <2>1, OthersKeep DEF OthersSame
  <2>3. Alive(p) /\ Alive(p)' /\ Holding(p) /\ ~Knows(p)' /\ ~Unlinks(p)'
          /\ ~At(p, "launch", "lock")' /\ proc[p].pc # "born"
    BY <1>15, <2>1, <1>0 DEF Expire, Becomes, Alive, Holding, Knows, Unlinks, Removes, Starts,
         At, Placed
  <2> QED BY <1>15, <2>1, <2>2, <2>3, <1>0, <1>1, <1>2
         DEF Expire, Becomes, StaysAs, Same, files, Exclusive, Apart, HoldersHaveLock,
             OpenedIsNamed, FileNames, NobodyUnlinked, TargetIsDaemon
<1>16. CASE Crash(p)
  BY <1>9, <1>16 DEF Crash
<1> QED BY <1>10, <1>11, <1>12, <1>13, <1>14, <1>15, <1>16

(* A process is, for the status file, what it was: or a daemon less.        *)
Quiet(q) ==
  /\ Alive(q)' => Alive(q) /\ proc'[q].gen = proc[q].gen
  /\ At(q, "launch", "status")' <=> At(q, "launch", "status")
  /\ At(q, "launch", "status") => proc'[q].gen = proc[q].gen

(* A process that did not change is quiet.                                  *)
LEMMA SameQuiet ==
  ASSUME NEW q \in Pids, Same(q)
  PROVE  Quiet(q)
BY DEF Quiet, Same, Alive, At

(* While all are quiet and the file is left alone, it describes its daemon. *)
LEMMA DescribedKept ==
  ASSUME Described, OneStarter', Recorded, status' = status, \A q \in Pids : Quiet(q)
  PROVE  Described'
<1>1. StarterOfDaemon'
  BY DEF Described, StarterOfDaemon, Quiet
<1>2. ASSUME NEW q \in Pids, Alive(q)' 
      PROVE  (status = proc[q].gen \/ StatusDue(q) \/ proc[q].gen \in unwritten)'
  <2>1. Alive(q) /\ proc'[q].gen = proc[q].gen
    BY <1>2 DEF Quiet
  <2>2. CASE status = proc[q].gen
    BY <2>1, <2>2
  <2>3. CASE StatusDue(q)
    <3>1. PICK r \in Pids : At(r, "launch", "status") /\ proc[r].gen = proc[q].gen
      BY <2>3 DEF StatusDue
    <3> QED BY <2>1, <3>1 DEF StatusDue, Quiet
  <2>4. CASE proc[q].gen \in unwritten
    BY <1>2, <2>1, <2>4 DEF Recorded, Unwritten
  <2> QED BY <2>1, <2>2, <2>3, <2>4 DEF Described, StatusDescribes
<1> QED BY <1>1, <1>2 DEF Described, StatusDescribes

(* Every action that begins no race keeps the status file with its daemon.  *)
LEMMA DescribedStep ==
  ASSUME TypeInv, Exclusive, Described, OneStarter', Recorded, NEW p \in Pids,
         \/ Launch(p) \/ Command(p, "stop") \/ Command(p, "status")
         \/ Launcher(p) \/ DaemonStep(p) \/ CommandStep(p)
         \/ Expire(p) \/ Crash(p)
  PROVE  Described'
<1>1. /\ \A q, r \in Pids : Starts(q) => ~Removes(r)
      /\ \A q, r \in Pids : Unlinks(q) => ~Alive(r)
      /\ \A q \in Pids : Placed(q) /\ proc[q].kind \in {"none", "launch", "daemon", "stop",
         "status"}
  BY Fields DEF TypeInv, Exclusive, Apart, NobodyUnlinked
<1>0. ASSUME Exit(p), At(p, "launch", "status") PROVE Described'
  <2>1. Ends(p) /\ proc'[p].kind = "none"
    BY <1>0, ExitEffect DEF Ends, Becomes
  <2>2. ASSUME NEW q \in Pids,
          Alive(q)' PROVE status' = proc'[q].gen \/ proc'[q].gen \in unwritten'
    <3>1. Alive(q) /\ proc'[q].gen = proc[q].gen
      BY <2>1, <2>2 DEF Ends, Becomes, Same, Alive
    <3>2. proc'[q].gen = proc[p].gen
      BY <1>0, <3>1 DEF Described, StarterOfDaemon
    <3> QED BY <1>0, <2>1, <2>2, <3>2 DEF Recorded, Unwritten
  <2>3. \A q \in Pids : ~At(q, "launch", "status")'
    <3>1. ASSUME NEW q \in Pids, At(q, "launch", "status")' PROVE FALSE
      <4>1. q # p /\ At(q, "launch", "status")
        BY <2>1, <3>1 DEF Ends, Becomes, Same, At
      <4> QED BY <1>0, <4>1 DEF Described, OneStarter, At
    <3> QED BY <3>1
  <2> QED BY <2>2, <2>3 DEF Described, StarterOfDaemon, StatusDescribes
<1>2. ASSUME Exit(p), status' = status, ~At(p, "launch", "status") PROVE Described'
  <2>1. Ends(p)
    BY <1>2, ExitEffect
  <2>2. Quiet(p)
    BY <1>2, <2>1 DEF Ends, Becomes, Quiet, Alive, At
  <2>3. \A q \in Pids : Quiet(q)
    BY <2>1, <2>2, SameQuiet DEF Ends
  <2> QED BY <1>2, <2>3, DescribedKept
<1>3. ASSUME OthersSame(p), Quiet(p), status' = status PROVE Described'
  <2>1. \A q \in Pids : Quiet(q)
    BY <1>3, SameQuiet DEF OthersSame
  <2> QED BY <1>3, <2>1, DescribedKept
<1>4. CASE Launch(p)
  <2>1. Becomes(p, "launch", "open", 0, starts + 1, NoPid, FALSE) /\ OthersSame(p)
    BY <1>4, LaunchEffect
  <2>2. Quiet(p) /\ status' = status
    BY <1>1, <1>4, <2>1 DEF Launch, Becomes, Quiet, Alive, At, Placed, files
  <2> QED BY <1>3, <2>1, <2>2
<1>5. ASSUME NEW k \in {"stop", "status"}, Command(p, k) PROVE Described'
  <2>1. Becomes(p, k, "read", 0, 0, NoPid, FALSE) /\ OthersSame(p)
    BY <1>5, CommandEffect
  <2>2. Quiet(p) /\ status' = status
    BY <1>1, <1>5, <2>1 DEF Command, Becomes, Quiet, Alive, At, Placed, files
  <2> QED BY <1>3, <2>1, <2>2
<1>6. CASE Launcher(p)
  <2>1. CASE LaunchOpen(p)
    <3>1. /\ Becomes(p, "launch", "lock", dir',
                     proc[p].gen, proc[p].target, proc[p].gone)
          /\ OthersSame(p)
      BY <2>1, OpenEffect
    <3>2. Quiet(p) /\ status' = status
      BY <1>1, <2>1, <3>1 DEF LaunchOpen, Becomes, Quiet, Alive, At, Placed, files
    <3> QED BY <1>3, <3>1, <3>2
  <2>2. CASE LaunchLock(p)
    <3>1. CASE Exit(p)
      BY <1>2, <2>2, <3>1 DEF LaunchLock, At
    <3>2. CASE ~Exit(p)
      <4>1. /\ Becomes(p, proc[p].kind, "fork", proc[p].inode,
                       proc[p].gen, proc[p].target, proc[p].gone)
            /\ OthersSame(p)
        BY <2>2, <3>2, GotoEffect DEF LaunchLock, Pcs
      <4>2. Quiet(p) /\ status' = status
        BY <2>2, <4>1 DEF LaunchLock, Becomes, Quiet, Alive, At
      <4> QED BY <1>3, <4>1, <4>2
    <3> QED BY <3>1, <3>2
  <2>3. CASE LaunchStatus(p)
    BY <1>0, <2>3 DEF LaunchStatus
  <2>4. ASSUME NEW c \in Pids, LaunchFork(p, c) PROVE Described'
    <3>1. /\ p # c
          /\ Becomes(p, "launch", "status", 0, proc[p].gen, proc[p].target, proc[p].gone)
          /\ Becomes(c, "daemon", "born", proc[p].inode, proc[p].gen, NoPid, FALSE)
          /\ \A q \in Pids : q # p /\ q # c => Same(q)
      BY <2>4, ForkEffect
    <3>2. ASSUME NEW q \in Pids, Alive(q)' PROVE q = c
      <4>1. q # p
        BY <3>1, <3>2 DEF Becomes, Alive
      <4>2. q # c => Alive(q)
        BY <3>1, <3>2, <4>1 DEF Same, Alive
      <4>3. Alive(q) => lock[dir] = q
        BY DEF Exclusive, HoldersHaveLock, Holding
      <4>4. lock[dir] = p
        BY <2>4 DEF Exclusive, HoldersHaveLock, Holding, LaunchFork
      <4> QED BY <4>1, <4>2, <4>3, <4>4
    <3>3. /\ At(p, "launch", "status")' /\ proc'[p].gen = proc'[c].gen /\ proc'[p].kind = "launch"
      BY <3>1 DEF Becomes, At
    <3>4. \A q \in Pids : At(q, "launch", "status")' => q = p
      BY <3>3 DEF OneStarter, At
    <3> QED BY <3>2, <3>3, <3>4 DEF Described, StarterOfDaemon, StatusDescribes, StatusDue
  <2> QED BY <1>6, <2>1, <2>2, <2>3, <2>4 DEF Launcher
<1>7. CASE DaemonStep(p)
  <2>1. CASE WritePid(p)
    <3>1. /\ Becomes(p, proc[p].kind, "init", proc[p].inode,
                     proc[p].gen, proc[p].target, proc[p].gone)
          /\ OthersSame(p)
      BY <2>1, GotoEffect DEF WritePid, Pcs
    <3>2. Quiet(p) /\ status' = status
      BY <1>1, <2>1, <3>1 DEF WritePid, Becomes, Quiet, Alive, At, Placed, files
    <3> QED BY <1>3, <3>1, <3>2
  <2>2. CASE Serve(p)
    <3>1. /\ Becomes(p, proc[p].kind, "serve", proc[p].inode,
                     proc[p].gen, proc[p].target, proc[p].gone)
          /\ OthersSame(p)
      BY <2>2, GotoEffect DEF Serve, Pcs
    <3>2. Quiet(p) /\ status' = status
      BY <1>1, <2>2, <3>1 DEF Serve, Becomes, Quiet, Alive, At, Placed, files
    <3> QED BY <1>3, <3>1, <3>2
  <2>3. CASE ReleaseLock(p)
    <3>1. /\ Becomes(p, "daemon", "remove", 0,
                     proc[p].gen, proc[p].target, proc[p].gone)
          /\ OthersSame(p)
      BY <2>3, ReleaseEffect
    <3>2. Quiet(p) /\ status' = status
      BY <1>1, <2>3, <3>1 DEF ReleaseLock, Becomes, Quiet, Alive, At, Placed, files
    <3> QED BY <1>3, <3>1, <3>2
  <2>4. CASE ReleaseRemove(p)
    BY <1>2, <2>4 DEF ReleaseRemove, At
  <2> QED BY <1>7, <2>1, <2>2, <2>3, <2>4 DEF DaemonStep
<1>8. CASE CommandStep(p)
  <2>1. CASE ReadPid(p)
    <3>1. CASE Exit(p)
      BY <1>2, <2>1, <3>1 DEF ReadPid, At
    <3>2. CASE ~Exit(p)
      <4>1. /\ Becomes(p, proc[p].kind, "probe", proc[p].inode, proc[p].gen, content[dir],
                       proc[p].gone)
            /\ OthersSame(p)
        BY <2>1, <3>2, ReadEffect
      <4>2. Quiet(p) /\ status' = status
        BY <2>1, <4>1 DEF ReadPid, Becomes, Quiet, Alive, At
      <4> QED BY <1>3, <4>1, <4>2
    <3> QED BY <3>1, <3>2
  <2>2. CASE StopSignal(p)
    <3>1. CASE Exit(p)
      BY <1>2, <2>2, <3>1 DEF StopSignal, At
    <3>2. CASE ~Exit(p)
      <4>0. PICK t \in Pids : t = proc[p].target
        BY <1>1, <2>2 DEF StopSignal, At, Placed
      <4>1. status' = status /\ proc[p].kind = "stop"
        BY <2>2 DEF StopSignal, At
      <4>2. Signalled(p, t)
        BY <2>2, <3>2, <4>0, SignalEffect
      <4>3. ~At(t, "launch", "status")
        BY <1>1, <4>1 DEF Starts, Removes, At
      <4>4. Quiet(p)
        BY <4>1, <4>2 DEF Signalled, Becomes, Quiet, Alive, At
      <4>5. Quiet(t)
        <5>1. CASE Survives(t)
          BY <4>2, <5>1 DEF Signalled, Becomes, Survives, Quiet, Alive, At
        <5>2. CASE ~Survives(t)
          BY <4>2, <4>3, <5>2 DEF Signalled, Becomes, Quiet, Alive, At
        <5> QED BY <5>1, <5>2
      <4>6. \A q \in Pids : q # p /\ q # t => Same(q)
        BY <4>2 DEF Signalled
      <4>7. \A q \in Pids : Quiet(q)
        BY <4>4, <4>5, <4>6, SameQuiet
      <4> QED BY <4>1, <4>7, DescribedKept
    <3> QED BY <3>1, <3>2
  <2>3. CASE StopGone(p)
    <3>1. /\ Becomes(p, proc[p].kind, "rmpid", proc[p].inode,
                     proc[p].gen, proc[p].target, proc[p].gone)
          /\ OthersSame(p)
      BY <2>3, GotoEffect DEF StopGone, Pcs
    <3>2. Quiet(p) /\ status' = status
      BY <1>1, <2>3, <3>1 DEF StopGone, Becomes, Quiet, Alive, At, Placed, files
    <3> QED BY <1>3, <3>1, <3>2
  <2>4. CASE StopTimeout(p)
    BY <1>2, <2>4 DEF StopTimeout, At
  <2>5. CASE StatusProbe(p)
    <3>1. CASE Exit(p)
      BY <1>2, <2>5, <3>1 DEF StatusProbe, At
    <3>2. CASE ~Exit(p)
      <4>1. /\ Becomes(p, proc[p].kind, "rmpid", proc[p].inode,
                       proc[p].gen, proc[p].target, proc[p].gone)
            /\ OthersSame(p)
        BY <2>5, <3>2, GotoEffect DEF StatusProbe, Pcs
      <4>2. Quiet(p) /\ status' = status
        BY <2>5, <4>1 DEF StatusProbe, Becomes, Quiet, Alive, At
      <4> QED BY <1>3, <4>1, <4>2
    <3> QED BY <3>1, <3>2
  <2>6. CASE CleanPidFile(p)
    <3>1. /\ Becomes(p, proc[p].kind, "rmstatus", proc[p].inode,
                     proc[p].gen, proc[p].target, proc[p].gone)
          /\ OthersSame(p)
      BY <2>6, GotoEffect DEF CleanPidFile, Pcs
    <3>2. Quiet(p) /\ status' = status
      BY <1>1, <2>6, <3>1 DEF CleanPidFile, Becomes, Quiet, Alive, At, Placed, files
    <3> QED BY <1>3, <3>1, <3>2
  <2>7. CASE CleanStatusFile(p)
    <3>1. Ends(p) /\ Unlinks(p)
      BY <2>7, ExitEffect DEF CleanStatusFile, Unlinks
    <3>2. \A q \in Pids : ~Alive(q)'
      BY <1>1, <3>1 DEF Ends, Becomes, Same, Alive
    <3> QED BY <3>2 DEF Described, StarterOfDaemon, StatusDescribes
  <2> QED BY <1>8, <2>1, <2>2, <2>3, <2>4, <2>5, <2>6, <2>7 DEF CommandStep
<1>9. CASE Expire(p)
  <2>1. /\ Becomes(p, proc[p].kind, "stopping", proc[p].inode,
                   proc[p].gen, proc[p].target, proc[p].gone)
        /\ OthersSame(p)
    BY <1>9, GotoEffect DEF Expire, Pcs
  <2>2. Quiet(p) /\ status' = status
    BY <1>1, <1>9, <2>1 DEF Expire, Becomes, Quiet, Alive, At, Placed, files
  <2> QED BY <1>3, <2>1, <2>2
<1>10. CASE Crash(p)
  BY <1>0, <1>2, <1>10 DEF Crash
<1> QED BY <1>4, <1>5, <1>6, <1>7, <1>8, <1>9, <1>10

-----------------------------------------------------------------------------
(* The inductive invariant: every process at a point of its program, and    *)
(* while no start has met a removal the PID file, its lock and its content  *)
(* are the one daemon's.                                                    *)
THEOREM DaemonInvariant == Spec => []IInv
<1>1. Init => IInv
  <2> SUFFICES ASSUME Init PROVE IInv
    OBVIOUS
  <2>1. proc \in [Pids -> Process] /\ \A p \in Pids : proc[p].kind = "none" /\ proc[p].pc = "none"
    BY BoundsAssumption DEF Init, Free, Begin, Process, Pcs
  <2>2. FilesType
    BY BoundsAssumption DEF Init, FilesType
  <2>3. \A p \in Pids : Placed(p)
    BY <2>1 DEF Placed
  <2>4. Exclusive
    BY <2>1 DEF Exclusive, Apart, HoldersHaveLock, OpenedIsNamed, FileNames, NobodyUnlinked,
                TargetIsDaemon, Starts, Removes, Holding, Alive, Unlinks, Knows, At
  <2>5. Described
    BY <2>1 DEF Described, OneStarter, StarterOfDaemon, StatusDescribes, Alive, At
  <2> QED BY <2>1, <2>2, <2>3, <2>4, <2>5 DEF IInv, TypeInv
<1>2. IInv /\ [Next]_vars => IInv'
  <2> SUFFICES ASSUME IInv, [Next]_vars PROVE IInv'
    OBVIOUS
  <2>1. CASE Next
    <3>1. PICK p \in Pids :
            \/ Launch(p) \/ Command(p, "stop") \/ Command(p, "status")
            \/ Launcher(p) \/ DaemonStep(p) \/ CommandStep(p)
            \/ Expire(p) \/ Crash(p)
      BY <2>1 DEF Next, Step
    <3>2. TypeInv'
      BY <3>1, TypeStep DEF IInv
    <3>3. /\ ~raced' => ~raced /\ Apart'
          /\ ~rivals' => ~rivals /\ OneStarter'
          /\ Recorded
      BY <2>1, HistoryFacts, HistoryRecords DEF Next
    <3>4. ~raced' => Exclusive'
      BY <3>1, <3>3, ExclusiveStep DEF IInv
    <3>5. ~raced' /\ ~rivals' => Described'
      BY <3>1, <3>3, DescribedStep DEF IInv
    <3> QED BY <3>2, <3>4, <3>5 DEF IInv
  <2>2. CASE UNCHANGED vars
    <3>1. UNCHANGED <<proc, dir, content, lock, status, starts, inodes, commands, raced, rivals,
                    unwritten>>
      BY <2>2 DEF vars, files, counts
    <3>2. TypeInv'
      BY <3>1 DEF IInv, TypeInv, FilesType, Placed
    <3>3. /\ \A p \in Pids : /\ Alive(p)' = Alive(p) /\ Holding(p)' = Holding(p)
                             /\ Starts(p)' = Starts(p) /\ Removes(p)' = Removes(p)
                             /\ Unlinks(p)' = Unlinks(p) /\ Knows(p)' = Knows(p)
                             /\ At(p, "launch", "lock")' = At(p, "launch", "lock")
                             /\ At(p, "launch", "status")' = At(p, "launch", "status")
      BY <3>1 DEF Alive, Holding, Starts, Removes, Unlinks, Knows, At
    <3>4. Exclusive => Exclusive'
      BY <3>1, <3>3 DEF Exclusive, Apart, HoldersHaveLock, OpenedIsNamed, FileNames,
                        NobodyUnlinked, TargetIsDaemon
    <3>5. Described => Described'
      BY <3>1, <3>3 DEF Described, OneStarter, StarterOfDaemon, StatusDescribes, StatusDue
    <3> QED BY <3>1, <3>2, <3>4, <3>5 DEF IInv
  <2> QED BY <2>1, <2>2
<1> QED BY <1>1, <1>2, PTL DEF Spec

(* LockFile and ctx.Release keep the PID file to one daemon: of any number  *)
(* of processes, over any number of starts, crashes and restarts, at most   *)
(* one is a daemon, unless a start overlapped with what removes the file.   *)
THEOREM OneDaemonHolds == Spec => []OneDaemon
<1>1. IInv => OneDaemon
  <2> SUFFICES ASSUME IInv, ~raced PROVE Cardinality(Daemons) <= 1
    BY DEF OneDaemon
  <2>1. \A p \in Daemons : p \in Pids /\ Alive(p)
    BY DEF Daemons, Alive
  <2>2. \A p, q \in Daemons : p = q
    BY <2>1 DEF IInv, Exclusive, HoldersHaveLock, Holding
  <2>3. CASE Daemons = {}
    <3>1. Cardinality(Daemons) = 0
      BY <2>3, FS_EmptySet
    <3> QED BY <3>1
  <2>4. CASE Daemons # {}
    <3>1. PICK p \in Daemons : TRUE
      BY <2>4
    <3>2. Daemons = {p}
      BY <2>2, <3>1
    <3>3. Cardinality({p}) = 1
      BY FS_Singleton
    <3> QED BY <3>2, <3>3
  <2> QED BY <2>3, <2>4
<1> QED BY <1>1, DaemonInvariant, PTL

(* A serving daemon can be found by `sambam stop` and `sambam status`: the  *)
(* PID file is its own and names it, and the status file describes it once  *)
(* its starter is through, unless the starter failed to write it or was     *)
(* killed before; with the same provisos.                                   *)
THEOREM FilesDescribeHolds == Spec => []FilesDescribe
<1>1. IInv => FilesDescribe
  <2> SUFFICES ASSUME IInv, ~raced, NEW p \in Daemons, proc[p].pc = "serve"
               PROVE  /\ dir = proc[p].inode /\ content[dir] = p
                      /\ ~rivals /\ Starting = {} =>
                           status = proc[p].gen \/ proc[p].gen \in unwritten
    BY DEF FilesDescribe
  <2>1. p \in Pids /\ Alive(p)
    BY DEF Daemons, Alive
  <2>2. dir = proc[p].inode /\ content[dir] = p
    BY <2>1 DEF IInv, Exclusive, HoldersHaveLock, Holding, FileNames
  <2>3. ASSUME ~rivals, Starting = {} PROVE status = proc[p].gen \/ proc[p].gen \in unwritten
    <3>1. ~StatusDue(p)
      BY <2>3 DEF StatusDue, Starting, At
    <3> QED BY <2>1, <2>3, <3>1 DEF IInv, Described, StatusDescribes
  <2> QED BY <2>2, <2>3
<1> QED BY <1>1, DaemonInvariant, PTL
=============================================================================
