---------------------------- MODULE ChangeNotify ----------------------------
(***************************************************************************)
(* CHANGE_NOTIFY (smb/server/file_tree.go, server.go): each request is     *)
(* served by a goroutine that waits for events of its directory handle,    *)
(* coalesces them and answers; CANCEL and CLOSE wake it through a channel; *)
(* directories are watched with a reference count per path.                *)
(*                                                                         *)
(* Request r makes the cancel channel r, of capacity one, and stores it in *)
(* its Open; token[r] says the channel is full.  Events are numbered.      *)
(* Nothing compares the connection of a request with that of the handle it *)
(* names, so two connections may serve requests for one handle at once;    *)
(* between the lookup of the handle and the rest of a handler other steps  *)
(* come.                                                                   *)
(***************************************************************************)
EXTENDS Integers, Sequences, FiniteSets, Functions

CONSTANTS Conns, Opens, Paths,  \* connections, directory handles, directories
          NotifyCap,            \* capacity of notifyCh (64 in the code)
          WatchMayFail,         \* fsWatcher.Add may return an error
          MaxReqs,              \* bound: CHANGE_NOTIFY requests
          MaxEvents,            \* bound: changes in the file system
          MaxOutstanding        \* bound: requests clients have pending per handle

ASSUME NotifyCapAssumption == NotifyCap \in Nat \ {0}
ASSUME WatchAssumption == WatchMayFail \in BOOLEAN
ASSUME LimitsAssumption == {MaxReqs, MaxEvents, MaxOutstanding} \subseteq Nat
ASSUME OpensAssumption == IsFiniteSet(Opens)

NoReq == 0
Reqs == 1 .. MaxReqs
Nil == "nil"

ASSUME NilAssumption == Nil \notin Conns \cup Opens \cup Paths

VARIABLES
  open,      \* the Open structures
  refs,      \* fsWatchRefs
  watched,   \* the paths fsWatcher watches
  req,       \* the goroutines
  token,     \* the cancel channels
  connected, \* connections that are up
  task,      \* per connection, the CHANGE_NOTIFY or CLOSE its Run loop is in
  nreq, nev, \* requests and events so far
  seen, mark \* history of each handle, see NewSeen and NewMark

vars == <<open, refs, watched, req, token, connected, task, nreq, nev, seen, mark>>

(* `inTable` is membership in Server.opens; notifyCh = nil is has = FALSE.   *)
NewOpen == [inTable |-> FALSE, used |-> FALSE, conn |-> Nil, path |-> Nil,
            notifyCancel |-> NoReq, has |-> FALSE, notifyCh |-> <<>>, fsWatchPath |-> FALSE]
NewReq == [pc |-> "none", open |-> Nil, conn |-> Nil, events |-> <<>>]
NoTask == [op |-> "none", open |-> Nil, req |-> NoReq]

(* What clients were told and what was put in the channel; whether events    *)
(* were discarded on request or answered to a connection that is gone.       *)
NewSeen == [told |-> <<>>, put |-> <<>>, lost |-> FALSE]

(* Whether two connections had the handle in hand at once, watching its path *)
(* failed for it, and a CLOSE has given the watch back.                      *)
NewMark == [raced |-> FALSE, failed |-> FALSE, released |-> FALSE]

Init ==
  /\ open = [o \in Opens |-> NewOpen]
  /\ refs = [p \in Paths |-> 0]
  /\ watched = {}
  /\ req = [r \in Reqs |-> NewReq]
  /\ token = [r \in Reqs |-> FALSE]
  /\ connected = Conns
  /\ task = [c \in Conns |-> NoTask]
  /\ nreq = 0 /\ nev = 0
  /\ seen = [o \in Opens |-> NewSeen]
  /\ mark = [o \in Opens |-> NewMark]

(* The connection's Run loop is free for the next request. *)
Serving(c) == c \in connected /\ task[c] = NoTask

Active(r) == req[r].pc \notin {"none", "done"}
Pending(o) == {r \in Reqs : Active(r) /\ req[r].open = o}

-----------------------------------------------------------------------------
(* CREATE of a directory handle: addOpen. *)
Create(c, o, p) ==
  /\ Serving(c) /\ ~open[o].used
  /\ open' = [open EXCEPT ![o] = [NewOpen EXCEPT !.inTable = TRUE, !.used = TRUE,
                                                 !.conn = c, !.path = p]]
  /\ UNCHANGED <<refs, watched, req, token, connected, task, nreq, nev, seen, mark>>

(* addFsWatch: a failing Add forgets the references again. *)
Fails(p, fails) == refs[p] = 0 /\ fails
AddFsWatch(p, fails) ==
  IF Fails(p, fails) THEN UNCHANGED <<refs, watched>>
  ELSE refs' = [refs EXCEPT ![p] = @ + 1] /\ watched' = watched \cup {p}

(* Faulty: removeFsWatch stops watching whenever one handle is closed. *)
RemoveFsWatchAlways(p) ==
  /\ refs' = [refs EXCEPT ![p] = IF @ > 0 THEN @ - 1 ELSE 0]
  /\ watched' = watched \ {p}

(* Faulty: the count is only tested for zero, which a second CLOSE of a      *)
(* handle, or one whose Add had failed, passes by.                           *)
RemoveFsWatchAtZero(p) ==
  /\ refs' = [refs EXCEPT ![p] = @ - 1]
  /\ watched' = IF refs[p] = 1 THEN watched \ {p} ELSE watched

(* removeFsWatch (a missing entry counts as zero). *)
RemoveFsWatch(p) ==
  IF refs[p] <= 1
  THEN refs' = [refs EXCEPT ![p] = 0] /\ watched' = watched \ {p}
  ELSE refs' = [refs EXCEPT ![p] = @ - 1] /\ UNCHANGED watched

(* A handler has found its handle; another one may be at work on it. *)
Take(c, o, op, r) ==
  /\ Serving(c) /\ open[o].inTable
  /\ task' = [task EXCEPT ![c] = [op |-> op, open |-> o, req |-> r]]
  /\ mark' = [mark EXCEPT ![o].raced = @ \/ \E d \in Conns : task[d].open = o]

(* changeNotify: the handle is looked up and PENDING is sent; ...            *)
ChangeNotify(c, o) ==
  LET r == nreq + 1 IN
  /\ Take(c, o, "notify", r) /\ r \in Reqs
  /\ Cardinality(Pending(o)) < MaxOutstanding
  /\ req' = [req EXCEPT ![r] = [pc |-> "start", open |-> o, conn |-> c, events |-> <<>>]]
  /\ nreq' = r
  /\ UNCHANGED <<open, refs, watched, token, connected, nev, seen>>

(* ... the handle gets a new cancel channel, the path is watched once per    *)
(* handle, and the goroutine starts.                                         *)
Register(c, fails) ==
  LET o == task[c].open
      r == task[c].req
  IN
  /\ task[c].op = "notify"
  /\ open' = [open EXCEPT ![o] = [@ EXCEPT !.notifyCancel = r, !.has = TRUE,
                                           !.fsWatchPath = TRUE]]
  /\ IF open[o].fsWatchPath THEN UNCHANGED <<refs, watched, mark>>
     ELSE /\ AddFsWatch(open[o].path, fails)
          /\ mark' = [mark EXCEPT ![o].failed = Fails(open[o].path, fails)]
  /\ req' = [req EXCEPT ![r].pc = "wait"]
  /\ task' = [task EXCEPT ![c] = NoTask]
  /\ UNCHANGED <<token, connected, nreq, nev, seen>>

-----------------------------------------------------------------------------
(* notifyChange: a change in directory p reaches every handle of it with a   *)
(* channel, unless the channel is full.                                      *)
Hears(o, p) == open[o].inTable /\ open[o].has /\ open[o].path = p
Room(o) == Len(open[o].notifyCh) < NotifyCap

NotifyChange(p) ==
  /\ nev < MaxEvents
  /\ nev' = nev + 1
  /\ open' = [o \in Opens |-> IF Hears(o, p) /\ Room(o)
                THEN [open[o] EXCEPT !.notifyCh = Append(@, nev + 1)] ELSE open[o]]
  /\ seen' = [o \in Opens |-> IF Hears(o, p) /\ Room(o)
                THEN [seen[o] EXCEPT !.put = Append(@, nev + 1)] ELSE seen[o]]
  /\ UNCHANGED <<refs, watched, req, token, connected, task, nreq, mark>>

(* The watcher goroutine reports changes of watched directories; the CREATE, *)
(* CLOSE and SET_INFO handlers report the changes they make themselves.      *)
FsEvent(p) == p \in watched /\ NotifyChange(p)
OwnChange(p) == (\E c \in Conns : Serving(c)) /\ NotifyChange(p)

-----------------------------------------------------------------------------
(* The goroutine of a request.  Its select may choose any ready case. *)
Goroutine(r, pc, l) == req[r].pc = pc /\ req' = [req EXCEPT ![r].pc = l]
Receive(r, pc) ==
  LET o == req[r].open IN
  /\ req[r].pc = pc /\ open[o].notifyCh # <<>>
  /\ req' = [req EXCEPT ![r].pc = "coalesce",
                        ![r].events = Append(@, Head(open[o].notifyCh))]
  /\ open' = [open EXCEPT ![o].notifyCh = Tail(@)]
  /\ UNCHANGED <<refs, watched, token, connected, task, nreq, nev, seen, mark>>

TakeEvent(r) == Receive(r, "wait")

(* Faulty: an event that arrives while coalescing replaces the others. *)
CoalesceKeepsLast(r) ==
  LET o == req[r].open IN
  /\ req[r].pc = "coalesce" /\ open[o].notifyCh # <<>>
  /\ req' = [req EXCEPT ![r].events = <<Head(open[o].notifyCh)>>]
  /\ open' = [open EXCEPT ![o].notifyCh = Tail(@)]
  /\ UNCHANGED <<refs, watched, token, connected, task, nreq, nev, seen, mark>>

Coalesce(r) == Receive(r, "coalesce")

(* Faulty: the quiet period leads back to waiting. *)
CoalesceEndWaits(r) ==
  /\ Goroutine(r, "coalesce", "wait")
  /\ UNCHANGED <<open, refs, watched, token, connected, task, nreq, nev, seen, mark>>

(* 150 ms without an event, or 3 s in all. *)
CoalesceEnd(r) ==
  /\ Goroutine(r, "coalesce", "check")
  /\ UNCHANGED <<open, refs, watched, token, connected, task, nreq, nev, seen, mark>>

(* Faulty: the cancel case goes on waiting. *)
TakeCancelWaits(r) ==
  /\ req[r].pc \in {"wait", "coalesce"} /\ token[r]
  /\ token' = [token EXCEPT ![r] = FALSE]
  /\ req' = [req EXCEPT ![r].pc = "wait", ![r].events = <<>>]
  /\ UNCHANGED <<open, refs, watched, connected, task, nreq, nev, seen, mark>>

(* cancelCh is ready: what was coalesced is discarded. *)
TakeCancel(r) ==
  /\ req[r].pc \in {"wait", "coalesce"} /\ token[r]
  /\ token' = [token EXCEPT ![r] = FALSE]
  /\ req' = [req EXCEPT ![r].pc = "check", ![r].events = <<>>]
  /\ seen' = [seen EXCEPT ![req[r].open].lost = @ \/ req[r].events # <<>>]
  /\ UNCHANGED <<open, refs, watched, connected, task, nreq, nev, mark>>

(* The 60 s liveness check; it changes nothing while the handle is there.    *)
LivenessCheck(r) ==
  /\ Goroutine(r, "wait", "done")
  /\ ~open[req[r].open].inTable
  /\ UNCHANGED <<open, refs, watched, token, connected, task, nreq, nev, seen, mark>>

CheckOpen(r) ==
  /\ req[r].pc = "check"
  /\ Goroutine(r, "check", IF open[req[r].open].inTable THEN "clear" ELSE "done")
  /\ UNCHANGED <<open, refs, watched, token, connected, task, nreq, nev, seen, mark>>

(* The handle's cancel channel is removed, whoever's it is. *)
ClearCancel(r) ==
  /\ Goroutine(r, "clear", "send")
  /\ open' = [open EXCEPT ![req[r].open].notifyCancel = NoReq]
  /\ UNCHANGED <<refs, watched, token, connected, task, nreq, nev, seen, mark>>

(* The events, or STATUS_CANCELLED when there are none, to the connection    *)
(* that asked.                                                               *)
Answer(r) ==
  LET o == req[r].open IN
  /\ Goroutine(r, "send", "done")
  /\ seen' = IF req[r].conn \in connected
             THEN [seen EXCEPT ![o].told = @ \o req[r].events]
             ELSE [seen EXCEPT ![o].lost = @ \/ req[r].events # <<>>]
  /\ UNCHANGED <<open, refs, watched, token, connected, task, nreq, nev, mark>>

-----------------------------------------------------------------------------
(* Faulty: only the handle of the CANCEL's own request is woken. *)
CancelOne(c) ==
  /\ Serving(c)
  /\ \E o \in Opens :
       /\ open[o].inTable /\ open[o].conn = c /\ open[o].notifyCancel # NoReq
       /\ token' = [token EXCEPT ![open[o].notifyCancel] = TRUE]
  /\ UNCHANGED <<open, refs, watched, req, connected, task, nreq, nev, seen, mark>>

(* CANCEL: a token for the cancel channel of every handle of the connection. *)
Cancel(c) ==
  /\ Serving(c)
  /\ token' = [r \in Reqs |-> token[r] \/ \E o \in Opens :
                 open[o].inTable /\ open[o].conn = c /\ open[o].notifyCancel = r]
  /\ UNCHANGED <<open, refs, watched, req, connected, task, nreq, nev, seen, mark>>

(* CLOSE: the handle is looked up; it leaves the table and the response is   *)
(* sent; then the goroutine is woken and the watch is given back.            *)
Close(c, o) ==
  /\ Take(c, o, "close", NoReq)
  /\ UNCHANGED <<open, refs, watched, req, token, connected, nreq, nev, seen>>

CloseDelete(c) ==
  /\ task[c].op = "close"
  /\ open' = [open EXCEPT ![task[c].open].inTable = FALSE]
  /\ task' = [task EXCEPT ![c].op = "closed"]
  /\ UNCHANGED <<refs, watched, req, token, connected, nreq, nev, seen, mark>>

CloseEnd(c) ==
  LET o == task[c].open
      r == open[o].notifyCancel
  IN
  /\ task[c].op = "closed"
  /\ token' = IF r = NoReq THEN token ELSE [token EXCEPT ![r] = TRUE]
  /\ IF open[o].fsWatchPath THEN RemoveFsWatch(open[o].path)
                            ELSE UNCHANGED <<refs, watched>>
  /\ mark' = [mark EXCEPT ![o].released = TRUE]
  /\ task' = [task EXCEPT ![c] = NoTask]
  /\ UNCHANGED <<open, req, connected, nreq, nev, seen>>

(* The TCP connection ends.  Run and the receiver return; nobody closes the  *)
(* connection's handles.                                                     *)
Disconnect(c) ==
  /\ Serving(c)
  /\ connected' = connected \ {c}
  /\ UNCHANGED <<open, refs, watched, req, token, task, nreq, nev, seen, mark>>

-----------------------------------------------------------------------------
Step(r) ==
  \/ TakeEvent(r) \/ Coalesce(r) \/ CoalesceEnd(r) \/ TakeCancel(r) \/ LivenessCheck(r)
  \/ CheckOpen(r) \/ ClearCancel(r) \/ Answer(r)

Handler(c) ==
  \/ \E o \in Opens, p \in Paths : Create(c, o, p)
  \/ \E o \in Opens : ChangeNotify(c, o) \/ Close(c, o)
  \/ \E f \in {FALSE, WatchMayFail} : Register(c, f)
  \/ Cancel(c) \/ CloseDelete(c) \/ CloseEnd(c)

Next ==
  \/ \E c \in Conns : Handler(c) \/ Disconnect(c)
  \/ \E p \in Paths : FsEvent(p) \/ OwnChange(p)
  \/ \E r \in Reqs : Step(r)

Spec == Init /\ [][Next]_vars

(* Goroutines run and timers fire; the deadline ends coalescing although     *)
(* events may keep coming.                                                   *)
Fairness ==
  /\ \A r \in Reqs : WF_vars(Step(r)) /\ WF_vars(CoalesceEnd(r))
  /\ \A c \in Conns :
       WF_vars(Register(c, FALSE)) /\ WF_vars(CloseDelete(c)) /\ WF_vars(CloseEnd(c))

FairSpec == Spec /\ Fairness

-----------------------------------------------------------------------------
(* Every table keeps its type: no reference count goes below zero, however   *)
(* many connections close a handle, and no channel holds more than it can.   *)
TypeOK ==
  /\ \A o \in Opens :
       /\ open[o].conn \in Conns \cup {Nil} /\ open[o].path \in Paths \cup {Nil}
       /\ open[o].notifyCancel \in Reqs \cup {NoReq}
       /\ Len(open[o].notifyCh) <= NotifyCap
       /\ {open[o].inTable, open[o].used, open[o].has, open[o].fsWatchPath} \subseteq BOOLEAN
  /\ refs \in [Paths -> Nat] /\ watched \subseteq Paths /\ connected \subseteq Conns
  /\ \A r \in Reqs :
       /\ req[r].pc \in {"none", "start", "wait", "coalesce", "check", "clear", "send", "done"}
       /\ req[r].open \in Opens \cup {Nil} /\ req[r].conn \in Conns \cup {Nil}
  /\ token \in [Reqs -> BOOLEAN]
  /\ task \in [Conns -> [op : {"none", "notify", "close", "closed"}, open : Opens \cup {Nil},
                        req : Reqs \cup {NoReq}]]

(* A path is watched as long as fsWatchRefs counts a reference to it; the    *)
(* references are never more than the handles that hold the path, those of   *)
(* dropped connections included, and exactly as many if watching the path    *)
(* never failed.  (Handles that two connections had in hand at once: see the *)
(* README.)                                                                  *)
Of(p) == {o \in Opens : open[o].path = p}
Holders(p) == {o \in Of(p) : open[o].fsWatchPath /\ ~mark[o].released}

WatchesMatchHandles ==
  \A p \in Paths :
    /\ p \in watched <=> refs[p] > 0
    /\ (\A o \in Of(p) : ~mark[o].raced) =>
         /\ refs[p] <= Cardinality(Holders(p))
         /\ (\A o \in Of(p) : ~mark[o].failed) => refs[p] = Cardinality(Holders(p))

(* With one request pending on a handle, its clients are told every change   *)
(* that found room in the channel, once and in order, unless one cancelled   *)
(* while changes were being collected or was gone when they were sent.       *)
InHand(o) == LET R == {r \in Pending(o) : req[r].events # <<>>} IN
             IF R = {} THEN <<>> ELSE req[CHOOSE r \in R : TRUE].events

EventStreamIntact ==
  \A o \in Opens :
    open[o].inTable /\ ~seen[o].lost
    => seen[o].told \o InHand(o) \o open[o].notifyCh = seen[o].put

(* "Cancel ALL pending ChangeNotify on this connection": every request that  *)
(* is waiting, for a handle of the connection, when CANCEL is handled has    *)
(* its token.                                                                *)
CancelReachesAll ==
  [][\A c \in Conns : Cancel(c) =>
       \A r \in Reqs : (req[r].pc = "wait" /\ open[req[r].open].inTable
                        /\ open[req[r].open].conn = c) => token'[r]]_vars

(* A change in the channel of a handle with a request waiting is reported,   *)
(* by that request's end or by another's, although changes keep coming;      *)
(* unless the client cancels, closes the handle or leaves.                   *)
Excused(o) == seen[o].lost \/ ~open[o].inTable

EventAnswered ==
  \A r \in Reqs, o \in Opens, e \in 1 .. MaxEvents :
    (req[r].pc = "wait" /\ req[r].open = o /\ e \in Range(open[o].notifyCh))
    ~> (req[r].pc = "done" \/ e \in Range(seen[o].told) \/ Excused(o))

(* "If the open handle is gone ..., exit the goroutine to prevent leaks", and *)
(* what CANCEL or CLOSE woke does not go back to waiting: a request that has *)
(* its token, or whose handle was closed (even if a later request replaced   *)
(* the channel CLOSE wakes), ends.                                           *)
RequestsEnd ==
  \A r \in Reqs :
    Active(r) /\ (token[r] \/ ~open[req[r].open].inTable) ~> ~Active(r)
=============================================================================
