------------------------------ MODULE Dispatch ------------------------------
(***************************************************************************)
(* From a frame to its answers (runReciever and sendPacket in              *)
(* smb/server/conn.go, Run in server.go, compound.go): the receiver cuts a *)
(* frame into its requests and gives those of a chain a compoundContext;   *)
(* Run routes each to its session and tree and calls the handler; the      *)
(* answers of a chain are collected in its context and leave in one frame  *)
(* with the answer of its last request.                                    *)
(*                                                                         *)
(* The hand-over between the goroutines is ConnPipe's and the layout of a  *)
(* frame Codec's; here a request is its command, the ids in its header and *)
(* whether it is chained, an answer its status, flags and session.  Reads, *)
(* queries and the like are one command "use"; there is one share, and the *)
(* sessions are those set up before.  Message ids are never repeated, and  *)
(* the first request of a frame is never marked as related.                *)
(***************************************************************************)
EXTENDS Naturals, Sequences, FiniteSets

CONSTANTS Sessions,    \* the ids of the connection's sessions
          None,        \* no session: nil, and the id of a related request
          Frames,      \* what a client sends: sequences of [cmd, rel, sess, tree, fid]
          MaxMsgs      \* bound: requests received

ASSUME NoneAssumption == None \notin Sessions

TreeCommands == {"create", "close", "use", "flush", "write", "notify", "cancel", "other"}
RequestType ==
  [cmd : TreeCommands \cup {"echo", "logoff", "connect", "disconnect"}, rel : BOOLEAN,
   sess : Sessions \cup {None}, tree : Nat, fid : Nat]

ASSUME FramesAssumption ==
  Frames \subseteq Seq(RequestType) /\ \A f \in Frames : f # <<>> /\ ~f[1].rel
ASSUME MaxMsgsAssumption == MaxMsgs \in Nat

VARIABLES
  reqs,      \* the requests received, by message id (history), with their
             \* place in the frame: more (NextCommand # 0), last (the frame's
             \* last message id), and, once enqueued, ctx
  enq,       \* how many of them have been enqueued
  cur,       \* the receiver's compCtx: a context, or 0
  offered,   \* a request is in outstandingRequests
  ctxs,      \* the compound contexts: [status, last, rsp], with lastMsgId in last
  fids,      \* and their fileId, 0 for nil
  active,    \* conn.session
  refs,      \* treeMapById: the refCount of each tree id, 0 when removed
  opens,     \* open handles, by the message id of their CREATE
  writing,   \* the write Run is in, between its two answers, or 0
  waiting,   \* goroutines of CHANGE_NOTIFY: [mid, fid]
  sent,      \* the frames sent: [sess, rsp]
  ran        \* requests whose handler was called (history)

vars == <<reqs, enq, cur, offered, ctxs, fids, active, refs, opens, writing, waiting, sent, ran>>

Init ==
  /\ reqs = <<>> /\ enq = 0 /\ cur = 0 /\ offered = FALSE /\ ctxs = <<>> /\ fids = <<>>
  /\ active \in Sessions
  /\ refs = <<1>>
  /\ opens = {} /\ writing = 0 /\ waiting = {} /\ sent = <<>> /\ ran = {}

-----------------------------------------------------------------------------
(* runReciever. *)

Numbered(f) ==
  [i \in DOMAIN f |-> [cmd |-> f[i].cmd, rel |-> f[i].rel, sess |-> f[i].sess, tree |-> f[i].tree,
                       fid |-> f[i].fid, mid |-> Len(reqs) + i, more |-> i < Len(f),
                       last |-> Len(reqs) + Len(f), ctx |-> 0]]

(* Faulty: the context of the frame before is kept. *)
ReadFrameKeepsCtx(f) ==
  /\ enq = Len(reqs) /\ ~offered
  /\ Len(reqs) + Len(f) <= MaxMsgs
  /\ f[1].cmd = "echo" \/ f[1].sess \in Sessions
  /\ reqs' = reqs \o Numbered(f)
  /\ UNCHANGED <<enq, cur, offered, ctxs, fids, active, refs, opens, writing, waiting, sent, ran>>

(* A frame is read when the one before is enqueued and its last request      *)
(* taken.  One whose first request names no session is skipped.              *)
ReadFrame(f) ==
  /\ enq = Len(reqs) /\ ~offered
  /\ Len(reqs) + Len(f) <= MaxMsgs
  /\ f[1].cmd = "echo" \/ f[1].sess \in Sessions
  /\ reqs' = reqs \o Numbered(f)
  /\ cur' = 0
  /\ UNCHANGED <<enq, offered, ctxs, fids, active, refs, opens, writing, waiting, sent, ran>>

NewCtx == [status |-> "ok", last |-> 0, rsp |-> <<>>]

(* Faulty: every related request is taken for the last. *)
IsRelated(r) == r.rel

IsCompoundFirst(r) == ~r.rel /\ r.more
IsCompoundLast(r) == r.rel /\ ~r.more

(* One request: the first of a chain starts a context, the last completes    *)
(* it; the request goes to Run with the context at hand.                     *)
Enqueue ==
  LET m == enq + 1  r == reqs[m] IN
  /\ enq < Len(reqs) /\ ~offered
  /\ ctxs' = IF IsCompoundFirst(r) THEN Append(ctxs, NewCtx)
             ELSE IF IsCompoundLast(r) THEN [ctxs EXCEPT ![cur].last = m] ELSE ctxs
  /\ fids' = IF IsCompoundFirst(r) THEN Append(fids, 0) ELSE fids
  /\ cur' = IF IsCompoundFirst(r) THEN Len(ctxs) + 1 ELSE cur
  /\ reqs' = [reqs EXCEPT ![m].ctx = cur']
  /\ enq' = m /\ offered' = TRUE
  /\ UNCHANGED <<active, refs, opens, writing, waiting, sent, ran>>

-----------------------------------------------------------------------------
(* sendPacket. *)

(* Faulty: no answer is marked as related. *)
HeaderUnrelated(m, c, status, sess) ==
  [mid |-> m, status |-> status, sess |-> sess, rel |-> FALSE, more |-> c # 0 /\ m # ctxs[c].last]

(* The header of an answer in context c (0: none). *)
Header(m, c, status, sess) ==
  [mid |-> m, status |-> status, sess |-> sess,
   rel |-> c # 0 /\ ctxs[c].rsp # <<>>, more |-> c # 0 /\ m # ctxs[c].last]

(* Without a context the answer leaves at once; with one it is added to the  *)
(* context, all of which leaves with the answer to the last message id.  The *)
(* session is the one active at that moment.                                 *)
SendPacket(m, c, status, sess) ==
  LET rsp == Append(IF c = 0 THEN <<>> ELSE ctxs[c].rsp, Header(m, c, status, sess)) IN
  /\ ctxs' = IF c = 0 THEN ctxs
             ELSE [ctxs EXCEPT ![c] = [status |-> status, last |-> ctxs[c].last, rsp |-> rsp]]
  /\ sent' = IF c = 0 \/ m = ctxs[c].last THEN Append(sent, [sess |-> sess, rsp |-> rsp]) ELSE sent

-----------------------------------------------------------------------------
(* Run: srvRecv takes the request, and all but ECHO select their session.    *)
R == reqs[enq]

Taken == offered /\ writing = 0 /\ offered' = FALSE /\ UNCHANGED <<reqs, enq, cur>>

(* Faulty: the active session stays until it is gone. *)
SelectedOnce == IF active # None THEN active ELSE R.sess

Selected == IF R.cmd = "echo" THEN active ELSE R.sess

KnownSession == R.cmd = "echo" \/ R.sess \in Sessions

(* Answered with the context of its chain, or without. *)
AnswerInChain(status) == active' = Selected /\ SendPacket(R.mid, R.ctx, status, Selected)
AnswerAlone(status)   == active' = Selected /\ SendPacket(R.mid, 0, status, Selected)

NoSuchSession ==
  /\ Taken /\ ~KnownSession
  /\ AnswerInChain("noSession")
  /\ UNCHANGED <<fids, refs, opens, writing, waiting, ran>>

(* echo and logoff, which leaves the session as it is. *)
EchoOrLogoff ==
  /\ Taken /\ KnownSession /\ R.cmd \in {"echo", "logoff"}
  /\ AnswerAlone("ok")
  /\ ran' = ran \cup {R.mid}
  /\ UNCHANGED <<fids, refs, opens, writing, waiting>>

(* treeConnect: the tree of the share, shared by all sessions, or a new one; *)
(* or the user may not use the share.                                        *)
Connected == {t \in DOMAIN refs : refs[t] > 0}

TreeConnect ==
  /\ Taken /\ KnownSession /\ R.cmd = "connect"
  /\ \/ /\ refs' = IF Connected = {} THEN Append(refs, 1)
                   ELSE [t \in DOMAIN refs |-> IF t \in Connected THEN refs[t] + 1 ELSE refs[t]]
        /\ AnswerAlone("ok")
     \/ AnswerAlone("denied") /\ UNCHANGED refs
  /\ ran' = ran \cup {R.mid}
  /\ UNCHANGED <<fids, opens, writing, waiting>>

(* Faulty: a tree that is gone is disconnected again. *)
TreeDisconnectAgain ==
  /\ Taken /\ KnownSession /\ R.cmd = "disconnect"
  /\ refs' = [t \in DOMAIN refs |-> IF t = R.tree THEN refs[t] - 1 ELSE refs[t]]
  /\ AnswerAlone("ok")
  /\ ran' = ran \cup {R.mid}
  /\ UNCHANGED <<fids, opens, writing, waiting>>

(* treeDisconnect: handles stay open; a tree that is gone is no error. *)
TreeDisconnect ==
  /\ Taken /\ KnownSession /\ R.cmd = "disconnect"
  /\ refs' = [t \in DOMAIN refs |-> IF t = R.tree /\ t \in Connected THEN refs[t] - 1 ELSE refs[t]]
  /\ AnswerAlone("ok")
  /\ ran' = ran \cup {R.mid}
  /\ UNCHANGED <<fids, opens, writing, waiting>>

TreeCommand == Taken /\ KnownSession /\ R.cmd \in TreeCommands

NoSuchTree ==
  /\ TreeCommand /\ R.tree \notin Connected
  /\ AnswerInChain("noTree")
  /\ UNCHANGED <<fids, refs, opens, writing, waiting, ran>>

(* Faulty: the status of the request before is not looked at. *)
ChainFailedNever == FALSE

ChainFailed == R.ctx # 0 /\ ctxs[R.ctx].status # "ok"

(* The request before failed: this one is not forwarded. *)
RefusedInChain ==
  /\ TreeCommand /\ R.tree \in Connected /\ ChainFailed
  /\ AnswerInChain(ctxs[R.ctx].status)
  /\ UNCHANGED <<fids, refs, opens, writing, waiting, ran>>

(* The handlers of the tree's commands. *)
Handled(cmd) ==
  /\ TreeCommand /\ R.tree \in Connected /\ ~ChainFailed /\ R.cmd = cmd
  /\ ran' = ran \cup {R.mid}
  /\ UNCHANGED refs

NotSupported ==
  /\ Handled("other")
  /\ AnswerInChain("unsupported")
  /\ UNCHANGED <<fids, opens, writing, waiting>>

(* A chain's handle goes before the one in the request; 0 is the invalid one. *)
FileId == IF R.ctx # 0 /\ fids[R.ctx] # 0 THEN fids[R.ctx] ELSE R.fid

(* A new handle becomes that of the chain. *)
Create ==
  /\ Handled("create")
  /\ \/ /\ opens' = opens \cup {R.mid}
        /\ fids' = IF R.ctx = 0 THEN fids ELSE [fids EXCEPT ![R.ctx] = R.mid]
        /\ AnswerInChain("ok")
     \/ AnswerInChain("failed") /\ UNCHANGED <<opens, fids>>
  /\ UNCHANGED <<writing, waiting>>

(* A close of a handle that is not open succeeds. *)
Close ==
  /\ Handled("close")
  /\ opens' = opens \ {FileId}
  /\ AnswerInChain(IF FileId = 0 THEN "badHandle" ELSE "ok")
  /\ UNCHANGED <<fids, writing, waiting>>

Flush ==
  /\ Handled("flush")
  /\ AnswerInChain(IF FileId = 0 THEN "badHandle" ELSE "ok")
  /\ UNCHANGED <<fids, opens, writing, waiting>>

Use ==
  /\ Handled("use")
  /\ \E st \in IF FileId \in opens THEN {"ok", "failed"} ELSE {"badHandle"} : AnswerInChain(st)
  /\ UNCHANGED <<fids, opens, writing, waiting>>

(* A write in a chain is answered once, one on its own first as pending. *)
Write ==
  /\ Handled("write")
  /\ IF FileId \notin opens THEN AnswerInChain("badHandle") /\ UNCHANGED writing
     ELSE IF R.ctx # 0 THEN (\E st \in {"ok", "failed"} : AnswerInChain(st)) /\ UNCHANGED writing
     ELSE AnswerAlone("pending") /\ writing' = R.mid
  /\ UNCHANGED <<fids, opens, waiting>>

WriteDone ==
  /\ writing # 0
  /\ \E st \in {"ok", "failed"} : SendPacket(writing, 0, st, active)
  /\ writing' = 0
  /\ UNCHANGED <<reqs, enq, cur, offered, fids, active, refs, opens, waiting, ran>>

(* Answered as pending, through the context; a goroutine completes it. *)
ChangeNotify ==
  /\ Handled("notify")
  /\ IF FileId \notin opens
     THEN AnswerInChain(IF FileId = 0 THEN "denied" ELSE "badHandle") /\ UNCHANGED waiting
     ELSE AnswerInChain("pending") /\ waiting' = waiting \cup {[mid |-> R.mid, fid |-> FileId]}
  /\ UNCHANGED <<fids, opens, writing>>

(* The goroutine: events or a cancellation, through the same context and     *)
(* under whatever session is active; nothing when the handle is gone.        *)
NotifyDone(w) ==
  /\ w \in waiting
  /\ waiting' = waiting \ {w}
  /\ IF w.fid \in opens
     THEN \E st \in {"ok", "cancelled"} : SendPacket(w.mid, reqs[w.mid].ctx, st, active)
     ELSE UNCHANGED <<ctxs, sent>>
  /\ UNCHANGED <<reqs, enq, cur, offered, fids, active, refs, opens, writing, ran>>

(* cancel signals the goroutines and has no answer. *)
Cancel ==
  /\ Handled("cancel")
  /\ active' = Selected
  /\ UNCHANGED <<ctxs, fids, sent, opens, writing, waiting>>

Handler == Create \/ Close \/ Flush \/ Use \/ Write \/ ChangeNotify \/ Cancel \/ NotSupported

Run ==
  \/ NoSuchSession \/ EchoOrLogoff \/ TreeConnect \/ TreeDisconnect
  \/ NoSuchTree \/ RefusedInChain \/ Handler \/ WriteDone

Next ==
  \/ \E f \in Frames : ReadFrame(f)
  \/ Enqueue
  \/ Run
  \/ \E w \in waiting : NotifyDone(w)

Spec == Init /\ [][Next]_vars

-----------------------------------------------------------------------------
Statuses == {"ok", "pending", "failed", "denied", "badHandle", "noSession", "noTree", "cancelled", "unsupported"}
Mids == 1 .. MaxMsgs
Answers == [mid : Mids, status : Statuses, sess : Sessions \cup {None}, rel : BOOLEAN, more : BOOLEAN]

TypeOK ==
  /\ Len(reqs) <= MaxMsgs /\ enq \in 0 .. Len(reqs)
  /\ \A m \in DOMAIN reqs : reqs[m].mid = m /\ reqs[m].ctx \in 0 .. Len(ctxs)
  /\ cur \in 0 .. Len(ctxs) /\ offered \in BOOLEAN /\ writing \in Mids \cup {0}
  /\ \A c \in DOMAIN ctxs :
       /\ ctxs[c].status \in Statuses
       /\ ctxs[c].last \in Mids \cup {0} /\ ctxs[c].rsp \in Seq(Answers)
  /\ fids \in Seq(Mids \cup {0}) /\ Len(fids) = Len(ctxs)
  /\ active \in Sessions \cup {None}
  /\ refs \in Seq(Nat) /\ Cardinality(Connected) <= 1
  /\ opens \subseteq Mids /\ ran \subseteq Mids
  /\ waiting \subseteq [mid : Mids, fid : Mids]
  /\ \A i \in DOMAIN sent : sent[i].rsp \in Seq(Answers) \ {<<>>}

(* The requests Run is through with. *)
Done == (IF offered THEN 1 .. enq - 1 ELSE 1 .. enq) \ {writing}

AnswersTo(m) ==
  UNION {{<<i, j>> : j \in {k \in DOMAIN sent[i].rsp : sent[i].rsp[k].mid = m}} : i \in DOMAIN sent}
Final(p) == sent[p[1]].rsp[p[2]].status # "pending"

(* The chains whose CHANGE_NOTIFY has set off a goroutine. *)
Notifies(c) == \E m \in ran : reqs[m].cmd = "notify" /\ reqs[m].ctx = c

(* Commands that are answered outside of their chain, or not at all. *)
Outside(r) == r.mid \in ran /\ r.cmd \in {"echo", "logoff", "connect", "disconnect", "cancel"}

(* A chain is answered as a whole when its last request is related to the    *)
(* one before and answered within the chain.                                 *)
Delivered(r) ==
  \/ r.ctx = 0
  \/ /\ \A m \in r.mid + 1 .. r.last : reqs[m].rel
     /\ reqs[r.last].rel
     /\ ~Outside(reqs[r.last])

(* When every request of the frames received is through, exactly these have  *)
(* been answered: those answered outside of their chain, except CANCEL, and  *)
(* those of a chain that ends in a related request answered within it.  The  *)
(* answers to all other requests of chains - unrelated ones, and chains that *)
(* end in ECHO, LOGOFF, a tree command or CANCEL - stay in their context.    *)
ChainsAnswered ==
  enq = Len(reqs) /\ ~offered /\ writing = 0 =>
    \A m \in DOMAIN reqs :
      (AnswersTo(m) # {}) <=> IF Outside(reqs[m]) THEN reqs[m].cmd # "cancel" ELSE Delivered(reqs[m])

(* No request gets two final answers, but for those of a chain that ends in  *)
(* a CHANGE_NOTIFY: its second answer takes all those before along again.    *)
AnsweredOnce ==
  \A m \in Done :
    \/ Cardinality({p \in AnswersTo(m) : Final(p)}) <= 1
    \/ reqs[m].ctx # 0 /\ reqs[reqs[m].last].cmd = "notify"

(* In a frame of answers all but the first are marked as related, all but    *)
(* the last lead to a next one, and they come in the order of the requests;  *)
(* only the second answer of a CHANGE_NOTIFY in the chain breaks this.       *)
FramesWellFormed ==
  \A i \in DOMAIN sent :
    LET rsp == sent[i].rsp IN
    \/ reqs[rsp[1].mid].ctx # 0 /\ Notifies(reqs[rsp[1].mid].ctx)
    \/ \A j \in DOMAIN rsp :
         /\ rsp[j].rel = (j > 1)
         /\ rsp[j].more = (j < Len(rsp))
         /\ j > 1 => rsp[j - 1].mid < rsp[j].mid

(* In a chain nothing of a tree is executed after a request that failed, and *)
(* the requests refused for that get its status: unless the second answer of *)
(* a CHANGE_NOTIFY has replaced the status meanwhile.                        *)
NothingAfterFailure ==
  \A c \in DOMAIN ctxs : ~Notifies(c) =>
    LET rsp == ctxs[c].rsp IN
    \A j \in DOMAIN rsp, k \in DOMAIN rsp : j < k /\ rsp[j].status # "ok" =>
      /\ rsp[k].mid \notin ran
      /\ rsp[k].status \in {rsp[k - 1].status, "noSession", "noTree"}

(* An answer that Run sends goes out under the session of its request, and a *)
(* frame is protected by the session of the answer that completes it,        *)
(* however far ahead the receiver is; the second answer of a CHANGE_NOTIFY,  *)
(* and that of an ECHO, go out under the session of some other request.      *)
OwnSession ==
  \A i \in DOMAIN sent :
    LET rsp == sent[i].rsp IN
    /\ sent[i].sess = rsp[Len(rsp)].sess
    /\ \A j \in DOMAIN rsp :
         \/ reqs[rsp[j].mid].cmd = "echo"
         \/ reqs[rsp[j].mid].cmd = "notify" /\ rsp[j].status \in {"ok", "cancelled"}
         \/ rsp[j].sess = reqs[rsp[j].mid].sess
=============================================================================
