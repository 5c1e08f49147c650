--------------------------- MODULE DispatchProofs ---------------------------
(* Proofs about the way of a request from its frame to its answers, for any  *)
(* frames, sessions and number of requests.                                  *)
EXTENDS Dispatch, FiniteSetTheorems, SequenceTheorems, TLAPS

ReqType == [cmd : TreeCommands \cup {"echo", "logoff", "connect", "disconnect"}, rel : BOOLEAN,
            sess : Sessions \cup {None}, tree : Nat, fid : Nat, mid : Nat, more : BOOLEAN,
            last : Nat, ctx : Nat]
CtxType == [status : Statuses, last : Mids \cup {0}, rsp : Seq(Answers)]
FrameType == [sess : Sessions \cup {None}, rsp : Seq(Answers)]

(* The last request Run has taken.                                           *)
Through == IF offered THEN enq - 1 ELSE enq

TypeInv ==
  /\ reqs \in Seq(ReqType) /\ Len(reqs) <= MaxMsgs /\ enq \in 0 .. Len(reqs)
  /\ offered \in BOOLEAN /\ (offered => enq # 0)
  /\ ctxs \in Seq(CtxType) /\ cur \in 0 .. Len(ctxs)
  /\ fids \in Seq(Mids \cup {0}) /\ Len(fids) = Len(ctxs)
  /\ active \in Sessions \cup {None} /\ refs \in Seq(Nat) /\ opens \subseteq Mids
  /\ writing \in 0 .. Through /\ ran \subseteq 1 .. Through
  /\ waiting \subseteq [mid : 1 .. Through, fid : Mids]
  /\ sent \in Seq(FrameType)

(* One share, one tree.                                                      *)
OneTree == \A t \in Connected, u \in Connected : t = u

(* The requests are numbered as they come, and a related one follows one     *)
(* that leads to it.                                                         *)
Numbers ==
  /\ \A m \in 1 .. Len(reqs) :
       /\ reqs[m].mid = m /\ reqs[m].ctx \in 0 .. Len(ctxs)
       /\ reqs[m].rel => m > 1 /\ reqs[m - 1].more
  /\ reqs # <<>> => ~reqs[Len(reqs)].more
  /\ enq # 0 /\ reqs[enq].more => cur # 0 /\ ctxs[cur].last = 0

(* What a handler left behind to be answered is answered for its request.    *)
Owed ==
  /\ writing # 0 => active = reqs[writing].sess
  /\ \A w \in waiting : w.mid \in ran /\ reqs[w.mid].cmd = "notify"

(* The answers collected in a context, in terms of the requests rq, those    *)
(* whose handler ran, rn, and the number t of requests taken.                *)
NotifiesIn(rq, rn, c) == \E m \in rn : rq[m].cmd = "notify" /\ rq[m].ctx = c
Own(a, rq) ==
  \/ rq[a.mid].cmd = "echo"
  \/ rq[a.mid].cmd = "notify" /\ a.status \in {"ok", "cancelled"}
  \/ a.sess = rq[a.mid].sess
Ordered(s, l) == \A j \in 1 .. Len(s) :
  /\ s[j].rel = (j > 1) /\ s[j].more = (s[j].mid # l)
  /\ \A k \in 1 .. Len(s) : j < k => s[j].mid < s[k].mid
FailedOnce(s, rn) == \A j \in 1 .. Len(s), k \in 1 .. Len(s) :
  j < k /\ s[j].status # "ok" =>
    /\ s[k].mid \notin rn /\ s[k].status # "ok"
    /\ s[k].status \in {s[k - 1].status, "noSession", "noTree"}
CtxGood(x, c, rq, rn, t) ==
  /\ \A j \in 1 .. Len(x.rsp) :
       x.rsp[j].mid \in 1 .. t /\ rq[x.rsp[j].mid].ctx = c /\ Own(x.rsp[j], rq)
  /\ x.status = IF x.rsp = <<>> THEN "ok" ELSE x.rsp[Len(x.rsp)].status
  /\ ~NotifiesIn(rq, rn, c) => Ordered(x.rsp, x.last) /\ FailedOnce(x.rsp, rn)

(* A frame of answers.                                                       *)
InOrder(s) == \A j \in 1 .. Len(s) :
  /\ s[j].rel = (j > 1) /\ s[j].more = (j < Len(s))
  /\ j > 1 => s[j - 1].mid < s[j].mid
FrameGood(f, rq, rn, t) ==
  /\ f.rsp # <<>> /\ f.sess = f.rsp[Len(f.rsp)].sess
  /\ \A j \in 1 .. Len(f.rsp) : f.rsp[j].mid \in 1 .. t /\ Own(f.rsp[j], rq)
  /\ \/ rq[f.rsp[1].mid].ctx # 0 /\ NotifiesIn(rq, rn, rq[f.rsp[1].mid].ctx)
     \/ InOrder(f.rsp)

Kept ==
  /\ \A c \in 1 .. Len(ctxs) : CtxGood(ctxs[c], c, reqs, ran, Through)
  /\ \A i \in 1 .. Len(sent) : FrameGood(sent[i], reqs, ran, Through)

IInv == TypeInv /\ OneTree /\ Numbers /\ Owed /\ Kept

-----------------------------------------------------------------------------
(* Frames, chains and contexts: the requests of a frame know its last one;   *)
(* only the last frame is still being enqueued, and the receiver's context   *)
(* is that of the request enqueued last; requests share a context when all   *)
(* between them are related, and not when one between them starts a chain;   *)
(* a context has a last request exactly when a related request ended it.     *)
Blocks ==
  \A m \in 1 .. Len(reqs) :
    /\ m <= reqs[m].last /\ reqs[m].last <= Len(reqs) /\ reqs[m].more = (m # reqs[m].last)
    /\ \A k \in m .. reqs[m].last : reqs[k].last = reqs[m].last
Coming ==
  /\ \A m \in enq + 1 .. Len(reqs) : reqs[m].ctx = 0 /\ reqs[m].last = Len(reqs)
  /\ cur # 0 => /\ enq # 0 /\ reqs[enq].ctx = cur
                /\ \A m \in 1 .. enq : reqs[m].ctx = cur => reqs[m].last = Len(reqs)
Joined == \A m \in 1 .. enq, k \in 1 .. enq :
  m <= k /\ (\A i \in m + 1 .. k : reqs[i].rel) => reqs[k].ctx = reqs[m].ctx
Parted == \A m \in 1 .. enq, k \in 1 .. enq, l \in 1 .. enq :
  m < k /\ k <= l /\ ~reqs[k].rel /\ reqs[k].more => reqs[l].ctx = 0 \/ reqs[l].ctx # reqs[m].ctx
Ended ==
  /\ \A c \in 1 .. Len(ctxs) : ctxs[c].last # 0 =>
       /\ ctxs[c].last \in 1 .. enq /\ reqs[ctxs[c].last].ctx = c /\ reqs[ctxs[c].last].rel
       /\ \A m \in 1 .. enq : reqs[m].ctx = c => reqs[m].last = ctxs[c].last
  /\ \A k \in 1 .. enq : reqs[k].rel /\ ~reqs[k].more =>
       reqs[k].ctx # 0 /\ ctxs[reqs[k].ctx].last = k

Chains == Blocks /\ Coming /\ Joined /\ Parted /\ Ended

(* Where the frames sent come from: a single answer, outside of a chain, or  *)
(* all that a context had collected when its last request was answered.      *)
OutsideCmds == {"echo", "logoff", "connect", "disconnect", "cancel"}
Out(m) == m \in ran /\ reqs[m].cmd \in OutsideCmds
LastOf(i) == sent[i].rsp[Len(sent[i].rsp)]
Single(i) ==
  /\ Len(sent[i].rsp) = 1
  /\ IF Out(LastOf(i).mid) THEN reqs[LastOf(i).mid].cmd # "cancel"
     ELSE reqs[LastOf(i).mid].ctx = 0
OfChain(i) ==
  LET c == reqs[LastOf(i).mid].ctx IN
  /\ c # 0 /\ ctxs[c].last = LastOf(i).mid
  /\ Len(sent[i].rsp) <= Len(ctxs[c].rsp)
  /\ \A j \in 1 .. Len(sent[i].rsp) : sent[i].rsp[j] = ctxs[c].rsp[j]
Sources == \A i \in 1 .. Len(sent) : Single(i) \/ OfChain(i)

(* Two frames end in an answer to the same request only where the first of   *)
(* the two is pending, or the request is a chain's CHANGE_NOTIFY; a context  *)
(* has at most one final answer to a request, and none to one answered       *)
(* outside of it.                                                            *)
Twice(i, k) ==
  IF reqs[LastOf(i).mid].ctx = 0
  THEN LastOf(i).status = "pending" \/ LastOf(k).status = "pending"
  ELSE reqs[LastOf(i).mid].cmd = "notify"
FramesOnce == \A i \in 1 .. Len(sent), k \in 1 .. Len(sent) :
  i # k /\ LastOf(i).mid = LastOf(k).mid => Twice(i, k)
CtxOnce == \A c \in 1 .. Len(ctxs) : \A j \in 1 .. Len(ctxs[c].rsp) :
  /\ ~Out(ctxs[c].rsp[j].mid)
  /\ \A k \in 1 .. Len(ctxs[c].rsp) : j # k /\ ctxs[c].rsp[j].mid = ctxs[c].rsp[k].mid =>
       ctxs[c].rsp[j].status = "pending" \/ ctxs[c].rsp[k].status = "pending"

(* What is still to be answered has only been answered as pending.           *)
Pending(m) ==
  /\ reqs[m].ctx = 0 =>
       \A i \in 1 .. Len(sent) : LastOf(i).mid = m => LastOf(i).status = "pending"
  /\ reqs[m].ctx # 0 => \A j \in 1 .. Len(ctxs[reqs[m].ctx].rsp) :
       ctxs[reqs[m].ctx].rsp[j].mid = m => ctxs[reqs[m].ctx].rsp[j].status = "pending"
Open ==
  /\ \A w \in waiting : Pending(w.mid)
  /\ \A w \in waiting, v \in waiting : w.mid = v.mid => w = v
  /\ writing # 0 => reqs[writing].ctx = 0 /\ reqs[writing].cmd = "write" /\ Pending(writing)

(* Every request Run is through with is answered, on its own or in its       *)
(* context, and a context whose last request is answered has been sent.      *)
Answered(m) ==
  IF Out(m) \/ reqs[m].ctx = 0
  THEN \/ Out(m) /\ reqs[m].cmd = "cancel"
       \/ \E i \in 1 .. Len(sent) : sent[i].rsp[1].mid = m
  ELSE \E j \in 1 .. Len(ctxs[reqs[m].ctx].rsp) : ctxs[reqs[m].ctx].rsp[j].mid = m
Complete(c) ==
  \E i \in 1 .. Len(sent) : \A m \in 1 .. ctxs[c].last :
    reqs[m].ctx = c /\ ~Out(m) => \E j \in 1 .. Len(sent[i].rsp) : sent[i].rsp[j].mid = m
All ==
  /\ \A m \in 1 .. Through : Answered(m)
  /\ \A c \in 1 .. Len(ctxs) :
       ctxs[c].last \in 1 .. Through /\ ~Out(ctxs[c].last) => Complete(c)

Once == Sources /\ FramesOnce /\ CtxOnce /\ Open /\ All

-----------------------------------------------------------------------------
(* The fields of an answer, a context and a frame.                           *)
LEMMA AnswerFields ==
  /\ \A a \in Answers : /\ a.mid \in Mids /\ a.status \in Statuses
                        /\ a.sess \in Sessions \cup {None}
                        /\ a.rel \in BOOLEAN /\ a.more \in BOOLEAN
  /\ \A x \in CtxType : x.status \in Statuses /\ x.last \in Mids \cup {0}
     /\ x.rsp \in Seq(Answers)
  /\ \A f \in FrameType : f.sess \in Sessions \cup {None} /\ f.rsp \in Seq(Answers)
BY DEF Answers, CtxType, FrameType

(* Later requests and handlers do not touch what was collected or sent.      *)
LEMMA LaterNotifies ==
  ASSUME NEW rq, NEW rq2, NEW t \in Nat, NEW rn \in SUBSET (1 .. t), NEW rn2,
         rn \subseteq rn2, \A m \in 1 .. t : rq2[m] = rq[m], NEW c, NotifiesIn(rq, rn, c)
  PROVE  NotifiesIn(rq2, rn2, c)
BY DEF NotifiesIn

(* ... in a context,                                                         *)
LEMMA LaterCtx ==
  ASSUME NEW rq, NEW rq2, NEW t \in Nat, NEW u \in Nat, t <= u, NEW rn \in SUBSET (1 .. t),
    NEW rn2,
         rn \subseteq rn2, \A m \in 1 .. t : m \in rn2 => m \in rn,
         \A m \in 1 .. t : rq2[m] = rq[m], NEW x \in CtxType, NEW c, CtxGood(x, c, rq, rn, t)
  PROVE  CtxGood(x, c, rq2, rn2, u)
<1>1. x.rsp \in Seq(Answers)
  BY AnswerFields
<1>2. ASSUME NEW j \in 1 .. Len(x.rsp)
      PROVE  x.rsp[j].mid \in 1 .. u /\ rq2[x.rsp[j].mid].ctx = c /\ Own(x.rsp[j], rq2)
  BY <1>2 DEF CtxGood, Own
<1>3. \A j \in 1 .. Len(x.rsp) : x.rsp[j].mid \in 1 .. t
  BY DEF CtxGood
<1>4. ASSUME ~NotifiesIn(rq2, rn2, c) PROVE Ordered(x.rsp, x.last) /\ FailedOnce(x.rsp, rn2)
  <2>1. Ordered(x.rsp, x.last) /\ FailedOnce(x.rsp, rn)
    BY <1>4, LaterNotifies DEF CtxGood
  <2> QED BY <1>3, <2>1 DEF FailedOnce
<1> QED BY <1>2, <1>4 DEF CtxGood

(* ... and in a frame.                                                       *)
LEMMA LaterFrame ==
  ASSUME NEW rq, NEW rq2, NEW t \in Nat, NEW u \in Nat, t <= u, NEW rn \in SUBSET (1 .. t),
    NEW rn2,
         rn \subseteq rn2, \A m \in 1 .. t : rq2[m] = rq[m],
         NEW f \in FrameType, FrameGood(f, rq, rn, t)
  PROVE  FrameGood(f, rq2, rn2, u)
<1>1. f.rsp \in Seq(Answers) /\ f.rsp # <<>>
  BY AnswerFields DEF FrameGood
<1>2. 1 \in 1 .. Len(f.rsp)
  BY <1>1
<1>3. \A j \in 1 .. Len(f.rsp) : f.rsp[j].mid \in 1 .. t /\ Own(f.rsp[j], rq)
  BY DEF FrameGood
<1>4. \A j \in 1 .. Len(f.rsp) : f.rsp[j].mid \in 1 .. u /\ Own(f.rsp[j], rq2)
  BY <1>3 DEF Own
<1>5. rq2[f.rsp[1].mid] = rq[f.rsp[1].mid]
  BY <1>2, <1>3
<1>6. CASE rq[f.rsp[1].mid].ctx # 0 /\ NotifiesIn(rq, rn, rq[f.rsp[1].mid].ctx)
  <2>1. PICK d : d = rq[f.rsp[1].mid].ctx
    OBVIOUS
  <2>2. NotifiesIn(rq, rn, d)
    BY <1>6, <2>1
  <2>3. NotifiesIn(rq2, rn2, d)
    BY <2>2, LaterNotifies
  <2> QED BY <1>1, <1>4, <1>5, <1>6, <2>1, <2>3 DEF FrameGood
<1>7. CASE InOrder(f.rsp)
  BY <1>4, <1>7 DEF FrameGood
<1> QED BY <1>6, <1>7 DEF FrameGood

(* The answer of the request Run took last joins its context.                *)
LEMMA JoinFirst ==
  ASSUME NEW t \in Nat, NEW rn \in SUBSET (1 .. t), NEW rq, NEW x \in CtxType, NEW c,
         CtxGood(x, c, rq, rn, t), NEW h \in Answers, h.mid = t + 1, rq[t + 1].ctx = c,
         Own(h, rq), h.rel = (x.rsp # <<>>), h.more = (t + 1 # x.last),
         NEW rn2 \in SUBSET (1 .. t + 1), rn \subseteq rn2,
           \A m \in 1 .. t : m \in rn2 => m \in rn,
         \/ t + 1 \notin rn2 /\ h.status \in {x.status, "noSession", "noTree"}
         \/ x.status = "ok",
         NEW y \in CtxType, y.rsp = Append(x.rsp, h), y.status = h.status, y.last = x.last
  PROVE  CtxGood(y, c, rq, rn2, t + 1)
<1> DEFINE s == x.rsp
           n == Len(s)
           z == y.rsp
<1>1. s \in Seq(Answers) /\ n \in Nat
  BY AnswerFields
<1>2. /\ z \in Seq(Answers) /\ Len(z) = n + 1 /\ z[n + 1] = h
      /\ \A j \in 1 .. n : z[j] = s[j]
      /\ \A j \in 1 .. Len(z) : j \in 1 .. n \/ j = n + 1
  BY <1>1, AppendProperties
<1>3. /\ \A j \in 1 .. n : s[j].mid \in 1 .. t /\ rq[s[j].mid].ctx = c /\ Own(s[j], rq)
      /\ x.status = IF s = <<>> THEN "ok" ELSE s[n].status
      /\ ~NotifiesIn(rq, rn, c) => Ordered(s, x.last) /\ FailedOnce(s, rn)
  BY DEF CtxGood
<1>4. s = <<>> <=> n = 0
  BY <1>1
<1>5. h.rel = (n + 1 > 1)
  <2>1. (s # <<>>) = (n + 1 > 1)
    BY <1>1, <1>4
  <2> QED BY <2>1
<1>6. \A j \in 1 .. Len(z) : z[j].mid \in 1 .. t + 1 /\ rq[z[j].mid].ctx = c /\ Own(z[j], rq)
  BY <1>2, <1>3
<1>8. \A j \in 1 .. n : s[j].mid < t + 1
  BY <1>3
<1>10. y.status = h.status
  OBVIOUS
<1> HIDE DEF s, n, z
<1>7. y.status = IF z = <<>> THEN "ok" ELSE z[Len(z)].status
  <2>1. z # <<>>
    BY <1>1, <1>2
  <2> QED BY <1>2, <1>10, <2>1
<1>9. ASSUME ~NotifiesIn(rq, rn2, c) PROVE Ordered(z, y.last) /\ FailedOnce(z, rn2)
  <2>1. ~NotifiesIn(rq, rn, c)
    BY <1>9 DEF NotifiesIn
  <2>2. Ordered(s, x.last) /\ FailedOnce(s, rn)
    BY <1>3, <2>1
  <2>3. ASSUME NEW j \in 1 .. Len(z)
        PROVE  z[j].rel = (j > 1) /\ z[j].more = (z[j].mid # y.last)
    <3>1. CASE j \in 1 .. n
      BY <1>1, <1>2, <2>2, <3>1 DEF Ordered, n
    <3>2. CASE j = n + 1
      BY <1>2, <1>5, <3>2
    <3> QED BY <1>2, <3>1, <3>2
  <2>4. ASSUME NEW j \in 1 .. Len(z), NEW k \in 1 .. Len(z), j < k
        PROVE  z[j].mid < z[k].mid
    <3>1. j \in 1 .. n
      BY <1>1, <1>2, <2>4
    <3>2. CASE k \in 1 .. n
      BY <1>1, <1>2, <2>2, <2>4, <3>1, <3>2 DEF Ordered, n
    <3>3. CASE k = n + 1
      BY <1>2, <1>8, <3>1, <3>3
    <3> QED BY <1>2, <3>2, <3>3
  <2>5. ASSUME NEW j \in 1 .. Len(z), NEW k \in 1 .. Len(z), j < k, z[j].status # "ok"
        PROVE  /\ z[k].mid \notin rn2 /\ z[k].status # "ok"
               /\ z[k].status \in {z[k - 1].status, "noSession", "noTree"}
    <3>1. j \in 1 .. n /\ s[j].status # "ok"
      BY <1>1, <1>2, <2>5
    <3>2. CASE k \in 1 .. n
      <4>1. k - 1 \in 1 .. n
        BY <1>1, <2>5, <3>1, <3>2
      <4>2. /\ s[k].mid \notin rn /\ s[k].status # "ok"
            /\ s[k].status \in {s[k - 1].status, "noSession", "noTree"}
        BY <2>2, <2>5, <3>1, <3>2 DEF FailedOnce, n
      <4>3. s[k].mid \notin rn2
        BY <1>3, <3>2, <4>2
      <4> QED BY <1>2, <3>2, <4>1, <4>2, <4>3
    <3>3. CASE k = n + 1
      <4>1. n \in 1 .. n /\ k - 1 = n
        BY <1>1, <3>1, <3>3
      <4>2. x.status = s[n].status
        BY <1>3, <1>4, <4>1
      <4>3. s[n].status # "ok"
        <5>1. CASE j = n BY <3>1, <5>1
        <5>2. CASE j < n BY <2>2, <3>1, <4>1, <5>2 DEF FailedOnce, n
        <5> QED BY <1>1, <3>1, <5>1, <5>2
      <4>4. t + 1 \notin rn2 /\ h.status \in {x.status, "noSession", "noTree"}
        BY <4>2, <4>3
      <4> QED BY <1>2, <3>3, <4>1, <4>2, <4>3, <4>4
    <3> QED BY <1>2, <3>2, <3>3
  <2>6. Ordered(z, y.last)
    BY <2>3, <2>4 DEF Ordered
  <2>7. FailedOnce(z, rn2)
    BY <2>5 DEF FailedOnce
  <2> QED BY <2>6, <2>7
<1> QED BY <1>6, <1>7, <1>9 DEF CtxGood, z

(* The second answer of a CHANGE_NOTIFY joins its context.                   *)
LEMMA JoinSecond ==
  ASSUME NEW t \in Nat, NEW rn, NEW rq, NEW x \in CtxType, NEW c,
         CtxGood(x, c, rq, rn, t), NEW h \in Answers, h.mid \in 1 .. t, rq[h.mid].ctx = c,
         Own(h, rq), NotifiesIn(rq, rn, c),
         NEW y \in CtxType, y.rsp = Append(x.rsp, h), y.status = h.status
  PROVE  CtxGood(y, c, rq, rn, t)
<1>1. x.rsp \in Seq(Answers)
  BY AnswerFields
<1>2. /\ y.rsp # <<>> /\ Len(y.rsp) = Len(x.rsp) + 1 /\ y.rsp[Len(x.rsp) + 1] = h
      /\ \A j \in 1 .. Len(x.rsp) : y.rsp[j] = x.rsp[j]
      /\ \A j \in 1 .. Len(y.rsp) : j \in 1 .. Len(x.rsp) \/ j = Len(x.rsp) + 1
  BY <1>1, AppendProperties
<1>3. \A j \in 1 .. Len(y.rsp) : y.rsp[j].mid \in 1 .. t /\ rq[y.rsp[j].mid].ctx = c
                                 /\ Own(y.rsp[j], rq)
  BY <1>2 DEF CtxGood
<1> QED BY <1>2, <1>3 DEF CtxGood

(* All of a context leaves when its last request is answered.                *)
LEMMA ContextLeaves ==
  ASSUME NEW t \in Nat, NEW rn, NEW rq, NEW y \in CtxType, NEW c, c # 0, CtxGood(y, c, rq, rn, t),
         y.rsp # <<>>, y.rsp[Len(y.rsp)].mid = y.last, NEW f \in FrameType, f.rsp = y.rsp,
         f.sess = y.rsp[Len(y.rsp)].sess
  PROVE  FrameGood(f, rq, rn, t)
<1> DEFINE s == y.rsp
           n == Len(s)
<1>1. s \in Seq(Answers) /\ n \in Nat /\ n >= 1
  BY AnswerFields
<1>2. \A j \in 1 .. n : s[j].mid \in 1 .. t /\ Own(s[j], rq)
  BY DEF CtxGood
<1>3. 1 \in 1 .. n /\ n \in 1 .. n
  BY <1>1
<1>4. CASE NotifiesIn(rq, rn, c)
  <2>1. rq[s[1].mid].ctx = c
    BY <1>3 DEF CtxGood
  <2> QED BY <1>2, <1>4, <2>1 DEF FrameGood
<1>5. CASE ~NotifiesIn(rq, rn, c)
  <2>1. Ordered(s, y.last) /\ s[n].mid = y.last
    BY <1>5 DEF CtxGood
  <2> HIDE DEF s, n
  <2>2. ASSUME NEW j \in 1 .. n
        PROVE  /\ s[j].rel = (j > 1) /\ s[j].more = (j < n)
               /\ j > 1 => s[j - 1].mid < s[j].mid
    <3>1. s[j].rel = (j > 1) /\ s[j].more = (s[j].mid # y.last)
      BY <1>3, <2>1 DEF Ordered, n
    <3>2. s[j].mid \in Nat /\ s[n].mid \in Nat
      BY <1>2, <1>3
    <3>3. j < n => s[j].mid < s[n].mid
      BY <1>3, <2>1 DEF Ordered, n
    <3>4. (s[j].mid # y.last) = (j < n)
      <4>1. CASE j = n BY <1>1, <2>1, <4>1
      <4>2. CASE j < n BY <2>1, <3>2, <3>3, <4>2
      <4> QED BY <1>1, <4>1, <4>2
    <3>5. ASSUME j > 1 PROVE s[j - 1].mid < s[j].mid
      <4>1. j - 1 \in 1 .. n /\ j - 1 < j
        BY <1>1, <3>5
      <4> QED BY <2>1, <4>1 DEF Ordered, n
    <3> QED BY <3>1, <3>4, <3>5
  <2>3. InOrder(s)
    BY <2>2 DEF InOrder, n
  <2> QED BY <1>2, <2>3 DEF FrameGood, s, n
<1> QED BY <1>4, <1>5

(* An answer that leaves alone.                                              *)
LEMMA AnswerLeaves ==
  ASSUME NEW t \in Nat, NEW rn, NEW rq, NEW h \in Answers, h.mid \in 1 .. t, Own(h, rq),
         ~h.rel, ~h.more, NEW f \in FrameType, f.rsp = <<h>>, f.sess = h.sess
  PROVE  FrameGood(f, rq, rn, t)
<1>1. Len(f.rsp) = 1 /\ f.rsp[1] = h /\ f.rsp # <<>> /\ \A j \in 1 .. Len(f.rsp) : j = 1
  OBVIOUS
<1>2. h.rel = FALSE /\ h.more = FALSE
  BY AnswerFields
<1>3. (1 > 1) = FALSE /\ (1 < Len(f.rsp)) = FALSE
  BY <1>1
<1>4. InOrder(f.rsp)
  BY <1>1, <1>2, <1>3 DEF InOrder
<1> QED BY <1>1, <1>4 DEF FrameGood

-----------------------------------------------------------------------------
(* What is known of the state and its numbers.                               *)
LEMMA Known ==
  ASSUME TypeInv
  PROVE  /\ Len(reqs) \in Nat /\ enq \in Nat /\ enq <= Len(reqs) /\ Through \in Nat
         /\ Through <= enq /\ enq <= MaxMsgs /\ MaxMsgs \in Nat
         /\ Through <= Len(reqs) /\ Len(ctxs) \in Nat
         /\ 1 .. Through \subseteq Mids /\ 1 .. enq \subseteq Mids
BY MaxMsgsAssumption DEF TypeInv, Through, Mids

(* The request Run takes.                                                    *)
LEMMA TakenFacts ==
  ASSUME TypeInv, Numbers, Taken
  PROVE  /\ enq \in 1 .. Len(reqs) /\ enq \in Mids /\ R \in ReqType /\ R.mid = enq
         /\ R.ctx \in 0 .. Len(ctxs) /\ Through + 1 = enq /\ Through' = enq /\ writing = 0
         /\ reqs' = reqs /\ enq' = enq /\ cur' = cur /\ offered' = FALSE /\ Through \in Nat
<1>1. /\ offered /\ offered' = FALSE /\ enq' = enq /\ writing = 0 /\ reqs' = reqs /\ cur' = cur
  BY DEF Taken
<1>2. enq \in 1 .. Len(reqs) /\ reqs \in Seq(ReqType) /\ enq \in Nat
  BY <1>1, Known DEF TypeInv
<1>3. R \in ReqType
  BY <1>2 DEF R
<1>4. R.mid = enq /\ R.ctx \in 0 .. Len(ctxs)
  BY <1>2 DEF R, Numbers
<1>5. Through = enq - 1 /\ Through' = enq
  BY <1>1 DEF Through
<1>6. enq \in Mids
  BY <1>2, Known
<1> QED BY <1>1, <1>2, <1>3, <1>4, <1>5, <1>6, Known

(* sendPacket without a context sends the answer on its own,                 *)
LEMMA SendsAlone ==
  ASSUME TypeInv, NEW m \in Mids, NEW st \in Statuses, NEW ss \in Sessions \cup {None},
         SendPacket(m, 0, st, ss)
  PROVE  /\ ctxs' = ctxs
         /\ \E h \in Answers, f \in FrameType :
              /\ h.mid = m /\ h.status = st /\ h.sess = ss /\ ~h.rel /\ ~h.more
              /\ f.rsp = <<h>> /\ f.sess = ss /\ sent' = Append(sent, f)
<1>1. PICK h : h = [mid |-> m, status |-> st, sess |-> ss, rel |-> FALSE, more |-> FALSE]
  OBVIOUS
<1>2. PICK f : f = [sess |-> ss, rsp |-> <<h>>]
  OBVIOUS
<1>3. h \in Answers
  BY <1>1 DEF Answers
<1>4. f \in FrameType
  BY <1>2, <1>3 DEF FrameType
<1>5. Header(m, 0, st, ss) = h
  BY <1>1 DEF Header
<1>6. Append(<<>>, h) = <<h>>
  OBVIOUS
<1>7. ctxs' = ctxs /\ sent' = Append(sent, f)
  BY <1>2, <1>5, <1>6 DEF SendPacket
<1> QED BY <1>1, <1>2, <1>3, <1>4, <1>7

(* ... and with a context adds it to the answers collected there, which      *)
(* leave with the answer to the last request.                                *)
LEMMA SendsInChain ==
  ASSUME TypeInv, NEW m \in Mids, NEW c \in 1 .. Len(ctxs), NEW st \in Statuses,
         NEW ss \in Sessions \cup {None}, SendPacket(m, c, st, ss)
  PROVE  /\ ctxs' \in Seq(CtxType) /\ Len(ctxs') = Len(ctxs)
         /\ \A d \in 1 .. Len(ctxs) : d # c => ctxs'[d] = ctxs[d]
         /\ \E h \in Answers, y \in CtxType :
              /\ h.mid = m /\ h.status = st /\ h.sess = ss
              /\ h.rel = (ctxs[c].rsp # <<>>) /\ h.more = (m # ctxs[c].last)
              /\ y.rsp = Append(ctxs[c].rsp, h) /\ y.status = st /\ y.last = ctxs[c].last
              /\ ctxs'[c] = y
              /\ \/ m # ctxs[c].last /\ sent' = sent
                 \/ /\ m = ctxs[c].last
                    /\ \E f \in FrameType : f.rsp = y.rsp /\ f.sess = ss
                       /\ sent' = Append(sent, f)
<1>1. PICK x : x = ctxs[c]
  OBVIOUS
<1>2. ctxs \in Seq(CtxType) /\ x \in CtxType /\ c # 0
  BY <1>1 DEF TypeInv
<1>3. PICK h : h = Header(m, c, st, ss)
  OBVIOUS
<1>4. h = [mid |-> m, status |-> st, sess |-> ss, rel |-> x.rsp # <<>>, more |-> m # x.last]
  BY <1>1, <1>2, <1>3 DEF Header
<1>5. h \in Answers
  BY <1>4 DEF Answers
<1>6. PICK s : s = Append(x.rsp, h)
  OBVIOUS
<1>7. x.rsp \in Seq(Answers) /\ x.last \in Mids \cup {0}
  BY <1>2, AnswerFields
<1>8. s \in Seq(Answers)
  BY <1>5, <1>6, <1>7
<1>9. /\ ctxs' = [ctxs EXCEPT ![c] = [status |-> st, last |-> x.last, rsp |-> s]]
      /\ sent' = IF m = x.last THEN Append(sent, [sess |-> ss, rsp |-> s]) ELSE sent
  BY <1>1, <1>2, <1>3, <1>6 DEF SendPacket
<1>10. PICK y : y = [status |-> st, last |-> x.last, rsp |-> s]
  OBVIOUS
<1>11. y \in CtxType
  BY <1>7, <1>8, <1>10 DEF CtxType
<1>12. ctxs'[c] = y
  BY <1>2, <1>9, <1>10
<1>13. PICK q : q = ctxs
  OBVIOUS
<1>14. q \in Seq(CtxType) /\ c \in 1 .. Len(q) /\ ctxs' = [q EXCEPT ![c] = y]
  BY <1>2, <1>9, <1>10, <1>13
<1>15. /\ [q EXCEPT ![c] = y] \in Seq(CtxType) /\ Len([q EXCEPT ![c] = y]) = Len(q)
       /\ \A d \in 1 .. Len(q) : [q EXCEPT ![c] = y][d] = IF d = c THEN y ELSE q[d]
  BY <1>11, <1>14, ExceptSeq
<1>16. ctxs' \in Seq(CtxType) /\ Len(ctxs') = Len(ctxs)
  BY <1>13, <1>14, <1>15
<1>17. \A d \in 1 .. Len(ctxs) : d # c => ctxs'[d] = ctxs[d]
  BY <1>13, <1>14, <1>15
<1>18. [sess |-> ss, rsp |-> s] \in FrameType
  BY <1>8 DEF FrameType
<1>19. \/ m # x.last /\ sent' = sent
       \/ /\ m = x.last
          /\ \E f \in FrameType : f.rsp = s /\ f.sess = ss /\ sent' = Append(sent, f)
  BY <1>9, <1>18
<1>20. /\ h.mid = m /\ h.status = st /\ h.sess = ss
       /\ h.rel = (x.rsp # <<>>) /\ h.more = (m # x.last)
  BY <1>4
<1>21. y.rsp = s /\ y.status = st /\ y.last = x.last
  BY <1>10
<1>22. \E h1 \in Answers, y1 \in CtxType :
          /\ h1.mid = m /\ h1.status = st /\ h1.sess = ss
          /\ h1.rel = (x.rsp # <<>>) /\ h1.more = (m # x.last)
          /\ y1.rsp = Append(x.rsp, h1) /\ y1.status = st /\ y1.last = x.last
          /\ ctxs'[c] = y1
          /\ \/ m # x.last /\ sent' = sent
             \/ /\ m = x.last
                /\ \E f \in FrameType : f.rsp = y1.rsp /\ f.sess = ss /\ sent' = Append(sent, f)
  <2> WITNESS h \in Answers, y \in CtxType
  <2> QED BY <1>6, <1>12, <1>19, <1>20, <1>21
<1> QED BY <1>1, <1>16, <1>17, <1>22

(* Contexts and frames stay good where a step leaves them alone.             *)
LEMMA KeptOn ==
  ASSUME TypeInv, Kept, Through' \in Nat, Through <= Through',
         \A m \in 1 .. Through : reqs'[m] = reqs[m],
         ran \subseteq ran', \A m \in 1 .. Through : m \in ran' => m \in ran,
         \A c \in 1 .. Len(ctxs') : \/ c \in 1 .. Len(ctxs) /\ ctxs'[c] = ctxs[c]
                                    \/ CtxGood(ctxs'[c], c, reqs', ran', Through'),
         \A i \in 1 .. Len(sent') : \/ i \in 1 .. Len(sent) /\ sent'[i] = sent[i]
                                    \/ FrameGood(sent'[i], reqs', ran', Through')
  PROVE  Kept'
<1>1. PICK rq2, rn2, u : rq2 = reqs' /\ rn2 = ran' /\ u = Through'
  OBVIOUS
<1>2. PICK rq, rn, t : rq = reqs /\ rn = ran /\ t = Through
  OBVIOUS
<1>3. /\ t \in Nat /\ u \in Nat /\ t <= u /\ rn \in SUBSET (1 .. t) /\ rn \subseteq rn2
      /\ \A m \in 1 .. t : m \in rn2 => m \in rn
      /\ \A m \in 1 .. t : rq2[m] = rq[m]
  BY <1>1, <1>2, Known DEF TypeInv
<1>4. ASSUME NEW c \in 1 .. Len(ctxs') PROVE CtxGood(ctxs'[c], c, reqs', ran', Through')
  <2>1. CASE c \in 1 .. Len(ctxs) /\ ctxs'[c] = ctxs[c]
    <3>1. PICK x : x = ctxs[c]
      OBVIOUS
    <3>2. x \in CtxType /\ CtxGood(x, c, rq, rn, t)
      BY <1>2, <2>1, <3>1 DEF TypeInv, Kept
    <3>3. CtxGood(x, c, rq2, rn2, u)
      BY <1>3, <3>2, LaterCtx
    <3> QED BY <1>1, <2>1, <3>1, <3>3
  <2> QED BY <2>1
<1>5. ASSUME NEW i \in 1 .. Len(sent') PROVE FrameGood(sent'[i], reqs', ran', Through')
  <2>1. CASE i \in 1 .. Len(sent) /\ sent'[i] = sent[i]
    <3>1. PICK f : f = sent[i]
      OBVIOUS
    <3>2. f \in FrameType /\ FrameGood(f, rq, rn, t)
      BY <1>2, <2>1, <3>1 DEF TypeInv, Kept
    <3>3. FrameGood(f, rq2, rn2, u)
      BY <1>3, <3>2, LaterFrame
    <3> QED BY <1>1, <2>1, <3>1, <3>3
  <2> QED BY <2>1
<1> QED BY <1>4, <1>5 DEF Kept

(* A step that only adds answers.                                            *)
AnswersKept ==
  /\ Kept' /\ ctxs' \in Seq(CtxType) /\ Len(ctxs') = Len(ctxs)
  /\ \A c \in 1 .. Len(ctxs) : ctxs'[c].last = ctxs[c].last
  /\ sent' \in Seq(FrameType)

(* A frame more.                                                             *)
LEMMA SentMore ==
  ASSUME TypeInv, NEW f \in FrameType, sent' = Append(sent, f)
  PROVE  /\ sent' \in Seq(FrameType)
         /\ \A i \in 1 .. Len(sent') : \/ i \in 1 .. Len(sent) /\ sent'[i] = sent[i]
                                       \/ sent'[i] = f
<1>1. PICK q : q = sent
  OBVIOUS
<1>2. q \in Seq(FrameType) /\ sent' = Append(q, f)
  BY <1>1 DEF TypeInv
<1>3. /\ Append(q, f) \in Seq(FrameType) /\ Len(Append(q, f)) = Len(q) + 1
      /\ \A i \in 1 .. Len(q) : Append(q, f)[i] = q[i]
      /\ Append(q, f)[Len(q) + 1] = f
  BY <1>2, AppendProperties
<1>4. \A i \in 1 .. Len(q) + 1 : i \in 1 .. Len(q) \/ i = Len(q) + 1
  BY <1>2
<1> QED BY <1>1, <1>2, <1>3, <1>4

(* A step that answers the request just taken without its context.           *)
LEMMA AloneAnswer ==
  ASSUME TypeInv, Numbers, Kept, Taken, KnownSession, NEW st \in Statuses, AnswerAlone(st),
         ran' = ran \cup {R.mid}
  PROVE  AnswersKept /\ active' = Selected /\ active' \in Sessions \cup {None}
<1>1. PICK m, ss : m = enq /\ ss = Selected
  OBVIOUS
<1>2. /\ m \in 1 .. Len(reqs) /\ m \in Mids /\ R.mid = m /\ Through + 1 = m /\ Through' = m
      /\ reqs' = reqs /\ Through \in Nat /\ R = reqs[m] /\ R \in ReqType
  BY <1>1, TakenFacts DEF R
<1>3. ss \in Sessions \cup {None}
  BY <1>1, <1>2 DEF Selected, ReqType, TypeInv
<1>4. active' = ss /\ SendPacket(m, 0, st, ss)
  BY <1>1, <1>2 DEF AnswerAlone
<1>5. ctxs' = ctxs
  BY <1>2, <1>3, <1>4, SendsAlone
<1>6. PICK h \in Answers, f \in FrameType :
        /\ h.mid = m /\ h.status = st /\ h.sess = ss /\ ~h.rel /\ ~h.more
        /\ f.rsp = <<h>> /\ f.sess = ss /\ sent' = Append(sent, f)
  BY <1>2, <1>3, <1>4, SendsAlone
<1>7. PICK rq, rn, u : rq = reqs' /\ rn = ran' /\ u = Through'
  OBVIOUS
<1>8. Own(h, rq)
  BY <1>1, <1>2, <1>6, <1>7 DEF Own, Selected
<1>9. u \in Nat /\ h.mid \in 1 .. u /\ f.sess = h.sess
  BY <1>2, <1>6, <1>7
<1>10. FrameGood(f, rq, rn, u)
  BY <1>6, <1>8, <1>9, AnswerLeaves
<1>11. /\ sent' \in Seq(FrameType)
       /\ \A i \in 1 .. Len(sent') : \/ i \in 1 .. Len(sent) /\ sent'[i] = sent[i]
                                     \/ sent'[i] = f
  BY <1>6, SentMore
<1>12. \A i \in 1 .. Len(sent') : \/ i \in 1 .. Len(sent) /\ sent'[i] = sent[i]
                                  \/ FrameGood(sent'[i], reqs', ran', Through')
  BY <1>7, <1>10, <1>11
<1>13. /\ Through' \in Nat /\ Through <= Through' /\ ran \subseteq ran'
       /\ \A i \in 1 .. Through : reqs'[i] = reqs[i]
       /\ \A i \in 1 .. Through : i \in ran' => i \in ran
  BY <1>2
<1>14. \A c \in 1 .. Len(ctxs') : c \in 1 .. Len(ctxs) /\ ctxs'[c] = ctxs[c]
  BY <1>5
<1>15. Kept'
  BY <1>12, <1>13, <1>14, KeptOn
<1>16. ctxs \in Seq(CtxType)
  BY DEF TypeInv
<1> QED BY <1>1, <1>3, <1>4, <1>5, <1>11, <1>15, <1>16 DEF AnswersKept

(* A step that answers the request just taken through its context.           *)
LEMMA ChainAnswer ==
  ASSUME TypeInv, Numbers, Kept, Taken, NEW st \in Statuses, AnswerInChain(st),
         \/ ran' = ran /\ (R.ctx # 0 => st \in {ctxs[R.ctx].status, "noSession", "noTree"})
         \/ ran' = ran \cup {R.mid} /\ ~ChainFailed
  PROVE  AnswersKept /\ active' = Selected /\ active' \in Sessions \cup {None}
<1>1. PICK m, ss, c : m = enq /\ ss = Selected /\ c = R.ctx
  OBVIOUS
<1>2. /\ m \in 1 .. Len(reqs) /\ m \in Mids /\ R.mid = m /\ Through + 1 = m /\ Through' = m
      /\ reqs' = reqs /\ Through \in Nat /\ R = reqs[m] /\ R \in ReqType /\ c \in 0 .. Len(ctxs)
  BY <1>1, TakenFacts DEF R
<1>3. ss \in Sessions \cup {None}
  BY <1>1, <1>2 DEF Selected, ReqType, TypeInv
<1>4. active' = ss /\ SendPacket(m, c, st, ss)
  BY <1>1, <1>2 DEF AnswerInChain
<1>5. PICK rq, rn, t, rn2 : rq = reqs /\ rn = ran /\ rn2 = ran' /\ t = Through
  OBVIOUS
<1>6. /\ t \in Nat /\ t + 1 = m /\ rn \in SUBSET (1 .. t) /\ rn2 \in SUBSET (1 .. t + 1)
      /\ rn \subseteq rn2 /\ \A i \in 1 .. t : i \in rn2 => i \in rn
  <2>1. rn \in SUBSET (1 .. t) /\ t \in Nat /\ t + 1 = m
    BY <1>2, <1>5 DEF TypeInv
  <2>2. rn2 = rn \/ rn2 = rn \cup {m}
    BY <1>2, <1>5
  <2>3. m \in 1 .. t + 1 /\ \A i \in 1 .. t : i \in 1 .. t + 1 /\ i # m
    BY <2>1
  <2>4. rn2 \in SUBSET (1 .. t + 1)
    BY <2>1, <2>2, <2>3
  <2> QED BY <2>1, <2>2, <2>3, <2>4
<1>7. /\ Through' \in Nat /\ Through <= Through' /\ ran \subseteq ran'
      /\ \A i \in 1 .. Through : reqs'[i] = reqs[i]
      /\ \A i \in 1 .. Through : i \in ran' => i \in ran
  BY <1>2, <1>5, <1>6
<1>8. CASE c = 0
  <2>1. SendPacket(m, 0, st, ss)
    BY <1>4, <1>8
  <2>2. ctxs' = ctxs
    BY <1>2, <1>3, <2>1, SendsAlone
  <2>3. PICK h \in Answers, f \in FrameType :
          /\ h.mid = m /\ h.status = st /\ h.sess = ss /\ ~h.rel /\ ~h.more
          /\ f.rsp = <<h>> /\ f.sess = ss /\ sent' = Append(sent, f)
    BY <1>2, <1>3, <2>1, SendsAlone
  <2>4. Own(h, rq)
    BY <1>1, <1>2, <1>5, <2>3 DEF Own, Selected
  <2>5. m \in Nat /\ h.mid \in 1 .. m /\ f.sess = h.sess
    BY <1>2, <2>3
  <2>6. FrameGood(f, rq, rn2, m)
    BY <2>3, <2>4, <2>5, AnswerLeaves
  <2>7. /\ sent' \in Seq(FrameType)
        /\ \A i \in 1 .. Len(sent') : \/ i \in 1 .. Len(sent) /\ sent'[i] = sent[i]
                                      \/ sent'[i] = f
    BY <2>3, SentMore
  <2>8. \A i \in 1 .. Len(sent') : \/ i \in 1 .. Len(sent) /\ sent'[i] = sent[i]
                                   \/ FrameGood(sent'[i], reqs', ran', Through')
    BY <1>2, <1>5, <2>6, <2>7
  <2>9. \A d \in 1 .. Len(ctxs') : d \in 1 .. Len(ctxs) /\ ctxs'[d] = ctxs[d]
    BY <2>2
  <2>10. Kept'
    BY <1>7, <2>8, <2>9, KeptOn
  <2>11. ctxs \in Seq(CtxType)
    BY DEF TypeInv
  <2> QED BY <1>1, <1>3, <1>4, <2>2, <2>7, <2>10, <2>11 DEF AnswersKept
<1>9. CASE c # 0
  <2>1. c \in 1 .. Len(ctxs)
    BY <1>2, <1>9
  <2>2. /\ ctxs' \in Seq(CtxType) /\ Len(ctxs') = Len(ctxs)
        /\ \A d \in 1 .. Len(ctxs) : d # c => ctxs'[d] = ctxs[d]
    BY <1>2, <1>3, <1>4, <2>1, SendsInChain
  <2>3. PICK x : x = ctxs[c]
    OBVIOUS
  <2>4. PICK h \in Answers, y \in CtxType :
              /\ h.mid = m /\ h.status = st /\ h.sess = ss
              /\ h.rel = (x.rsp # <<>>) /\ h.more = (m # x.last)
              /\ y.rsp = Append(x.rsp, h) /\ y.status = st /\ y.last = x.last
              /\ ctxs'[c] = y
              /\ \/ sent' = sent
                 \/ /\ m = x.last
                    /\ \E f \in FrameType : f.rsp = y.rsp /\ f.sess = ss
                       /\ sent' = Append(sent, f)
    BY <1>2, <1>3, <1>4, <2>1, <2>3, SendsInChain
  <2>5. x \in CtxType /\ CtxGood(x, c, rq, rn, t)
    BY <1>5, <2>1, <2>3 DEF TypeInv, Kept
  <2>6. Own(h, rq) /\ rq[t + 1].ctx = c
    BY <1>1, <1>2, <1>5, <1>6, <2>4 DEF Own, Selected
  <2>7. \/ t + 1 \notin rn2 /\ h.status \in {x.status, "noSession", "noTree"}
        \/ x.status = "ok"
    <3>1. CASE ran' = ran /\ (R.ctx # 0 => st \in {ctxs[R.ctx].status, "noSession", "noTree"})
      <4>1. t + 1 \notin rn2
        BY <1>5, <1>6, <3>1
      <4> QED BY <1>1, <1>9, <2>3, <2>4, <3>1, <4>1
    <3>2. CASE ran' = ran \cup {R.mid} /\ ~ChainFailed
      BY <1>1, <1>9, <2>3, <3>2 DEF ChainFailed
    <3> QED BY <3>1, <3>2
  <2>8. h.mid = t + 1 /\ h.more = (t + 1 # x.last) /\ y.status = h.status
    BY <1>6, <2>4
  <2>9. CtxGood(y, c, rq, rn2, t + 1)
    BY <1>6, <2>4, <2>5, <2>6, <2>7, <2>8, JoinFirst
  <2>10. \A d \in 1 .. Len(ctxs') : \/ d \in 1 .. Len(ctxs) /\ ctxs'[d] = ctxs[d]
                                    \/ CtxGood(ctxs'[d], d, reqs', ran', Through')
    BY <1>2, <1>5, <1>6, <2>2, <2>4, <2>9
  <2>11. /\ sent' \in Seq(FrameType)
         /\ \A i \in 1 .. Len(sent') : \/ i \in 1 .. Len(sent) /\ sent'[i] = sent[i]
                                       \/ FrameGood(sent'[i], reqs', ran', Through')
    <3>1. CASE sent' = sent
      BY <3>1 DEF TypeInv
    <3>2. CASE /\ m = x.last
               /\ \E f \in FrameType : f.rsp = y.rsp /\ f.sess = ss /\ sent' = Append(sent, f)
      <4>1. PICK f \in FrameType : f.rsp = y.rsp /\ f.sess = ss /\ sent' = Append(sent, f)
        BY <3>2
      <4>2. x.rsp \in Seq(Answers)
        BY <2>5, AnswerFields
      <4>3. y.rsp # <<>> /\ y.rsp[Len(y.rsp)] = h
        BY <2>4, <4>2, AppendProperties
      <4>4. y.rsp[Len(y.rsp)].mid = y.last /\ f.sess = y.rsp[Len(y.rsp)].sess
        BY <2>4, <3>2, <4>1, <4>3
      <4>5. t + 1 \in Nat
        BY <1>6
      <4>6. FrameGood(f, rq, rn2, t + 1)
        BY <1>9, <2>9, <4>1, <4>3, <4>4, <4>5, ContextLeaves
      <4>7. /\ sent' \in Seq(FrameType)
            /\ \A i \in 1 .. Len(sent') : \/ i \in 1 .. Len(sent) /\ sent'[i] = sent[i]
                                          \/ sent'[i] = f
        BY <4>1, SentMore
      <4> QED BY <1>2, <1>5, <1>6, <4>6, <4>7
    <3> QED BY <2>4, <3>1, <3>2
  <2>12. Kept'
    BY <1>7, <2>10, <2>11, KeptOn
  <2>13. \A d \in 1 .. Len(ctxs) : ctxs'[d].last = ctxs[d].last
    BY <2>2, <2>3, <2>4
  <2> QED BY <1>1, <1>3, <1>4, <2>2, <2>11, <2>12, <2>13 DEF AnswersKept
<1> QED BY <1>8, <1>9

(* The write's second answer.                                                *)
LEMMA WriteAnswer ==
  ASSUME TypeInv, Numbers, Owed, Kept, WriteDone
  PROVE  AnswersKept
<1>1. PICK m, ss : m = writing /\ ss = active
  OBVIOUS
<1>2. /\ m \in 1 .. Through /\ m \in Mids /\ Through' = Through /\ reqs' = reqs /\ ran' = ran
      /\ Through \in Nat /\ ss \in Sessions \cup {None} /\ ss = reqs[m].sess
  BY <1>1, Known DEF WriteDone, TypeInv, Owed, Through
<1>3. PICK st \in {"ok", "failed"} : SendPacket(m, 0, st, ss)
  BY <1>1 DEF WriteDone
<1>4. st \in Statuses
  BY DEF Statuses
<1>5. ctxs' = ctxs
  BY <1>2, <1>3, <1>4, SendsAlone
<1>6. PICK h \in Answers, f \in FrameType :
        /\ h.mid = m /\ h.status = st /\ h.sess = ss /\ ~h.rel /\ ~h.more
        /\ f.rsp = <<h>> /\ f.sess = ss /\ sent' = Append(sent, f)
  BY <1>2, <1>3, <1>4, SendsAlone
<1>7. PICK rq, rn, u : rq = reqs' /\ rn = ran' /\ u = Through'
  OBVIOUS
<1>8. Own(h, rq)
  BY <1>2, <1>6, <1>7 DEF Own
<1>9. u \in Nat /\ h.mid \in 1 .. u /\ f.sess = h.sess
  BY <1>2, <1>6, <1>7
<1>10. FrameGood(f, rq, rn, u)
  BY <1>6, <1>8, <1>9, AnswerLeaves
<1>11. /\ sent' \in Seq(FrameType)
       /\ \A i \in 1 .. Len(sent') : \/ i \in 1 .. Len(sent) /\ sent'[i] = sent[i]
                                     \/ sent'[i] = f
  BY <1>6, SentMore
<1>12. \A i \in 1 .. Len(sent') : \/ i \in 1 .. Len(sent) /\ sent'[i] = sent[i]
                                  \/ FrameGood(sent'[i], reqs', ran', Through')
  BY <1>7, <1>10, <1>11
<1>13. /\ Through' \in Nat /\ Through <= Through' /\ ran \subseteq ran'
       /\ \A i \in 1 .. Through : reqs'[i] = reqs[i]
       /\ \A i \in 1 .. Through : i \in ran' => i \in ran
  BY <1>2
<1>14. \A c \in 1 .. Len(ctxs') : c \in 1 .. Len(ctxs) /\ ctxs'[c] = ctxs[c]
  BY <1>5
<1>15. Kept'
  BY <1>12, <1>13, <1>14, KeptOn
<1>16. ctxs \in Seq(CtxType)
  BY DEF TypeInv
<1> QED BY <1>5, <1>11, <1>15, <1>16 DEF AnswersKept

(* The second answer of a CHANGE_NOTIFY.                                     *)
LEMMA NotifyAnswer ==
  ASSUME TypeInv, Numbers, Owed, Kept, NEW w \in waiting, NotifyDone(w)
  PROVE  AnswersKept
<1>1. PICK m, ss, c : m = w.mid /\ ss = active /\ c = reqs[w.mid].ctx
  OBVIOUS
<1>2. /\ Through' = Through /\ reqs' = reqs /\ ran' = ran
      /\ Through \in Nat /\ ss \in Sessions \cup {None}
  BY <1>1, Known DEF NotifyDone, TypeInv, Through
<1>3. /\ m \in 1 .. Through /\ m \in Mids /\ m \in ran /\ reqs[m].cmd = "notify"
  <2>1. w \in [mid : 1 .. Through, fid : Mids]
    BY DEF TypeInv
  <2> QED BY <1>1, <2>1, Known DEF Owed
<1>4. c \in 0 .. Len(ctxs) /\ c = reqs[m].ctx
  BY <1>1, <1>3, Known DEF Numbers
<1>5. PICK rq, rn, u : rq = reqs /\ rn = ran /\ u = Through
  OBVIOUS
<1>6. /\ Through' \in Nat /\ Through <= Through' /\ ran \subseteq ran'
      /\ \A i \in 1 .. Through : reqs'[i] = reqs[i]
      /\ \A i \in 1 .. Through : i \in ran' => i \in ran
  BY <1>2
<1>7. ctxs \in Seq(CtxType) /\ sent \in Seq(FrameType)
  BY DEF TypeInv
<1>8. CASE w.fid \notin opens
  <2>1. ctxs' = ctxs /\ sent' = sent
    BY <1>8 DEF NotifyDone
  <2>2. Kept'
    BY <1>6, <2>1, KeptOn
  <2> QED BY <1>7, <2>1, <2>2 DEF AnswersKept
<1>9. CASE w.fid \in opens
  <2>1. PICK st \in {"ok", "cancelled"} : SendPacket(m, c, st, ss)
    BY <1>1, <1>9 DEF NotifyDone
  <2>2. st \in Statuses
    BY DEF Statuses
  <2>3. CASE c = 0
    <3>1. SendPacket(m, 0, st, ss)
      BY <2>1, <2>3
    <3>2. ctxs' = ctxs
      BY <1>2, <1>3, <2>2, <3>1, SendsAlone
    <3>3. PICK h \in Answers, f \in FrameType :
            /\ h.mid = m /\ h.status = st /\ h.sess = ss /\ ~h.rel /\ ~h.more
            /\ f.rsp = <<h>> /\ f.sess = ss /\ sent' = Append(sent, f)
      BY <1>2, <1>3, <2>2, <3>1, SendsAlone
    <3>4. Own(h, rq)
      BY <1>3, <1>5, <2>1, <3>3 DEF Own
    <3>5. u \in Nat /\ h.mid \in 1 .. u /\ f.sess = h.sess
      BY <1>2, <1>3, <1>5, <3>3
    <3>6. FrameGood(f, rq, rn, u)
      BY <3>3, <3>4, <3>5, AnswerLeaves
    <3>7. /\ sent' \in Seq(FrameType)
          /\ \A i \in 1 .. Len(sent') : \/ i \in 1 .. Len(sent) /\ sent'[i] = sent[i]
                                        \/ sent'[i] = f
      BY <3>3, SentMore
    <3>8. \A i \in 1 .. Len(sent') : \/ i \in 1 .. Len(sent) /\ sent'[i] = sent[i]
                                     \/ FrameGood(sent'[i], reqs', ran', Through')
      BY <1>2, <1>5, <3>6, <3>7
    <3>9. \A d \in 1 .. Len(ctxs') : d \in 1 .. Len(ctxs) /\ ctxs'[d] = ctxs[d]
      BY <3>2
    <3>10. Kept'
      BY <1>6, <3>8, <3>9, KeptOn
    <3> QED BY <1>7, <3>2, <3>7, <3>10 DEF AnswersKept
  <2>4. CASE c # 0
    <3>1. c \in 1 .. Len(ctxs)
      BY <1>4, <2>4
    <3>2. /\ ctxs' \in Seq(CtxType) /\ Len(ctxs') = Len(ctxs)
          /\ \A d \in 1 .. Len(ctxs) : d # c => ctxs'[d] = ctxs[d]
      BY <1>2, <1>3, <2>1, <2>2, <3>1, SendsInChain
    <3>3. PICK x : x = ctxs[c]
      OBVIOUS
    <3>4. PICK h \in Answers, y \in CtxType :
                /\ h.mid = m /\ h.status = st /\ h.sess = ss
                /\ h.rel = (x.rsp # <<>>) /\ h.more = (m # x.last)
                /\ y.rsp = Append(x.rsp, h) /\ y.status = st /\ y.last = x.last
                /\ ctxs'[c] = y
                /\ \/ sent' = sent
                   \/ /\ m = x.last
                      /\ \E f \in FrameType : f.rsp = y.rsp /\ f.sess = ss
                         /\ sent' = Append(sent, f)
      BY <1>2, <1>3, <2>1, <2>2, <3>1, <3>3, SendsInChain
    <3>5. x \in CtxType /\ CtxGood(x, c, rq, rn, u)
      BY <1>5, <3>1, <3>3 DEF TypeInv, Kept
    <3>6. Own(h, rq) /\ rq[h.mid].ctx = c /\ NotifiesIn(rq, rn, c)
      BY <1>3, <1>4, <1>5, <2>1, <3>4 DEF Own, NotifiesIn
    <3>7. h.mid \in 1 .. u /\ y.status = h.status /\ u \in Nat
      BY <1>2, <1>3, <1>5, <3>4
    <3>8. CtxGood(y, c, rq, rn, u)
      BY <3>4, <3>5, <3>6, <3>7, JoinSecond
    <3>9. \A d \in 1 .. Len(ctxs') : \/ d \in 1 .. Len(ctxs) /\ ctxs'[d] = ctxs[d]
                                     \/ CtxGood(ctxs'[d], d, reqs', ran', Through')
      BY <1>2, <1>5, <3>2, <3>4, <3>8
    <3>10. /\ sent' \in Seq(FrameType)
           /\ \A i \in 1 .. Len(sent') : \/ i \in 1 .. Len(sent) /\ sent'[i] = sent[i]
                                         \/ FrameGood(sent'[i], reqs', ran', Through')
      <4>1. CASE sent' = sent
        BY <1>7, <4>1
      <4>2. CASE /\ m = x.last
                 /\ \E f \in FrameType : f.rsp = y.rsp /\ f.sess = ss /\ sent' = Append(sent, f)
        <5>1. PICK f \in FrameType : f.rsp = y.rsp /\ f.sess = ss /\ sent' = Append(sent, f)
          BY <4>2
        <5>2. x.rsp \in Seq(Answers)
          BY <3>5, AnswerFields
        <5>3. y.rsp # <<>> /\ y.rsp[Len(y.rsp)] = h
          BY <3>4, <5>2, AppendProperties
        <5>4. y.rsp[Len(y.rsp)].mid = y.last /\ f.sess = y.rsp[Len(y.rsp)].sess
          BY <3>4, <4>2, <5>1, <5>3
        <5>5. FrameGood(f, rq, rn, u)
          BY <2>4, <3>7, <3>8, <5>1, <5>3, <5>4, ContextLeaves
        <5>6. /\ sent' \in Seq(FrameType)
              /\ \A i \in 1 .. Len(sent') : \/ i \in 1 .. Len(sent) /\ sent'[i] = sent[i]
                                            \/ sent'[i] = f
          BY <5>1, SentMore
        <5> QED BY <1>2, <1>5, <5>5, <5>6
      <4> QED BY <3>4, <4>1, <4>2
    <3>11. Kept'
      BY <1>6, <3>9, <3>10, KeptOn
    <3>12. \A d \in 1 .. Len(ctxs) : ctxs'[d].last = ctxs[d].last
      BY <3>2, <3>3, <3>4
    <3> QED BY <3>2, <3>10, <3>11, <3>12 DEF AnswersKept
  <2> QED BY <2>3, <2>4
<1> QED BY <1>8, <1>9

-----------------------------------------------------------------------------
(* runReciever reads a frame.                                                *)
LEMMA ReadKeeps ==
  ASSUME IInv, NEW f \in Frames, ReadFrame(f)
  PROVE  IInv'
<1>1. PICK n, q, g : n = Len(reqs) /\ q = reqs /\ g = Numbered(f)
  OBVIOUS
<1>2. /\ n \in Nat /\ q \in Seq(ReqType) /\ enq = n /\ offered = FALSE /\ n <= MaxMsgs
      /\ Through = n /\ f \in Seq(RequestType) /\ f # <<>> /\ ~f[1].rel
      /\ n + Len(f) <= MaxMsgs
  BY <1>1, FramesAssumption, Known DEF IInv, TypeInv, ReadFrame, Through
<1>3. /\ reqs' = q \o g /\ cur' = 0 /\ enq' = enq /\ offered' = offered /\ ctxs' = ctxs
      /\ fids' = fids /\ active' = active /\ refs' = refs /\ opens' = opens
      /\ writing' = writing /\ waiting' = waiting /\ sent' = sent /\ ran' = ran
  BY <1>1 DEF ReadFrame
<1>4. Len(f) \in Nat /\ Len(f) >= 1 /\ DOMAIN f = 1 .. Len(f)
  BY <1>2
<1>5. g = [i \in 1 .. Len(f) |->
             [cmd |-> f[i].cmd, rel |-> f[i].rel, sess |-> f[i].sess, tree |-> f[i].tree,
              fid |-> f[i].fid, mid |-> n + i, more |-> i < Len(f), last |-> n + Len(f),
              ctx |-> 0]]
  BY <1>1, <1>4 DEF Numbered
<1>6. ASSUME NEW i \in 1 .. Len(f)
      PROVE  /\ g[i] \in ReqType /\ g[i].mid = n + i /\ g[i].ctx = 0
             /\ g[i].rel = f[i].rel /\ g[i].more = (i < Len(f))
  <2>1. f[i] \in RequestType
    BY <1>2
  <2>2. g[i] = [cmd |-> f[i].cmd, rel |-> f[i].rel, sess |-> f[i].sess, tree |-> f[i].tree,
                fid |-> f[i].fid, mid |-> n + i, more |-> i < Len(f), last |-> n + Len(f),
                ctx |-> 0]
    BY <1>5
  <2>3. n + i \in Nat /\ n + Len(f) \in Nat
    BY <1>2, <1>4
  <2> QED BY <2>1, <2>2, <2>3 DEF RequestType, ReqType
<1>7. g \in Seq(ReqType) /\ Len(g) = Len(f)
  BY <1>4, <1>5, <1>6
<1>8. /\ reqs' \in Seq(ReqType) /\ Len(reqs') = n + Len(f)
      /\ \A m \in 1 .. n : reqs'[m] = q[m]
      /\ \A i \in 1 .. Len(f) : reqs'[n + i] = g[i]
  <2>1. /\ q \o g \in Seq(ReqType) /\ Len(q \o g) = Len(q) + Len(g)
        /\ \A i \in 1 .. Len(q) + Len(g) :
             (q \o g)[i] = IF i <= Len(q) THEN q[i] ELSE g[i - Len(q)]
    BY <1>2, <1>7, ConcatProperties
  <2>6. Len(q) = n /\ Len(g) = Len(f)
    BY <1>1, <1>7
  <2>2. \A i \in 1 .. n : i \in 1 .. n + Len(f) /\ i <= n
    BY <1>2, <1>4
  <2>3. \A i \in 1 .. Len(f) : n + i \in 1 .. n + Len(f) /\ ~(n + i <= n) /\ n + i - n = i
    BY <1>2, <1>4
  <2>4. \A i \in 1 .. n : (q \o g)[i] = q[i]
    BY <2>1, <2>2, <2>6
  <2>5. \A i \in 1 .. Len(f) : (q \o g)[n + i] = g[i]
    BY <2>1, <2>3, <2>6
  <2> QED BY <1>3, <2>1, <2>4, <2>5, <2>6
<1>9. Through' = Through
  BY <1>3 DEF Through
<1>10. TypeInv'
  <2>1. TypeInv
    BY DEF IInv
  <2>2. Len(reqs') <= MaxMsgs /\ enq' \in 0 .. Len(reqs')
    BY <1>2, <1>3, <1>4, <1>8
  <2>3. cur' \in 0 .. Len(ctxs')
    BY <1>3, <2>1, Known
  <2> QED BY <1>3, <1>8, <1>9, <2>1, <2>2, <2>3 DEF TypeInv
<1>11. OneTree'
  BY <1>3 DEF IInv, OneTree, Connected
<1>12. Numbers'
  <2>1. Numbers /\ TypeInv
    BY DEF IInv
  <2>2. ASSUME NEW m \in 1 .. Len(reqs')
        PROVE  /\ reqs'[m].mid = m /\ reqs'[m].ctx \in 0 .. Len(ctxs')
               /\ reqs'[m].rel => m > 1 /\ reqs'[m - 1].more
    <3>1. CASE m \in 1 .. n
      <4>1. reqs'[m] = q[m]
        BY <1>8, <3>1
      <4>2. /\ q[m].mid = m /\ q[m].ctx \in 0 .. Len(ctxs)
            /\ q[m].rel => m > 1 /\ q[m - 1].more
        BY <1>1, <2>1, <3>1 DEF Numbers
      <4>3. m > 1 => m - 1 \in 1 .. n
        BY <1>2, <3>1
      <4> QED BY <1>3, <1>8, <4>1, <4>2, <4>3
    <3>2. CASE m \notin 1 .. n
      <4>1. PICK i \in 1 .. Len(f) : m = n + i
        <5>1. m - n \in 1 .. Len(f) /\ m = n + (m - n)
          BY <1>2, <1>4, <1>8, <3>2
        <5> QED BY <5>1
      <4>2. reqs'[m] = g[i] /\ g[i].mid = n + i /\ g[i].ctx = 0 /\ g[i].rel = f[i].rel
        BY <1>6, <1>8, <4>1
      <4>3. 0 \in 0 .. Len(ctxs')
        BY <1>3, <2>1, Known
      <4>4. ASSUME f[i].rel PROVE m > 1 /\ reqs'[m - 1].more
        <5>1. i # 1
          BY <1>2, <4>4
        <5>2. i - 1 \in 1 .. Len(f) /\ m - 1 = n + (i - 1) /\ m > 1 /\ i - 1 < Len(f)
          BY <1>2, <1>4, <4>1, <5>1
        <5>3. PICK k \in 1 .. Len(f) : k = i - 1
          BY <5>2
        <5>4. reqs'[m - 1] = g[k] /\ g[k].more = (k < Len(f))
          BY <1>6, <1>8, <5>2, <5>3
        <5> QED BY <5>2, <5>3, <5>4
      <4> QED BY <4>1, <4>2, <4>3, <4>4
    <3> QED BY <3>1, <3>2
  <2>3. ~reqs'[Len(reqs')].more
    <3>1. Len(f) \in 1 .. Len(f) /\ ~(Len(f) < Len(f))
      BY <1>4
    <3>2. PICK i \in 1 .. Len(f) : i = Len(f)
      BY <3>1
    <3>3. reqs'[n + i] = g[i] /\ g[i].more = (i < Len(f))
      BY <1>6, <1>8
    <3> QED BY <1>8, <3>1, <3>2, <3>3
  <2>4. ASSUME enq' # 0 PROVE ~reqs'[enq'].more
    <3>1. n \in 1 .. n /\ enq' = n /\ q # <<>>
      BY <1>1, <1>2, <1>3, <2>4
    <3>2. ~q[n].more
      BY <1>1, <2>1, <3>1 DEF Numbers
    <3> QED BY <1>8, <3>1, <3>2
  <2> QED BY <2>2, <2>3, <2>4 DEF Numbers
<1>13. Owed'
  <2>1. writing \in 0 .. n /\ waiting \subseteq [mid : 1 .. n, fid : Mids]
    BY <1>2 DEF IInv, TypeInv
  <2>2. writing # 0 => reqs'[writing] = reqs[writing]
    BY <1>1, <1>2, <1>8, <2>1
  <2>3. ASSUME NEW w \in waiting PROVE reqs'[w.mid] = reqs[w.mid]
    BY <1>1, <1>8, <2>1
  <2>4. Owed
    BY DEF IInv
  <2>5. writing' # 0 => active' = reqs'[writing'].sess
    BY <1>3, <2>2, <2>4 DEF Owed
  <2>6. \A w \in waiting' : w.mid \in ran' /\ reqs'[w.mid].cmd = "notify"
    BY <1>3, <2>3, <2>4 DEF Owed
  <2> QED BY <2>5, <2>6 DEF Owed
<1>14. Kept'
  <2>1. TypeInv /\ Kept
    BY DEF IInv
  <2>2. /\ Through' \in Nat /\ Through <= Through' /\ ran \subseteq ran'
        /\ \A m \in 1 .. Through : reqs'[m] = reqs[m]
        /\ \A m \in 1 .. Through : m \in ran' => m \in ran
    BY <1>1, <1>2, <1>3, <1>8, <1>9
  <2> QED BY <1>3, <2>1, <2>2, KeptOn
<1> QED BY <1>10, <1>11, <1>12, <1>13, <1>14 DEF IInv

(* The last request of a chain is known only once it is enqueued: none of    *)
(* the answers collected so far is for it.                                   *)
LEMMA LastKnown ==
  ASSUME NEW t \in Nat, NEW rn, NEW rq, NEW x \in CtxType, NEW c, CtxGood(x, c, rq, rn, t),
         x.last = 0, NEW y \in CtxType, y.rsp = x.rsp, y.status = x.status, y.last = t + 1
  PROVE  CtxGood(y, c, rq, rn, t)
<1>1. \A j \in 1 .. Len(x.rsp) : x.rsp[j].mid \in 1 .. t
  BY DEF CtxGood
<1>2. \A j \in 1 .. Len(x.rsp) : (x.rsp[j].mid # 0) = (x.rsp[j].mid # t + 1)
  BY <1>1
<1>3. ASSUME Ordered(x.rsp, x.last) PROVE Ordered(y.rsp, y.last)
  <2>1. \A j \in 1 .. Len(x.rsp) :
          /\ x.rsp[j].rel = (j > 1) /\ x.rsp[j].more = (x.rsp[j].mid # 0)
          /\ \A k \in 1 .. Len(x.rsp) : j < k => x.rsp[j].mid < x.rsp[k].mid
    BY <1>3 DEF Ordered
  <2>2. \A j \in 1 .. Len(x.rsp) :
          /\ x.rsp[j].rel = (j > 1) /\ x.rsp[j].more = (x.rsp[j].mid # t + 1)
          /\ \A k \in 1 .. Len(x.rsp) : j < k => x.rsp[j].mid < x.rsp[k].mid
    BY <1>2, <2>1
  <2> QED BY <2>2 DEF Ordered
<1> QED BY <1>3 DEF CtxGood

(* runReciever hands a request to Run.                                       *)
LEMMA EnqueueKeeps ==
  ASSUME IInv, Enqueue
  PROVE  IInv'
<1>1. PICK n, q, m, r, cc : /\ n = Len(reqs) /\ q = reqs /\ m = enq + 1 /\ r = reqs[m]
                            /\ cc = cur'
  OBVIOUS
<1>2. /\ TypeInv /\ Numbers /\ Owed /\ Kept /\ OneTree
      /\ offered = FALSE /\ offered' = TRUE /\ enq' = m /\ enq < n
      /\ reqs' = [q EXCEPT ![m].ctx = cc]
      /\ active' = active /\ refs' = refs /\ opens' = opens
      /\ writing' = writing /\ waiting' = waiting /\ sent' = sent /\ ran' = ran
  BY <1>1 DEF IInv, Enqueue, TypeInv
<1>3. /\ n \in Nat /\ enq \in Nat /\ m \in 1 .. n /\ q \in Seq(ReqType) /\ r \in ReqType
      /\ Through = enq /\ m = Through + 1 /\ n <= MaxMsgs /\ m \in Mids
  BY <1>1, <1>2, Known DEF TypeInv, Through, Mids
<1>4. Through' = Through
  BY <1>1, <1>2, <1>3 DEF Through
<1>5. /\ ctxs' = IF IsCompoundFirst(r) THEN Append(ctxs, NewCtx)
                 ELSE IF IsCompoundLast(r) THEN [ctxs EXCEPT ![cur].last = m] ELSE ctxs
      /\ fids' = IF IsCompoundFirst(r) THEN Append(fids, 0) ELSE fids
      /\ cur' = IF IsCompoundFirst(r) THEN Len(ctxs) + 1 ELSE cur
  BY <1>1 DEF Enqueue
<1>6. /\ ctxs \in Seq(CtxType) /\ Len(ctxs) \in Nat /\ cur \in 0 .. Len(ctxs)
      /\ fids \in Seq(Mids \cup {0}) /\ Len(fids) = Len(ctxs)
  BY <1>2 DEF TypeInv
<1>7. r.rel => cur # 0 /\ ctxs[cur].last = 0
  <2>1. SUFFICES ASSUME r.rel PROVE cur # 0 /\ ctxs[cur].last = 0
    OBVIOUS
  <2>2. m > 1 /\ reqs[m - 1].more
    BY <1>1, <1>2, <1>3, <2>1 DEF Numbers
  <2>3. m - 1 = enq /\ enq # 0
    BY <1>1, <1>3, <2>2
  <2> QED BY <1>2, <2>2, <2>3 DEF Numbers
<1>8. /\ ctxs' \in Seq(CtxType) /\ Len(ctxs) <= Len(ctxs') /\ Len(ctxs') \in Nat
      /\ cur' \in 0 .. Len(ctxs') /\ fids' \in Seq(Mids \cup {0}) /\ Len(fids') = Len(ctxs')
      /\ r.more => cur' # 0 /\ ctxs'[cur'].last = 0
      /\ \A c \in 1 .. Len(ctxs') : \/ c \in 1 .. Len(ctxs) /\ ctxs'[c] = ctxs[c]
                                    \/ CtxGood(ctxs'[c], c, reqs, ran, Through)
  <2>1. CASE IsCompoundFirst(r)
    <3>1. PICK z, k, v : z = ctxs /\ k = NewCtx /\ v = fids
      OBVIOUS
    <3>2. k \in CtxType /\ k.last = 0 /\ k.rsp = <<>> /\ k.status = "ok"
      <4>1. <<>> \in Seq(Answers) /\ "ok" \in Statuses
        BY DEF Statuses
      <4> QED BY <3>1, <4>1 DEF NewCtx, CtxType
    <3>3. /\ Append(z, k) \in Seq(CtxType) /\ Len(Append(z, k)) = Len(z) + 1
          /\ \A i \in 1 .. Len(z) : Append(z, k)[i] = z[i]
          /\ Append(z, k)[Len(z) + 1] = k
      BY <1>6, <3>1, <3>2, AppendProperties
    <3>4. Append(v, 0) \in Seq(Mids \cup {0}) /\ Len(Append(v, 0)) = Len(v) + 1
      BY <1>6, <3>1, AppendProperties
    <3>5. ctxs' = Append(z, k) /\ fids' = Append(v, 0) /\ cur' = Len(z) + 1
      BY <1>5, <2>1, <3>1
    <3>6. ASSUME NEW c PROVE CtxGood(k, c, reqs, ran, Through)
      BY <3>2 DEF CtxGood, Ordered, FailedOnce
    <3>7. \A c \in 1 .. Len(z) + 1 : c \in 1 .. Len(z) \/ c = Len(z) + 1
      BY <1>6, <3>1
    <3> QED BY <1>6, <3>1, <3>2, <3>3, <3>4, <3>5, <3>6, <3>7
  <2>2. CASE ~IsCompoundFirst(r) /\ IsCompoundLast(r)
    <3>1. r.rel /\ ~r.more /\ cur # 0 /\ ctxs[cur].last = 0 /\ cur \in 1 .. Len(ctxs)
      BY <1>6, <1>7, <2>2 DEF IsCompoundLast
    <3>2. PICK z, c, x : z = ctxs /\ c = cur /\ x = ctxs[cur]
      OBVIOUS
    <3>3. x \in CtxType /\ c \in 1 .. Len(z) /\ z \in Seq(CtxType)
      BY <1>6, <3>1, <3>2
    <3>4. PICK y : y = [x EXCEPT !.last = m]
      OBVIOUS
    <3>5. y \in CtxType /\ y.rsp = x.rsp /\ y.status = x.status /\ y.last = m
      BY <1>3, <3>3, <3>4 DEF CtxType
    <3>6. ctxs' = [z EXCEPT ![c] = y] /\ fids' = fids /\ cur' = cur
      BY <1>5, <1>6, <2>2, <3>2, <3>3, <3>4
    <3>7. /\ [z EXCEPT ![c] = y] \in Seq(CtxType) /\ Len([z EXCEPT ![c] = y]) = Len(z)
          /\ \A d \in 1 .. Len(z) : [z EXCEPT ![c] = y][d] = IF d = c THEN y ELSE z[d]
      BY <3>3, <3>5, ExceptSeq
    <3>8. PICK rq, rn, t : rq = reqs /\ rn = ran /\ t = Through
      OBVIOUS
    <3>9. CtxGood(x, c, rq, rn, t) /\ t \in Nat /\ x.last = 0 /\ y.last = t + 1
      BY <1>2, <1>3, <3>1, <3>2, <3>5, <3>8 DEF Kept
    <3>10. CtxGood(y, c, rq, rn, t)
      BY <3>3, <3>5, <3>9, LastKnown
    <3>11. \A d \in 1 .. Len(ctxs') : \/ d \in 1 .. Len(ctxs) /\ ctxs'[d] = ctxs[d]
                                      \/ CtxGood(ctxs'[d], d, reqs, ran, Through)
      BY <3>2, <3>6, <3>7, <3>8, <3>10
    <3> QED BY <1>6, <3>1, <3>2, <3>6, <3>7, <3>11
  <2>3. CASE ~IsCompoundFirst(r) /\ ~IsCompoundLast(r)
    <3>1. ctxs' = ctxs /\ fids' = fids /\ cur' = cur
      BY <1>5, <2>3
    <3>2. r.more => r.rel
      BY <2>3 DEF IsCompoundFirst
    <3> QED BY <1>6, <1>7, <3>1, <3>2
  <2> QED BY <2>1, <2>2, <2>3
<1>9. /\ reqs' \in Seq(ReqType) /\ Len(reqs') = n
      /\ \A i \in 1 .. n : i # m => reqs'[i] = q[i]
      /\ reqs'[m].mid = r.mid /\ reqs'[m].rel = r.rel /\ reqs'[m].more = r.more
      /\ reqs'[m].ctx = cur'
  <2>1. PICK y : y = [r EXCEPT !.ctx = cc]
    OBVIOUS
  <2>2. cc \in Nat
    BY <1>1, <1>8
  <2>3. /\ y \in ReqType /\ y.mid = r.mid /\ y.rel = r.rel /\ y.more = r.more /\ y.ctx = cc
    BY <1>3, <2>1, <2>2 DEF ReqType
  <2>4. m \in 1 .. Len(q)
    BY <1>1, <1>3
  <2>5. reqs' = [q EXCEPT ![m] = y]
    BY <1>1, <1>2, <1>3, <2>1, <2>4
  <2>6. /\ [q EXCEPT ![m] = y] \in Seq(ReqType) /\ Len([q EXCEPT ![m] = y]) = Len(q)
        /\ \A d \in 1 .. Len(q) : [q EXCEPT ![m] = y][d] = IF d = m THEN y ELSE q[d]
    BY <1>3, <2>3, <2>4, ExceptSeq
  <2> QED BY <1>1, <2>3, <2>4, <2>5, <2>6
<1>10. TypeInv'
  <2>1. enq' \in 0 .. Len(reqs') /\ Len(reqs') <= MaxMsgs /\ enq' # 0
    BY <1>2, <1>3, <1>9
  <2> QED BY <1>2, <1>4, <1>8, <1>9, <2>1 DEF TypeInv
<1>11. OneTree'
  BY <1>2 DEF OneTree, Connected
<1>12. \A i \in 1 .. Through : reqs'[i] = reqs[i]
  <2>1. \A i \in 1 .. Through : i \in 1 .. n /\ i # m
    BY <1>3
  <2> QED BY <1>1, <1>9, <2>1
<1>13. Numbers'
  <2>1. ASSUME NEW i \in 1 .. Len(reqs')
        PROVE  /\ reqs'[i].mid = i /\ reqs'[i].ctx \in 0 .. Len(ctxs')
               /\ reqs'[i].rel => i > 1 /\ reqs'[i - 1].more
    <3>1. i \in 1 .. Len(reqs)
      BY <1>1, <1>9
    <3>2. /\ reqs[i].mid = i /\ reqs[i].ctx \in 0 .. Len(ctxs)
          /\ reqs[i].rel => i > 1 /\ reqs[i - 1].more
      BY <1>2, <3>1 DEF Numbers
    <3>3. reqs'[i].mid = reqs[i].mid /\ reqs'[i].rel = reqs[i].rel
      BY <1>1, <1>9, <3>1
    <3>4. reqs'[i].ctx \in 0 .. Len(ctxs')
      <4>1. CASE i = m
        BY <1>8, <1>9, <4>1
      <4>2. CASE i # m
        BY <1>1, <1>6, <1>8, <1>9, <3>1, <3>2, <4>2
      <4> QED BY <4>1, <4>2
    <3>5. ASSUME i > 1 PROVE reqs'[i - 1].more = reqs[i - 1].more
      <4>1. i - 1 \in 1 .. n
        BY <1>1, <1>3, <3>1, <3>5
      <4>2. PICK k \in 1 .. n : k = i - 1
        BY <4>1
      <4>3. reqs'[k].more = reqs[k].more
        BY <1>1, <1>9
      <4> QED BY <4>2, <4>3
    <3> QED BY <3>2, <3>3, <3>4, <3>5
  <2>2. ASSUME reqs' # <<>> PROVE ~reqs'[Len(reqs')].more
    <3>1. n \in 1 .. n /\ reqs # <<>>
      BY <1>1, <1>3
    <3>2. ~reqs[n].more
      BY <1>1, <1>2, <3>1 DEF Numbers
    <3>3. reqs'[n].more = reqs[n].more
      BY <1>1, <1>9, <3>1
    <3> QED BY <1>9, <3>2, <3>3
  <2>3. reqs'[enq'].more => cur' # 0 /\ ctxs'[cur'].last = 0
    BY <1>2, <1>8, <1>9
  <2> QED BY <2>1, <2>2, <2>3 DEF Numbers
<1>14. Owed'
  <2>1. writing \in 0 .. Through /\ waiting \subseteq [mid : 1 .. Through, fid : Mids]
        /\ Through \in Nat
    BY <1>2, <1>3 DEF TypeInv
  <2>2. writing # 0 => reqs'[writing] = reqs[writing]
    BY <1>12, <2>1
  <2>3. ASSUME NEW w \in waiting PROVE reqs'[w.mid] = reqs[w.mid]
    BY <1>12, <2>1
  <2>4. writing' # 0 => active' = reqs'[writing'].sess
    BY <1>2, <2>2 DEF Owed
  <2>5. \A w \in waiting' : w.mid \in ran' /\ reqs'[w.mid].cmd = "notify"
    BY <1>2, <2>3 DEF Owed
  <2> QED BY <2>4, <2>5 DEF Owed
<1>15. Kept'
  <2>1. PICK rq, rq2, rn, t : rq = reqs /\ rq2 = reqs' /\ rn = ran /\ t = Through
    OBVIOUS
  <2>2. t \in Nat /\ rn \in SUBSET (1 .. t) /\ \A i \in 1 .. t : rq2[i] = rq[i]
    BY <1>2, <1>3, <1>12, <2>1 DEF TypeInv
  <2>3. ASSUME NEW c \in 1 .. Len(ctxs')
        PROVE  \/ c \in 1 .. Len(ctxs) /\ ctxs'[c] = ctxs[c]
               \/ CtxGood(ctxs'[c], c, reqs', ran', Through')
    <3>1. CASE CtxGood(ctxs'[c], c, reqs, ran, Through)
      <4>1. PICK x : x = ctxs'[c]
        OBVIOUS
      <4>2. x \in CtxType /\ CtxGood(x, c, rq, rn, t)
        BY <1>8, <2>1, <3>1, <4>1
      <4>3. CtxGood(x, c, rq2, rn, t)
        BY <2>2, <4>2, LaterCtx
      <4> QED BY <1>2, <1>4, <2>1, <4>1, <4>3
    <3> QED BY <1>8, <3>1
  <2>4. Through' \in Nat /\ Through <= Through'
    BY <1>3, <1>4
  <2> QED BY <1>2, <1>12, <2>3, <2>4, KeptOn
<1> QED BY <1>10, <1>11, <1>13, <1>14, <1>15 DEF IInv

-----------------------------------------------------------------------------
(* What a step of Run may leave behind.                                      *)
NowOwed ==
  /\ writing' = 0 \/ (writing' = R.mid /\ R.cmd # "echo")
  /\ \/ waiting' = waiting
     \/ /\ R.cmd = "notify" /\ ran' = ran \cup {R.mid}
        /\ \E x \in Mids : waiting' = waiting \cup {[mid |-> R.mid, fid |-> x]}

(* What a step of Run that takes a request must show.                        *)
LEMMA TakenStep ==
  ASSUME IInv, Taken,
         AnswersKept, active' = Selected, active' \in Sessions \cup {None},
         ran' = ran \/ ran' = ran \cup {R.mid},
         fids' \in Seq(Mids \cup {0}), Len(fids') = Len(fids),
         refs' \in Seq(Nat), OneTree', opens' \subseteq Mids, NowOwed
  PROVE  IInv'
<1>1. TypeInv /\ Numbers /\ Owed
  BY DEF IInv
<1>2. PICK m, t : m = enq /\ t = Through
  OBVIOUS
<1>3. /\ m \in 1 .. Len(reqs) /\ m \in Mids /\ R.mid = m /\ t + 1 = m /\ Through' = m
      /\ reqs' = reqs /\ enq' = enq /\ cur' = cur /\ offered' = FALSE /\ t \in Nat
      /\ R = reqs[m] /\ R.ctx \in 0 .. Len(ctxs)
  BY <1>1, <1>2, TakenFacts DEF R
<1>4. m \in 1 .. m /\ \A i \in 1 .. t : i \in 1 .. m
  BY <1>3
<1>5. ran \subseteq 1 .. t /\ waiting \subseteq [mid : 1 .. t, fid : Mids]
  BY <1>1, <1>2 DEF TypeInv
<1>6. ran' \subseteq 1 .. m
  BY <1>3, <1>4, <1>5
<1>7. waiting' \subseteq [mid : 1 .. m, fid : Mids]
  <2>1. \A w \in [mid : 1 .. t, fid : Mids] : w \in [mid : 1 .. m, fid : Mids]
    BY <1>4
  <2>2. \A x \in Mids : [mid |-> R.mid, fid |-> x] \in [mid : 1 .. m, fid : Mids]
    BY <1>3, <1>4
  <2> QED BY <1>5, <2>1, <2>2 DEF NowOwed
<1>8. TypeInv'
  <2>1. writing' \in 0 .. m
    BY <1>3 DEF NowOwed
  <2>2. /\ reqs' \in Seq(ReqType) /\ Len(reqs') <= MaxMsgs /\ enq' \in 0 .. Len(reqs')
        /\ offered' \in BOOLEAN /\ (offered' => enq' # 0) /\ cur' \in 0 .. Len(ctxs')
        /\ Len(fids') = Len(ctxs')
    BY <1>1, <1>3 DEF TypeInv, AnswersKept
  <2> QED BY <1>3, <1>6, <1>7, <2>1, <2>2 DEF TypeInv, AnswersKept
<1>9. Numbers'
  <2>1. ASSUME enq' # 0, reqs'[enq'].more PROVE cur' # 0 /\ ctxs'[cur'].last = 0
    <3>1. cur # 0 /\ ctxs[cur].last = 0
      BY <1>1, <1>3, <2>1 DEF Numbers
    <3>2. cur \in 1 .. Len(ctxs)
      BY <1>1, <3>1 DEF TypeInv
    <3> QED BY <1>3, <3>1, <3>2 DEF AnswersKept
  <2>2. \A i \in 1 .. Len(reqs') :
          /\ reqs'[i].mid = i /\ reqs'[i].ctx \in 0 .. Len(ctxs')
          /\ reqs'[i].rel => i > 1 /\ reqs'[i - 1].more
    BY <1>1, <1>3 DEF Numbers, AnswersKept
  <2>3. reqs' # <<>> => ~reqs'[Len(reqs')].more
    BY <1>1, <1>3 DEF Numbers
  <2> QED BY <2>1, <2>2, <2>3 DEF Numbers
<1>10. Owed'
  <2>1. writing' # 0 => active' = reqs'[writing'].sess
    BY <1>3 DEF Selected, NowOwed
  <2>2. ASSUME NEW w \in waiting' PROVE w.mid \in ran' /\ reqs'[w.mid].cmd = "notify"
    <3>1. CASE w \in waiting
      BY <1>1, <1>3, <3>1 DEF Owed
    <3>2. CASE w \notin waiting
      <4>1. R.cmd = "notify" /\ ran' = ran \cup {R.mid} /\ w.mid = R.mid
        BY <3>2 DEF NowOwed
      <4> QED BY <1>3, <4>1
    <3> QED BY <3>1, <3>2
  <2> QED BY <2>1, <2>2 DEF Owed
<1> QED BY <1>8, <1>9, <1>10 DEF IInv, AnswersKept

(* The state a step of Run finds and what most of them leave alone.          *)
LEMMA Before ==
  ASSUME IInv
  PROVE  /\ TypeInv /\ Numbers /\ Owed /\ Kept /\ OneTree
         /\ fids \in Seq(Mids \cup {0}) /\ refs \in Seq(Nat) /\ opens \subseteq Mids
         /\ (refs' = refs => OneTree')
BY DEF IInv, TypeInv, OneTree, Connected

(* The statuses the handlers answer with.                                    *)
LEMMA StatusNames ==
  /\ "ok" \in Statuses /\ "pending" \in Statuses /\ "failed" \in Statuses
  /\ "denied" \in Statuses /\ "badHandle" \in Statuses /\ "noSession" \in Statuses
  /\ "noTree" \in Statuses /\ "unsupported" \in Statuses
BY DEF Statuses

(* Run refuses a request without calling a handler.                          *)
LEMMA RefusalKeeps ==
  ASSUME IInv, NoSuchSession \/ NoSuchTree \/ RefusedInChain
  PROVE  IInv'
<1>1. TypeInv /\ Numbers /\ Kept
  BY Before
<1>2. /\ Taken /\ ran' = ran /\ fids' = fids /\ refs' = refs /\ opens' = opens
      /\ writing' = writing /\ waiting' = waiting
  BY DEF NoSuchSession, NoSuchTree, RefusedInChain, TreeCommand
<1>3. PICK st \in Statuses :
        /\ AnswerInChain(st)
        /\ R.ctx # 0 => st \in {ctxs[R.ctx].status, "noSession", "noTree"}
  <2>1. CASE NoSuchSession
    BY <2>1, StatusNames DEF NoSuchSession
  <2>2. CASE NoSuchTree
    BY <2>2, StatusNames DEF NoSuchTree
  <2>3. CASE RefusedInChain
    <3>1. PICK c, st : c = R.ctx /\ st = ctxs[c].status
      OBVIOUS
    <3>2. c \in 1 .. Len(ctxs) /\ AnswerInChain(st)
      BY <1>1, <1>2, <2>3, <3>1, TakenFacts DEF RefusedInChain, ChainFailed
    <3>3. ctxs \in Seq(CtxType) /\ ctxs[c] \in CtxType
      BY <1>1, <3>2 DEF TypeInv
    <3>4. st \in Statuses
      BY <3>1, <3>3 DEF CtxType
    <3> QED BY <3>1, <3>2, <3>4
  <2> QED BY <2>1, <2>2, <2>3
<1>4. AnswersKept /\ active' = Selected /\ active' \in Sessions \cup {None}
  BY <1>1, <1>2, <1>3, ChainAnswer
<1>5. NowOwed
  <2>1. writing' = 0
    BY <1>1, <1>2, TakenFacts
  <2> QED BY <1>2, <2>1 DEF NowOwed
<1>6. /\ fids' \in Seq(Mids \cup {0}) /\ Len(fids') = Len(fids)
      /\ refs' \in Seq(Nat) /\ OneTree' /\ opens' \subseteq Mids
  BY <1>2, Before
<1> QED BY <1>2, <1>4, <1>5, <1>6, TakenStep

(* The commands answered outside of their chain.                             *)
LEMMA OutsideKeeps ==
  ASSUME IInv, EchoOrLogoff \/ TreeConnect \/ TreeDisconnect
  PROVE  IInv'
<1>1. TypeInv /\ Numbers /\ Kept
  BY Before
<1>2. /\ Taken /\ KnownSession /\ ran' = ran \cup {R.mid} /\ fids' = fids /\ opens' = opens
      /\ writing' = writing /\ waiting' = waiting
  BY DEF EchoOrLogoff, TreeConnect, TreeDisconnect
<1>3. PICK st \in Statuses : AnswerAlone(st)
  BY StatusNames DEF EchoOrLogoff, TreeConnect, TreeDisconnect
<1>4. AnswersKept /\ active' = Selected /\ active' \in Sessions \cup {None}
  BY <1>1, <1>2, <1>3, AloneAnswer
<1>5. NowOwed
  <2>1. writing' = 0
    BY <1>1, <1>2, TakenFacts
  <2> QED BY <1>2, <2>1 DEF NowOwed
<1>6. refs' \in Seq(Nat) /\ OneTree'
  <2>1. PICK q, n : q = refs /\ n = Len(refs)
    OBVIOUS
  <2>2. q \in Seq(Nat) /\ n \in Nat /\ DOMAIN q = 1 .. n /\ \A i \in 1 .. n : q[i] \in Nat
    BY <2>1, Before
  <2>3. \A i \in 1 .. n, j \in 1 .. n : q[i] > 0 /\ q[j] > 0 => i = j
    BY <2>1, <2>2, Before DEF OneTree, Connected
  <2>4. CASE refs' = refs
    BY <2>4, Before
  <2>5. CASE Connected = {} /\ refs' = Append(refs, 1)
    <3>1. \A i \in 1 .. n : q[i] = 0
      BY <2>1, <2>2, <2>5 DEF Connected
    <3>2. /\ Append(q, 1) \in Seq(Nat) /\ Len(Append(q, 1)) = n + 1
          /\ \A i \in 1 .. n : Append(q, 1)[i] = q[i]
      BY <2>1, <2>2, AppendProperties
    <3>3. DOMAIN Append(q, 1) = 1 .. n + 1
      BY <3>2
    <3>4. \A i \in 1 .. n + 1 : i \in 1 .. n \/ i = n + 1
      BY <2>2
    <3>5. \A i \in DOMAIN refs' : refs'[i] > 0 => i = n + 1
      BY <2>1, <2>5, <3>1, <3>2, <3>3, <3>4
    <3>6. OneTree'
      BY <3>5 DEF OneTree, Connected
    <3> QED BY <2>1, <2>5, <3>2, <3>6
  <2>6. CASE refs' = [t \in DOMAIN refs |-> IF t \in Connected THEN refs[t] + 1 ELSE refs[t]]
    <3>1. refs' = [t \in 1 .. n |-> IF q[t] > 0 THEN q[t] + 1 ELSE q[t]]
      BY <2>1, <2>2, <2>6 DEF Connected
    <3>2. \A t \in 1 .. n : (IF q[t] > 0 THEN q[t] + 1 ELSE q[t]) \in Nat
      BY <2>2
    <3>3. refs' \in Seq(Nat)
      BY <2>2, <3>1, <3>2
    <3>4. DOMAIN refs' = 1 .. n /\ \A i \in 1 .. n : refs'[i] > 0 => q[i] > 0
      BY <2>2, <3>1
    <3>5. OneTree'
      BY <2>3, <3>4 DEF OneTree, Connected
    <3> QED BY <3>3, <3>5
  <2>7. CASE refs' = [t \in DOMAIN refs |->
                        IF t = R.tree /\ t \in Connected THEN refs[t] - 1 ELSE refs[t]]
    <3>1. refs' = [t \in 1 .. n |-> IF t = R.tree /\ q[t] > 0 THEN q[t] - 1 ELSE q[t]]
      BY <2>1, <2>2, <2>7 DEF Connected
    <3>2. \A t \in 1 .. n : (IF t = R.tree /\ q[t] > 0 THEN q[t] - 1 ELSE q[t]) \in Nat
      BY <2>2
    <3>3. refs' \in Seq(Nat)
      BY <2>2, <3>1, <3>2
    <3>4. DOMAIN refs' = 1 .. n /\ \A i \in 1 .. n : refs'[i] > 0 => q[i] > 0
      BY <2>2, <3>1
    <3>5. OneTree'
      BY <2>3, <3>4 DEF OneTree, Connected
    <3> QED BY <3>3, <3>5
  <2> QED BY <2>4, <2>5, <2>6, <2>7 DEF EchoOrLogoff, TreeConnect, TreeDisconnect
<1>7. fids' \in Seq(Mids \cup {0}) /\ Len(fids') = Len(fids) /\ opens' \subseteq Mids
  BY <1>2, Before
<1> QED BY <1>2, <1>4, <1>5, <1>6, <1>7, TakenStep

(* The handlers of the tree's commands answer in the chain, except for a     *)
(* write on its own.                                                         *)
LEMMA HandledStep ==
  ASSUME IInv, NEW cmd \in TreeCommands, Handled(cmd), NEW st \in Statuses, AnswerInChain(st),
         fids' \in Seq(Mids \cup {0}), Len(fids') = Len(fids), opens' \subseteq Mids, NowOwed
  PROVE  IInv'
<1>1. TypeInv /\ Numbers /\ Kept
  BY Before
<1>2. Taken /\ ran' = ran \cup {R.mid} /\ ~ChainFailed /\ refs' = refs
  BY DEF Handled, TreeCommand
<1>3. AnswersKept /\ active' = Selected /\ active' \in Sessions \cup {None}
  BY <1>1, <1>2, ChainAnswer
<1>4. refs' \in Seq(Nat) /\ OneTree'
  BY <1>2, Before
<1> QED BY <1>2, <1>3, <1>4, TakenStep

(* A handler that leaves the rest alone.                                     *)
LEMMA QuietStep ==
  ASSUME IInv, Taken, writing' = writing, waiting' = waiting
  PROVE  NowOwed
<1>1. writing' = 0
  BY DEF Taken
<1> QED BY <1>1 DEF NowOwed

(* The handlers of the tree's commands.                                      *)
LEMMA HandlerKeeps ==
  ASSUME IInv, Handler
  PROVE  IInv'
<1>1. /\ TypeInv /\ Numbers /\ Kept /\ fids \in Seq(Mids \cup {0}) /\ opens \subseteq Mids
  BY Before
<1>2. \A cmd \in {"create", "close", "use", "flush", "write", "notify", "cancel", "other"} :
        cmd \in TreeCommands
  BY DEF TreeCommands
<1>3. \A cmd : Handled(cmd) => Taken /\ KnownSession /\ R.cmd = cmd /\ ran' = ran \cup {R.mid}
  BY DEF Handled, TreeCommand
<1>4. CASE Create
  <2>1. Handled("create") /\ Taken
    BY <1>3, <1>4 DEF Create
  <2>2. NowOwed
    BY <1>4, <2>1, QuietStep DEF Create
  <2>3. CASE AnswerInChain("failed") /\ UNCHANGED <<opens, fids>>
    BY <1>1, <1>2, <2>1, <2>2, <2>3, StatusNames, HandledStep
  <2>4. CASE /\ opens' = opens \cup {R.mid} /\ AnswerInChain("ok")
             /\ fids' = IF R.ctx = 0 THEN fids ELSE [fids EXCEPT ![R.ctx] = R.mid]
    <3>1. PICK m, c, q : m = R.mid /\ c = R.ctx /\ q = fids
      OBVIOUS
    <3>2. m \in Mids /\ c \in 0 .. Len(ctxs) /\ Len(fids) = Len(ctxs) /\ Len(ctxs) \in Nat
      <4>1. m \in Mids /\ c \in 0 .. Len(ctxs)
        BY <1>1, <2>1, <3>1, TakenFacts
      <4> QED BY <1>1, <4>1 DEF TypeInv
    <3>3. opens' \subseteq Mids
      BY <1>1, <2>4, <3>1, <3>2
    <3>4. fids' \in Seq(Mids \cup {0}) /\ Len(fids') = Len(fids)
      <4>1. CASE c = 0
        BY <1>1, <2>4, <3>1, <4>1
      <4>2. CASE c # 0
        <5>1. c \in 1 .. Len(q) /\ m \in Mids \cup {0} /\ q \in Seq(Mids \cup {0})
          BY <1>1, <3>1, <3>2, <4>2
        <5>2. [q EXCEPT ![c] = m] \in Seq(Mids \cup {0}) /\ Len([q EXCEPT ![c] = m]) = Len(q)
          BY <5>1, ExceptSeq
        <5> QED BY <2>4, <3>1, <4>2, <5>2
      <4> QED BY <4>1, <4>2
    <3> QED BY <1>2, <2>1, <2>2, <2>4, <3>3, <3>4, StatusNames, HandledStep
  <2> QED BY <1>4, <2>3, <2>4 DEF Create
<1>5. CASE Close
  <2>1. Handled("close") /\ Taken
    BY <1>3, <1>5 DEF Close
  <2>2. NowOwed
    BY <1>5, <2>1, QuietStep DEF Close
  <2>3. PICK st \in Statuses : AnswerInChain(st)
    BY <1>5, StatusNames DEF Close
  <2>4. fids' = fids /\ opens' \subseteq Mids
    BY <1>1, <1>5 DEF Close
  <2> QED BY <1>1, <1>2, <2>1, <2>2, <2>3, <2>4, HandledStep
<1>6. CASE Flush
  <2>1. Handled("flush") /\ Taken
    BY <1>3, <1>6 DEF Flush
  <2>2. NowOwed
    BY <1>6, <2>1, QuietStep DEF Flush
  <2>3. PICK st \in Statuses : AnswerInChain(st)
    BY <1>6, StatusNames DEF Flush
  <2>4. fids' = fids /\ opens' \subseteq Mids
    BY <1>1, <1>6 DEF Flush
  <2> QED BY <1>1, <1>2, <2>1, <2>2, <2>3, <2>4, HandledStep
<1>7. CASE Use
  <2>1. Handled("use") /\ Taken
    BY <1>3, <1>7 DEF Use
  <2>2. NowOwed
    BY <1>7, <2>1, QuietStep DEF Use
  <2>3. PICK st \in Statuses : AnswerInChain(st)
    BY <1>7, StatusNames DEF Use
  <2>4. fids' = fids /\ opens' \subseteq Mids
    BY <1>1, <1>7 DEF Use
  <2> QED BY <1>1, <1>2, <2>1, <2>2, <2>3, <2>4, HandledStep
<1>8. CASE NotSupported
  <2>1. Handled("other") /\ Taken
    BY <1>3, <1>8 DEF NotSupported
  <2>2. NowOwed
    BY <1>8, <2>1, QuietStep DEF NotSupported
  <2>3. PICK st \in Statuses : AnswerInChain(st)
    BY <1>8, StatusNames DEF NotSupported
  <2>4. fids' = fids /\ opens' \subseteq Mids
    BY <1>1, <1>8 DEF NotSupported
  <2> QED BY <1>1, <1>2, <2>1, <2>2, <2>3, <2>4, HandledStep
<1>9. CASE Write
  <2>1. /\ Handled("write") /\ Taken /\ KnownSession /\ R.cmd = "write"
        /\ ran' = ran \cup {R.mid}
    BY <1>3, <1>9 DEF Write
  <2>2. fids' = fids /\ opens' = opens /\ waiting' = waiting /\ refs' = refs
    BY <1>9, <2>1 DEF Write, Handled
  <2>3. CASE writing' = writing /\ \E st \in Statuses : AnswerInChain(st)
    <3>1. NowOwed
      BY <2>1, <2>2, <2>3, QuietStep
    <3> QED BY <1>1, <1>2, <2>1, <2>2, <2>3, <3>1, HandledStep
  <2>4. CASE AnswerAlone("pending") /\ writing' = R.mid
    <3>1. NowOwed
      BY <2>1, <2>2, <2>4 DEF NowOwed
    <3>2. AnswersKept /\ active' = Selected /\ active' \in Sessions \cup {None}
      BY <1>1, <2>1, <2>4, StatusNames, AloneAnswer
    <3>3. refs' \in Seq(Nat) /\ OneTree'
      BY <2>2, Before
    <3> QED BY <1>1, <2>1, <2>2, <3>1, <3>2, <3>3, TakenStep
  <2> QED BY <1>9, <2>3, <2>4, StatusNames DEF Write
<1>10. CASE ChangeNotify
  <2>1. Handled("notify") /\ Taken /\ R.cmd = "notify" /\ ran' = ran \cup {R.mid}
    BY <1>3, <1>10 DEF ChangeNotify
  <2>2. fids' = fids /\ opens' = opens /\ writing' = writing
    BY <1>10 DEF ChangeNotify
  <2>3. PICK st \in Statuses : AnswerInChain(st)
    BY <1>10, StatusNames DEF ChangeNotify
  <2>4. NowOwed
    <3>1. CASE waiting' = waiting
      BY <2>1, <2>2, <3>1, QuietStep
    <3>2. CASE FileId \in opens /\ waiting' = waiting \cup {[mid |-> R.mid, fid |-> FileId]}
      <4>1. PICK x \in Mids : x = FileId
        BY <1>1, <3>2
      <4>2. writing' = 0
        BY <2>1, <2>2 DEF Taken
      <4> QED BY <2>1, <3>2, <4>1, <4>2 DEF NowOwed
    <3> QED BY <1>10, <3>1, <3>2 DEF ChangeNotify
  <2> QED BY <1>1, <1>2, <2>1, <2>2, <2>3, <2>4, HandledStep
<1>11. CASE Cancel
  <2>1. /\ Handled("cancel") /\ Taken /\ KnownSession /\ R.cmd = "cancel"
        /\ ran' = ran \cup {R.mid}
    BY <1>3, <1>11 DEF Cancel
  <2>2. /\ fids' = fids /\ opens' = opens /\ waiting' = waiting /\ refs' = refs
        /\ ctxs' = ctxs /\ sent' = sent /\ writing' = writing /\ active' = Selected
    BY <1>11, <2>1 DEF Cancel, Handled
  <2>3. NowOwed
    BY <2>1, <2>2, QuietStep
  <2>4. PICK m, t : m = enq /\ t = Through
    OBVIOUS
  <2>5. /\ R.mid = m /\ t + 1 = m /\ Through' = m /\ reqs' = reqs /\ t \in Nat /\ R \in ReqType
    BY <1>1, <2>1, <2>4, TakenFacts
  <2>6. active' \in Sessions \cup {None}
    BY <2>2, <2>5, <2>1 DEF Selected, ReqType
  <2>7. /\ Through' \in Nat /\ Through <= Through' /\ ran \subseteq ran'
        /\ \A i \in 1 .. Through : reqs'[i] = reqs[i]
        /\ \A i \in 1 .. Through : i \in ran' => i \in ran
    BY <2>1, <2>4, <2>5
  <2>8. Kept'
    BY <1>1, <2>2, <2>7, KeptOn
  <2>9. AnswersKept
    BY <1>1, <2>2, <2>8 DEF AnswersKept, TypeInv
  <2>10. refs' \in Seq(Nat) /\ OneTree'
    BY <2>2, Before
  <2> QED BY <1>1, <2>1, <2>2, <2>3, <2>6, <2>9, <2>10, TakenStep
<1> QED BY <1>4, <1>5, <1>6, <1>7, <1>8, <1>9, <1>10, <1>11 DEF Handler

(* A goroutine or the write Run is in finishes.                              *)
LEMMA LateKeeps ==
  ASSUME IInv, AnswersKept, reqs' = reqs, enq' = enq, cur' = cur, offered' = offered,
         fids' = fids, active' = active, refs' = refs, opens' = opens, ran' = ran,
         writing' = 0 \/ writing' = writing, waiting' \subseteq waiting
  PROVE  IInv'
<1>1. TypeInv /\ Numbers /\ Owed /\ OneTree
  BY DEF IInv
<1>2. Through' = Through
  BY DEF Through
<1>3. TypeInv'
  <2>1. writing' \in 0 .. Through
    BY <1>1, Known DEF TypeInv
  <2>2. waiting' \subseteq [mid : 1 .. Through, fid : Mids]
    BY <1>1 DEF TypeInv
  <2> QED BY <1>1, <1>2, <2>1, <2>2 DEF TypeInv, AnswersKept
<1>4. OneTree'
  BY <1>1 DEF OneTree, Connected
<1>5. Numbers'
  <2>1. ASSUME enq' # 0, reqs'[enq'].more PROVE cur' # 0 /\ ctxs'[cur'].last = 0
    <3>1. cur # 0 /\ ctxs[cur].last = 0
      BY <1>1, <2>1 DEF Numbers
    <3>2. cur \in 1 .. Len(ctxs)
      BY <1>1, <3>1 DEF TypeInv
    <3> QED BY <3>1, <3>2 DEF AnswersKept
  <2>2. \A i \in 1 .. Len(reqs') :
          /\ reqs'[i].mid = i /\ reqs'[i].ctx \in 0 .. Len(ctxs')
          /\ reqs'[i].rel => i > 1 /\ reqs'[i - 1].more
    BY <1>1 DEF Numbers, AnswersKept
  <2>3. reqs' # <<>> => ~reqs'[Len(reqs')].more
    BY <1>1 DEF Numbers
  <2> QED BY <2>1, <2>2, <2>3 DEF Numbers
<1>6. Owed'
  BY <1>1 DEF Owed
<1> QED BY <1>3, <1>4, <1>5, <1>6 DEF IInv, AnswersKept

-----------------------------------------------------------------------------
(* The invariant holds at the start                                          *)
LEMMA StartKept ==
  ASSUME Init
  PROVE  IInv
<1>1. /\ reqs = <<>> /\ enq = 0 /\ cur = 0 /\ offered = FALSE /\ ctxs = <<>> /\ fids = <<>>
      /\ active \in Sessions /\ refs = <<1>> /\ opens = {} /\ writing = 0 /\ waiting = {}
      /\ sent = <<>> /\ ran = {}
  BY DEF Init
<1>2. Through = 0 /\ Len(reqs) = 0 /\ Len(ctxs) = 0 /\ Len(sent) = 0 /\ Len(fids) = 0
  BY <1>1 DEF Through
<1>3. TypeInv
  <2>1. reqs \in Seq(ReqType) /\ ctxs \in Seq(CtxType) /\ fids \in Seq(Mids \cup {0})
    BY <1>1
  <2>2. sent \in Seq(FrameType) /\ refs \in Seq(Nat)
    BY <1>1
  <2>3. /\ Len(reqs) <= MaxMsgs /\ enq \in 0 .. Len(reqs) /\ cur \in 0 .. Len(ctxs)
        /\ writing \in 0 .. Through
    BY <1>1, <1>2, MaxMsgsAssumption
  <2>4. offered \in BOOLEAN /\ (offered => enq # 0)
    BY <1>1
  <2>5. /\ active \in Sessions \cup {None} /\ opens \subseteq Mids /\ ran \subseteq 1 .. Through
        /\ waiting \subseteq [mid : 1 .. Through, fid : Mids]
    BY <1>1
  <2> QED BY <1>2, <2>1, <2>2, <2>3, <2>4, <2>5 DEF TypeInv
<1>4. OneTree
  BY <1>1 DEF OneTree, Connected
<1>5. Numbers /\ Owed /\ Kept
  BY <1>1, <1>2 DEF Numbers, Owed, Kept
<1> QED BY <1>3, <1>4, <1>5 DEF IInv

(* ... and every step keeps it.                                              *)
LEMMA StepKept ==
  ASSUME IInv, [Next]_vars
  PROVE  IInv'
<1>1. TypeInv /\ Numbers /\ Owed /\ Kept
  BY DEF IInv
<1>2. ASSUME NEW f \in Frames, ReadFrame(f) PROVE IInv'
  BY <1>2, ReadKeeps
<1>3. CASE Enqueue
  BY <1>3, EnqueueKeeps
<1>4. CASE Run
  <2>1. CASE NoSuchSession \/ NoSuchTree \/ RefusedInChain
    BY <2>1, RefusalKeeps
  <2>2. CASE EchoOrLogoff \/ TreeConnect \/ TreeDisconnect
    BY <2>2, OutsideKeeps
  <2>3. CASE Handler
    BY <2>3, HandlerKeeps
  <2>4. CASE WriteDone
    <3>1. AnswersKept
      BY <1>1, <2>4, WriteAnswer
    <3> QED BY <2>4, <3>1, LateKeeps DEF WriteDone
  <2> QED BY <1>4, <2>1, <2>2, <2>3, <2>4 DEF Run
<1>5. ASSUME NEW w \in waiting, NotifyDone(w) PROVE IInv'
  <2>1. AnswersKept
    BY <1>1, <1>5, NotifyAnswer
  <2>2. waiting' \subseteq waiting
    BY <1>5 DEF NotifyDone
  <2> QED BY <1>5, <2>1, <2>2, LateKeeps DEF NotifyDone
<1>6. CASE UNCHANGED vars
  <2>1. /\ reqs' = reqs /\ enq' = enq /\ cur' = cur /\ offered' = offered /\ ctxs' = ctxs
        /\ fids' = fids /\ active' = active /\ refs' = refs /\ opens' = opens
        /\ writing' = writing /\ waiting' = waiting /\ sent' = sent /\ ran' = ran
    BY <1>6 DEF vars
  <2>2. Through' = Through
    BY <2>1 DEF Through
  <2>3. TypeInv'
    BY <1>1, <2>1, <2>2 DEF TypeInv
  <2>4. OneTree' /\ Numbers' /\ Owed'
    BY <2>1 DEF IInv, OneTree, Connected, Numbers, Owed
  <2>5. Kept'
    BY <1>1, <2>1, <2>2 DEF Kept
  <2> QED BY <2>3, <2>4, <2>5 DEF IInv
<1> QED BY <1>2, <1>3, <1>4, <1>5, <1>6 DEF Next

(* The inductive invariant of receiver, Run and the goroutines of            *)
(* CHANGE_NOTIFY.                                                            *)
THEOREM DispatchInvariant == Spec => []IInv
BY StartKept, StepKept, PTL DEF Spec

(* Types: requests, contexts, trees and answers have their form, and the     *)
(* share has at most one connected tree, whatever is connected and           *)
(* disconnected (treeConnect and treeDisconnect).                            *)
THEOREM DispatchTypes == Spec => []TypeOK
<1>1. IInv => TypeOK
  <2> SUFFICES ASSUME IInv PROVE TypeOK
    OBVIOUS
  <2>1. TypeInv /\ Numbers /\ OneTree
    BY DEF IInv
  <2>2. Len(reqs) \in Nat /\ DOMAIN reqs = 1 .. Len(reqs) /\ Len(reqs) <= MaxMsgs
    BY <2>1 DEF TypeInv
  <2>3. \A m \in DOMAIN reqs : reqs[m].mid = m /\ reqs[m].ctx \in 0 .. Len(ctxs)
    BY <2>1, <2>2 DEF Numbers
  <2>4. \A c \in DOMAIN ctxs :
          /\ ctxs[c].status \in Statuses
          /\ ctxs[c].last \in Mids \cup {0} /\ ctxs[c].rsp \in Seq(Answers)
    BY <2>1, AnswerFields DEF TypeInv
  <2>5. \A i \in DOMAIN sent : sent[i].rsp \in Seq(Answers) \ {<<>>}
    <3>1. sent \in Seq(FrameType) /\ DOMAIN sent = 1 .. Len(sent)
      BY <2>1 DEF TypeInv
    <3>2. ASSUME NEW i \in 1 .. Len(sent) PROVE sent[i].rsp # <<>>
      BY DEF IInv, Kept, FrameGood
    <3> QED BY <3>1, <3>2, AnswerFields
  <2>6. Cardinality(Connected) <= 1
    <3>1. CASE Connected = {}
      BY <3>1, FS_EmptySet
    <3>2. CASE Connected # {}
      <4>1. PICK t : t \in Connected
        BY <3>2
      <4>2. Connected = {t}
        BY <2>1, <4>1 DEF OneTree
      <4>3. Cardinality({t}) = 1
        BY FS_Singleton
      <4> QED BY <4>2, <4>3
    <3> QED BY <3>1, <3>2
  <2>7. 1 .. Through \subseteq Mids /\ Through \in Nat
    BY <2>1, Known
  <2>8. /\ writing \in Mids \cup {0} /\ ran \subseteq Mids
        /\ waiting \subseteq [mid : Mids, fid : Mids]
    <3>1. writing \in Mids \cup {0}
      BY <2>1, <2>7 DEF TypeInv
    <3>2. ran \subseteq Mids
      BY <2>1, <2>7 DEF TypeInv
    <3>3. \A w \in [mid : 1 .. Through, fid : Mids] : w \in [mid : Mids, fid : Mids]
      BY <2>7
    <3> QED BY <2>1, <3>1, <3>2, <3>3 DEF TypeInv
  <2> QED BY <2>1, <2>2, <2>3, <2>4, <2>5, <2>6, <2>8 DEF TypeOK, TypeInv
<1> QED BY <1>1, DispatchInvariant, PTL

(* Sessions: an answer Run sends goes out under the session of its request,  *)
(* and its frame under that of the answer that completes it.                 *)
THEOREM SessionsOwn == Spec => []OwnSession
<1>1. IInv => OwnSession
  <2> SUFFICES ASSUME IInv, NEW i \in DOMAIN sent
               PROVE  LET rsp == sent[i].rsp IN
                      /\ sent[i].sess = rsp[Len(rsp)].sess
                      /\ \A j \in DOMAIN rsp :
                           \/ reqs[rsp[j].mid].cmd = "echo"
                           \/ reqs[rsp[j].mid].cmd = "notify" /\ rsp[j].status \in {"ok",
                             "cancelled"}
                           \/ rsp[j].sess = reqs[rsp[j].mid].sess
    BY DEF OwnSession
  <2>1. PICK f : f = sent[i]
    OBVIOUS
  <2>2. f \in FrameType /\ FrameGood(f, reqs, ran, Through)
    BY <2>1 DEF IInv, TypeInv, Kept
  <2>3. f.rsp \in Seq(Answers) /\ DOMAIN f.rsp = 1 .. Len(f.rsp)
    BY <2>2, AnswerFields
  <2>4. f.sess = f.rsp[Len(f.rsp)].sess /\ \A j \in 1 .. Len(f.rsp) : Own(f.rsp[j], reqs)
    BY <2>2 DEF FrameGood
  <2> QED BY <2>1, <2>3, <2>4 DEF Own
<1> QED BY <1>1, DispatchInvariant, PTL

(* Frames: all answers of a frame but the first are marked as related, all   *)
(* but the last lead to a next one, and they keep the order of the requests, *)
(* unless a CHANGE_NOTIFY of the chain has set off its goroutine.            *)
THEOREM FramesHold == Spec => []FramesWellFormed
<1>1. IInv => FramesWellFormed
  <2> SUFFICES ASSUME IInv, NEW i \in DOMAIN sent
               PROVE  LET rsp == sent[i].rsp IN
                      \/ reqs[rsp[1].mid].ctx # 0 /\ Notifies(reqs[rsp[1].mid].ctx)
                      \/ \A j \in DOMAIN rsp :
                           /\ rsp[j].rel = (j > 1)
                           /\ rsp[j].more = (j < Len(rsp))
                           /\ j > 1 => rsp[j - 1].mid < rsp[j].mid
    BY DEF FramesWellFormed
  <2>1. PICK f : f = sent[i]
    OBVIOUS
  <2>2. f \in FrameType /\ FrameGood(f, reqs, ran, Through)
    BY <2>1 DEF IInv, TypeInv, Kept
  <2>3. f.rsp \in Seq(Answers) /\ DOMAIN f.rsp = 1 .. Len(f.rsp)
    BY <2>2, AnswerFields
  <2>4. CASE reqs[f.rsp[1].mid].ctx # 0 /\ NotifiesIn(reqs, ran, reqs[f.rsp[1].mid].ctx)
    BY <2>1, <2>4 DEF NotifiesIn, Notifies
  <2>5. CASE InOrder(f.rsp)
    BY <2>1, <2>3, <2>5 DEF InOrder
  <2> QED BY <2>2, <2>4, <2>5 DEF FrameGood
<1> QED BY <1>1, DispatchInvariant, PTL

(* Chains: after a failed request no handler of the chain's later requests   *)
(* is called, and they are answered with its status (compoundContext.status),*)
(* unless a CHANGE_NOTIFY of the chain has set off its goroutine.            *)
THEOREM FailureStops == Spec => []NothingAfterFailure
<1>1. IInv => NothingAfterFailure
  <2> SUFFICES ASSUME IInv, NEW c \in DOMAIN ctxs, ~Notifies(c)
               PROVE  LET rsp == ctxs[c].rsp IN
                      \A j \in DOMAIN rsp, k \in DOMAIN rsp :
                        j < k /\ rsp[j].status # "ok" =>
                          /\ rsp[k].mid \notin ran
                          /\ rsp[k].status \in {rsp[k - 1].status, "noSession", "noTree"}
    BY DEF NothingAfterFailure
  <2>1. PICK x : x = ctxs[c]
    OBVIOUS
  <2>2. x \in CtxType /\ CtxGood(x, c, reqs, ran, Through)
    BY <2>1 DEF IInv, TypeInv, Kept
  <2>3. x.rsp \in Seq(Answers) /\ DOMAIN x.rsp = 1 .. Len(x.rsp)
    BY <2>2, AnswerFields
  <2>4. ~NotifiesIn(reqs, ran, c)
    BY DEF NotifiesIn, Notifies
  <2>5. FailedOnce(x.rsp, ran)
    BY <2>2, <2>4 DEF CtxGood
  <2> QED BY <2>1, <2>3, <2>5 DEF FailedOnce
<1> QED BY <1>1, DispatchInvariant, PTL

-----------------------------------------------------------------------------
(* What the first invariant says of answers, contexts and frames.            *)
LEMMA Heard ==
  ASSUME IInv
  PROVE  /\ Through \in Nat /\ Len(ctxs) \in Nat /\ Len(sent) \in Nat /\ Len(reqs) \in Nat
         /\ Through <= Len(reqs)
         /\ \A i \in 1 .. Len(sent) :
              /\ Len(sent[i].rsp) \in Nat /\ Len(sent[i].rsp) >= 1
                 /\ LastOf(i).mid \in 1 .. Through
              /\ \A j \in 1 .. Len(sent[i].rsp) : sent[i].rsp[j].mid \in 1 .. Through
         /\ \A c \in 1 .. Len(ctxs) :
              /\ Len(ctxs[c].rsp) \in Nat /\ ctxs[c].last \in Nat /\ ctxs[c].rsp \in Seq(Answers)
              /\ \A j \in 1 .. Len(ctxs[c].rsp) : /\ ctxs[c].rsp[j].mid \in 1 .. Through
                                                  /\ reqs[ctxs[c].rsp[j].mid].ctx = c
         /\ \A m \in 1 .. Len(reqs) : /\ reqs[m].ctx \in 0 .. Len(ctxs) /\ reqs[m].mid = m
                                       /\ reqs[m].last \in Nat
         /\ \A m \in 1 .. Through : reqs[m].ctx \in 0 .. Len(ctxs) /\ reqs[m].mid = m
<1>1. TypeInv /\ Numbers /\ Kept
  BY DEF IInv
<1>2. /\ Through \in Nat /\ Len(ctxs) \in Nat /\ Len(sent) \in Nat /\ Len(reqs) \in Nat
      /\ Through <= Len(reqs) /\ MaxMsgs \in Nat /\ \A m \in 1 .. Through : m \in 1 .. Len(reqs)
  BY <1>1, Known DEF TypeInv
<1>3. ASSUME NEW i \in 1 .. Len(sent)
      PROVE  /\ Len(sent[i].rsp) \in Nat /\ Len(sent[i].rsp) >= 1
             /\ LastOf(i).mid \in 1 .. Through
             /\ \A j \in 1 .. Len(sent[i].rsp) : sent[i].rsp[j].mid \in 1 .. Through
  <2>1. PICK f : f = sent[i]
    OBVIOUS
  <2>2. f \in FrameType /\ FrameGood(f, reqs, ran, Through)
    BY <1>1, <2>1 DEF TypeInv, Kept
  <2>3. f.rsp \in Seq(Answers) /\ f.rsp # <<>>
          /\ \A j \in 1 .. Len(f.rsp) : f.rsp[j].mid \in 1 .. Through
    BY <2>2, AnswerFields DEF FrameGood
  <2>4. Len(f.rsp) \in Nat /\ Len(f.rsp) >= 1 /\ Len(f.rsp) \in 1 .. Len(f.rsp)
    BY <2>3
  <2> QED BY <2>1, <2>3, <2>4 DEF LastOf
<1>4. ASSUME NEW c \in 1 .. Len(ctxs)
      PROVE  /\ Len(ctxs[c].rsp) \in Nat /\ ctxs[c].last \in Nat /\ ctxs[c].rsp \in Seq(Answers)
             /\ \A j \in 1 .. Len(ctxs[c].rsp) : /\ ctxs[c].rsp[j].mid \in 1 .. Through
                                                 /\ reqs[ctxs[c].rsp[j].mid].ctx = c
  <2>1. PICK x : x = ctxs[c]
    OBVIOUS
  <2>2. x \in CtxType /\ CtxGood(x, c, reqs, ran, Through)
    BY <1>1, <2>1 DEF TypeInv, Kept
  <2>3. x.rsp \in Seq(Answers) /\ x.last \in Mids \cup {0}
    BY <2>2, AnswerFields
  <2>4. x.last \in Nat
    BY <1>2, <2>3 DEF Mids
  <2>5. \A j \in 1 .. Len(x.rsp) : x.rsp[j].mid \in 1 .. Through /\ reqs[x.rsp[j].mid].ctx = c
    BY <2>2 DEF CtxGood
  <2> QED BY <2>1, <2>3, <2>4, <2>5
<1>5. \A m \in 1 .. Len(reqs) : reqs[m].ctx \in 0 .. Len(ctxs) /\ reqs[m].mid = m
  BY <1>1 DEF Numbers
<1>6. \A m \in 1 .. Len(reqs) : reqs[m].last \in Nat
  <2>1. \A m \in 1 .. Len(reqs) : reqs[m] \in ReqType
    BY <1>1 DEF TypeInv
  <2> QED BY <2>1 DEF ReqType
<1> QED BY <1>2, <1>3, <1>4, <1>5, <1>6

(* A step keeps the requests Run has taken, the answers collected and the    *)
(* frames sent; a context gets its last request before Run takes it.         *)
Grown ==
  /\ Through' \in Nat /\ Through <= Through'
  /\ \A m \in 1 .. Through : reqs'[m] = reqs[m] /\ (m \in ran' <=> m \in ran)
  /\ Len(ctxs') \in Nat /\ Len(ctxs) <= Len(ctxs')
  /\ \A c \in 1 .. Len(ctxs) :
       /\ ctxs'[c].last = ctxs[c].last \/ (ctxs[c].last = 0 /\ ctxs'[c].last \notin 1 .. Through')
       /\ Len(ctxs'[c].rsp) \in Nat /\ Len(ctxs[c].rsp) <= Len(ctxs'[c].rsp)
       /\ \A j \in 1 .. Len(ctxs[c].rsp) : ctxs'[c].rsp[j] = ctxs[c].rsp[j]
  /\ \A c \in 1 .. Len(ctxs') : c \notin 1 .. Len(ctxs) => ctxs'[c].rsp = <<>>
     /\ ctxs'[c].last = 0
  /\ Len(sent') \in Nat /\ Len(sent) <= Len(sent')
  /\ \A i \in 1 .. Len(sent) : sent'[i] = sent[i]

(* What is known of a request taken stays known,                             *)
LEMMA StillOut ==
  ASSUME IInv, Grown
  PROVE  /\ \A m \in 1 .. Through : /\ Out(m)' <=> Out(m)
                                    /\ m \in 1 .. Through' /\ reqs'[m] = reqs[m]
         /\ \A i \in 1 .. Len(sent) : i \in 1 .. Len(sent') /\ LastOf(i)' = LastOf(i)
<1>1. Through \in Nat /\ Len(sent) \in Nat
  BY Heard
<1>2. \A m \in 1 .. Through : m \in 1 .. Through'
  BY <1>1 DEF Grown
<1>3. \A m \in 1 .. Through : Out(m)' <=> Out(m)
  BY DEF Grown, Out
<1>4. \A i \in 1 .. Len(sent) : i \in 1 .. Len(sent')
  BY <1>1 DEF Grown
<1>5. \A i \in 1 .. Len(sent) : LastOf(i)' = LastOf(i)
  BY DEF Grown, LastOf
<1> QED BY <1>2, <1>3, <1>4, <1>5 DEF Grown

(* ... so are the sources of the frames sent before,                         *)
LEMMA StillSources ==
  ASSUME IInv, Grown, Sources, NEW i \in 1 .. Len(sent)
  PROVE  (Single(i) \/ OfChain(i))'
<1>1. PICK m : m = LastOf(i).mid
  OBVIOUS
<1>2. /\ m \in 1 .. Through /\ LastOf(i)' = LastOf(i) /\ (Out(m)' <=> Out(m))
      /\ reqs'[m] = reqs[m] /\ sent'[i] = sent[i] /\ reqs[m].ctx \in 0 .. Len(ctxs)
      /\ Len(ctxs) \in Nat /\ Len(sent[i].rsp) \in Nat
  BY <1>1, Heard, StillOut DEF Grown
<1>3. CASE Single(i)
  BY <1>1, <1>2, <1>3 DEF Single
<1>4. CASE OfChain(i)
  <2>1. PICK c : c = reqs[m].ctx
    OBVIOUS
  <2>2. /\ c # 0 /\ ctxs[c].last = m /\ Len(sent[i].rsp) <= Len(ctxs[c].rsp)
        /\ \A j \in 1 .. Len(sent[i].rsp) : sent[i].rsp[j] = ctxs[c].rsp[j]
    BY <1>1, <1>4, <2>1 DEF OfChain
  <2>3. c \in 1 .. Len(ctxs)
    BY <1>2, <2>1, <2>2
  <2>8. m # 0
    BY <1>2, Heard
  <2>9. ctxs'[c].last = m
    BY <2>2, <2>3, <2>8 DEF Grown
  <2>4. /\ Len(ctxs[c].rsp) <= Len(ctxs'[c].rsp)
        /\ \A j \in 1 .. Len(ctxs[c].rsp) : ctxs'[c].rsp[j] = ctxs[c].rsp[j]
        /\ Len(ctxs[c].rsp) \in Nat /\ Len(ctxs'[c].rsp) \in Nat
    BY <2>3, Heard DEF Grown
  <2>5. \A j \in 1 .. Len(sent[i].rsp) : j \in 1 .. Len(ctxs[c].rsp)
    BY <1>2, <2>2, <2>4
  <2>6. /\ Len(sent[i].rsp) <= Len(ctxs'[c].rsp)
        /\ \A j \in 1 .. Len(sent[i].rsp) : sent[i].rsp[j] = ctxs'[c].rsp[j]
    <3>1. PICK n, p, q : n = Len(sent[i].rsp) /\ p = Len(ctxs[c].rsp) /\ q = Len(ctxs'[c].rsp)
      OBVIOUS
    <3>2. n \in Nat /\ p \in Nat /\ q \in Nat /\ n <= p /\ p <= q
      BY <1>2, <2>2, <2>4, <3>1
    <3>3. n <= q
      BY <3>2
    <3> QED BY <2>2, <2>4, <2>5, <3>1, <3>3
  <2>7. OfChain(i)'
    <3>1. LastOf(i).mid' = m /\ reqs'[m].ctx = c
      BY <1>1, <1>2, <2>1
    <3> QED BY <1>2, <2>2, <2>6, <2>9, <3>1 DEF OfChain
  <2> QED BY <2>7
<1> QED BY <1>3, <1>4 DEF Sources

(* ... which of them answer a request twice,                                 *)
LEMMA StillTwice ==
  ASSUME IInv, Grown, FramesOnce, NEW i \in 1 .. Len(sent), NEW k \in 1 .. Len(sent),
         i # k, LastOf(i).mid = LastOf(k).mid
  PROVE  Twice(i, k)'
<1>1. Twice(i, k)
  BY DEF FramesOnce
<1>2. /\ LastOf(i)' = LastOf(i) /\ LastOf(k)' = LastOf(k)
      /\ reqs'[LastOf(i).mid] = reqs[LastOf(i).mid]
  BY Heard, StillOut
<1> QED BY <1>1, <1>2 DEF Twice

(* ... and what has been answered.                                           *)
LEMMA StillAnswered ==
  ASSUME IInv, Grown, NEW m \in 1 .. Through, Answered(m)
  PROVE  Answered(m)'
<1>1. /\ (Out(m)' <=> Out(m)) /\ reqs'[m] = reqs[m] /\ reqs[m].ctx \in 0 .. Len(ctxs)
  BY Heard, StillOut
<1>2. CASE Out(m) /\ reqs[m].cmd = "cancel"
  BY <1>1, <1>2 DEF Answered
<1>3. CASE (Out(m) \/ reqs[m].ctx = 0) /\ \E i \in 1 .. Len(sent) : sent[i].rsp[1].mid = m
  <2>1. PICK i \in 1 .. Len(sent) : sent[i].rsp[1].mid = m
    BY <1>3
  <2>2. i \in 1 .. Len(sent') /\ sent'[i].rsp[1].mid = m
    BY <2>1, StillOut DEF Grown
  <2> QED BY <1>1, <1>3, <2>2 DEF Answered
<1>4. CASE ~Out(m) /\ reqs[m].ctx # 0
  <2>1. PICK c : c = reqs[m].ctx
    OBVIOUS
  <2>2. c \in 1 .. Len(ctxs)
    BY <1>1, <1>4, <2>1, Heard
  <2>3. PICK j \in 1 .. Len(ctxs[c].rsp) : ctxs[c].rsp[j].mid = m
    BY <1>4, <2>1 DEF Answered
  <2>4. /\ Len(ctxs[c].rsp) \in Nat /\ Len(ctxs'[c].rsp) \in Nat
        /\ Len(ctxs[c].rsp) <= Len(ctxs'[c].rsp) /\ ctxs'[c].rsp[j] = ctxs[c].rsp[j]
    BY <2>2, Heard DEF Grown
  <2>5. j \in 1 .. Len(ctxs'[c].rsp) /\ ctxs'[c].rsp[j].mid = m
    BY <2>3, <2>4
  <2> QED BY <1>1, <1>4, <2>1, <2>5 DEF Answered
<1> QED BY <1>2, <1>3, <1>4 DEF Answered

(* ... and which contexts have been sent.                                    *)
LEMMA StillComplete ==
  ASSUME IInv, Grown, NEW c \in 1 .. Len(ctxs), ctxs[c].last \in 1 .. Through, Complete(c)
  PROVE  Complete(c)'
<1>1. ctxs'[c].last = ctxs[c].last
  BY Heard DEF Grown
<1>2. PICK i \in 1 .. Len(sent) : \A m \in 1 .. ctxs[c].last :
        reqs[m].ctx = c /\ ~Out(m) => \E j \in 1 .. Len(sent[i].rsp) : sent[i].rsp[j].mid = m
  BY DEF Complete
<1>3. i \in 1 .. Len(sent') /\ sent'[i] = sent[i]
  BY StillOut DEF Grown
<1>4. \A m \in 1 .. ctxs[c].last : m \in 1 .. Through
  BY Heard
<1>5. \A m \in 1 .. ctxs[c].last : reqs'[m] = reqs[m] /\ (Out(m)' <=> Out(m))
  BY <1>4, StillOut
<1>6. \A m \in 1 .. ctxs'[c].last : reqs'[m].ctx = c /\ ~Out(m)' =>
        \E j \in 1 .. Len(sent'[i].rsp) : sent'[i].rsp[j].mid = m
  BY <1>1, <1>2, <1>3, <1>5
<1> QED BY <1>3, <1>6 DEF Complete

(* A request stays unanswered, but for pending answers, when nothing is sent *)
(* or collected for it.                                                      *)
LEMMA StillPending ==
  ASSUME IInv, Grown, NEW m \in 1 .. Through, Pending(m),
         \A i \in 1 .. Len(sent') : i \notin 1 .. Len(sent) => LastOf(i).mid' # m,
         \A c \in 1 .. Len(ctxs) : \A j \in 1 .. Len(ctxs'[c].rsp) :
           j \notin 1 .. Len(ctxs[c].rsp) => ctxs'[c].rsp[j].mid # m
  PROVE  Pending(m)'
<1>1. reqs'[m] = reqs[m] /\ reqs[m].ctx \in 0 .. Len(ctxs) /\ Len(ctxs) \in Nat
  BY Heard, StillOut
<1>2. ASSUME reqs[m].ctx = 0, NEW i \in 1 .. Len(sent'), LastOf(i).mid' = m
      PROVE  LastOf(i).status' = "pending"
  <2>1. i \in 1 .. Len(sent)
    BY <1>2
  <2>2. LastOf(i)' = LastOf(i)
    BY <2>1, StillOut
  <2> QED BY <1>2, <2>1, <2>2 DEF Pending
<1>3. ASSUME reqs[m].ctx # 0, NEW j \in 1 .. Len(ctxs'[reqs[m].ctx].rsp),
             ctxs'[reqs[m].ctx].rsp[j].mid = m
      PROVE  ctxs'[reqs[m].ctx].rsp[j].status = "pending"
  <2>1. PICK c : c = reqs[m].ctx
    OBVIOUS
  <2>2. c \in 1 .. Len(ctxs) /\ j \in 1 .. Len(ctxs'[c].rsp) /\ ctxs'[c].rsp[j].mid = m
    BY <1>1, <1>3, <2>1
  <2>3. j \in 1 .. Len(ctxs[c].rsp)
    BY <2>2
  <2>4. ctxs'[c].rsp[j] = ctxs[c].rsp[j]
    BY <2>2, <2>3 DEF Grown
  <2> QED BY <1>3, <2>1, <2>2, <2>3, <2>4 DEF Pending
<1> QED BY <1>1, <1>2, <1>3 DEF Pending

-----------------------------------------------------------------------------
(* An answer to request m of status st, through context c or alone (0).      *)
Gave(m, c, st) ==
  /\ c = 0 => ctxs' = ctxs
  /\ c # 0 => /\ c \in 1 .. Len(ctxs) /\ Len(ctxs') = Len(ctxs)
              /\ \A d \in 1 .. Len(ctxs) : d # c => ctxs'[d] = ctxs[d]
              /\ ctxs'[c].last = ctxs[c].last
              /\ Len(ctxs'[c].rsp) = Len(ctxs[c].rsp) + 1
              /\ \A j \in 1 .. Len(ctxs[c].rsp) : ctxs'[c].rsp[j] = ctxs[c].rsp[j]
              /\ \A j \in 1 .. Len(ctxs'[c].rsp) : j \notin 1 .. Len(ctxs[c].rsp) =>
                   ctxs'[c].rsp[j].mid = m /\ ctxs'[c].rsp[j].status = st
  /\ c # 0 /\ m # ctxs[c].last => sent' = sent
  /\ c = 0 \/ m = ctxs[c].last =>
       /\ Len(sent') = Len(sent) + 1
       /\ \A i \in 1 .. Len(sent) : sent'[i] = sent[i]
       /\ \A i \in 1 .. Len(sent') : i \notin 1 .. Len(sent) =>
            /\ LastOf(i).mid' = m /\ LastOf(i).status' = st
            /\ c = 0 => Len(sent'[i].rsp) = 1
            /\ c # 0 => sent'[i].rsp = ctxs'[c].rsp

(* sendPacket gives it.                                                      *)
LEMMA Gives ==
  ASSUME IInv, NEW m \in Mids, NEW c \in 0 .. Len(ctxs), NEW st \in Statuses,
         NEW ss \in Sessions \cup {None}, SendPacket(m, c, st, ss)
  PROVE  Gave(m, c, st)
<1>1. TypeInv /\ Len(sent) \in Nat /\ Len(ctxs) \in Nat
  BY Heard DEF IInv
<1>2. ASSUME NEW f \in FrameType, sent' = Append(sent, f), NEW h, f.rsp # <<>>,
             f.rsp[Len(f.rsp)] = h, h.mid = m, h.status = st
      PROVE  /\ Len(sent') = Len(sent) + 1
             /\ \A i \in 1 .. Len(sent) : sent'[i] = sent[i]
             /\ \A i \in 1 .. Len(sent') : i \notin 1 .. Len(sent) =>
                  sent'[i] = f /\ LastOf(i).mid' = m /\ LastOf(i).status' = st
  <2>1. PICK q : q = sent
    OBVIOUS
  <2>2. q \in Seq(FrameType) /\ sent' = Append(q, f)
    BY <1>1, <1>2, <2>1 DEF TypeInv
  <2>3. /\ Len(Append(q, f)) = Len(q) + 1 /\ \A i \in 1 .. Len(q) : Append(q, f)[i] = q[i]
        /\ Append(q, f)[Len(q) + 1] = f
    BY <2>2, AppendProperties
  <2>4. \A i \in 1 .. Len(q) + 1 : i \notin 1 .. Len(q) => i = Len(q) + 1
    BY <2>2
  <2>5. \A i \in 1 .. Len(sent') : i \notin 1 .. Len(sent) => sent'[i] = f
    BY <2>1, <2>2, <2>3, <2>4
  <2>6. \A i \in 1 .. Len(sent') : sent'[i] = f => LastOf(i).mid' = m /\ LastOf(i).status' = st
    BY <1>2 DEF LastOf
  <2> QED BY <2>1, <2>2, <2>3, <2>5, <2>6
<1>3. CASE c = 0
  <2>1. SendPacket(m, 0, st, ss)
    BY <1>3
  <2>2. ctxs' = ctxs
    BY <1>1, <2>1, SendsAlone
  <2>3. PICK h \in Answers, f \in FrameType :
          /\ h.mid = m /\ h.status = st /\ f.rsp = <<h>> /\ sent' = Append(sent, f)
    BY <1>1, <2>1, SendsAlone
  <2>4. f.rsp # <<>> /\ Len(f.rsp) = 1 /\ f.rsp[Len(f.rsp)] = h
    BY <2>3
  <2>5. /\ Len(sent') = Len(sent) + 1
        /\ \A i \in 1 .. Len(sent) : sent'[i] = sent[i]
        /\ \A i \in 1 .. Len(sent') : i \notin 1 .. Len(sent) =>
             sent'[i] = f /\ LastOf(i).mid' = m /\ LastOf(i).status' = st
    BY <1>2, <2>3, <2>4
  <2> QED BY <1>3, <2>2, <2>4, <2>5 DEF Gave
<1>4. CASE c # 0
  <2>1. c \in 1 .. Len(ctxs)
    BY <1>1, <1>4
  <2>2. /\ Len(ctxs') = Len(ctxs)
        /\ \A d \in 1 .. Len(ctxs) : d # c => ctxs'[d] = ctxs[d]
    BY <1>1, <2>1, SendsInChain
  <2>3. PICK h \in Answers, y \in CtxType :
              /\ h.mid = m /\ h.status = st
              /\ y.rsp = Append(ctxs[c].rsp, h) /\ y.last = ctxs[c].last
              /\ ctxs'[c] = y
              /\ \/ m # ctxs[c].last /\ sent' = sent
                 \/ /\ m = ctxs[c].last
                    /\ \E f \in FrameType : f.rsp = y.rsp /\ f.sess = ss
                       /\ sent' = Append(sent, f)
    BY <1>1, <2>1, SendsInChain
  <2>4. PICK s : s = ctxs[c].rsp
    OBVIOUS
  <2>5. s \in Seq(Answers) /\ y.rsp = Append(s, h)
    BY <2>1, <2>3, <2>4, Heard
  <2>6. /\ Len(y.rsp) = Len(s) + 1 /\ y.rsp[Len(s) + 1] = h /\ y.rsp # <<>>
        /\ \A j \in 1 .. Len(s) : y.rsp[j] = s[j]
        /\ y.rsp[Len(y.rsp)] = h
    BY <2>5, AppendProperties
  <2>7. \A j \in 1 .. Len(s) + 1 : j \notin 1 .. Len(s) => j = Len(s) + 1
    BY <2>5
  <2>8. /\ ctxs'[c].last = ctxs[c].last
        /\ Len(ctxs'[c].rsp) = Len(ctxs[c].rsp) + 1
        /\ \A j \in 1 .. Len(ctxs[c].rsp) : ctxs'[c].rsp[j] = ctxs[c].rsp[j]
        /\ \A j \in 1 .. Len(ctxs'[c].rsp) : j \notin 1 .. Len(ctxs[c].rsp) =>
             ctxs'[c].rsp[j].mid = m /\ ctxs'[c].rsp[j].status = st
    BY <2>3, <2>4, <2>6, <2>7
  <2>9. CASE m # ctxs[c].last /\ sent' = sent
    BY <1>4, <2>1, <2>2, <2>8, <2>9 DEF Gave
  <2>10. CASE m = ctxs[c].last
    <3>1. PICK f \in FrameType : f.rsp = y.rsp /\ sent' = Append(sent, f)
      BY <2>3, <2>10
    <3>2. /\ Len(sent') = Len(sent) + 1
          /\ \A i \in 1 .. Len(sent) : sent'[i] = sent[i]
          /\ \A i \in 1 .. Len(sent') : i \notin 1 .. Len(sent) =>
               sent'[i] = f /\ LastOf(i).mid' = m /\ LastOf(i).status' = st
      BY <1>2, <2>3, <2>6, <3>1
    <3>3. ctxs'[c].rsp = f.rsp
      BY <2>3, <3>1
    <3> QED BY <1>4, <2>1, <2>2, <2>8, <2>10, <3>2, <3>3 DEF Gave
  <2> QED BY <2>3, <2>9, <2>10
<1> QED BY <1>3, <1>4

(* The answer fits its request: it is that of the request just taken, or the *)
(* second one of a write or CHANGE_NOTIFY.                                   *)
Fits(m, c) ==
  /\ reqs' = reqs /\ m \in 1 .. Through' /\ m \in 1 .. Len(reqs) /\ Through' \in Nat
  /\ \A k \in 1 .. Through : k \in ran' <=> k \in ran
  /\ c = 0 => IF Out(m)' THEN reqs[m].cmd # "cancel" ELSE reqs[m].ctx = 0
  /\ c # 0 => c = reqs[m].ctx /\ ~Out(m)'
  /\ \/ m = Through + 1 /\ Through' = m
     \/ /\ m \in 1 .. Through /\ Through' = Through /\ Pending(m) /\ c = reqs[m].ctx
        /\ c # 0 => reqs[m].cmd = "notify"

(* What is left to be answered after it.                                     *)
LeftOpen(m, st) ==
  /\ \A w \in waiting' : \/ w \in waiting /\ w.mid # m
                         \/ w.mid = m /\ st = "pending" /\ m = Through + 1
  /\ \A w \in waiting', v \in waiting' : w.mid = v.mid => w = v
  /\ writing' # 0 =>
       \/ writing' = writing /\ writing # m
       \/ /\ writing' = m /\ st = "pending" /\ m = Through + 1
          /\ reqs[m].ctx = 0 /\ reqs[m].cmd = "write"

(* Such a step keeps what there was.                                         *)
LEMMA GaveGrown ==
  ASSUME IInv, NEW m, NEW c, NEW st, Gave(m, c, st), Fits(m, c)
  PROVE  /\ Grown
         /\ \A d \in 1 .. Len(ctxs) : ctxs'[d].last = ctxs[d].last
         /\ Len(ctxs') = Len(ctxs)
         /\ \A i \in 1 .. Len(sent') : i \notin 1 .. Len(sent) =>
              i = Len(sent) + 1 /\ LastOf(i).mid' = m /\ LastOf(i).status' = st
         /\ \A d \in 1 .. Len(ctxs) : \A j \in 1 .. Len(ctxs'[d].rsp) :
              j \notin 1 .. Len(ctxs[d].rsp) =>
                /\ d = c /\ j = Len(ctxs[d].rsp) + 1
                /\ ctxs'[d].rsp[j].mid = m /\ ctxs'[d].rsp[j].status = st
<1>1. /\ Through \in Nat /\ Len(ctxs) \in Nat /\ Len(sent) \in Nat
      /\ \A d \in 1 .. Len(ctxs) : Len(ctxs[d].rsp) \in Nat
  BY Heard
<1>2. Through <= Through'
  BY <1>1 DEF Fits
<1>3. /\ Len(sent') \in Nat /\ Len(sent) <= Len(sent')
      /\ \A i \in 1 .. Len(sent) : sent'[i] = sent[i]
      /\ \A i \in 1 .. Len(sent') : i \notin 1 .. Len(sent) =>
           i = Len(sent) + 1 /\ LastOf(i).mid' = m /\ LastOf(i).status' = st
  <2>1. CASE sent' = sent
    BY <1>1, <2>1
  <2>2. CASE c = 0 \/ m = ctxs[c].last
    BY <1>1, <2>2 DEF Gave
  <2> QED BY <2>1, <2>2 DEF Gave
<1>4. Len(ctxs') = Len(ctxs)
  BY DEF Gave
<1>5. ASSUME NEW d \in 1 .. Len(ctxs)
      PROVE  /\ ctxs'[d].last = ctxs[d].last
             /\ Len(ctxs'[d].rsp) \in Nat /\ Len(ctxs[d].rsp) <= Len(ctxs'[d].rsp)
             /\ \A j \in 1 .. Len(ctxs[d].rsp) : ctxs'[d].rsp[j] = ctxs[d].rsp[j]
             /\ \A j \in 1 .. Len(ctxs'[d].rsp) :
                  j \notin 1 .. Len(ctxs[d].rsp) =>
                    /\ d = c /\ j = Len(ctxs[d].rsp) + 1
                    /\ ctxs'[d].rsp[j].mid = m /\ ctxs'[d].rsp[j].status = st
  <2>1. CASE ctxs'[d] = ctxs[d]
    BY <1>1, <2>1
  <2>2. CASE d = c /\ c # 0
    <3>1. /\ ctxs'[d].last = ctxs[d].last
          /\ Len(ctxs'[d].rsp) = Len(ctxs[d].rsp) + 1
          /\ \A j \in 1 .. Len(ctxs[d].rsp) : ctxs'[d].rsp[j] = ctxs[d].rsp[j]
          /\ \A j \in 1 .. Len(ctxs'[d].rsp) : j \notin 1 .. Len(ctxs[d].rsp) =>
               ctxs'[d].rsp[j].mid = m /\ ctxs'[d].rsp[j].status = st
      BY <2>2 DEF Gave
    <3>2. Len(ctxs[d].rsp) \in Nat
      BY <1>1
    <3>3. /\ Len(ctxs'[d].rsp) \in Nat /\ Len(ctxs[d].rsp) <= Len(ctxs'[d].rsp)
          /\ \A j \in 1 .. Len(ctxs'[d].rsp) :
               j \notin 1 .. Len(ctxs[d].rsp) => j = Len(ctxs[d].rsp) + 1
      BY <3>1, <3>2
    <3> QED BY <2>2, <3>1, <3>3
  <2> QED BY <2>1, <2>2 DEF Gave
<1>6. /\ Through' \in Nat /\ \A k \in 1 .. Through : reqs'[k] = reqs[k]
         /\ (k \in ran' <=> k \in ran)
  BY DEF Fits
<1>7. Grown
  BY <1>1, <1>2, <1>3, <1>4, <1>5, <1>6 DEF Grown
<1> QED BY <1>3, <1>4, <1>5, <1>7

(* A new frame is the answer itself or all of its context,                   *)
LEMMA GaveSources ==
  ASSUME IInv, Sources, NEW m, NEW c, NEW st, Gave(m, c, st), Fits(m, c)
  PROVE  Sources'
<1>1. Grown
  BY GaveGrown
<1>2. ASSUME NEW i \in 1 .. Len(sent'), i \notin 1 .. Len(sent) PROVE (Single(i) \/ OfChain(i))'
  <2>1. LastOf(i).mid' = m /\ reqs' = reqs
    BY <1>2, GaveGrown DEF Fits
  <2>2. CASE c = 0
    <3>1. Len(sent'[i].rsp) = 1
      BY <1>2, <2>2 DEF Gave
    <3>2. IF Out(m)' THEN reqs[m].cmd # "cancel" ELSE reqs[m].ctx = 0
      BY <2>2 DEF Fits
    <3>3. Out(m)' <=> Out(LastOf(i).mid)'
      BY <2>1 DEF Out
    <3>4. Single(i)'
      BY <2>1, <3>1, <3>2, <3>3 DEF Single
    <3> QED BY <3>4
  <2>3. CASE c # 0
    <3>1. m = ctxs[c].last
      BY <1>2, <2>3 DEF Gave
    <3>2. sent'[i].rsp = ctxs'[c].rsp /\ c \in 1 .. Len(ctxs)
      BY <1>2, <2>3, <3>1 DEF Gave
    <3>3. Len(ctxs'[c].rsp) \in Nat /\ ctxs'[c].last = m
      BY <2>3, <3>1, <3>2, <1>1, GaveGrown DEF Grown
    <3>4. c = reqs'[m].ctx
      BY <2>1, <2>3 DEF Fits
    <3>5. Len(sent'[i].rsp) <= Len(ctxs'[c].rsp)
      BY <3>2, <3>3
    <3>6. OfChain(i)'
      BY <2>1, <2>3, <3>2, <3>3, <3>4, <3>5 DEF OfChain
    <3> QED BY <3>6
  <2> QED BY <2>2, <2>3
<1>3. \A i \in 1 .. Len(sent) : (Single(i) \/ OfChain(i))'
  BY <1>1, StillSources
<1> QED BY <1>2, <1>3 DEF Sources

(* ... ends in an answer no other frame ends in, or the others are pending,  *)
LEMMA GaveFrames ==
  ASSUME IInv, FramesOnce, NEW m, NEW c, NEW st, Gave(m, c, st), Fits(m, c)
  PROVE  FramesOnce'
<1>1. Grown
  BY GaveGrown
<1>2. ASSUME NEW k \in 1 .. Len(sent), LastOf(k).mid = m
      PROVE  IF reqs[m].ctx = 0 THEN LastOf(k).status = "pending" ELSE reqs[m].cmd = "notify"
  <2>1. m \in 1 .. Through /\ Through \in Nat
    BY <1>2, Heard
  <2>2. m # Through + 1
    BY <2>1
  <2>3. Pending(m) /\ c = reqs[m].ctx /\ (c # 0 => reqs[m].cmd = "notify")
    BY <2>2 DEF Fits
  <2> QED BY <1>2, <2>3 DEF Pending
<1>3. reqs' = reqs
  BY DEF Fits
<1>4. ASSUME NEW i \in 1 .. Len(sent'), NEW k \in 1 .. Len(sent'), i # k,
             LastOf(i).mid' = LastOf(k).mid'
      PROVE  Twice(i, k)'
  <2>1. CASE i \in 1 .. Len(sent) /\ k \in 1 .. Len(sent)
    <3>1. LastOf(i)' = LastOf(i) /\ LastOf(k)' = LastOf(k)
      BY <1>1, <2>1, StillOut
    <3>2. LastOf(i).mid = LastOf(k).mid
      BY <1>4, <3>1
    <3> QED BY <1>1, <1>4, <2>1, <3>2, StillTwice
  <2>2. CASE i \notin 1 .. Len(sent) /\ k \in 1 .. Len(sent)
    <3>1. LastOf(k)' = LastOf(k) /\ LastOf(i).mid' = m
      BY <1>1, <2>2, StillOut, GaveGrown
    <3>2. LastOf(k).mid = m
      BY <1>4, <3>1
    <3>3. IF reqs[m].ctx = 0 THEN LastOf(k).status = "pending" ELSE reqs[m].cmd = "notify"
      BY <1>2, <2>2, <3>2
    <3>4. LastOf(k).status' = LastOf(k).status
      BY <3>1
    <3> QED BY <1>3, <3>1, <3>3, <3>4 DEF Twice
  <2>3. CASE i \in 1 .. Len(sent) /\ k \notin 1 .. Len(sent)
    <3>1. LastOf(i)' = LastOf(i) /\ LastOf(k).mid' = m
      BY <1>1, <2>3, StillOut, GaveGrown
    <3>2. LastOf(i).mid = m /\ LastOf(i).mid' = m
      BY <1>4, <3>1
    <3>3. IF reqs[m].ctx = 0 THEN LastOf(i).status = "pending" ELSE reqs[m].cmd = "notify"
      BY <1>2, <2>3, <3>2
    <3>4. LastOf(i).status' = LastOf(i).status
      BY <3>1
    <3> QED BY <1>3, <3>2, <3>3, <3>4 DEF Twice
  <2>4. CASE i \notin 1 .. Len(sent) /\ k \notin 1 .. Len(sent)
    BY <1>4, <2>4, GaveGrown
  <2> QED BY <2>1, <2>2, <2>3, <2>4
<1> QED BY <1>4 DEF FramesOnce

(* ... and a context gets it only after pending ones;                        *)
LEMMA GaveContexts ==
  ASSUME IInv, CtxOnce, NEW m, NEW c, NEW st, Gave(m, c, st), Fits(m, c)
  PROVE  CtxOnce'
<1>1. Grown
  BY GaveGrown
<1>2. ASSUME NEW k \in 1 .. Len(ctxs[c].rsp), c # 0, ctxs[c].rsp[k].mid = m
      PROVE  ctxs[c].rsp[k].status = "pending"
  <2>1. c \in 1 .. Len(ctxs)
    BY <1>2 DEF Gave
  <2>2. m \in 1 .. Through /\ Through \in Nat
    BY <1>2, <2>1, Heard
  <2>3. m # Through + 1
    BY <2>2
  <2>4. Pending(m) /\ c = reqs[m].ctx
    BY <2>3 DEF Fits
  <2> QED BY <1>2, <2>4 DEF Pending
<1>3. ASSUME NEW d \in 1 .. Len(ctxs), NEW j \in 1 .. Len(ctxs'[d].rsp)
      PROVE  /\ ~Out(ctxs[d].rsp[j].mid)'
             /\ \A k \in 1 .. Len(ctxs'[d].rsp) :
                  j # k /\ ctxs'[d].rsp[j].mid = ctxs'[d].rsp[k].mid =>
                    ctxs'[d].rsp[j].status = "pending" \/ ctxs'[d].rsp[k].status = "pending"
  <2>1. PICK z : z = ctxs'[d].rsp[j].mid
    OBVIOUS
  <2>2. Out(ctxs[d].rsp[j].mid)' <=> Out(z)'
    BY <2>1 DEF Out
  <2>3. CASE j \in 1 .. Len(ctxs[d].rsp)
    <3>1. ctxs'[d].rsp[j] = ctxs[d].rsp[j]
      BY <1>1, <2>3 DEF Grown
    <3>2. z \in 1 .. Through /\ ~Out(z)
      BY <2>1, <2>3, <3>1, Heard DEF CtxOnce
    <3>3. ~Out(z)'
      BY <1>1, <3>2, StillOut
    <3>4. ASSUME NEW k \in 1 .. Len(ctxs'[d].rsp), j # k, ctxs'[d].rsp[k].mid = z
          PROVE  ctxs'[d].rsp[j].status = "pending" \/ ctxs'[d].rsp[k].status = "pending"
      <4>1. CASE k \in 1 .. Len(ctxs[d].rsp)
        <5>1. ctxs'[d].rsp[k] = ctxs[d].rsp[k]
          BY <1>1, <4>1 DEF Grown
        <5> QED BY <2>1, <2>3, <3>1, <3>4, <4>1, <5>1 DEF CtxOnce
      <4>2. CASE k \notin 1 .. Len(ctxs[d].rsp)
        <5>1. d = c /\ z = m
          BY <3>4, <4>2, GaveGrown
        <5>2. c # 0
          BY <5>1, Heard
        <5> QED BY <1>2, <2>1, <2>3, <3>1, <5>1, <5>2
      <4> QED BY <4>1, <4>2
    <3> QED BY <2>1, <2>2, <3>3, <3>4
  <2>4. CASE j \notin 1 .. Len(ctxs[d].rsp)
    <3>1. d = c /\ j = Len(ctxs[d].rsp) + 1 /\ z = m /\ c # 0
      BY <2>1, <2>4, GaveGrown, Heard
    <3>2. ~Out(z)'
      BY <3>1 DEF Fits
    <3>3. ASSUME NEW k \in 1 .. Len(ctxs'[d].rsp), j # k, ctxs'[d].rsp[k].mid = z
          PROVE  ctxs'[d].rsp[k].status = "pending"
      <4>1. k \in 1 .. Len(ctxs[d].rsp)
        BY <3>1, <3>3, GaveGrown
      <4>2. ctxs'[d].rsp[k] = ctxs[d].rsp[k]
        BY <1>1, <4>1 DEF Grown
      <4> QED BY <1>2, <3>1, <3>3, <4>1, <4>2
    <3> QED BY <2>1, <2>2, <3>2, <3>3
  <2> QED BY <2>3, <2>4
<1>4. Len(ctxs') = Len(ctxs)
  BY GaveGrown
<1> QED BY <1>3, <1>4 DEF CtxOnce

(* what is left to be answered has only pending answers,                     *)
LEMMA GaveOpen ==
  ASSUME IInv, Open, NEW m, NEW c, NEW st, Gave(m, c, st), Fits(m, c), LeftOpen(m, st)
  PROVE  Open'
<1>1. Grown /\ reqs' = reqs
  BY GaveGrown DEF Fits
<1>2. ASSUME NEW k \in 1 .. Through, Pending(k), k # m PROVE Pending(k)'
  <2>1. \A i \in 1 .. Len(sent') : i \notin 1 .. Len(sent) => LastOf(i).mid' # k
    BY <1>2, GaveGrown
  <2>2. \A d \in 1 .. Len(ctxs) : \A j \in 1 .. Len(ctxs'[d].rsp) :
          j \notin 1 .. Len(ctxs[d].rsp) => ctxs'[d].rsp[j].mid # k
    BY <1>2, GaveGrown
  <2> QED BY <1>1, <1>2, <2>1, <2>2, StillPending
<1>3. ASSUME st = "pending", m = Through + 1 PROVE Pending(m)'
  <2>1. Through \in Nat /\ m \notin 1 .. Through
    BY <1>3, Heard
  <2>2. ASSUME NEW i \in 1 .. Len(sent'), LastOf(i).mid' = m PROVE LastOf(i).status' = "pending"
    <3>1. CASE i \in 1 .. Len(sent)
      <4>1. LastOf(i)' = LastOf(i)
        BY <1>1, <3>1, StillOut
      <4>2. LastOf(i).mid \in 1 .. Through
        BY <3>1, Heard
      <4> QED BY <2>1, <2>2, <4>1, <4>2
    <3>2. CASE i \notin 1 .. Len(sent)
      BY <1>3, <3>2, GaveGrown
    <3> QED BY <3>1, <3>2
  <2>3. ASSUME NEW d \in 1 .. Len(ctxs), NEW j \in 1 .. Len(ctxs'[d].rsp), ctxs'[d].rsp[j].mid = m
        PROVE  ctxs'[d].rsp[j].status = "pending"
    <3>1. CASE j \in 1 .. Len(ctxs[d].rsp)
      <4>1. ctxs'[d].rsp[j] = ctxs[d].rsp[j]
        BY <1>1, <3>1 DEF Grown
      <4>2. ctxs[d].rsp[j].mid \in 1 .. Through
        BY <3>1, Heard
      <4> QED BY <2>1, <2>3, <4>1, <4>2
    <3>2. CASE j \notin 1 .. Len(ctxs[d].rsp)
      BY <1>3, <3>2, GaveGrown
    <3> QED BY <3>1, <3>2
  <2>4. reqs[m].ctx # 0 => reqs[m].ctx \in 1 .. Len(ctxs)
    <3>1. m \in 1 .. Len(reqs)
      BY DEF Fits
    <3> QED BY <3>1, Heard
  <2> QED BY <1>1, <2>2, <2>3, <2>4 DEF Pending
<1>4. waiting \subseteq [mid : 1 .. Through, fid : Mids] /\ writing \in 0 .. Through
        /\ Through \in Nat
  BY Heard DEF IInv, TypeInv
<1>5. ASSUME NEW w \in waiting' PROVE Pending(w.mid)'
  <2>1. PICK z : z = w.mid
    OBVIOUS
  <2>2. Pending(z)'
    <3>1. CASE w \in waiting /\ w.mid # m
      <4>1. Pending(z) /\ z \in 1 .. Through
        BY <1>4, <2>1, <3>1 DEF Open
      <4> QED BY <1>2, <2>1, <3>1, <4>1
    <3>2. CASE w.mid = m /\ st = "pending" /\ m = Through + 1
      BY <1>3, <2>1, <3>2
    <3> QED BY <3>1, <3>2 DEF LeftOpen
  <2> QED BY <2>1, <2>2
<1>6. ASSUME writing' # 0
      PROVE  reqs'[writing'].ctx = 0 /\ reqs'[writing'].cmd = "write" /\ Pending(writing)'
  <2>1. PICK z : z = writing'
    OBVIOUS
  <2>2. reqs[z].ctx = 0 /\ reqs[z].cmd = "write" /\ Pending(z)'
    <3>1. CASE writing' = writing /\ writing # m
      <4>1. Pending(z) /\ z \in 1 .. Through /\ reqs[z].ctx = 0 /\ reqs[z].cmd = "write"
        BY <1>4, <1>6, <2>1, <3>1 DEF Open
      <4> QED BY <1>2, <2>1, <3>1, <4>1
    <3>2. CASE /\ writing' = m /\ st = "pending" /\ m = Through + 1
               /\ reqs[m].ctx = 0 /\ reqs[m].cmd = "write"
      BY <1>3, <2>1, <3>2
    <3> QED BY <1>6, <3>1, <3>2 DEF LeftOpen
  <2>3. Pending(z)' <=> Pending(writing)'
    BY <2>1 DEF Pending
  <2> QED BY <1>1, <2>1, <2>2, <2>3
<1> QED BY <1>5, <1>6 DEF Open, LeftOpen

(* and everything taken is answered, and sent with its context.              *)
LEMMA GaveAll ==
  ASSUME IInv, Ended, All, NEW m, NEW c, NEW st, Gave(m, c, st), Fits(m, c)
  PROVE  All'
<1>1. Grown /\ reqs' = reqs
  BY GaveGrown DEF Fits
<1>2. Through \in Nat /\ Len(sent) \in Nat /\ \A k \in 1 .. Through' : k \in 1 .. Through \/ k = m
  BY Heard DEF Fits
<1>3. ASSUME m \notin 1 .. Through PROVE Answered(m)'
  <2>1. CASE c = 0
    <3>1. Len(sent) + 1 \in 1 .. Len(sent') /\ Len(sent) + 1 \notin 1 .. Len(sent)
      BY <1>2, <2>1 DEF Gave
    <3>2. PICK i \in 1 .. Len(sent') : i \notin 1 .. Len(sent)
      BY <3>1
    <3>3. LastOf(i).mid' = m /\ Len(sent'[i].rsp) = 1
      BY <2>1, <3>2 DEF Gave
    <3>4. sent'[i].rsp[1].mid = m
      BY <3>3 DEF LastOf
    <3>5. Out(m)' \/ reqs'[m].ctx = 0
      BY <1>1, <2>1 DEF Fits
    <3> QED BY <3>4, <3>5 DEF Answered
  <2>2. CASE c # 0
    <3>1. c \in 1 .. Len(ctxs) /\ Len(ctxs'[c].rsp) = Len(ctxs[c].rsp) + 1
      BY <2>2 DEF Gave
    <3>2. Len(ctxs[c].rsp) \in Nat
      BY <3>1, Heard
    <3>3. Len(ctxs[c].rsp) + 1 \in 1 .. Len(ctxs'[c].rsp)
            /\ Len(ctxs[c].rsp) + 1 \notin 1 .. Len(ctxs[c].rsp)
      BY <3>1, <3>2
    <3>4. PICK j \in 1 .. Len(ctxs'[c].rsp) : j \notin 1 .. Len(ctxs[c].rsp)
      BY <3>3
    <3>5. ctxs'[c].rsp[j].mid = m
      BY <2>2, <3>4 DEF Gave
    <3>6. c = reqs'[m].ctx /\ ~Out(m)'
      BY <1>1, <2>2 DEF Fits
    <3> QED BY <2>2, <3>4, <3>5, <3>6 DEF Answered
  <2> QED BY <2>1, <2>2
<1>4. ASSUME NEW k \in 1 .. Through' PROVE Answered(k)'
  <2>1. CASE k \in 1 .. Through
    BY <1>1, <2>1, StillAnswered DEF All
  <2>2. CASE k \notin 1 .. Through
    BY <1>2, <1>3, <2>2
  <2> QED BY <2>1, <2>2
<1>5. ASSUME NEW d \in 1 .. Len(ctxs'), ctxs'[d].last \in 1 .. Through', ~Out(ctxs[d].last)'
      PROVE  Complete(d)'
  <2>1. PICK z : z = ctxs'[d].last
    OBVIOUS
  <2>2. d \in 1 .. Len(ctxs) /\ ctxs[d].last = z /\ z \in 1 .. Through' /\ ~Out(z)'
    BY <1>5, <2>1, GaveGrown DEF Out
  <2>3. CASE z \in 1 .. Through
    <3>1. ~Out(z)
      BY <1>1, <2>2, <2>3, StillOut
    <3>2. Complete(d)
      BY <2>2, <2>3, <3>1 DEF All, Out
    <3> QED BY <1>1, <2>2, <2>3, <3>2, StillComplete
  <2>4. CASE z \notin 1 .. Through
    <3>1. z = m /\ z # 0
      BY <1>2, <2>2, <2>4 DEF Fits
    <3>2. reqs[m].ctx = d
      BY <2>2, <3>1 DEF Ended
    <3>3. d # 0
      BY <2>2, Heard
    <3>4. c = d
      BY <2>2, <3>1, <3>2, <3>3 DEF Fits
    <3>5. m = ctxs[c].last /\ c # 0
      BY <2>2, <3>1, <3>3, <3>4
    <3>6. Len(sent) + 1 \in 1 .. Len(sent') /\ Len(sent) + 1 \notin 1 .. Len(sent)
      BY <1>2, <3>5 DEF Gave
    <3>7. PICK i \in 1 .. Len(sent') : i \notin 1 .. Len(sent)
      BY <3>6
    <3>8. sent'[i].rsp = ctxs'[d].rsp
      BY <3>4, <3>5, <3>7 DEF Gave
    <3>9. ASSUME NEW k \in 1 .. z, reqs'[k].ctx = d, ~Out(k)'
          PROVE  \E j \in 1 .. Len(sent'[i].rsp) : sent'[i].rsp[j].mid = k
      <4>1. k \in 1 .. Through'
        BY <2>2 DEF Fits
      <4>2. Answered(k)'
        BY <1>4, <4>1
      <4>3. PICK j \in 1 .. Len(ctxs'[d].rsp) : ctxs'[d].rsp[j].mid = k
        BY <3>3, <3>9, <4>2 DEF Answered
      <4> QED BY <3>8, <4>3
    <3> QED BY <2>1, <3>7, <3>9 DEF Complete
  <2> QED BY <2>3, <2>4
<1> QED BY <1>4, <1>5 DEF All

(* A step that answers.                                                      *)
LEMMA GaveOnce ==
  ASSUME IInv, Ended, Once, NEW m, NEW c, NEW st, Gave(m, c, st), Fits(m, c), LeftOpen(m, st)
  PROVE  Once'
BY GaveSources, GaveFrames, GaveContexts, GaveOpen, GaveAll DEF Once

(* A step that takes a request, if any, that has no answer.                  *)
LEMMA QuietOnce ==
  ASSUME IInv, Once, Grown, sent' = sent,
         \A c \in 1 .. Len(ctxs) : ctxs'[c].rsp = ctxs[c].rsp,
         \A m \in 1 .. Through' : m \in 1 .. Through \/ (Out(m)' /\ reqs'[m].cmd = "cancel"),
         waiting' \subseteq waiting, writing' = 0 \/ writing' = writing
  PROVE  Once'
<1>1. Sources'
  BY StillSources DEF Once, Sources
<1>2. FramesOnce'
  <2>1. ASSUME NEW i \in 1 .. Len(sent), NEW k \in 1 .. Len(sent), i # k,
               LastOf(i).mid' = LastOf(k).mid'
        PROVE  Twice(i, k)'
    <3>1. LastOf(i)' = LastOf(i) /\ LastOf(k)' = LastOf(k)
      BY StillOut
    <3>2. LastOf(i).mid = LastOf(k).mid
      BY <2>1, <3>1
    <3> QED BY <2>1, <3>2, StillTwice DEF Once
  <2> QED BY <2>1 DEF FramesOnce
<1>3. CtxOnce'
  <2>1. ASSUME NEW c \in 1 .. Len(ctxs'), NEW j \in 1 .. Len(ctxs'[c].rsp)
        PROVE  /\ ~Out(ctxs[c].rsp[j].mid)'
               /\ \A k \in 1 .. Len(ctxs'[c].rsp) :
                    j # k /\ ctxs'[c].rsp[j].mid = ctxs'[c].rsp[k].mid =>
                      ctxs'[c].rsp[j].status = "pending" \/ ctxs'[c].rsp[k].status = "pending"
    <3>1. c \in 1 .. Len(ctxs)
      <4>1. c \notin 1 .. Len(ctxs) => ctxs'[c].rsp = <<>>
        BY DEF Grown
      <4> QED BY <2>1, <4>1
    <3>2. ctxs'[c].rsp = ctxs[c].rsp
      BY <3>1
    <3>3. PICK z : z = ctxs[c].rsp[j].mid
      OBVIOUS
    <3>4. z \in 1 .. Through /\ ~Out(z)
      BY <3>1, <3>2, <3>3, Heard DEF Once, CtxOnce
    <3>5. ~Out(z)'
      BY <3>4, StillOut
    <3>6. Out(ctxs[c].rsp[j].mid)' <=> Out(z)'
      BY <3>2, <3>3 DEF Out
    <3> QED BY <3>1, <3>2, <3>5, <3>6 DEF Once, CtxOnce
  <2> QED BY <2>1 DEF CtxOnce
<1>4. Open'
  <2>1. ASSUME NEW m \in 1 .. Through, Pending(m) PROVE Pending(m)'
    BY <2>1, StillPending
  <2>2. waiting \subseteq [mid : 1 .. Through, fid : Mids] /\ writing \in 0 .. Through
          /\ Through \in Nat
    BY Heard DEF IInv, TypeInv
  <2>3. ASSUME NEW w \in waiting' PROVE Pending(w.mid)'
    <3>1. PICK z : z = w.mid
      OBVIOUS
    <3>2. z \in 1 .. Through /\ Pending(z)
      BY <2>2, <3>1 DEF Once, Open
    <3>3. Pending(z)'
      BY <2>1, <3>2
    <3> QED BY <3>1, <3>3
  <2>4. ASSUME writing' # 0
        PROVE  reqs'[writing'].ctx = 0 /\ reqs'[writing'].cmd = "write" /\ Pending(writing)'
    <3>1. PICK z : z = writing'
      OBVIOUS
    <3>2. /\ z \in 1 .. Through /\ Pending(z) /\ reqs[z].ctx = 0 /\ reqs[z].cmd = "write"
      BY <2>2, <2>4, <3>1 DEF Once, Open
    <3>3. Pending(z)' /\ reqs'[z] = reqs[z]
      BY <2>1, <3>2, StillOut
    <3>4. Pending(z)' <=> Pending(writing)'
      BY <3>1 DEF Pending
    <3> QED BY <3>1, <3>2, <3>3, <3>4
  <2>5. \A w \in waiting', v \in waiting' : w.mid = v.mid => w = v
    BY DEF Once, Open
  <2> QED BY <2>3, <2>4, <2>5 DEF Open
<1>5. All'
  <2>1. ASSUME NEW k \in 1 .. Through' PROVE Answered(k)'
    <3>1. CASE k \in 1 .. Through
      BY <3>1, StillAnswered DEF Once, All
    <3>2. CASE Out(k)' /\ reqs'[k].cmd = "cancel"
      BY <3>2 DEF Answered
    <3> QED BY <3>1, <3>2
  <2>2. ASSUME NEW d \in 1 .. Len(ctxs'), ctxs'[d].last \in 1 .. Through', ~Out(ctxs[d].last)'
        PROVE  Complete(d)'
    <3>1. PICK z : z = ctxs'[d].last
      OBVIOUS
    <3>2. z \in 1 .. Through' /\ ~Out(z)' /\ z # 0
      BY <2>2, <3>1, Heard DEF Out, Grown
    <3>3. z \in 1 .. Through
      BY <3>2
    <3>4. d \in 1 .. Len(ctxs) /\ ctxs[d].last = z
      BY <3>1, <3>2 DEF Grown
    <3>5. ~Out(z)
      BY <3>2, <3>3, StillOut
    <3>6. Complete(d)
      BY <3>3, <3>4, <3>5 DEF Once, All, Out
    <3> QED BY <3>3, <3>4, <3>6, StillComplete
  <2> QED BY <2>1, <2>2 DEF All
<1> QED BY <1>1, <1>2, <1>3, <1>4, <1>5 DEF Once

-----------------------------------------------------------------------------
(* A step of Run that answers its request through context c, or alone: it    *)
(* may do so outside of the chain only for the commands that are, and what   *)
(* it leaves behind it has answered as pending.                              *)
RunAnswers(c, st) ==
  /\ Taken
  /\ ran' = ran \/ (ran' = ran \cup {R.mid} /\ R.cmd # "cancel")
  /\ c = 0 => R.ctx = 0 \/ (ran' = ran \cup {R.mid} /\ R.cmd \in OutsideCmds)
  /\ c # 0 => c = R.ctx /\ (ran' = ran \/ R.cmd \notin OutsideCmds)
  /\ \/ waiting' = waiting
     \/ st = "pending" /\ \E x : waiting' = waiting \cup {[mid |-> R.mid, fid |-> x]}
  /\ \/ writing' = 0
     \/ writing' = R.mid /\ st = "pending" /\ R.ctx = 0 /\ R.cmd = "write"

(* Such a step keeps the answers in order.                                   *)
LEMMA TakenOnce ==
  ASSUME IInv, Ended, Once, NEW c \in 0 .. Len(ctxs), NEW st \in Statuses, RunAnswers(c, st),
         NEW ss \in Sessions \cup {None}, SendPacket(R.mid, c, st, ss)
  PROVE  Once'
<1>1. PICK m, t : m = enq /\ t = Through
  OBVIOUS
<1>2. /\ m \in 1 .. Len(reqs) /\ m \in Mids /\ R.mid = m /\ t + 1 = m /\ Through' = m
      /\ reqs' = reqs /\ t \in Nat /\ R = reqs[m] /\ R.ctx \in 0 .. Len(ctxs)
  <2>1. TypeInv /\ Numbers /\ Taken
    BY DEF IInv, RunAnswers
  <2> QED BY <1>1, <2>1, TakenFacts DEF R
<1>3. Gave(m, c, st)
  BY <1>2, Gives
<1>4. ran \subseteq 1 .. t /\ waiting \subseteq [mid : 1 .. t, fid : Mids] /\ m \notin 1 .. t
  BY <1>1, <1>2 DEF IInv, TypeInv
<1>5. Fits(m, c)
  <2>1. \A k \in 1 .. Through : k \in ran' <=> k \in ran
    BY <1>1, <1>2, <1>4 DEF RunAnswers
  <2>2. Out(m)' <=> m \in ran' /\ R.cmd \in OutsideCmds
    BY <1>2 DEF Out
  <2>3. ran' = ran => ~Out(m)'
    BY <1>4, <2>2
  <2>4. c = 0 => IF Out(m)' THEN reqs[m].cmd # "cancel" ELSE reqs[m].ctx = 0
    <3>1. SUFFICES ASSUME c = 0 PROVE IF Out(m)' THEN R.cmd # "cancel" ELSE R.ctx = 0
      BY <1>2
    <3>2. CASE ran' = ran
      <4>1. R.ctx = 0 \/ R.mid \in ran'
        BY <3>1 DEF RunAnswers
      <4> QED BY <1>2, <1>4, <2>3, <3>2, <4>1
    <3>3. CASE ran' = ran \cup {R.mid} /\ R.cmd # "cancel"
      BY <1>2, <2>2, <3>1, <3>3 DEF RunAnswers
    <3> QED BY <3>2, <3>3 DEF RunAnswers
  <2>5. c # 0 => c = reqs[m].ctx /\ ~Out(m)'
    BY <1>2, <2>2, <2>3 DEF RunAnswers
  <2>6. m \in 1 .. Through' /\ Through' \in Nat /\ m = Through + 1
    BY <1>1, <1>2
  <2> QED BY <1>2, <2>1, <2>4, <2>5, <2>6 DEF Fits
<1>6. LeftOpen(m, st)
  <2>1. m = Through + 1
    BY <1>1, <1>2
  <2>2. \A w \in waiting : w.mid # m
    BY <1>4
  <2>3. ASSUME NEW w \in waiting', w \notin waiting
        PROVE  st = "pending" /\ w.mid = m /\ \A v \in waiting' : v \notin waiting => v = w
    <3>1. PICK x : st = "pending" /\ waiting' = waiting \cup {[mid |-> m, fid |-> x]}
      BY <1>2, <2>3 DEF RunAnswers
    <3> QED BY <2>3, <3>1
  <2>4. \A w \in waiting, v \in waiting : w.mid = v.mid => w = v
    BY DEF Once, Open
  <2>5. \A w \in waiting', v \in waiting' : w.mid = v.mid => w = v
    BY <2>2, <2>3, <2>4
  <2>6. writing' # 0 => /\ writing' = m /\ st = "pending"
                        /\ reqs[m].ctx = 0 /\ reqs[m].cmd = "write"
    BY <1>2 DEF RunAnswers
  <2> QED BY <2>1, <2>2, <2>3, <2>5, <2>6 DEF LeftOpen
<1> QED BY <1>3, <1>5, <1>6, GaveOnce

(* The session and the context of the request Run takes.                     *)
LEMMA SelectedType ==
  ASSUME IInv, Taken
  PROVE  Selected \in Sessions \cup {None} /\ R.ctx \in 0 .. Len(ctxs) /\ 0 \in 0 .. Len(ctxs)
         /\ writing = 0
<1>1. TypeInv /\ Numbers
  BY DEF IInv
<1>2. R \in ReqType /\ R.ctx \in 0 .. Len(ctxs)
  BY <1>1, TakenFacts
<1>3. active \in Sessions \cup {None} /\ Len(ctxs) \in Nat /\ writing = 0
  BY <1>1 DEF TypeInv, Taken
<1> QED BY <1>2, <1>3 DEF Selected, ReqType

(* An answer in the chain,                                                   *)
LEMMA ChainOnce ==
  ASSUME IInv, Ended, Once, NEW st \in Statuses, AnswerInChain(st), Taken,
         ran' = ran \/ (ran' = ran \cup {R.mid} /\ R.cmd \notin OutsideCmds),
         \/ waiting' = waiting
         \/ st = "pending" /\ \E x : waiting' = waiting \cup {[mid |-> R.mid, fid |-> x]},
         writing' = writing
  PROVE  Once'
<1>1. PICK c, ss : c = R.ctx /\ ss = Selected
  OBVIOUS
<1>2. c \in 0 .. Len(ctxs) /\ ss \in Sessions \cup {None} /\ writing' = 0
  BY <1>1, SelectedType
<1>3. "cancel" \in OutsideCmds
  BY DEF OutsideCmds
<1>4. RunAnswers(c, st)
  BY <1>1, <1>2, <1>3 DEF RunAnswers
<1>5. SendPacket(R.mid, c, st, ss)
  BY <1>1 DEF AnswerInChain
<1> QED BY <1>2, <1>4, <1>5, TakenOnce

(* and an answer outside of it.                                              *)
LEMMA AloneOnce ==
  ASSUME IInv, Ended, Once, NEW st \in Statuses, AnswerAlone(st), Taken,
         ran' = ran \cup {R.mid}, R.cmd # "cancel", waiting' = waiting,
         \/ R.cmd \in OutsideCmds /\ writing' = writing
         \/ R.ctx = 0 /\ R.cmd = "write" /\ st = "pending" /\ writing' = R.mid
  PROVE  Once'
<1>1. PICK c, ss : c = 0 /\ ss = Selected
  OBVIOUS
<1>2. c \in 0 .. Len(ctxs) /\ ss \in Sessions \cup {None} /\ writing = 0
  BY <1>1, SelectedType
<1>4. RunAnswers(c, st)
  BY <1>1, <1>2 DEF RunAnswers
<1>5. SendPacket(R.mid, c, st, ss)
  BY <1>1 DEF AnswerAlone
<1> QED BY <1>2, <1>4, <1>5, TakenOnce

(* Run takes a request.                                                      *)
LEMMA RunOnce ==
  ASSUME IInv, Ended, Once,
         \/ NoSuchSession \/ EchoOrLogoff \/ TreeConnect \/ TreeDisconnect
         \/ NoSuchTree \/ RefusedInChain \/ Handler
  PROVE  Once'
<1>1. \A cmd : Handled(cmd) => Taken /\ R.cmd = cmd /\ ran' = ran \cup {R.mid}
  BY DEF Handled, TreeCommand
<1>2. /\ "cancel" \in OutsideCmds /\ "echo" \in OutsideCmds /\ "logoff" \in OutsideCmds
      /\ "connect" \in OutsideCmds /\ "disconnect" \in OutsideCmds
      /\ \A cmd \in {"create", "close", "use", "flush", "write", "notify", "other"} :
           cmd \notin OutsideCmds
  BY DEF OutsideCmds
<1>3. CASE NoSuchSession \/ NoSuchTree \/ RefusedInChain
  <2>1. Taken /\ ran' = ran /\ writing' = writing /\ waiting' = waiting
    BY <1>3 DEF NoSuchSession, NoSuchTree, RefusedInChain, TreeCommand
  <2>2. PICK st \in Statuses : AnswerInChain(st)
    <3>1. CASE NoSuchSession
      BY <3>1, StatusNames DEF NoSuchSession
    <3>2. CASE NoSuchTree
      BY <3>2, StatusNames DEF NoSuchTree
    <3>3. CASE RefusedInChain
      <4>1. PICK c, st : c = R.ctx /\ st = ctxs[c].status
        OBVIOUS
      <4>2. c \in 1 .. Len(ctxs) /\ AnswerInChain(st)
        BY <2>1, <3>3, <4>1, SelectedType, Heard DEF RefusedInChain, ChainFailed
      <4>3. ctxs \in Seq(CtxType) /\ ctxs[c] \in CtxType
        BY <4>2 DEF IInv, TypeInv
      <4>4. st \in Statuses
        BY <4>1, <4>3 DEF CtxType
      <4> QED BY <4>2, <4>4
    <3> QED BY <1>3, <3>1, <3>2, <3>3
  <2> QED BY <2>1, <2>2, ChainOnce
<1>4. CASE EchoOrLogoff \/ TreeConnect \/ TreeDisconnect
  <2>1. /\ Taken /\ ran' = ran \cup {R.mid} /\ writing' = writing /\ waiting' = waiting
        /\ R.cmd \in {"echo", "logoff", "connect", "disconnect"}
    BY <1>4 DEF EchoOrLogoff, TreeConnect, TreeDisconnect
  <2>2. PICK st \in Statuses : AnswerAlone(st)
    BY <1>4, StatusNames DEF EchoOrLogoff, TreeConnect, TreeDisconnect
  <2> QED BY <1>2, <2>1, <2>2, AloneOnce
<1>5. CASE Create \/ Close \/ Flush \/ Use \/ NotSupported
  <2>1. /\ Taken /\ ran' = ran \cup {R.mid} /\ writing' = writing /\ waiting' = waiting
        /\ R.cmd \in {"create", "close", "flush", "use", "other"}
    BY <1>1, <1>5 DEF Create, Close, Flush, Use, NotSupported
  <2>2. PICK st \in Statuses : AnswerInChain(st)
    <3>1. CASE Create BY <3>1, StatusNames DEF Create
    <3>2. CASE Close BY <3>2, StatusNames DEF Close
    <3>3. CASE Flush BY <3>3, StatusNames DEF Flush
    <3>4. CASE Use BY <3>4, StatusNames DEF Use
    <3>5. CASE NotSupported BY <3>5, StatusNames DEF NotSupported
    <3> QED BY <1>5, <3>1, <3>2, <3>3, <3>4, <3>5
  <2> QED BY <1>2, <2>1, <2>2, ChainOnce
<1>6. CASE Write
  <2>1. /\ Taken /\ ran' = ran \cup {R.mid} /\ waiting' = waiting /\ R.cmd = "write"
        /\ R.cmd \notin OutsideCmds /\ R.cmd # "cancel"
    BY <1>1, <1>2, <1>6 DEF Write
  <2>2. CASE AnswerInChain("badHandle") /\ UNCHANGED writing
    BY <2>1, <2>2, StatusNames, ChainOnce
  <2>3. CASE (\E st \in {"ok", "failed"} : AnswerInChain(st)) /\ UNCHANGED writing
    <3>1. PICK st \in Statuses : AnswerInChain(st)
      BY <2>3, StatusNames
    <3> QED BY <2>1, <2>3, <3>1, ChainOnce
  <2>4. CASE R.ctx = 0 /\ AnswerAlone("pending") /\ writing' = R.mid
    BY <2>1, <2>4, StatusNames, AloneOnce
  <2> QED BY <1>6, <2>2, <2>3, <2>4 DEF Write
<1>7. CASE ChangeNotify
  <2>1. /\ Taken /\ ran' = ran \cup {R.mid} /\ writing' = writing /\ R.cmd = "notify"
        /\ R.cmd \notin OutsideCmds
    BY <1>1, <1>2, <1>7 DEF ChangeNotify
  <2>2. CASE FileId \notin opens
    <3>1. PICK st \in Statuses : AnswerInChain(st)
      BY <1>7, <2>2, StatusNames DEF ChangeNotify
    <3>2. waiting' = waiting
      BY <1>7, <2>2 DEF ChangeNotify
    <3> QED BY <2>1, <3>1, <3>2, ChainOnce
  <2>3. CASE FileId \in opens
    <3>1. AnswerInChain("pending") /\ waiting' = waiting \cup {[mid |-> R.mid, fid |-> FileId]}
      BY <1>7, <2>3 DEF ChangeNotify
    <3> QED BY <2>1, <3>1, StatusNames, ChainOnce
  <2> QED BY <2>2, <2>3
<1>8. CASE Cancel
  <2>1. /\ Taken /\ ran' = ran \cup {R.mid} /\ R.cmd = "cancel" /\ ctxs' = ctxs /\ sent' = sent
        /\ writing' = writing /\ waiting' = waiting
    BY <1>1, <1>8 DEF Cancel
  <2>2. PICK m, t : m = enq /\ t = Through
    OBVIOUS
  <2>3. /\ R.mid = m /\ t + 1 = m /\ Through' = m /\ reqs' = reqs /\ t \in Nat /\ R = reqs[m]
    <3>1. TypeInv /\ Numbers
      BY DEF IInv
    <3> QED BY <2>1, <2>2, <3>1, TakenFacts DEF R
  <2>4. \A k \in 1 .. Through : k \in ran' <=> k \in ran
    BY <2>1, <2>2, <2>3
  <2>5. Grown
    <3>1. Through' \in Nat /\ Through <= Through'
      BY <2>2, <2>3
    <3>2. \A c \in 1 .. Len(ctxs) : Len(ctxs[c].rsp) \in Nat
      BY Heard
    <3> QED BY <2>1, <2>3, <2>4, <3>1, <3>2, Heard DEF Grown
  <2>6. \A k \in 1 .. Through' : k \in 1 .. Through \/ (Out(k)' /\ reqs'[k].cmd = "cancel")
    <3>1. Out(m)' /\ reqs'[m].cmd = "cancel"
      BY <1>2, <2>1, <2>3 DEF Out
    <3>2. \A k \in 1 .. Through' : k \in 1 .. Through \/ k = m
      BY <2>2, <2>3
    <3> QED BY <3>1, <3>2
  <2> QED BY <2>1, <2>5, <2>6, QuietOnce
<1> QED BY <1>3, <1>4, <1>5, <1>6, <1>7, <1>8 DEF Handler

(* The write's second answer.                                                *)
LEMMA WriteOnce ==
  ASSUME IInv, Ended, Once, WriteDone
  PROVE  Once'
<1>1. PICK m, ss : m = writing /\ ss = active
  OBVIOUS
<1>2. /\ m \in 1 .. Through /\ m \in Mids /\ Through' = Through /\ reqs' = reqs /\ ran' = ran
      /\ Through \in Nat /\ ss \in Sessions \cup {None} /\ m \in 1 .. Len(reqs)
      /\ waiting' = waiting /\ writing' = 0
  <2>1. TypeInv
    BY DEF IInv
  <2>2. writing \in 0 .. Through /\ writing # 0 /\ ss \in Sessions \cup {None}
    BY <1>1, <2>1 DEF WriteDone, TypeInv
  <2>3. Through' = Through
    BY DEF WriteDone, Through
  <2>4. m \in 1 .. Through
    BY <1>1, <2>1, <2>2, Known
  <2> QED BY <2>1, <2>2, <2>3, <2>4, Known DEF WriteDone
<1>3. PICK st \in {"ok", "failed"} : SendPacket(m, 0, st, ss)
  BY <1>1 DEF WriteDone
<1>4. st \in Statuses /\ 0 \in 0 .. Len(ctxs)
  BY Heard DEF Statuses
<1>5. Gave(m, 0, st)
  BY <1>2, <1>3, <1>4, Gives
<1>6. reqs[m].ctx = 0 /\ Pending(m) /\ reqs[m].cmd = "write"
  BY <1>1, <1>2 DEF Once, Open
<1>7. Fits(m, 0)
  <2>1. ~Out(m)'
    BY <1>2, <1>6 DEF Out, OutsideCmds
  <2> QED BY <1>2, <1>6, <2>1 DEF Fits
<1>8. LeftOpen(m, st)
  <2>1. \A w \in waiting : w.mid # m
    BY <1>6 DEF IInv, Owed
  <2> QED BY <1>2, <2>1 DEF LeftOpen, Once, Open
<1> QED BY <1>5, <1>7, <1>8, GaveOnce

(* The second answer of a CHANGE_NOTIFY.                                     *)
LEMMA NotifyOnce ==
  ASSUME IInv, Ended, Once, NEW w \in waiting, NotifyDone(w)
  PROVE  Once'
<1>1. PICK m, ss, c : m = w.mid /\ ss = active /\ c = reqs[w.mid].ctx
  OBVIOUS
<1>2. /\ Through' = Through /\ reqs' = reqs /\ ran' = ran /\ writing' = writing
      /\ waiting' = waiting \ {w}
      /\ Through \in Nat /\ ss \in Sessions \cup {None}
  BY <1>1, Heard DEF NotifyDone, IInv, TypeInv, Through
<1>3. /\ m \in 1 .. Through /\ m \in Mids /\ reqs[m].cmd = "notify" /\ c \in 0 .. Len(ctxs)
      /\ m \in 1 .. Len(reqs) /\ c = reqs[m].ctx
  <2>1. w \in [mid : 1 .. Through, fid : Mids] /\ TypeInv /\ Owed
    BY DEF IInv, TypeInv
  <2>2. m \in 1 .. Through /\ m \in Mids /\ reqs[m].cmd = "notify"
    BY <1>1, <2>1, Known DEF Owed
  <2> QED BY <1>1, <2>2, Heard
<1>4. \A v \in waiting' : v \in waiting /\ v.mid # m
  BY <1>1, <1>2 DEF Once, Open
<1>5. CASE w.fid \notin opens
  <2>1. ctxs' = ctxs /\ sent' = sent
    BY <1>5 DEF NotifyDone
  <2>2. Grown
    BY <1>2, <2>1, Heard DEF Grown
  <2>3. waiting' \subseteq waiting
    BY <1>2
  <2> QED BY <1>2, <2>1, <2>2, <2>3, QuietOnce
<1>6. CASE w.fid \in opens
  <2>1. PICK st \in {"ok", "cancelled"} : SendPacket(m, c, st, ss)
    BY <1>1, <1>6 DEF NotifyDone
  <2>2. st \in Statuses
    BY DEF Statuses
  <2>3. Gave(m, c, st)
    BY <1>2, <1>3, <2>1, <2>2, Gives
  <2>4. Fits(m, c)
    <3>1. ~Out(m)'
      BY <1>2, <1>3 DEF Out, OutsideCmds
    <3>2. Pending(m)
      BY <1>1 DEF Once, Open
    <3> QED BY <1>2, <1>3, <3>1, <3>2 DEF Fits
  <2>5. LeftOpen(m, st)
    <3>1. writing # 0 => writing # m
      BY <1>3 DEF Once, Open
    <3> QED BY <1>2, <1>4, <3>1 DEF LeftOpen, Once, Open
  <2> QED BY <2>3, <2>4, <2>5, GaveOnce
<1> QED BY <1>5, <1>6

-----------------------------------------------------------------------------
(* What reading a frame and enqueueing one of its requests do to requests    *)
(* and contexts.                                                             *)
FrameRead ==
  /\ enq = Len(reqs) /\ Through = enq /\ Through' = Through /\ Len(reqs') \in Nat
  /\ Len(reqs) < Len(reqs')
  /\ \A m \in 1 .. Len(reqs) : reqs'[m] = reqs[m]
  /\ \A m \in 1 .. Len(reqs') : m \notin 1 .. Len(reqs) =>
       /\ reqs'[m].ctx = 0 /\ reqs'[m].last = Len(reqs')
       /\ reqs'[m].more = (m # Len(reqs'))
  /\ cur' = 0 /\ enq' = enq /\ ctxs' = ctxs /\ writing' = writing /\ waiting' = waiting
  /\ sent' = sent /\ ran' = ran
Enqueued ==
  /\ Through = enq /\ Through' = Through /\ enq' = enq + 1 /\ enq + 1 \in 1 .. Len(reqs)
  /\ Len(reqs') = Len(reqs)
  /\ \A m \in 1 .. Len(reqs) : /\ m # enq + 1 => reqs'[m] = reqs[m]
                               /\ reqs'[m].rel = reqs[m].rel /\ reqs'[m].more = reqs[m].more
                               /\ reqs'[m].last = reqs[m].last
  /\ reqs'[enq + 1].ctx = cur'
  /\ \/ /\ ~reqs[enq + 1].rel /\ reqs[enq + 1].more /\ cur' = Len(ctxs) + 1
        /\ Len(ctxs') = Len(ctxs) + 1 /\ \A c \in 1 .. Len(ctxs) : ctxs'[c] = ctxs[c]
        /\ ctxs'[Len(ctxs) + 1].last = 0 /\ ctxs'[Len(ctxs) + 1].rsp = <<>>
     \/ /\ reqs[enq + 1].rel /\ ~reqs[enq + 1].more /\ cur' = cur
        /\ cur \in 1 .. Len(ctxs) /\ ctxs[cur].last = 0 /\ ctxs'[cur].last = enq + 1
        /\ ctxs'[cur].rsp = ctxs[cur].rsp
        /\ Len(ctxs') = Len(ctxs) /\ \A c \in 1 .. Len(ctxs) : c # cur => ctxs'[c] = ctxs[c]
     \/ reqs[enq + 1].rel = reqs[enq + 1].more /\ cur' = cur /\ ctxs' = ctxs
  /\ reqs[enq + 1].rel => enq # 0 /\ cur # 0
  /\ writing' = writing /\ waiting' = waiting /\ sent' = sent /\ ran' = ran

(* runReciever reads a frame,                                                *)
LEMMA ReadFacts ==
  ASSUME IInv, NEW f \in Frames, ReadFrame(f)
  PROVE  FrameRead
<1>1. PICK n, q, g, l : n = Len(reqs) /\ q = reqs /\ g = Numbered(f) /\ l = Len(f)
  OBVIOUS
<1>2. /\ n \in Nat /\ q \in Seq(ReqType) /\ enq = n /\ offered = FALSE
      /\ f \in Seq(RequestType) /\ f # <<>> /\ Through = n
  BY <1>1, FramesAssumption, Heard DEF IInv, TypeInv, ReadFrame, Through
<1>3. l \in Nat /\ l >= 1 /\ DOMAIN f = 1 .. l
  BY <1>1, <1>2
<1>4. g = [i \in 1 .. l |->
             [cmd |-> f[i].cmd, rel |-> f[i].rel, sess |-> f[i].sess, tree |-> f[i].tree,
              fid |-> f[i].fid, mid |-> n + i, more |-> i < l, last |-> n + l, ctx |-> 0]]
  BY <1>1, <1>3 DEF Numbered
<1>5. ASSUME NEW i \in 1 .. l
      PROVE  g[i].ctx = 0 /\ g[i].last = n + l /\ g[i].more = (i < l) /\ g[i] \in ReqType
  <2>1. f[i] \in RequestType
    BY <1>1, <1>2
  <2>2. g[i] = [cmd |-> f[i].cmd, rel |-> f[i].rel, sess |-> f[i].sess, tree |-> f[i].tree,
                fid |-> f[i].fid, mid |-> n + i, more |-> i < l, last |-> n + l, ctx |-> 0]
    BY <1>4
  <2>3. n + i \in Nat /\ n + l \in Nat
    BY <1>2, <1>3
  <2> QED BY <2>1, <2>2, <2>3 DEF RequestType, ReqType
<1>6. g \in Seq(ReqType) /\ Len(g) = l /\ Len(q) = n
  BY <1>1, <1>3, <1>4, <1>5
<1>7. /\ Len(q \o g) = n + l
      /\ \A i \in 1 .. n + l : (q \o g)[i] = IF i <= n THEN q[i] ELSE g[i - n]
  BY <1>2, <1>6, ConcatProperties
<1>8. reqs' = q \o g
  BY <1>1 DEF ReadFrame
<1>9. \A m \in 1 .. n : m \in 1 .. n + l /\ m <= n
  BY <1>2, <1>3
<1>10. \A m \in 1 .. n : reqs'[m] = reqs[m]
  BY <1>1, <1>7, <1>8, <1>9
<1>11. ASSUME NEW m \in 1 .. n + l, m \notin 1 .. n
       PROVE  reqs'[m].ctx = 0 /\ reqs'[m].last = n + l /\ reqs'[m].more = (m # n + l)
  <2>1. ~(m <= n) /\ m - n \in 1 .. l /\ ((m - n < l) = (m # n + l))
    BY <1>2, <1>3, <1>11
  <2>2. PICK i \in 1 .. l : i = m - n
    BY <2>1
  <2>3. reqs'[m] = g[i]
    BY <1>7, <1>8, <2>1, <2>2
  <2> QED BY <1>5, <2>1, <2>2, <2>3
<1>12. n + l \in Nat /\ n < n + l
  BY <1>2, <1>3
<1>13. Through' = Through
  BY DEF ReadFrame, Through
<1> QED BY <1>1, <1>2, <1>7, <1>8, <1>10, <1>11, <1>12, <1>13 DEF FrameRead, ReadFrame

(* ... and enqueues its requests.                                            *)
LEMMA EnqueueFacts ==
  ASSUME IInv, Enqueue
  PROVE  Enqueued
<1>1. PICK n, q, m, r, cc : /\ n = Len(reqs) /\ q = reqs /\ m = enq + 1 /\ r = reqs[m]
                            /\ cc = cur'
  OBVIOUS
<1>2. /\ TypeInv /\ Numbers /\ offered = FALSE /\ offered' = TRUE /\ enq' = m /\ enq < n
      /\ reqs' = [q EXCEPT ![m].ctx = cc]
      /\ writing' = writing /\ waiting' = waiting /\ sent' = sent /\ ran' = ran
  BY <1>1 DEF IInv, Enqueue, TypeInv
<1>3. /\ n \in Nat /\ enq \in Nat /\ m \in 1 .. n /\ q \in Seq(ReqType) /\ r \in ReqType
      /\ Through = enq /\ m \in Mids
  BY <1>1, <1>2, Known DEF TypeInv, Through, Mids
<1>4. Through' = Through
  BY <1>1, <1>2, <1>3 DEF Through
<1>5. /\ ctxs' = IF IsCompoundFirst(r) THEN Append(ctxs, NewCtx)
                 ELSE IF IsCompoundLast(r) THEN [ctxs EXCEPT ![cur].last = m] ELSE ctxs
      /\ cur' = IF IsCompoundFirst(r) THEN Len(ctxs) + 1 ELSE cur
  BY <1>1 DEF Enqueue
<1>6. ctxs \in Seq(CtxType) /\ Len(ctxs) \in Nat /\ cur \in 0 .. Len(ctxs)
  BY <1>2 DEF TypeInv
<1>7. ASSUME r.rel PROVE enq # 0 /\ cur # 0 /\ ctxs[cur].last = 0
  <2>1. m > 1 /\ reqs[m - 1].more
    BY <1>1, <1>2, <1>3, <1>7 DEF Numbers
  <2>2. m - 1 = enq /\ enq # 0
    BY <1>1, <1>3, <2>1
  <2> QED BY <1>2, <2>1, <2>2 DEF Numbers
<1>8. \/ /\ ~r.rel /\ r.more /\ cur' = Len(ctxs) + 1
         /\ Len(ctxs') = Len(ctxs) + 1 /\ \A c \in 1 .. Len(ctxs) : ctxs'[c] = ctxs[c]
         /\ ctxs'[Len(ctxs) + 1].last = 0 /\ ctxs'[Len(ctxs) + 1].rsp = <<>>
      \/ /\ r.rel /\ ~r.more /\ cur' = cur
         /\ cur \in 1 .. Len(ctxs) /\ ctxs[cur].last = 0 /\ ctxs'[cur].last = m
         /\ ctxs'[cur].rsp = ctxs[cur].rsp
         /\ Len(ctxs') = Len(ctxs) /\ \A c \in 1 .. Len(ctxs) : c # cur => ctxs'[c] = ctxs[c]
      \/ r.rel = r.more /\ cur' = cur /\ ctxs' = ctxs
  <2>1. CASE IsCompoundFirst(r)
    <3>1. PICK z, k : z = ctxs /\ k = NewCtx
      OBVIOUS
    <3>2. k.last = 0 /\ k.rsp = <<>>
      BY <3>1 DEF NewCtx
    <3>3. k \in CtxType
      <4>1. <<>> \in Seq(Answers) /\ "ok" \in Statuses
        BY DEF Statuses
      <4> QED BY <3>1, <4>1 DEF NewCtx, CtxType
    <3>4. /\ Len(Append(z, k)) = Len(z) + 1
          /\ \A i \in 1 .. Len(z) : Append(z, k)[i] = z[i]
          /\ Append(z, k)[Len(z) + 1] = k
      BY <1>6, <3>1, <3>3, AppendProperties
    <3>5. ctxs' = Append(z, k) /\ cur' = Len(z) + 1 /\ ~r.rel /\ r.more
      BY <1>5, <2>1, <3>1 DEF IsCompoundFirst
    <3> QED BY <3>1, <3>2, <3>4, <3>5
  <2>2. CASE ~IsCompoundFirst(r) /\ IsCompoundLast(r)
    <3>1. r.rel /\ ~r.more /\ cur # 0 /\ ctxs[cur].last = 0 /\ cur \in 1 .. Len(ctxs)
      BY <1>6, <1>7, <2>2 DEF IsCompoundLast
    <3>2. PICK z, c, x : z = ctxs /\ c = cur /\ x = ctxs[cur]
      OBVIOUS
    <3>3. x \in CtxType /\ c \in 1 .. Len(z) /\ z \in Seq(CtxType)
      BY <1>6, <3>1, <3>2
    <3>4. PICK y : y = [x EXCEPT !.last = m]
      OBVIOUS
    <3>5. y \in CtxType /\ y.rsp = x.rsp /\ y.last = m
      BY <1>3, <3>3, <3>4 DEF CtxType
    <3>6. ctxs' = [z EXCEPT ![c] = y] /\ cur' = cur
      BY <1>5, <1>6, <2>2, <3>2, <3>3, <3>4
    <3>7. /\ Len([z EXCEPT ![c] = y]) = Len(z)
          /\ \A d \in 1 .. Len(z) : [z EXCEPT ![c] = y][d] = IF d = c THEN y ELSE z[d]
      BY <3>3, <3>5, ExceptSeq
    <3> QED BY <3>1, <3>2, <3>3, <3>5, <3>6, <3>7
  <2>3. CASE ~IsCompoundFirst(r) /\ ~IsCompoundLast(r)
    <3>1. r.rel \in BOOLEAN /\ r.more \in BOOLEAN
      BY <1>3 DEF ReqType
    <3>2. r.rel = r.more
      BY <2>3, <3>1 DEF IsCompoundFirst, IsCompoundLast
    <3> QED BY <1>5, <2>3, <3>2
  <2> QED BY <2>1, <2>2, <2>3
<1>9. /\ Len(reqs') = n
      /\ \A i \in 1 .. n : i # m => reqs'[i] = q[i]
      /\ reqs'[m].rel = r.rel /\ reqs'[m].more = r.more /\ reqs'[m].last = r.last
      /\ reqs'[m].ctx = cur'
  <2>1. PICK y : y = [r EXCEPT !.ctx = cc]
    OBVIOUS
  <2>2. cc \in Nat
    BY <1>1, <1>6, <1>8
  <2>3. /\ y \in ReqType /\ y.rel = r.rel /\ y.more = r.more /\ y.ctx = cc /\ y.last = r.last
    BY <1>3, <2>1, <2>2 DEF ReqType
  <2>4. m \in 1 .. Len(q)
    BY <1>1, <1>3
  <2>5. reqs' = [q EXCEPT ![m] = y]
    BY <1>1, <1>2, <1>3, <2>1, <2>4
  <2>6. /\ Len([q EXCEPT ![m] = y]) = Len(q)
        /\ \A d \in 1 .. Len(q) : [q EXCEPT ![m] = y][d] = IF d = m THEN y ELSE q[d]
    BY <1>3, <2>3, <2>4, ExceptSeq
  <2> QED BY <1>1, <2>3, <2>4, <2>5, <2>6
<1>10. \A i \in 1 .. n : /\ i # m => reqs'[i] = reqs[i]
                         /\ reqs'[i].rel = reqs[i].rel /\ reqs'[i].more = reqs[i].more
                         /\ reqs'[i].last = reqs[i].last
  <2>1. ASSUME NEW i \in 1 .. n
        PROVE  /\ i # m => reqs'[i] = reqs[i]
               /\ reqs'[i].rel = reqs[i].rel /\ reqs'[i].more = reqs[i].more
               /\ reqs'[i].last = reqs[i].last
    <3>1. CASE i = m
      BY <1>1, <1>9, <3>1
    <3>2. CASE i # m
      BY <1>1, <1>9, <3>2
    <3> QED BY <3>1, <3>2
  <2> QED BY <2>1
<1>11. r.rel => enq # 0 /\ cur # 0
  BY <1>7
<1> QED BY <1>1, <1>2, <1>3, <1>4, <1>8, <1>9, <1>10, <1>11 DEF Enqueued

(* Both leave the answers alone.                                             *)
LEMMA ReceiverOnce ==
  ASSUME IInv, Once, FrameRead \/ Enqueued
  PROVE  Once'
<1>1. \A c \in 1 .. Len(ctxs) : Len(ctxs[c].rsp) \in Nat
  BY Heard
<1>2. Through' = Through /\ Through \in Nat /\ Len(ctxs) \in Nat /\ Len(sent) \in Nat
      /\ sent' = sent /\ ran' = ran /\ waiting' = waiting /\ writing' = writing
  BY Heard DEF FrameRead, Enqueued
<1>3. \A m \in 1 .. Through : reqs'[m] = reqs[m]
  <2>1. \A m \in 1 .. Through : m \in 1 .. Len(reqs)
    BY Heard
  <2>2. CASE FrameRead
    BY <2>1, <2>2 DEF FrameRead
  <2>3. CASE Enqueued
    <3>1. \A m \in 1 .. Through : m # enq + 1
      BY <1>2, <2>3 DEF Enqueued
    <3> QED BY <2>1, <2>3, <3>1 DEF Enqueued
  <2> QED BY <2>2, <2>3
<1>4. /\ Len(ctxs') \in Nat /\ Len(ctxs) <= Len(ctxs')
      /\ \A c \in 1 .. Len(ctxs) :
           /\ \/ ctxs'[c].last = ctxs[c].last
              \/ ctxs[c].last = 0 /\ ctxs'[c].last \notin 1 .. Through'
           /\ ctxs'[c].rsp = ctxs[c].rsp
      /\ \A c \in 1 .. Len(ctxs') : c \notin 1 .. Len(ctxs) => ctxs'[c].rsp = <<>>
         /\ ctxs'[c].last = 0
  <2>1. CASE ctxs' = ctxs
    BY <1>2, <2>1
  <2>2. CASE /\ Len(ctxs') = Len(ctxs) + 1 /\ \A c \in 1 .. Len(ctxs) : ctxs'[c] = ctxs[c]
             /\ ctxs'[Len(ctxs) + 1].last = 0 /\ ctxs'[Len(ctxs) + 1].rsp = <<>>
    <3>1. \A c \in 1 .. Len(ctxs) + 1 : c \notin 1 .. Len(ctxs) => c = Len(ctxs) + 1
      BY <1>2
    <3> QED BY <1>2, <2>2, <3>1
  <2>3. CASE /\ Enqueued /\ cur \in 1 .. Len(ctxs) /\ ctxs[cur].last = 0
          /\ ctxs'[cur].last = enq + 1
             /\ ctxs'[cur].rsp = ctxs[cur].rsp
             /\ Len(ctxs') = Len(ctxs) /\ \A c \in 1 .. Len(ctxs) : c # cur => ctxs'[c] = ctxs[c]
    <3>1. enq + 1 \notin 1 .. Through'
      BY <1>2, <2>3 DEF Enqueued
    <3> QED BY <1>2, <2>3, <3>1
  <2> QED BY <2>1, <2>2, <2>3 DEF FrameRead, Enqueued
<1>5. Grown
  BY <1>1, <1>2, <1>3, <1>4 DEF Grown
<1> QED BY <1>2, <1>4, <1>5, QuietOnce

-----------------------------------------------------------------------------
(* A frame read starts no chain and leaves the ones there are alone.         *)
LEMMA ReadChains ==
  ASSUME IInv, Chains, FrameRead
  PROVE  Chains'
<1>1. PICK n, k : n = Len(reqs) /\ k = Len(reqs')
  OBVIOUS
<1>2. /\ n \in Nat /\ k \in Nat /\ n < k /\ enq = n /\ enq' = n /\ ctxs' = ctxs /\ cur' = 0
      /\ \A m \in 1 .. n : reqs'[m] = reqs[m] /\ m \in 1 .. k
      /\ \A m \in 1 .. k : m \notin 1 .. n =>
           reqs'[m].ctx = 0 /\ reqs'[m].last = k /\ reqs'[m].more = (m # k)
  BY <1>1, Heard DEF FrameRead
<1>3. Blocks'
  <2>1. ASSUME NEW m \in 1 .. k
        PROVE  /\ m <= reqs'[m].last /\ reqs'[m].last <= k /\ reqs'[m].more = (m # reqs'[m].last)
               /\ \A i \in m .. reqs'[m].last : reqs'[i].last = reqs'[m].last
    <3>1. CASE m \in 1 .. n
      <4>1. /\ m <= reqs[m].last /\ reqs[m].last <= n /\ reqs[m].more = (m # reqs[m].last)
            /\ \A i \in m .. reqs[m].last : reqs[i].last = reqs[m].last
        BY <1>1, <3>1 DEF Chains, Blocks
      <4>2. reqs[m].last \in Nat
        BY <1>1, <3>1, Heard
      <4>3. reqs[m].last <= k /\ \A i \in m .. reqs[m].last : i \in 1 .. n
        BY <1>2, <3>1, <4>1, <4>2
      <4> QED BY <1>2, <3>1, <4>1, <4>3
    <3>2. CASE m \notin 1 .. n
      <4>1. reqs'[m].last = k /\ reqs'[m].more = (m # k) /\ m <= k
        BY <1>2, <3>2
      <4>2. \A i \in m .. k : i \in 1 .. k /\ i \notin 1 .. n
        BY <1>2, <3>2
      <4> QED BY <1>2, <4>1, <4>2
    <3> QED BY <3>1, <3>2
  <2> QED BY <1>1, <2>1 DEF Blocks
<1>4. Coming'
  <2>1. \A m \in n + 1 .. k : m \in 1 .. k /\ m \notin 1 .. n
    BY <1>2
  <2> QED BY <1>1, <1>2, <2>1 DEF Coming
<1>5. Joined'
  <2>1. ASSUME NEW m \in 1 .. n, NEW l \in 1 .. n, m <= l, \A i \in m + 1 .. l : reqs'[i].rel
        PROVE  reqs'[l].ctx = reqs'[m].ctx
    <3>1. \A i \in m + 1 .. l : i \in 1 .. n
      BY <1>2
    <3>2. \A i \in m + 1 .. l : reqs[i].rel
      BY <1>2, <2>1, <3>1
    <3> QED BY <1>2, <2>1, <3>2 DEF Chains, Joined
  <2> QED BY <1>2, <2>1 DEF Joined
<1>6. Parted'
  BY <1>2 DEF Chains, Parted
<1>7. Ended'
  <2>1. \A c \in 1 .. Len(ctxs) : ctxs[c].last # 0 =>
          /\ ctxs[c].last \in 1 .. n /\ reqs'[ctxs[c].last].ctx = c /\ reqs'[ctxs[c].last].rel
          /\ \A m \in 1 .. n : reqs'[m].ctx = c => reqs'[m].last = ctxs[c].last
    BY <1>2 DEF Chains, Ended
  <2>2. \A i \in 1 .. n : reqs'[i].rel /\ ~reqs'[i].more =>
          reqs'[i].ctx # 0 /\ ctxs[reqs'[i].ctx].last = i
    BY <1>2 DEF Chains, Ended
  <2> QED BY <1>2, <2>1, <2>2 DEF Ended
<1> QED BY <1>3, <1>4, <1>5, <1>6, <1>7 DEF Chains

(* A request enqueued starts, joins or ends a chain.                         *)
LEMMA EnqueueChains ==
  ASSUME IInv, Chains, Enqueued
  PROVE  Chains'
<1>1. PICK n, e, z, k : n = Len(reqs) /\ e = enq /\ z = enq + 1 /\ k = Len(ctxs)
  OBVIOUS
<1>2. /\ n \in Nat /\ e \in Nat /\ z = e + 1 /\ z \in 1 .. n /\ e <= n /\ k \in Nat
      /\ enq' = z /\ Len(reqs') = n /\ cur \in 0 .. k
  <2>1. e \in 0 .. n /\ n \in Nat /\ k \in Nat /\ cur \in 0 .. k
    BY <1>1, Heard DEF IInv, TypeInv
  <2> QED BY <1>1, <2>1 DEF Enqueued
<1>3. /\ \A m \in 1 .. n : /\ m # z => reqs'[m] = reqs[m]
                           /\ reqs'[m].rel = reqs[m].rel /\ reqs'[m].more = reqs[m].more
                           /\ reqs'[m].last = reqs[m].last
      /\ reqs'[z].ctx = cur'
  BY <1>1 DEF Enqueued
<1>4. /\ \A m \in 1 .. e : m \in 1 .. n /\ m # z /\ m \in 1 .. z
      /\ \A m \in 1 .. z : m \in 1 .. n /\ (m \in 1 .. e \/ m = z)
  BY <1>2
<1>5. \A m \in 1 .. e : reqs'[m] = reqs[m] /\ reqs[m].ctx \in 0 .. k
  BY <1>1, <1>3, <1>4, Heard
<1>6. /\ Blocks /\ Coming /\ Joined /\ Parted /\ Ended
  BY DEF Chains
<1>7. reqs[z].last = n /\ reqs[z].more = (z # n)
  <2>1. z \in enq + 1 .. Len(reqs)
    BY <1>1, <1>2
  <2>2. reqs[z].last = n
    BY <1>1, <1>6, <2>1 DEF Coming
  <2> QED BY <1>1, <1>2, <1>6, <2>2 DEF Blocks
<1>8. /\ cur # 0 => e # 0 /\ e \in 1 .. e /\ reqs[e].ctx = cur /\ ctxs[cur].last = 0
      /\ \A m \in 1 .. e : cur # 0 /\ reqs[m].ctx = cur => reqs[m].last = n
  <2>1. \A m \in 1 .. e : cur # 0 /\ reqs[m].ctx = cur => reqs[m].last = n
    BY <1>1, <1>6 DEF Coming
  <2>2. SUFFICES ASSUME cur # 0
                 PROVE  e # 0 /\ e \in 1 .. e /\ reqs[e].ctx = cur /\ ctxs[cur].last = 0
    BY <2>1
  <2>3. e # 0 /\ e \in 1 .. e /\ reqs[e].ctx = cur
    BY <1>1, <1>2, <1>6, <2>2 DEF Coming
  <2>4. ASSUME ctxs[cur].last # 0 PROVE FALSE
    <3>1. PICK l : l = ctxs[cur].last
      OBVIOUS
    <3>2. cur \in 1 .. k
      BY <1>2, <2>2
    <3>3. l \in 1 .. e /\ reqs[l].ctx = cur /\ reqs[l].last = l
      BY <1>1, <1>6, <2>4, <3>1, <3>2 DEF Ended
    <3>4. l = n
      BY <2>1, <2>2, <3>3
    <3> QED BY <1>2, <3>3, <3>4
  <2> QED BY <2>3, <2>4
<1>9. /\ Len(ctxs') \in Nat /\ Len(ctxs') >= k
      /\ \A c \in 1 .. Len(ctxs') : ctxs'[c].last # 0 =>
           c \in 1 .. k
             /\ \/ ctxs'[c].last = ctxs[c].last
                \/ c = cur /\ ctxs'[c].last = z /\ z = n /\ cur' = cur /\ reqs[z].rel
      /\ \A c \in 1 .. k : ctxs[c].last # 0 => ctxs'[c].last = ctxs[c].last
      /\ reqs[z].rel /\ ~reqs[z].more => cur' = cur /\ cur \in 1 .. k /\ ctxs'[cur].last = z
      /\ ~reqs[z].rel /\ reqs[z].more => cur' = k + 1
      /\ cur' = cur \/ cur' = k + 1
      /\ reqs[z].rel => cur' = cur /\ cur # 0
  <2>1. CASE /\ ~reqs[z].rel /\ reqs[z].more /\ cur' = k + 1
             /\ Len(ctxs') = k + 1 /\ \A c \in 1 .. k : ctxs'[c] = ctxs[c]
             /\ ctxs'[k + 1].last = 0
    <3>1. \A c \in 1 .. k + 1 : c \in 1 .. k \/ c = k + 1
      BY <1>2
    <3> QED BY <1>2, <2>1, <3>1
  <2>2. CASE /\ reqs[z].rel /\ ~reqs[z].more /\ cur' = cur
             /\ cur \in 1 .. k /\ ctxs[cur].last = 0 /\ ctxs'[cur].last = z
             /\ Len(ctxs') = k /\ \A c \in 1 .. k : c # cur => ctxs'[c] = ctxs[c]
    <3>1. z = n
      BY <1>7, <2>2
    <3> QED BY <1>2, <2>2, <3>1
  <2>3. CASE reqs[z].rel = reqs[z].more /\ cur' = cur /\ ctxs' = ctxs
    <3>1. reqs[z].rel => cur # 0
      BY <1>1 DEF Enqueued
    <3> QED BY <1>1, <1>2, <2>3, <3>1
  <2> QED BY <1>1, <2>1, <2>2, <2>3 DEF Enqueued
<1>10. Blocks'
  <2>1. ASSUME NEW m \in 1 .. n
        PROVE  /\ m <= reqs'[m].last /\ reqs'[m].last <= n /\ reqs'[m].more = (m # reqs'[m].last)
               /\ \A i \in m .. reqs'[m].last : reqs'[i].last = reqs'[m].last
    <3>1. /\ m <= reqs[m].last /\ reqs[m].last <= n /\ reqs[m].more = (m # reqs[m].last)
          /\ \A i \in m .. reqs[m].last : reqs[i].last = reqs[m].last
      BY <1>1, <1>6 DEF Blocks
    <3>2. reqs[m].last \in Nat
      BY <1>1, Heard
    <3>3. \A i \in m .. reqs[m].last : i \in 1 .. n
      BY <1>2, <3>1, <3>2
    <3> QED BY <1>3, <3>1, <3>3
  <2> QED BY <1>2, <2>1 DEF Blocks
<1>11. Coming'
  <2>1. ASSUME NEW m \in z + 1 .. n PROVE reqs'[m].ctx = 0 /\ reqs'[m].last = n
    <3>1. m \in enq + 1 .. Len(reqs) /\ m \in 1 .. n /\ m # z
      BY <1>1, <1>2
    <3> QED BY <1>1, <1>3, <1>6, <3>1 DEF Coming
  <2>2. ASSUME cur' # 0
        PROVE  z # 0 /\ reqs'[z].ctx = cur'
          /\ \A m \in 1 .. z : reqs'[m].ctx = cur' => reqs'[m].last = n
    <3>1. ASSUME NEW m \in 1 .. z, reqs'[m].ctx = cur' PROVE reqs'[m].last = n
      <4>1. CASE m = z
        BY <1>2, <1>3, <1>7, <4>1
      <4>2. CASE m \in 1 .. e
        <5>1. reqs'[m] = reqs[m] /\ reqs[m].ctx = cur' /\ reqs[m].ctx \in 0 .. k
          BY <1>5, <3>1, <4>2
        <5>2. cur' # k + 1
          BY <1>2, <5>1
        <5>3. cur' = cur
          BY <1>9, <5>2
        <5> QED BY <1>8, <2>2, <4>2, <5>1, <5>3
      <4> QED BY <1>4, <4>1, <4>2
    <3>2. z # 0
      BY <1>2
    <3> QED BY <1>3, <3>1, <3>2
  <2> QED BY <1>2, <2>1, <2>2 DEF Coming
<1>12. Joined'
  <2>1. ASSUME NEW m \in 1 .. z, NEW l \in 1 .. z, m <= l, \A i \in m + 1 .. l : reqs'[i].rel
        PROVE  reqs'[l].ctx = reqs'[m].ctx
    <3>1. \A i \in m + 1 .. l : i \in 1 .. n
      BY <1>2
    <3>2. \A i \in m + 1 .. l : reqs[i].rel
      BY <1>3, <2>1, <3>1
    <3>3. CASE l \in 1 .. e
      <4>1. m \in 1 .. e
        BY <1>2, <2>1, <3>3
      <4>2. reqs[l].ctx = reqs[m].ctx
        BY <1>1, <1>6, <2>1, <3>2, <3>3, <4>1 DEF Joined
      <4> QED BY <1>5, <3>3, <4>1, <4>2
    <3>4. CASE l = z /\ m # z
      <4>1. m \in 1 .. e /\ z \in m + 1 .. l /\ \A i \in m + 1 .. e : i \in m + 1 .. l
        BY <1>2, <3>4
      <4>2. reqs[z].rel /\ \A i \in m + 1 .. e : reqs[i].rel
        BY <3>2, <4>1
      <4>3. cur' = cur /\ cur # 0
        BY <1>9, <4>2
      <4>4. e \in 1 .. e /\ reqs[e].ctx = cur /\ m <= e
        BY <1>2, <1>8, <4>1, <4>3
      <4>5. reqs[e].ctx = reqs[m].ctx
        BY <1>1, <1>6, <4>1, <4>2, <4>4 DEF Joined
      <4> QED BY <1>3, <1>5, <3>4, <4>1, <4>3, <4>4, <4>5
    <3> QED BY <1>4, <3>3, <3>4
  <2> QED BY <1>2, <2>1 DEF Joined
<1>13. Parted'
  <2>1. ASSUME NEW m \in 1 .. z, NEW i \in 1 .. z, NEW l \in 1 .. z,
               m < i, i <= l, ~reqs'[i].rel, reqs'[i].more
        PROVE  reqs'[l].ctx = 0 \/ reqs'[l].ctx # reqs'[m].ctx
    <3>1. ~reqs[i].rel /\ reqs[i].more
      BY <1>3, <1>4, <2>1
    <3>2. m \in 1 .. e /\ reqs'[m] = reqs[m] /\ reqs[m].ctx \in 0 .. k
      <4>1. m \in 1 .. e
        BY <1>2, <2>1
      <4> QED BY <1>5, <4>1
    <3>3. CASE l \in 1 .. e
      <4>1. i \in 1 .. e
        BY <1>2, <2>1, <3>3
      <4>2. reqs[l].ctx = 0 \/ reqs[l].ctx # reqs[m].ctx
        BY <1>1, <1>6, <2>1, <3>1, <3>2, <3>3, <4>1 DEF Parted
      <4> QED BY <1>5, <3>2, <3>3, <4>2
    <3>4. CASE l = z
      <4>1. CASE cur' = k + 1
        BY <1>2, <1>3, <3>2, <3>4, <4>1
      <4>2. CASE cur' # k + 1
        <5>1. cur' = cur /\ i # z
          BY <1>9, <3>1, <4>2
        <5>2. i \in 1 .. e
          BY <1>4, <5>1
        <5>3. CASE cur = 0
          BY <1>3, <3>4, <5>1, <5>3
        <5>4. CASE cur # 0
          <6>1. e \in 1 .. e /\ reqs[e].ctx = cur /\ i <= e
            BY <1>2, <1>8, <5>2, <5>4
          <6>2. reqs[e].ctx # reqs[m].ctx
            BY <1>1, <1>6, <2>1, <3>1, <3>2, <5>2, <5>4, <6>1 DEF Parted
          <6> QED BY <1>3, <3>2, <3>4, <5>1, <6>1, <6>2
        <5> QED BY <5>3, <5>4
      <4> QED BY <4>1, <4>2
    <3> QED BY <1>4, <3>3, <3>4
  <2> QED BY <1>2, <2>1 DEF Parted
<1>14. Ended'
  <2>1. ASSUME NEW c \in 1 .. Len(ctxs'), ctxs'[c].last # 0
        PROVE  /\ ctxs'[c].last \in 1 .. z /\ reqs'[ctxs'[c].last].ctx = c
          /\ reqs'[ctxs'[c].last].rel
               /\ \A m \in 1 .. z : reqs'[m].ctx = c => reqs'[m].last = ctxs'[c].last
    <3>1. c \in 1 .. k
      BY <1>9, <2>1
    <3>2. CASE ctxs'[c].last = ctxs[c].last
      <4>1. PICK l : l = ctxs[c].last
        OBVIOUS
      <4>2. /\ l \in 1 .. e /\ reqs[l].ctx = c /\ reqs[l].rel
            /\ \A m \in 1 .. e : reqs[m].ctx = c => reqs[m].last = l
        BY <1>1, <1>6, <2>1, <3>1, <3>2, <4>1 DEF Ended
      <4>3. reqs'[z].ctx # c
        <5>1. CASE cur' = k + 1
          BY <1>2, <1>3, <3>1, <5>1
        <5>2. CASE cur' = cur
          BY <1>2, <1>3, <1>8, <2>1, <3>1, <3>2, <5>2
        <5> QED BY <1>9, <5>1, <5>2
      <4> QED BY <1>4, <1>5, <3>2, <4>1, <4>2, <4>3
    <3>3. CASE c = cur /\ ctxs'[c].last = z /\ z = n /\ cur' = cur /\ reqs[z].rel
      <4>1. z \in 1 .. z /\ reqs'[z].ctx = c /\ reqs'[z].rel
        BY <1>2, <1>3, <3>3
      <4>2. ASSUME NEW m \in 1 .. z, reqs'[m].ctx = c PROVE reqs'[m].last = z
        <5>1. CASE m = z
          BY <1>2, <1>3, <1>7, <3>3, <5>1
        <5>2. CASE m \in 1 .. e
          <6>1. c # 0
            BY <1>2, <3>1
          <6> QED BY <1>5, <1>8, <3>3, <4>2, <5>2, <6>1
        <5> QED BY <1>4, <5>1, <5>2
      <4> QED BY <3>3, <4>1, <4>2
    <3> QED BY <1>9, <2>1, <3>2, <3>3
  <2>2. ASSUME NEW i \in 1 .. z, reqs'[i].rel, ~reqs'[i].more
        PROVE  reqs'[i].ctx # 0 /\ ctxs'[reqs'[i].ctx].last = i
    <3>1. reqs[i].rel /\ ~reqs[i].more
      BY <1>3, <1>4, <2>2
    <3>2. CASE i = z
      <4>1. cur' = cur /\ cur \in 1 .. k /\ ctxs'[cur].last = z
        BY <1>9, <3>1, <3>2
      <4>2. cur # 0
        BY <1>2, <4>1
      <4> QED BY <1>3, <3>2, <4>1, <4>2
    <3>3. CASE i \in 1 .. e
      <4>1. PICK c : c = reqs[i].ctx
        OBVIOUS
      <4>2. c # 0 /\ ctxs[c].last = i /\ reqs'[i].ctx = c /\ c \in 0 .. k
        BY <1>1, <1>5, <1>6, <3>1, <3>3, <4>1 DEF Ended
      <4>3. c \in 1 .. k /\ i # 0
        BY <1>2, <3>3, <4>2
      <4> QED BY <1>9, <4>2, <4>3
    <3> QED BY <1>4, <3>2, <3>3
  <2> QED BY <1>2, <2>1, <2>2 DEF Ended
<1> QED BY <1>10, <1>11, <1>12, <1>13, <1>14 DEF Chains

(* Answers do not touch them.                                                *)
LEMMA AnswersChains ==
  ASSUME IInv, Chains, reqs' = reqs, enq' = enq, cur' = cur, Len(ctxs') = Len(ctxs),
         \A c \in 1 .. Len(ctxs) : ctxs'[c].last = ctxs[c].last
  PROVE  Chains'
<1>1. Blocks' /\ Coming' /\ Joined' /\ Parted'
  BY DEF Chains, Blocks, Coming, Joined, Parted
<1>2. Ended'
  <2>1. \A c \in 1 .. Len(ctxs) : ctxs'[c].last # 0 =>
          /\ ctxs'[c].last \in 1 .. enq /\ reqs[ctxs'[c].last].ctx = c /\ reqs[ctxs'[c].last].rel
          /\ \A m \in 1 .. enq : reqs[m].ctx = c => reqs[m].last = ctxs'[c].last
    BY DEF Chains, Ended
  <2>2. ASSUME NEW k \in 1 .. enq, reqs[k].rel, ~reqs[k].more
        PROVE  reqs[k].ctx # 0 /\ ctxs'[reqs[k].ctx].last = k
    <3>1. k \in 1 .. Len(reqs)
      BY Heard DEF IInv, TypeInv
    <3>2. PICK c : c = reqs[k].ctx
      OBVIOUS
    <3>3. c # 0 /\ ctxs[c].last = k /\ c \in 0 .. Len(ctxs)
      BY <2>2, <3>1, <3>2, Heard DEF Chains, Ended
    <3>4. c \in 1 .. Len(ctxs)
      BY <3>3, Heard
    <3> QED BY <3>2, <3>3, <3>4
  <2> QED BY <2>1, <2>2 DEF Ended
<1> QED BY <1>1, <1>2 DEF Chains

(* The contexts and their last requests are kept.                            *)
LastsKept ==
  Len(ctxs') = Len(ctxs) /\ \A c \in 1 .. Len(ctxs) : ctxs'[c].last = ctxs[c].last

(* ... by sendPacket.                                                        *)
LEMMA SendLasts ==
  ASSUME IInv, NEW m, NEW c \in 0 .. Len(ctxs), NEW st, NEW ss, SendPacket(m, c, st, ss)
  PROVE  LastsKept
<1>1. CASE c = 0
  BY <1>1 DEF SendPacket, LastsKept
<1>2. CASE c # 0
  <2>1. PICK q, s, y : /\ q = ctxs /\ s = Append(ctxs[c].rsp, Header(m, c, st, ss))
                       /\ y = [status |-> st, last |-> ctxs[c].last, rsp |-> s]
    OBVIOUS
  <2>2. ctxs' = [q EXCEPT ![c] = y]
    BY <1>2, <2>1 DEF SendPacket
  <2>3. PICK T : T = CtxType \cup {y}
    OBVIOUS
  <2>4. q \in Seq(T) /\ c \in 1 .. Len(q) /\ y \in T
    <3>1. q \in Seq(CtxType)
      BY <2>1 DEF IInv, TypeInv
    <3>2. c \in 1 .. Len(q)
      BY <1>2, <2>1, Heard
    <3> QED BY <2>3, <3>1, <3>2
  <2>5. /\ Len([q EXCEPT ![c] = y]) = Len(q)
        /\ \A d \in 1 .. Len(q) : [q EXCEPT ![c] = y][d] = IF d = c THEN y ELSE q[d]
    BY <2>4, ExceptSeq
  <2>6. y.last = ctxs[c].last
    BY <2>1
  <2> QED BY <2>1, <2>2, <2>5, <2>6 DEF LastsKept
<1> QED BY <1>1, <1>2

(* So do Run and the goroutines, which leave the requests alone.             *)
LEMMA RunLasts ==
  ASSUME IInv, Run \/ \E w \in waiting : NotifyDone(w)
  PROVE  LastsKept /\ reqs' = reqs /\ enq' = enq /\ cur' = cur
<1>1. ASSUME Taken PROVE reqs' = reqs /\ enq' = enq /\ cur' = cur
  BY <1>1 DEF Taken
<1>2. ASSUME Taken, NEW st, AnswerInChain(st) PROVE LastsKept
  <2>1. PICK m, c, ss : m = R.mid /\ c = R.ctx /\ ss = Selected
    OBVIOUS
  <2>2. c \in 0 .. Len(ctxs)
    BY <1>2, <2>1, SelectedType
  <2>3. SendPacket(m, c, st, ss)
    BY <1>2, <2>1 DEF AnswerInChain
  <2> QED BY <2>2, <2>3, SendLasts
<1>3. ASSUME Taken, NEW st, AnswerAlone(st) PROVE LastsKept
  <2>1. PICK m, c, ss : m = R.mid /\ c = 0 /\ ss = Selected
    OBVIOUS
  <2>2. c \in 0 .. Len(ctxs)
    BY <1>3, <2>1, SelectedType
  <2>3. SendPacket(m, c, st, ss)
    BY <1>3, <2>1 DEF AnswerAlone
  <2> QED BY <2>2, <2>3, SendLasts
<1>4. \A cmd : Handled(cmd) => Taken
  BY DEF Handled, TreeCommand
<1>5. CASE NoSuchSession \/ NoSuchTree \/ RefusedInChain
  <2>1. Taken /\ \E st : AnswerInChain(st)
    BY <1>5 DEF NoSuchSession, NoSuchTree, RefusedInChain, TreeCommand
  <2> QED BY <1>1, <1>2, <2>1
<1>6. CASE EchoOrLogoff \/ TreeConnect \/ TreeDisconnect
  <2>1. Taken /\ \E st : AnswerAlone(st)
    BY <1>6 DEF EchoOrLogoff, TreeConnect, TreeDisconnect
  <2> QED BY <1>1, <1>3, <2>1
<1>7. CASE Create \/ Close \/ Flush \/ Use \/ NotSupported \/ ChangeNotify
  <2>1. Taken
    BY <1>4, <1>7 DEF Create, Close, Flush, Use, NotSupported, ChangeNotify
  <2>2. \E st : AnswerInChain(st)
    BY <1>7 DEF Create, Close, Flush, Use, NotSupported, ChangeNotify
  <2> QED BY <1>1, <1>2, <2>1, <2>2
<1>8. CASE Write
  <2>1. Taken /\ ((\E st : AnswerInChain(st)) \/ (\E st : AnswerAlone(st)))
    BY <1>4, <1>8 DEF Write
  <2> QED BY <1>1, <1>2, <1>3, <2>1
<1>9. CASE Cancel
  BY <1>1, <1>4, <1>9 DEF Cancel, LastsKept
<1>10. CASE WriteDone
  <2>1. PICK st, m, ss : SendPacket(m, 0, st, ss)
    BY <1>10 DEF WriteDone
  <2>2. 0 \in 0 .. Len(ctxs)
    BY Heard
  <2> QED BY <1>10, <2>1, <2>2, SendLasts DEF WriteDone
<1>11. ASSUME NEW w \in waiting, NotifyDone(w)
       PROVE  LastsKept /\ reqs' = reqs /\ enq' = enq /\ cur' = cur
  <2>1. CASE w.fid \notin opens
    BY <1>11, <2>1 DEF NotifyDone, LastsKept
  <2>2. CASE w.fid \in opens
    <3>1. PICK m, c, ss : m = w.mid /\ c = reqs[w.mid].ctx /\ ss = active
      OBVIOUS
    <3>2. c \in 0 .. Len(ctxs)
      <4>1. w \in [mid : 1 .. Through, fid : Mids]
        BY DEF IInv, TypeInv
      <4> QED BY <3>1, <4>1, Heard
    <3>3. PICK st : SendPacket(m, c, st, ss)
      BY <1>11, <2>2, <3>1 DEF NotifyDone
    <3> QED BY <1>11, <3>2, <3>3, SendLasts DEF NotifyDone
  <2> QED BY <2>1, <2>2
<1> QED BY <1>5, <1>6, <1>7, <1>8, <1>9, <1>10, <1>11 DEF Run, Handler

(* The second invariant holds at the start                                   *)
LEMMA StartOnce ==
  ASSUME Init
  PROVE  Chains /\ Once
<1>1. /\ reqs = <<>> /\ enq = 0 /\ cur = 0 /\ offered = FALSE /\ ctxs = <<>>
      /\ writing = 0 /\ waiting = {} /\ sent = <<>>
  BY DEF Init
<1>2. Through = 0 /\ Len(reqs) = 0 /\ Len(ctxs) = 0 /\ Len(sent) = 0
  BY <1>1 DEF Through
<1>3. 1 .. 0 = {} /\ 0 + 1 .. 0 = {}
  OBVIOUS
<1>4. Chains
  BY <1>1, <1>2, <1>3 DEF Chains, Blocks, Coming, Joined, Parted, Ended
<1>5. Once
  BY <1>1, <1>2, <1>3 DEF Once, Sources, FramesOnce, CtxOnce, Open, All
<1> QED BY <1>4, <1>5

(* ... and every step keeps it.                                              *)
LEMMA StepOnce ==
  ASSUME IInv, Chains, Once, [Next]_vars
  PROVE  Chains' /\ Once'
<1>1. Ended
  BY DEF Chains
<1>2. ASSUME NEW f \in Frames, ReadFrame(f) PROVE Chains' /\ Once'
  <2>1. FrameRead
    BY <1>2, ReadFacts
  <2> QED BY <2>1, ReadChains, ReceiverOnce
<1>3. CASE Enqueue
  <2>1. Enqueued
    BY <1>3, EnqueueFacts
  <2> QED BY <2>1, EnqueueChains, ReceiverOnce
<1>4. CASE Run
  <2>1. Chains'
    BY <1>4, RunLasts, AnswersChains DEF LastsKept
  <2>2. Once'
    <3>1. CASE WriteDone
      BY <1>1, <3>1, WriteOnce
    <3>2. CASE ~WriteDone
      BY <1>1, <1>4, <3>2, RunOnce DEF Run
    <3> QED BY <3>1, <3>2
  <2> QED BY <2>1, <2>2
<1>5. ASSUME NEW w \in waiting, NotifyDone(w) PROVE Chains' /\ Once'
  <2>1. Chains'
    BY <1>5, RunLasts, AnswersChains DEF LastsKept
  <2>2. Once'
    BY <1>1, <1>5, NotifyOnce
  <2> QED BY <2>1, <2>2
<1>6. CASE UNCHANGED vars
  <2>1. /\ reqs' = reqs /\ enq' = enq /\ cur' = cur /\ offered' = offered /\ ctxs' = ctxs
        /\ writing' = writing /\ waiting' = waiting /\ sent' = sent /\ ran' = ran
    BY <1>6 DEF vars
  <2>2. Through' = Through
    BY <2>1 DEF Through
  <2>3. Chains'
    BY <2>1, AnswersChains
  <2>4. Grown
    BY <2>1, <2>2, Heard DEF Grown
  <2>5. Once'
    BY <2>1, <2>2, <2>4, QuietOnce
  <2> QED BY <2>3, <2>5
<1> QED BY <1>2, <1>3, <1>4, <1>5, <1>6 DEF Next

(* The inductive invariant of chains and answers: which requests share a     *)
(* context, where each frame sent comes from, and that all that Run is       *)
(* through with is answered and nothing finally answered twice.              *)
THEOREM AnswersInvariant == Spec => [](IInv /\ Chains /\ Once)
<1>1. Init => IInv /\ Chains /\ Once
  BY StartKept, StartOnce
<1>2. IInv /\ Chains /\ Once /\ [Next]_vars => (IInv /\ Chains /\ Once)'
  BY StepKept, StepOnce
<1> QED BY <1>1, <1>2, PTL DEF Spec

(* An answer in frame i, at j, to request m: a single one, or one collected  *)
(* in the context of the request.                                            *)
IsSingle(i, j, m) ==
  /\ j = 1 /\ LastOf(i) = sent[i].rsp[j]
  /\ IF Out(m) THEN reqs[m].cmd # "cancel" ELSE reqs[m].ctx = 0
IsCollected(i, j, m, c) ==
  /\ ~Out(m) /\ c = reqs[m].ctx /\ c # 0 /\ c \in 1 .. Len(ctxs)
  /\ ctxs[c].last = LastOf(i).mid /\ ctxs[c].last # 0 /\ ~Out(ctxs[c].last)
  /\ j \in 1 .. Len(ctxs[c].rsp) /\ ctxs[c].rsp[j] = sent[i].rsp[j]

(* There are no others.                                                      *)
LEMMA FromWhere ==
  ASSUME IInv, Chains, Once, NEW i \in 1 .. Len(sent), NEW j \in 1 .. Len(sent[i].rsp),
         NEW m, sent[i].rsp[j].mid = m
  PROVE  m \in 1 .. Through /\ (IsSingle(i, j, m) \/ \E c : IsCollected(i, j, m, c))
<1>1. m \in 1 .. Through /\ Len(sent[i].rsp) \in Nat /\ Len(sent[i].rsp) >= 1
      /\ LastOf(i).mid \in 1 .. Through /\ Through \in Nat
  BY Heard
<1>2. CASE Single(i)
  <2>1. j = 1 /\ LastOf(i) = sent[i].rsp[j]
    BY <1>2 DEF Single, LastOf
  <2> QED BY <1>1, <1>2, <2>1 DEF Single, IsSingle
<1>3. CASE OfChain(i)
  <2>1. PICK c, z, n : c = reqs[LastOf(i).mid].ctx /\ z = LastOf(i).mid /\ n = Len(sent[i].rsp)
    OBVIOUS
  <2>2. /\ c # 0 /\ ctxs[c].last = z /\ n <= Len(ctxs[c].rsp)
        /\ \A l \in 1 .. n : sent[i].rsp[l] = ctxs[c].rsp[l]
    BY <1>3, <2>1 DEF OfChain
  <2>3. c \in 1 .. Len(ctxs)
    BY <1>1, <2>1, <2>2, Heard
  <2>4. Len(ctxs[c].rsp) \in Nat
    BY <2>3, Heard
  <2>5. \A l \in 1 .. n : l \in 1 .. Len(ctxs[c].rsp)
    <3>1. PICK p : p = Len(ctxs[c].rsp)
      OBVIOUS
    <3>2. n \in Nat /\ p \in Nat /\ n <= p
      BY <1>1, <2>1, <2>2, <2>4, <3>1
    <3>3. \A l \in 1 .. n : l \in 1 .. p
      BY <3>2
    <3> QED BY <3>1, <3>3
  <2>6. j \in 1 .. n /\ n \in 1 .. n /\ sent[i].rsp[n].mid = z
    BY <1>1, <2>1 DEF LastOf
  <2>7. ~Out(m) /\ reqs[m].ctx = c
    <3>1. ctxs[c].rsp[j].mid = m /\ j \in 1 .. Len(ctxs[c].rsp)
      BY <2>2, <2>5, <2>6
    <3>2. ~Out(ctxs[c].rsp[j].mid)
      BY <2>3, <3>1 DEF Once, CtxOnce
    <3> QED BY <2>3, <3>1, <3>2, Heard
  <2>8. ~Out(z)
    <3>1. ctxs[c].rsp[n].mid = z /\ n \in 1 .. Len(ctxs[c].rsp)
      BY <2>2, <2>5, <2>6
    <3>2. ~Out(ctxs[c].rsp[n].mid)
      BY <2>3, <3>1 DEF Once, CtxOnce
    <3> QED BY <3>1, <3>2
  <2>9. z # 0
    BY <1>1, <2>1
  <2>10. IsCollected(i, j, m, c)
    BY <2>1, <2>2, <2>3, <2>5, <2>6, <2>7, <2>8, <2>9 DEF IsCollected
  <2> QED BY <1>1, <2>10
<1> QED BY <1>2, <1>3 DEF Once, Sources

(* Answers: no request Run is through with is finally answered twice, in     *)
(* whatever frames, but for those of a chain that ends in a CHANGE_NOTIFY.   *)
THEOREM FinalOnce == Spec => []AnsweredOnce
<1>1. IInv /\ Chains /\ Once => AnsweredOnce
  <2> SUFFICES ASSUME IInv, Chains, Once, NEW m \in Done,
                      ~(reqs[m].ctx # 0 /\ reqs[reqs[m].last].cmd = "notify")
               PROVE  Cardinality({p \in AnswersTo(m) : Final(p)}) <= 1
    BY DEF AnsweredOnce
  <2>1. PICK S : S = {p \in AnswersTo(m) : Final(p)}
    OBVIOUS
  <2>2. ASSUME NEW p \in S
        PROVE  \E i \in 1 .. Len(sent) : \E j \in 1 .. Len(sent[i].rsp) :
                 /\ p = <<i, j>> /\ sent[i].rsp[j].mid = m /\ sent[i].rsp[j].status # "pending"
    <3>1. p \in AnswersTo(m) /\ Final(p)
      BY <2>1
    <3>2. PICK i \in DOMAIN sent : \E j \in DOMAIN sent[i].rsp : p = <<i, j>>
            /\ sent[i].rsp[j].mid = m
      BY <3>1 DEF AnswersTo
    <3>3. PICK j \in DOMAIN sent[i].rsp : p = <<i, j>> /\ sent[i].rsp[j].mid = m
      BY <3>2
    <3>4. sent \in Seq(FrameType) /\ DOMAIN sent = 1 .. Len(sent)
      BY DEF IInv, TypeInv
    <3>5. DOMAIN sent[i].rsp = 1 .. Len(sent[i].rsp)
      BY <3>4, AnswerFields
    <3>6. sent[i].rsp[j].status # "pending"
      BY <3>1, <3>3 DEF Final
    <3> QED BY <3>3, <3>4, <3>5, <3>6
  <2>3. ASSUME NEW p \in S, NEW r \in S PROVE p = r
    <3>1. PICK i \in 1 .. Len(sent) : \E j \in 1 .. Len(sent[i].rsp) :
            /\ p = <<i, j>> /\ sent[i].rsp[j].mid = m /\ sent[i].rsp[j].status # "pending"
      BY <2>2
    <3>2. PICK j \in 1 .. Len(sent[i].rsp) :
            /\ p = <<i, j>> /\ sent[i].rsp[j].mid = m /\ sent[i].rsp[j].status # "pending"
      BY <3>1
    <3>3. PICK k \in 1 .. Len(sent) : \E l \in 1 .. Len(sent[k].rsp) :
            /\ r = <<k, l>> /\ sent[k].rsp[l].mid = m /\ sent[k].rsp[l].status # "pending"
      BY <2>2
    <3>4. PICK l \in 1 .. Len(sent[k].rsp) :
            /\ r = <<k, l>> /\ sent[k].rsp[l].mid = m /\ sent[k].rsp[l].status # "pending"
      BY <3>3
    <3>5. PICK c : c = reqs[m].ctx
      OBVIOUS
    <3>6. IsSingle(i, j, m) \/ \E d : IsCollected(i, j, m, d)
      BY <3>2, FromWhere
    <3>7. IsSingle(k, l, m) \/ \E d : IsCollected(k, l, m, d)
      BY <3>4, FromWhere
    <3>9. CASE Out(m) \/ c = 0
      <4>1. j = 1 /\ l = 1 /\ LastOf(i) = sent[i].rsp[j] /\ LastOf(k) = sent[k].rsp[l]
        BY <3>5, <3>6, <3>7, <3>9 DEF IsSingle, IsCollected
      <4>2. ASSUME i # k PROVE FALSE
        <5>1. LastOf(i).mid = m /\ LastOf(k).mid = m
          BY <3>2, <3>4, <4>1
        <5>2. Twice(i, k)
          BY <4>2, <5>1 DEF Once, FramesOnce
        <5>3. reqs[m].cmd = "notify" /\ c # 0
          BY <3>2, <3>4, <3>5, <4>1, <5>1, <5>2 DEF Twice
        <5> QED BY <3>9, <5>3 DEF Out, OutsideCmds
      <4> QED BY <3>2, <3>4, <4>1, <4>2
    <3>10. CASE ~Out(m) /\ c # 0
      <4>1. /\ c \in 1 .. Len(ctxs) /\ ctxs[c].last = LastOf(i).mid
               /\ ctxs[c].last = LastOf(k).mid
            /\ ctxs[c].last # 0
            /\ j \in 1 .. Len(ctxs[c].rsp) /\ ctxs[c].rsp[j] = sent[i].rsp[j]
            /\ l \in 1 .. Len(ctxs[c].rsp) /\ ctxs[c].rsp[l] = sent[k].rsp[l]
        BY <3>5, <3>6, <3>7, <3>10 DEF IsSingle, IsCollected
      <4>2. j = l
        BY <3>2, <3>4, <4>1 DEF Once, CtxOnce
      <4>3. ASSUME i # k PROVE FALSE
        <5>1. PICK z : z = ctxs[c].last
          OBVIOUS
        <5>2. m \in 1 .. enq
          BY Heard, Known DEF Done, IInv
        <5>3. reqs[m].last = z /\ reqs[z].ctx = c
          BY <3>5, <4>1, <5>1, <5>2 DEF Chains, Ended
        <5>4. Twice(i, k) /\ LastOf(i).mid = z
          BY <4>1, <4>3, <5>1 DEF Once, FramesOnce
        <5>5. reqs[z].cmd = "notify"
          BY <3>10, <5>3, <5>4 DEF Twice
        <5> QED BY <3>5, <3>10, <5>3, <5>5
      <4> QED BY <3>2, <3>4, <4>2, <4>3
    <3> QED BY <3>9, <3>10
  <2>4. CASE S = {}
    <3>1. Cardinality(S) = 0
      BY <2>4, FS_EmptySet
    <3> QED BY <2>1, <3>1
  <2>5. CASE S # {}
    <3>1. PICK p : p \in S
      BY <2>5
    <3>2. S = {p}
      BY <2>3, <3>1
    <3>3. Cardinality({p}) = 1
      BY FS_Singleton
    <3> QED BY <2>1, <3>2, <3>3
  <2> QED BY <2>4, <2>5
<1> QED BY <1>1, AnswersInvariant, PTL

(* Chains: when Run is through with all requests received, exactly those are *)
(* answered that are answered outside of their chain, except CANCEL, and     *)
(* those of a chain that ends in a related request answered within it.       *)
THEOREM ChainsComplete == Spec => []ChainsAnswered
<1>1. IInv /\ Chains /\ Once => ChainsAnswered
  <2> SUFFICES ASSUME IInv, Chains, Once, enq = Len(reqs), ~offered, writing = 0,
                      NEW m \in DOMAIN reqs
               PROVE  (AnswersTo(m) # {}) <=>
                        IF Outside(reqs[m]) THEN reqs[m].cmd # "cancel" ELSE Delivered(reqs[m])
    BY DEF ChainsAnswered
  <2>1. PICK n, c : n = Len(reqs) /\ c = reqs[m].ctx
    OBVIOUS
  <2>2. /\ n \in Nat /\ Through = n /\ enq = n /\ m \in 1 .. n /\ c \in 0 .. Len(ctxs)
        /\ Len(ctxs) \in Nat /\ reqs[m].mid = m
    BY <2>1, Heard DEF Through, IInv, TypeInv
  <2>3. \A k \in 1 .. n : Outside(reqs[k]) <=> Out(k)
    BY <2>1, Heard DEF Outside, Out, OutsideCmds
  <2>4. (AnswersTo(m) # {}) <=>
          \E i \in 1 .. Len(sent) : \E j \in 1 .. Len(sent[i].rsp) : sent[i].rsp[j].mid = m
    <3>1. sent \in Seq(FrameType) /\ DOMAIN sent = 1 .. Len(sent)
      BY DEF IInv, TypeInv
    <3>2. \A i \in 1 .. Len(sent) : DOMAIN sent[i].rsp = 1 .. Len(sent[i].rsp)
      BY <3>1, AnswerFields
    <3>3. ASSUME NEW p \in AnswersTo(m)
          PROVE  \E i \in 1 .. Len(sent) : \E j \in 1 .. Len(sent[i].rsp) : sent[i].rsp[j].mid = m
      BY <3>1, <3>2 DEF AnswersTo
    <3>4. ASSUME NEW i \in 1 .. Len(sent), NEW j \in 1 .. Len(sent[i].rsp), sent[i].rsp[j].mid = m
          PROVE  <<i, j>> \in AnswersTo(m)
      BY <3>1, <3>2, <3>4 DEF AnswersTo
    <3> QED BY <3>3, <3>4
  <2>5. ASSUME NEW i \in 1 .. Len(sent), sent[i].rsp[1].mid = m PROVE AnswersTo(m) # {}
    <3>1. 1 \in 1 .. Len(sent[i].rsp)
      BY Heard
    <3> QED BY <2>4, <2>5, <3>1
  <2>6. Answered(m)
    BY <2>2 DEF Once, All
  <2>7. CASE Out(m)
    <3>1. ASSUME reqs[m].cmd # "cancel" PROVE AnswersTo(m) # {}
      BY <2>5, <2>6, <2>7, <3>1 DEF Answered
    <3>2. ASSUME AnswersTo(m) # {} PROVE reqs[m].cmd # "cancel"
      <4>1. PICK i \in 1 .. Len(sent) : \E j \in 1 .. Len(sent[i].rsp) : sent[i].rsp[j].mid = m
        BY <2>4, <3>2
      <4>2. PICK j \in 1 .. Len(sent[i].rsp) : sent[i].rsp[j].mid = m
        BY <4>1
      <4>3. IsSingle(i, j, m) \/ \E d : IsCollected(i, j, m, d)
        BY <4>2, FromWhere
      <4> QED BY <2>7, <4>3 DEF IsSingle, IsCollected
    <3> QED BY <2>2, <2>3, <2>7, <3>1, <3>2
  <2>8. CASE ~Out(m) /\ c = 0
    <3>1. AnswersTo(m) # {}
      BY <2>1, <2>5, <2>6, <2>8 DEF Answered
    <3> QED BY <2>1, <2>2, <2>3, <2>8, <3>1 DEF Delivered
  <2>9. CASE ~Out(m) /\ c # 0
    <3>1. PICK z : z = reqs[m].last
      OBVIOUS
    <3>2. /\ m <= z /\ z <= n /\ z \in Nat /\ z \in 1 .. n
          /\ \A k \in m .. z : reqs[k].last = z /\ k \in 1 .. n
      <4>1. /\ m <= z /\ z <= n /\ \A k \in m .. z : reqs[k].last = z
        BY <2>1, <2>2, <3>1 DEF Chains, Blocks
      <4>2. z \in Nat
        BY <2>1, <2>2, <3>1, Heard
      <4> QED BY <2>2, <4>1, <4>2
    <3>3. Delivered(reqs[m]) <=> (\A k \in m + 1 .. z : reqs[k].rel) /\ reqs[z].rel /\ ~Out(z)
      BY <2>1, <2>2, <2>3, <2>9, <3>1, <3>2 DEF Delivered
    <3>4. ASSUME AnswersTo(m) # {} PROVE Delivered(reqs[m])
      <4>1. PICK i \in 1 .. Len(sent) : \E j \in 1 .. Len(sent[i].rsp) : sent[i].rsp[j].mid = m
        BY <2>4, <3>4
      <4>2. PICK j \in 1 .. Len(sent[i].rsp) : sent[i].rsp[j].mid = m
        BY <4>1
      <4>3. c \in 1 .. Len(ctxs) /\ ctxs[c].last # 0 /\ ~Out(ctxs[c].last)
        <5>1. IsSingle(i, j, m) \/ \E d : IsCollected(i, j, m, d)
          BY <4>2, FromWhere
        <5> QED BY <2>1, <2>9, <5>1 DEF IsSingle, IsCollected
      <4>4. ctxs[c].last = z /\ reqs[z].ctx = c /\ reqs[z].rel
        BY <2>1, <2>2, <3>1, <4>3 DEF Chains, Ended
      <4>5. ASSUME NEW k \in m + 1 .. z, ~reqs[k].rel PROVE FALSE
        <5>1. k # z /\ k \in m .. z /\ m < k /\ k <= z
          BY <2>2, <3>2, <4>4, <4>5
        <5>2. k \in 1 .. n /\ reqs[k].last = z
          BY <3>2, <5>1
        <5>3. reqs[k].more
          BY <2>1, <5>1, <5>2 DEF Chains, Blocks
        <5>4. reqs[z].ctx = 0 \/ reqs[z].ctx # reqs[m].ctx
          BY <2>2, <3>2, <4>5, <5>1, <5>2, <5>3 DEF Chains, Parted
        <5> QED BY <2>1, <2>9, <4>4, <5>4
      <4> QED BY <3>3, <4>3, <4>4, <4>5
    <3>5. ASSUME Delivered(reqs[m]) PROVE AnswersTo(m) # {}
      <4>1. (\A k \in m + 1 .. z : reqs[k].rel) /\ reqs[z].rel /\ ~Out(z)
        BY <3>3, <3>5
      <4>2. reqs[z].ctx = c
        BY <2>1, <2>2, <3>2, <4>1 DEF Chains, Joined
      <4>3. ~reqs[z].more
        <5>1. z \in m .. z
          BY <2>2, <3>2
        <5>2. reqs[z].last = z
          BY <3>2, <5>1
        <5> QED BY <2>1, <3>2, <5>2 DEF Chains, Blocks
      <4>4. ctxs[c].last = z
        BY <2>2, <3>2, <4>1, <4>2, <4>3 DEF Chains, Ended
      <4>5. c \in 1 .. Len(ctxs)
        BY <2>2, <2>9
      <4>6. Complete(c)
        BY <2>2, <3>2, <4>1, <4>4, <4>5 DEF Once, All
      <4>7. PICK i \in 1 .. Len(sent) : \A k \in 1 .. z :
              reqs[k].ctx = c
                /\ ~Out(k) => \E j \in 1 .. Len(sent[i].rsp) : sent[i].rsp[j].mid = k
        BY <4>4, <4>6 DEF Complete
      <4>8. m \in 1 .. z
        BY <2>2, <3>2
      <4> QED BY <2>1, <2>4, <2>9, <4>7, <4>8
    <3> QED BY <2>2, <2>3, <2>9, <3>4, <3>5
  <2> QED BY <2>7, <2>8, <2>9
<1> QED BY <1>1, AnswersInvariant, PTL
=============================================================================
