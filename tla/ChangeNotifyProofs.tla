------------------------- MODULE ChangeNotifyProofs -------------------------
(* Proofs about change notification, for any number of connections, handles, *)
(* directories, requests and events.                                         *)
EXTENDS ChangeNotify, FiniteSetTheorems, SequenceTheorems, TLAPS

Events == Seq(Nat)
Pcs == {"none", "start", "wait", "coalesce", "check", "clear", "send", "done"}
OpenType ==
  [inTable : BOOLEAN, used : BOOLEAN, conn : Conns \cup {Nil}, path : Paths \cup {Nil},
   notifyCancel : Reqs \cup {NoReq}, has : BOOLEAN, notifyCh : Events, fsWatchPath : BOOLEAN]
ReqType ==
  [pc : Pcs, open : Opens \cup {Nil}, conn : Conns \cup {Nil}, events : Events]
SeenType == [told : Events, put : Events, lost : BOOLEAN]
MarkType == [raced : BOOLEAN, failed : BOOLEAN, released : BOOLEAN]
TaskType == [op : {"none", "notify", "close", "closed"}, open : Opens \cup {Nil},
             req : Reqs \cup {NoReq}]

TypeInv ==
  /\ open \in [Opens -> OpenType] /\ req \in [Reqs -> ReqType] /\ seen \in [Opens -> SeenType]
  /\ refs \in [Paths -> Nat] /\ watched \in SUBSET Paths /\ token \in [Reqs -> BOOLEAN]
  /\ connected \in SUBSET Conns /\ task \in [Conns -> TaskType]
  /\ nreq \in Nat /\ nev \in Nat /\ mark \in [Opens -> MarkType]

(* What links the tables: a handle is known before anything refers to it,    *)
(* and the requests are numbered in the order they came.                     *)
Sound(w) ==
  /\ Len(w.notifyCh) <= NotifyCap
  /\ w.inTable => w.used
  /\ w.fsWatchPath => w.used
  /\ w.used => w.path \in Paths
Owned(r) == req[r].pc # "none" => req[r].open \in Opens /\ open[req[r].open].used /\ r <= nreq

Busy(c) ==
  /\ task[c].op # "none" => task[c].open \in Opens /\ open[task[c].open].used
  /\ task[c].op = "notify" =>
       /\ task[c].req \in Reqs
       /\ req[task[c].req].pc = "start" /\ req[task[c].req].open = task[c].open
Tasks ==
  /\ \A c \in Conns : Busy(c)
  /\ \A c, d \in Conns : task[c].op = "notify" /\ task[d].op = "notify"
                           /\ task[c].req = task[d].req => c = d

Linked ==
  /\ \A o \in Opens : Sound(open[o])
  /\ \A r \in Reqs : Owned(r)
  /\ Tasks

IInv == TypeInv /\ Linked

(* With one request pending per handle: the goroutines of a handle take     *)
(* turns, the handle's cancel channel is that of the one that may still need *)
(* it, and no event is lost or out of place.                                 *)
Alone(r) == \A x \in Reqs : Active(r) /\ Active(x) /\ req[x].open = req[r].open => x = r
Reachable(r) ==
  req[r].pc \in {"wait", "coalesce", "check", "clear"} /\ open[req[r].open].inTable
    => open[req[r].open].notifyCancel = r
Stream(o) ==
  /\ ~open[o].used => seen[o].told = <<>> /\ seen[o].put = <<>>
  /\ open[o].inTable /\ ~seen[o].lost
       => seen[o].told \o InHand(o) \o open[o].notifyCh = seen[o].put

OneInv == /\ \A r \in Reqs : Alone(r) /\ Reachable(r)
          /\ \A o \in Opens : Stream(o)

-----------------------------------------------------------------------------
(* The fields of a handle, of a request and of what a client was told.      *)
IsOpen(w, it, us, cn, pa, nc, ha, ch, fw) ==
  /\ w \in OpenType
  /\ w.inTable = it /\ w.used = us /\ w.conn = cn /\ w.path = pa
  /\ w.notifyCancel = nc /\ w.has = ha /\ w.notifyCh = ch /\ w.fsWatchPath = fw
IsReq(q, pc, o, ev) == q \in ReqType /\ q.pc = pc /\ q.open = o /\ q.events = ev
IsTask(t, op, o, r) == t \in TaskType /\ t.op = op /\ t.open = o /\ t.req = r
IsSeen(e, t, p, x) == e \in SeenType /\ e.told = t /\ e.put = p /\ e.lost = x

(* The fields have their types.                                             *)
LEMMA OpenFields ==
  ASSUME NEW w \in OpenType
  PROVE  /\ w.inTable \in BOOLEAN /\ w.used \in BOOLEAN /\ w.conn \in Conns \cup {Nil}
         /\ w.path \in Paths \cup {Nil} /\ w.notifyCancel \in Reqs \cup {NoReq}
         /\ w.has \in BOOLEAN /\ w.notifyCh \in Events /\ w.fsWatchPath \in BOOLEAN
BY DEF OpenType

(* ... of a request and of a client.                                        *)
LEMMA ReqFields ==
  /\ \A q \in ReqType : q.pc \in Pcs /\ q.open \in Opens \cup {Nil} /\ q.events \in Events
  /\ \A e \in SeenType : e.told \in Events /\ e.put \in Events /\ e.lost \in BOOLEAN
BY DEF ReqType, SeenType

(* A handler or goroutine writes one field of an Open.                      *)
LEMMA SetOpen ==
  ASSUME NEW w \in OpenType
  PROVE  /\ \A ch \in Events :
              IsOpen([w EXCEPT !.notifyCh = ch], w.inTable, w.used, w.conn, w.path,
                     w.notifyCancel, w.has, ch, w.fsWatchPath)
         /\ IsOpen([w EXCEPT !.notifyCancel = NoReq], w.inTable, w.used, w.conn, w.path,
                   NoReq, w.has, w.notifyCh, w.fsWatchPath)
         /\ IsOpen([w EXCEPT !.inTable = FALSE], FALSE, w.used, w.conn, w.path,
                   w.notifyCancel, w.has, w.notifyCh, w.fsWatchPath)
         /\ IsOpen([w EXCEPT !.fsWatchPath = FALSE], w.inTable, w.used, w.conn, w.path,
                   w.notifyCancel, w.has, w.notifyCh, FALSE)
         /\ \A r \in Reqs :
              IsOpen([w EXCEPT !.notifyCancel = r, !.has = TRUE, !.fsWatchPath = TRUE],
                     w.inTable, w.used, w.conn, w.path, r, TRUE, w.notifyCh, TRUE)
<1>1. ASSUME NEW ch \in Events
      PROVE  IsOpen([w EXCEPT !.notifyCh = ch], w.inTable, w.used, w.conn, w.path,
                    w.notifyCancel, w.has, ch, w.fsWatchPath)
  BY DEF IsOpen, OpenType
<1>2. IsOpen([w EXCEPT !.notifyCancel = NoReq], w.inTable, w.used, w.conn, w.path,
             NoReq, w.has, w.notifyCh, w.fsWatchPath)
  BY DEF IsOpen, OpenType
<1>3. IsOpen([w EXCEPT !.inTable = FALSE], FALSE, w.used, w.conn, w.path,
             w.notifyCancel, w.has, w.notifyCh, w.fsWatchPath)
  BY DEF IsOpen, OpenType
<1>4. IsOpen([w EXCEPT !.fsWatchPath = FALSE], w.inTable, w.used, w.conn, w.path,
             w.notifyCancel, w.has, w.notifyCh, FALSE)
  BY DEF IsOpen, OpenType
<1>5. ASSUME NEW r \in Reqs
      PROVE  IsOpen([w EXCEPT !.notifyCancel = r, !.has = TRUE, !.fsWatchPath = TRUE],
                    w.inTable, w.used, w.conn, w.path, r, TRUE, w.notifyCh, TRUE)
  BY DEF IsOpen, OpenType
<1> QED BY <1>1, <1>2, <1>3, <1>4, <1>5

(* CREATE makes this Open.                                                  *)
LEMMA NewOpenFields ==
  ASSUME NEW c \in Conns, NEW p \in Paths
  PROVE  /\ IsOpen([NewOpen EXCEPT !.inTable = TRUE, !.used = TRUE, !.conn = c, !.path = p],
                   TRUE, TRUE, c, p, NoReq, FALSE, <<>>, FALSE)
         /\ IsOpen(NewOpen, FALSE, FALSE, Nil, Nil, NoReq, FALSE, <<>>, FALSE)
<1>1. <<>> \in Events
  BY DEF Events
<1>2. IsOpen(NewOpen, FALSE, FALSE, Nil, Nil, NoReq, FALSE, <<>>, FALSE)
  BY <1>1 DEF NewOpen, IsOpen, OpenType
<1> HIDE DEF NewOpen
<1>3. IsOpen([NewOpen EXCEPT !.inTable = TRUE, !.used = TRUE, !.conn = c, !.path = p],
             TRUE, TRUE, c, p, NoReq, FALSE, <<>>, FALSE)
  BY <1>2 DEF IsOpen, OpenType
<1> QED BY <1>2, <1>3

(* The goroutine moves on, with its events or with others.                  *)
LEMMA SetReq ==
  ASSUME NEW q \in ReqType, NEW pc \in Pcs, NEW ev \in Events
  PROVE  /\ IsReq([q EXCEPT !.pc = pc], pc, q.open, q.events)
         /\ IsReq([q EXCEPT !.pc = pc, !.events = ev], pc, q.open, ev)
BY DEF IsReq, ReqType

(* The history of a handle's client.                                        *)
LEMMA SetSeen ==
  ASSUME NEW e \in SeenType, NEW h \in Events, NEW x \in BOOLEAN
  PROVE  /\ IsSeen([e EXCEPT !.told = h], h, e.put, e.lost)
         /\ IsSeen([e EXCEPT !.put = h], e.told, h, e.lost)
         /\ IsSeen([e EXCEPT !.lost = x], e.told, e.put, x)
BY DEF IsSeen, SeenType

(* One entry of a table changes.                                            *)
LEMMA OneEntry ==
  ASSUME NEW D, NEW S, NEW f \in [D -> S], NEW g, NEW d \in D, NEW w \in S,
         g = [f EXCEPT ![d] = w]
  PROVE  g \in [D -> S] /\ g[d] = w /\ \A x \in D : x # d => g[x] = f[x]
OBVIOUS

-----------------------------------------------------------------------------
(* What the actions do, field by field.                                     *)
OpenStep(o, it, us, cn, pa, nc, ha, ch, fw) ==
  /\ o \in Opens /\ open' \in [Opens -> OpenType]
  /\ IsOpen(open'[o], it, us, cn, pa, nc, ha, ch, fw)
  /\ \A x \in Opens : x # o => open'[x] = open[x]
ReqStep(r, pc, o, ev) ==
  /\ r \in Reqs /\ req' \in [Reqs -> ReqType] /\ IsReq(req'[r], pc, o, ev)
  /\ \A x \in Reqs : x # r => req'[x] = req[x]
TaskStep(c, op, o, r) ==
  /\ c \in Conns /\ task' \in [Conns -> TaskType] /\ IsTask(task'[c], op, o, r)
  /\ \A d \in Conns : d # c => task'[d] = task[d]
MarkStep(o, x, f, b) ==
  /\ o \in Opens /\ mark' \in [Opens -> MarkType]
  /\ mark'[o].raced = x /\ mark'[o].failed = f /\ mark'[o].released = b
  /\ \A y \in Opens : y # o => mark'[y] = mark[y]
SeenStep(o, t, p, x) ==
  /\ o \in Opens /\ seen' \in [Opens -> SeenType] /\ IsSeen(seen'[o], t, p, x)
  /\ \A y \in Opens : y # o => seen'[y] = seen[y]

(* addOpen.                                                                 *)
LEMMA CreateEffect ==
  ASSUME IInv, NEW c \in Conns, NEW o \in Opens, NEW p \in Paths, Create(c, o, p)
  PROVE  OpenStep(o, TRUE, TRUE, c, p, NoReq, FALSE, <<>>, FALSE)
<1> DEFINE w == [NewOpen EXCEPT !.inTable = TRUE, !.used = TRUE, !.conn = c, !.path = p]
<1>1. open' = [open EXCEPT ![o] = w]
  BY DEF Create
<1>2. IsOpen(w, TRUE, TRUE, c, p, NoReq, FALSE, <<>>, FALSE)
  BY NewOpenFields
<1> HIDE DEF w
<1>3. w \in OpenType /\ open \in [Opens -> OpenType]
  BY <1>2 DEF IsOpen, IInv, TypeInv
<1> QED BY <1>1, <1>2, <1>3, OneEntry DEF OpenStep

Taken(c, o, op, r) ==
  /\ open[o].inTable = TRUE /\ open[o].used = TRUE /\ open[o].path \in Paths
  /\ task[c] = NoTask /\ TaskStep(c, op, o, r)
  /\ mark' \in [Opens -> MarkType]
  /\ mark'[o].failed = mark[o].failed /\ mark'[o].released = mark[o].released
  /\ mark[o].raced => mark'[o].raced
  /\ \A d \in Conns : task[d].open = o => mark'[o].raced
  /\ \A y \in Opens : y # o => mark'[y] = mark[y]

(* A handler starts on a handle.                                            *)
LEMMA TakeEffect ==
  ASSUME IInv, NEW c \in Conns, NEW o \in Opens, NEW op \in {"notify", "close"},
         NEW r \in Reqs \cup {NoReq}, Take(c, o, op, r)
  PROVE  Taken(c, o, op, r)
<1>1. /\ open \in [Opens -> OpenType] /\ task \in [Conns -> TaskType]
      /\ mark \in [Opens -> MarkType] /\ Sound(open[o])
  BY DEF IInv, TypeInv, Linked
<1>2. open[o].inTable = TRUE /\ open[o].used = TRUE /\ open[o].path \in Paths
  <2>1. open[o] \in OpenType /\ open[o].inTable
    BY <1>1 DEF Take
  <2> QED BY <1>1, <2>1, OpenFields DEF Sound
<1>3. task[c] = NoTask /\ TaskStep(c, op, o, r)
  <2> DEFINE t == [op |-> op, open |-> o, req |-> r]
  <2>1. task[c] = NoTask /\ task' = [task EXCEPT ![c] = t]
    BY DEF Take, Serving
  <2>2. IsTask(t, op, o, r)
    BY DEF IsTask, TaskType
  <2> HIDE DEF t
  <2>3. t \in TaskType
    BY <2>2 DEF IsTask
  <2>4. task' \in [Conns -> TaskType] /\ task'[c] = t
          /\ \A d \in Conns : d # c => task'[d] = task[d]
    BY <1>1, <2>1, <2>3, OneEntry
  <2> QED BY <2>1, <2>2, <2>4 DEF TaskStep
<1>4. PICK x \in BOOLEAN : x = (mark[o].raced \/ \E d \in Conns : task[d].open = o)
  <2>1. mark[o].raced \in BOOLEAN
    BY <1>1 DEF MarkType
  <2> QED BY <2>1
<1>5. MarkStep(o, x, mark[o].failed, mark[o].released)
  <2> DEFINE m == [mark[o] EXCEPT !.raced = x]
  <2>1. mark' = [mark EXCEPT ![o].raced = mark[o].raced \/ \E d \in Conns : task[d].open = o]
    BY DEF Take
  <2>2. mark' = [mark EXCEPT ![o] = m]
    BY <1>4, <2>1
  <2>3. mark[o] \in MarkType
    BY <1>1
  <2>4. /\ m \in MarkType /\ m.raced = x /\ m.failed = mark[o].failed
        /\ m.released = mark[o].released
    BY <2>3 DEF MarkType
  <2> HIDE DEF m
  <2>5. mark' \in [Opens -> MarkType] /\ mark'[o] = m
          /\ \A y \in Opens : y # o => mark'[y] = mark[y]
    BY <1>1, <2>2, <2>4, OneEntry
  <2> QED BY <2>4, <2>5 DEF MarkStep
<1> QED BY <1>2, <1>3, <1>4, <1>5 DEF Taken, MarkStep

(* A handler has ended.                                                     *)
LEMMA TaskEnds ==
  ASSUME IInv, NEW c \in Conns, task' = [task EXCEPT ![c] = NoTask]
  PROVE  TaskStep(c, "none", Nil, NoReq)
<1>1. IsTask(NoTask, "none", Nil, NoReq)
  BY DEF IsTask, NoTask, TaskType
<1>2. NoTask \in TaskType /\ task \in [Conns -> TaskType]
  BY <1>1 DEF IsTask, IInv, TypeInv
<1>3. task' \in [Conns -> TaskType] /\ task'[c] = NoTask
        /\ \A d \in Conns : d # c => task'[d] = task[d]
  BY <1>2, OneEntry
<1> QED BY <1>1, <1>3 DEF TaskStep

(* changeNotify: the lookup and PENDING.                                    *)
LEMMA ChangeNotifyEffect ==
  ASSUME IInv, NEW c \in Conns, NEW o \in Opens, ChangeNotify(c, o)
  PROVE  /\ ReqStep(nreq + 1, "start", o, <<>>) /\ nreq' = nreq + 1 /\ nreq \in Nat
         /\ open[o].inTable /\ open[o].used /\ TaskStep(c, "notify", o, nreq + 1)
         /\ task[c] = NoTask /\ mark' \in [Opens -> MarkType]
<1> DEFINE r == nreq + 1
           q == [pc |-> "start", open |-> o, conn |-> c, events |-> <<>>]
<1>1. Take(c, o, "notify", r) /\ r \in Reqs /\ req' = [req EXCEPT ![r] = q] /\ nreq' = r
  BY DEF ChangeNotify
<1>2. req \in [Reqs -> ReqType] /\ nreq \in Nat
  BY DEF IInv, TypeInv
<1>3. IsReq(q, "start", o, <<>>)
  <2>1. <<>> \in Events
    BY DEF Events
  <2> QED BY <2>1 DEF IsReq, ReqType, Pcs
<1> HIDE DEF r, q
<1>4. q \in ReqType
  BY <1>3 DEF IsReq
<1>5. req' \in [Reqs -> ReqType] /\ req'[r] = q /\ \A x \in Reqs : x # r => req'[x] = req[x]
  BY <1>1, <1>2, <1>4, OneEntry
<1>6. ReqStep(r, "start", o, <<>>)
  BY <1>1, <1>3, <1>5 DEF ReqStep
<1>7. /\ open[o].inTable = TRUE /\ open[o].used = TRUE
      /\ task[c] = NoTask /\ TaskStep(c, "notify", o, r)
      /\ mark' \in [Opens -> MarkType]
  <2>1. "notify" \in {"notify", "close"} /\ r \in Reqs \cup {NoReq}
    BY <1>1
  <2>2. Taken(c, o, "notify", r)
    BY <1>1, <2>1, TakeEffect
  <2> QED BY <2>2 DEF Taken
<1> QED BY <1>1, <1>2, <1>6, <1>7 DEF r

Registered(c, f, o, r) ==
  /\ OpenStep(o, open[o].inTable, TRUE, open[o].conn, open[o].path, r, TRUE,
              open[o].notifyCh, TRUE)
  /\ open[o].path \in Paths /\ open[o].used /\ Len(open[o].notifyCh) <= NotifyCap
  /\ task[c].op = "notify" /\ req[r].pc = "start" /\ req[r].open = o
  /\ ReqStep(r, "wait", o, req[r].events) /\ TaskStep(c, "none", Nil, NoReq)
  /\ open[o].fsWatchPath => UNCHANGED <<refs, watched, mark>>
  /\ ~open[o].fsWatchPath =>
       /\ AddFsWatch(open[o].path, f)
       /\ mark' \in [Opens -> MarkType]
       /\ mark'[o].raced = mark[o].raced /\ mark'[o].released = mark[o].released
       /\ Fails(open[o].path, f) => mark'[o].failed
       /\ \A y \in Opens : y # o => mark'[y] = mark[y]

(* ... and the rest: the handle waits for changes.                          *)
LEMMA RegisterEffect ==
  ASSUME IInv, NEW c \in Conns, NEW f \in BOOLEAN, Register(c, f), NEW o, NEW r,
         o = task[c].open, r = task[c].req
  PROVE  Registered(c, f, o, r)
<1> DEFINE v == open[o]
           w == [v EXCEPT !.notifyCancel = r, !.has = TRUE, !.fsWatchPath = TRUE]
           q == [req[r] EXCEPT !.pc = "wait"]
<1>1. /\ task[c].op = "notify" /\ open' = [open EXCEPT ![o] = w]
      /\ req' = [req EXCEPT ![r] = q] /\ task' = [task EXCEPT ![c] = NoTask]
      /\ v.fsWatchPath => UNCHANGED <<refs, watched, mark>>
      /\ ~v.fsWatchPath => /\ AddFsWatch(v.path, f)
                           /\ mark' = [mark EXCEPT ![o].failed = Fails(v.path, f)]
  BY DEF Register
<1>2. /\ o \in Opens /\ v.used /\ r \in Reqs /\ req[r].pc = "start" /\ req[r].open = o
  BY <1>1 DEF IInv, Linked, Tasks, Busy
<1>3. /\ v \in OpenType /\ open \in [Opens -> OpenType] /\ req \in [Reqs -> ReqType]
      /\ Sound(v) /\ req[r] \in ReqType /\ mark \in [Opens -> MarkType]
  BY <1>2 DEF IInv, TypeInv, Linked
<1>4. v.used = TRUE /\ v.path \in Paths /\ Len(v.notifyCh) <= NotifyCap
  BY <1>2, <1>3, OpenFields DEF Sound
<1>5. IsOpen(w, v.inTable, v.used, v.conn, v.path, r, TRUE, v.notifyCh, TRUE)
  <2> HIDE DEF v
  <2> QED BY <1>2, <1>3, SetOpen
<1>6. IsReq(q, "wait", req[r].open, req[r].events)
  BY <1>3, SetReq, ReqFields DEF Pcs
<1>7. TaskStep(c, "none", Nil, NoReq)
  BY <1>1, TaskEnds
<1>8. ASSUME ~v.fsWatchPath
      PROVE  /\ mark' \in [Opens -> MarkType]
             /\ mark'[o].raced = mark[o].raced /\ mark'[o].released = mark[o].released
             /\ Fails(v.path, f) => mark'[o].failed
             /\ \A y \in Opens : y # o => mark'[y] = mark[y]
  <2>1. PICK b \in BOOLEAN : b = Fails(v.path, f)
    BY DEF Fails
  <2> DEFINE m == [mark[o] EXCEPT !.failed = b]
  <2>2. mark' = [mark EXCEPT ![o] = m]
    BY <1>1, <1>8, <2>1
  <2>3. mark[o] \in MarkType
    BY <1>2, <1>3
  <2>4. /\ m \in MarkType /\ m.raced = mark[o].raced /\ m.failed = b
        /\ m.released = mark[o].released
    BY <2>3 DEF MarkType
  <2> HIDE DEF m
  <2>5. mark' \in [Opens -> MarkType] /\ mark'[o] = m
          /\ \A y \in Opens : y # o => mark'[y] = mark[y]
    BY <1>2, <1>3, <2>2, <2>4, OneEntry
  <2> QED BY <2>1, <2>4, <2>5
<1> HIDE DEF v, w, q
<1>9. w \in OpenType /\ q \in ReqType
  BY <1>5, <1>6 DEF IsOpen, IsReq
<1>10. open' \in [Opens -> OpenType] /\ open'[o] = w
         /\ \A x \in Opens : x # o => open'[x] = open[x]
  BY <1>1, <1>2, <1>3, <1>9, OneEntry
<1>11. req' \in [Reqs -> ReqType] /\ req'[r] = q /\ \A x \in Reqs : x # r => req'[x] = req[x]
  BY <1>1, <1>2, <1>3, <1>9, OneEntry
<1>12. OpenStep(o, v.inTable, TRUE, v.conn, v.path, r, TRUE, v.notifyCh, TRUE)
  BY <1>2, <1>4, <1>5, <1>10 DEF OpenStep
<1>13. ReqStep(r, "wait", o, req[r].events)
  BY <1>2, <1>6, <1>11 DEF ReqStep
<1> QED BY <1>1, <1>2, <1>4, <1>7, <1>8, <1>12, <1>13 DEF v, Registered

(* notifyChange: the event is put in the channel of some handles.           *)
LEMMA NotifyChangeEffect ==
  ASSUME IInv, NEW p, NotifyChange(p)
  PROVE  /\ open' \in [Opens -> OpenType] /\ seen' \in [Opens -> SeenType] /\ nev' \in Nat
         /\ \A o \in Opens :
              \/ open'[o] = open[o] /\ seen'[o] = seen[o]
              \/ /\ open[o].inTable /\ Len(open[o].notifyCh) < NotifyCap
                 /\ IsOpen(open'[o], open[o].inTable, open[o].used, open[o].conn, open[o].path,
                           open[o].notifyCancel, open[o].has, Append(open[o].notifyCh, nev + 1),
                           open[o].fsWatchPath)
                 /\ IsSeen(seen'[o], seen[o].told, Append(seen[o].put, nev + 1),
                           seen[o].lost)
<1>1. /\ open \in [Opens -> OpenType] /\ seen \in [Opens -> SeenType] /\ nev \in Nat
  BY DEF IInv, TypeInv
<1>2. ASSUME NEW o \in Opens
      PROVE  /\ IsOpen([open[o] EXCEPT !.notifyCh = Append(open[o].notifyCh, nev + 1)],
                       open[o].inTable, open[o].used, open[o].conn, open[o].path,
                       open[o].notifyCancel, open[o].has, Append(open[o].notifyCh, nev + 1),
                       open[o].fsWatchPath)
             /\ IsSeen([seen[o] EXCEPT !.put = Append(seen[o].put, nev + 1)], seen[o].told,
                       Append(seen[o].put, nev + 1), seen[o].lost)
  <2>1. open[o] \in OpenType /\ seen[o] \in SeenType
    BY <1>1
  <2>2. open[o].notifyCh \in Events /\ seen[o].put \in Events
    BY <2>1, OpenFields, ReqFields
  <2>3. Append(open[o].notifyCh, nev + 1) \in Events /\ Append(seen[o].put, nev + 1) \in Events
    BY <1>1, <2>2 DEF Events
  <2>4. IsSeen([seen[o] EXCEPT !.put = Append(seen[o].put, nev + 1)], seen[o].told,
               Append(seen[o].put, nev + 1), seen[o].lost)
    BY <2>1, <2>3, SetSeen
  <2> QED BY <2>1, <2>3, <2>4, SetOpen
<1>3. /\ open' = [o \in Opens |-> IF Hears(o, p) /\ Room(o)
                    THEN [open[o] EXCEPT !.notifyCh = Append(open[o].notifyCh, nev + 1)]
                    ELSE open[o]]
      /\ seen' = [o \in Opens |-> IF Hears(o, p) /\ Room(o)
                    THEN [seen[o] EXCEPT !.put = Append(seen[o].put, nev + 1)] ELSE seen[o]]
      /\ nev' = nev + 1
  BY DEF NotifyChange
<1>4. \A o \in Opens : Hears(o, p) /\ Room(o) => open[o].inTable
        /\ Len(open[o].notifyCh) < NotifyCap
  BY DEF Hears, Room
<1>5. open' \in [Opens -> OpenType] /\ seen' \in [Opens -> SeenType]
  BY <1>1, <1>2, <1>3 DEF IsOpen, IsSeen
<1>6. ASSUME NEW o \in Opens
      PROVE  \/ open'[o] = open[o] /\ seen'[o] = seen[o]
             \/ /\ open[o].inTable /\ Len(open[o].notifyCh) < NotifyCap
                /\ open'[o] = [open[o] EXCEPT !.notifyCh = Append(open[o].notifyCh, nev + 1)]
                /\ seen'[o] = [seen[o] EXCEPT !.put = Append(seen[o].put, nev + 1)]
  BY <1>3, <1>4
<1>7. nev' \in Nat
  BY <1>1, <1>3
<1> QED BY <1>2, <1>5, <1>6, <1>7

(* A goroutine receives an event.                                           *)
LEMMA ReceiveEffect ==
  ASSUME IInv, NEW r \in Reqs, NEW pc, pc \in {"wait", "coalesce"}, Receive(r, pc), NEW o,
         o = req[r].open
  PROVE  /\ req[r].pc = pc /\ open[o].notifyCh # <<>> /\ open[o].notifyCh \in Events
         /\ OpenStep(o, open[o].inTable, open[o].used, open[o].conn, open[o].path,
                     open[o].notifyCancel, open[o].has, Tail(open[o].notifyCh),
                     open[o].fsWatchPath)
         /\ ReqStep(r, "coalesce", o, Append(req[r].events, Head(open[o].notifyCh)))
<1> DEFINE v == open[o]
           u == req[r]
           h == Tail(v.notifyCh)
           ev == Append(u.events, Head(v.notifyCh))
           w == [v EXCEPT !.notifyCh = h]
           q == [u EXCEPT !.pc = "coalesce", !.events = ev]
<1>1. /\ open \in [Opens -> OpenType] /\ req \in [Reqs -> ReqType]
      /\ u.pc = pc /\ v.notifyCh # <<>>
      /\ open' = [open EXCEPT ![o] = w] /\ req' = [req EXCEPT ![r] = q]
  BY DEF Receive, IInv, TypeInv
<1>2. o \in Opens
  BY <1>1 DEF IInv, Linked, Owned
<1>3. v \in OpenType /\ u \in ReqType
  BY <1>1, <1>2
<1>4. v.notifyCh \in Events /\ u.events \in Events
  BY <1>3, OpenFields, ReqFields
<1>5. h \in Events /\ ev \in Events
  BY <1>1, <1>4 DEF Events
<1> HIDE DEF h, ev, u, v
<1>6. IsOpen(w, v.inTable, v.used, v.conn, v.path, v.notifyCancel, v.has, h, v.fsWatchPath)
  BY <1>3, <1>5, SetOpen
<1>7. IsReq(q, "coalesce", u.open, ev)
  BY <1>3, <1>5, SetReq DEF Pcs
<1> HIDE DEF w, q
<1>8. w \in OpenType /\ q \in ReqType
  BY <1>6, <1>7 DEF IsOpen, IsReq
<1>9. open' \in [Opens -> OpenType] /\ open'[o] = w
        /\ \A x \in Opens : x # o => open'[x] = open[x]
  BY <1>1, <1>2, <1>8, OneEntry
<1>10. req' \in [Reqs -> ReqType] /\ req'[r] = q /\ \A x \in Reqs : x # r => req'[x] = req[x]
  BY <1>1, <1>8, OneEntry
<1>11. u.open = o
  BY DEF u
<1> QED BY <1>1, <1>2, <1>4, <1>6, <1>7, <1>9, <1>10, <1>11 DEF OpenStep, ReqStep, u, v, h, ev

(* A goroutine moves on without an event.                                   *)
LEMMA GoroutineEffect ==
  ASSUME IInv, NEW r \in Reqs, NEW pc \in Pcs, NEW l \in Pcs, pc # "none", Goroutine(r, pc, l)
  PROVE  /\ req[r].pc = pc /\ req[r].open \in Opens
         /\ ReqStep(r, l, req[r].open, req[r].events)
<1> DEFINE u == req[r]
           q == [u EXCEPT !.pc = l]
<1>1. req \in [Reqs -> ReqType] /\ u.pc = pc /\ req' = [req EXCEPT ![r] = q]
  BY DEF Goroutine, IInv, TypeInv
<1>2. u \in ReqType /\ u.open \in Opens
  BY <1>1 DEF IInv, Linked, Owned
<1>3. u.events \in Events
  BY <1>2, ReqFields
<1> HIDE DEF u
<1>4. IsReq(q, l, u.open, u.events)
  BY <1>2, <1>3, SetReq
<1> HIDE DEF q
<1>5. q \in ReqType
  BY <1>4 DEF IsReq
<1>6. req' \in [Reqs -> ReqType] /\ req'[r] = q /\ \A x \in Reqs : x # r => req'[x] = req[x]
  BY <1>1, <1>5, OneEntry
<1> QED BY <1>1, <1>2, <1>4, <1>6 DEF ReqStep, u

(* The cancel case of the select.                                           *)
LEMMA TakeCancelEffect ==
  ASSUME IInv, NEW r \in Reqs, TakeCancel(r)
  PROVE  /\ req[r].pc \in {"wait", "coalesce"} /\ req[r].open \in Opens
         /\ ReqStep(r, "check", req[r].open, <<>>)
         /\ SeenStep(req[r].open, seen[req[r].open].told, seen[req[r].open].put,
                     IF req[r].events # <<>> THEN TRUE ELSE seen[req[r].open].lost)
         /\ token' \in [Reqs -> BOOLEAN]
<1> DEFINE u == req[r]
           q == [u EXCEPT !.pc = "check", !.events = <<>>]
           o == u.open
           e == seen[o]
           x == IF u.events # <<>> THEN TRUE ELSE e.lost
           d == [e EXCEPT !.lost = x]
<1>1. /\ req \in [Reqs -> ReqType] /\ seen \in [Opens -> SeenType] /\ token \in [Reqs -> BOOLEAN]
      /\ u.pc \in {"wait", "coalesce"} /\ req' = [req EXCEPT ![r] = q]
      /\ token' = [token EXCEPT ![r] = FALSE]
  BY DEF TakeCancel, IInv, TypeInv
<1>2. u \in ReqType /\ o \in Opens
  BY <1>1 DEF IInv, Linked, Owned
<1>3. e \in SeenType
  BY <1>1, <1>2
<1>4. e.lost \in BOOLEAN
  BY <1>3, ReqFields
<1>5. x \in BOOLEAN /\ (e.lost \/ u.events # <<>>) = x
  BY <1>4
<1>6. seen' = [seen EXCEPT ![o] = [e EXCEPT !.lost = e.lost \/ u.events # <<>>]]
  BY DEF TakeCancel
<1>7. seen' = [seen EXCEPT ![o] = d]
  BY <1>5, <1>6
<1>8. <<>> \in Events /\ e.told \in Events
  BY <1>3, ReqFields DEF Events
<1> HIDE DEF e, x, o
<1>9. IsSeen(d, e.told, e.put, x)
  BY <1>3, <1>5, <1>8, SetSeen
<1> HIDE DEF u, d
<1>10. IsReq(q, "check", u.open, <<>>)
  BY <1>2, <1>8, SetReq DEF Pcs
<1> HIDE DEF q
<1>11. q \in ReqType /\ d \in SeenType
  BY <1>9, <1>10 DEF IsReq, IsSeen
<1>12. req' \in [Reqs -> ReqType] /\ req'[r] = q /\ \A y \in Reqs : y # r => req'[y] = req[y]
  BY <1>1, <1>11, OneEntry
<1>13. seen' \in [Opens -> SeenType] /\ seen'[o] = d
         /\ \A y \in Opens : y # o => seen'[y] = seen[y]
  BY <1>1, <1>2, <1>7, <1>11, OneEntry
<1>14. ReqStep(r, "check", u.open, <<>>) /\ SeenStep(o, e.told, e.put, x)
  BY <1>2, <1>9, <1>10, <1>12, <1>13 DEF ReqStep, SeenStep
<1>15. token' \in [Reqs -> BOOLEAN]
  BY <1>1
<1> QED BY <1>1, <1>2, <1>14, <1>15 DEF u, o, e, x

(* The answer is sent, if the connection that asked is up.                  *)
LEMMA AnswerEffect ==
  ASSUME IInv, NEW r \in Reqs, Answer(r), NEW o, o = req[r].open
  PROVE  /\ req[r].pc = "send" /\ o \in Opens /\ ReqStep(r, "done", o, req[r].events)
         /\ \/ SeenStep(o, seen[o].told \o req[r].events, seen[o].put, seen[o].lost)
            \/ SeenStep(o, seen[o].told, seen[o].put,
                        IF req[r].events # <<>> THEN TRUE ELSE seen[o].lost)
<1>1. req[r].pc = "send" /\ o \in Opens /\ ReqStep(r, "done", o, req[r].events)
  BY GoroutineEffect DEF Answer, Pcs
<1> DEFINE e == seen[o]
           t == e.told \o req[r].events
           x == IF req[r].events # <<>> THEN TRUE ELSE e.lost
           d == [e EXCEPT !.told = t]
           g == [e EXCEPT !.lost = x]
<1>2. seen \in [Opens -> SeenType] /\ req[r] \in ReqType
  BY DEF IInv, TypeInv
<1>3. e \in SeenType
  BY <1>1, <1>2
<1>4. e.told \in Events /\ e.lost \in BOOLEAN /\ req[r].events \in Events
  BY <1>2, <1>3, ReqFields
<1>5. t \in Events /\ x \in BOOLEAN /\ x = (e.lost \/ req[r].events # <<>>)
  <2>1. t \in Events
    BY <1>4 DEF Events
  <2>2. x \in BOOLEAN /\ x = (e.lost \/ req[r].events # <<>>)
    BY <1>4
  <2> QED BY <2>1, <2>2
<1>6. seen' = [seen EXCEPT ![o] = d] \/ seen' = [seen EXCEPT ![o] = g]
  <2>1. \/ seen' = [seen EXCEPT ![o].told = e.told \o req[r].events]
        \/ seen' = [seen EXCEPT ![o].lost = e.lost \/ req[r].events # <<>>]
    BY DEF Answer
  <2> QED BY <1>5, <2>1
<1> HIDE DEF e, t, x
<1>7. IsSeen(d, t, e.put, e.lost) /\ IsSeen(g, e.told, e.put, x)
  BY <1>3, <1>4, <1>5, SetSeen
<1> HIDE DEF d, g
<1>8. d \in SeenType /\ g \in SeenType
  BY <1>7 DEF IsSeen
<1>9. CASE seen' = [seen EXCEPT ![o] = d]
  <2>1. seen' \in [Opens -> SeenType] /\ seen'[o] = d
          /\ \A y \in Opens : y # o => seen'[y] = seen[y]
    BY <1>1, <1>2, <1>8, <1>9, OneEntry
  <2>2. SeenStep(o, t, e.put, e.lost)
    BY <1>1, <1>7, <2>1 DEF SeenStep
  <2> QED BY <1>1, <2>2 DEF e, t
<1>10. CASE seen' = [seen EXCEPT ![o] = g]
  <2>1. seen' \in [Opens -> SeenType] /\ seen'[o] = g
          /\ \A y \in Opens : y # o => seen'[y] = seen[y]
    BY <1>1, <1>2, <1>8, <1>10, OneEntry
  <2>2. SeenStep(o, e.told, e.put, x)
    BY <1>1, <1>7, <2>1 DEF SeenStep
  <2> QED BY <1>1, <2>2 DEF e, x
<1> QED BY <1>6, <1>9, <1>10

(* The handle's cancel channel is removed.                                  *)
LEMMA ClearCancelEffect ==
  ASSUME IInv, NEW r \in Reqs, ClearCancel(r), NEW o, o = req[r].open
  PROVE  /\ req[r].pc = "clear" /\ ReqStep(r, "send", o, req[r].events)
         /\ OpenStep(o, open[o].inTable, open[o].used, open[o].conn, open[o].path, NoReq,
                     open[o].has, open[o].notifyCh, open[o].fsWatchPath)
<1>1. req[r].pc = "clear" /\ o \in Opens /\ ReqStep(r, "send", o, req[r].events)
  BY GoroutineEffect DEF ClearCancel, Pcs
<1> DEFINE v == open[o]
           w == [v EXCEPT !.notifyCancel = NoReq]
<1>2. open \in [Opens -> OpenType] /\ open' = [open EXCEPT ![o] = w]
  BY DEF ClearCancel, IInv, TypeInv
<1>3. v \in OpenType
  BY <1>1, <1>2
<1> HIDE DEF v
<1>4. IsOpen(w, v.inTable, v.used, v.conn, v.path, NoReq, v.has, v.notifyCh, v.fsWatchPath)
  BY <1>3, SetOpen
<1> HIDE DEF w
<1>5. w \in OpenType
  BY <1>4 DEF IsOpen
<1>6. open' \in [Opens -> OpenType] /\ open'[o] = w
        /\ \A x \in Opens : x # o => open'[x] = open[x]
  BY <1>1, <1>2, <1>5, OneEntry
<1> QED BY <1>1, <1>4, <1>6 DEF OpenStep, v

(* CLOSE: the lookup, ...                                                   *)
LEMMA CloseEffect ==
  ASSUME IInv, NEW c \in Conns, NEW o \in Opens, Close(c, o)
  PROVE  /\ open[o].inTable /\ open[o].used /\ TaskStep(c, "close", o, NoReq)
         /\ mark' \in [Opens -> MarkType]
<1>1. Take(c, o, "close", NoReq)
  BY DEF Close
<1>2. /\ open[o].inTable = TRUE /\ open[o].used = TRUE /\ TaskStep(c, "close", o, NoReq)
      /\ mark' \in [Opens -> MarkType]
  <2>1. "close" \in {"notify", "close"} /\ NoReq \in Reqs \cup {NoReq}
    OBVIOUS
  <2>2. Taken(c, o, "close", NoReq)
    BY <1>1, <2>1, TakeEffect
  <2> QED BY <2>2 DEF Taken
<1> QED BY <1>2

(* ... the handle leaves the table, ...                                     *)
LEMMA CloseDeleteEffect ==
  ASSUME IInv, NEW c \in Conns, CloseDelete(c), NEW o, o = task[c].open
  PROVE  /\ o \in Opens /\ open[o].used
         /\ OpenStep(o, FALSE, open[o].used, open[o].conn, open[o].path, open[o].notifyCancel,
                     open[o].has, open[o].notifyCh, open[o].fsWatchPath)
         /\ TaskStep(c, "closed", o, task[c].req) /\ task[c].op = "close"
<1> DEFINE v == open[o]
           w == [v EXCEPT !.inTable = FALSE]
           t == [task[c] EXCEPT !.op = "closed"]
<1>1. /\ open \in [Opens -> OpenType] /\ open' = [open EXCEPT ![o] = w]
      /\ task \in [Conns -> TaskType] /\ task' = [task EXCEPT ![c] = t]
      /\ task[c].op = "close" /\ task[c] \in TaskType
  BY DEF CloseDelete, IInv, TypeInv
<1>2. o \in Opens /\ v.used /\ v \in OpenType
  BY <1>1 DEF IInv, Linked, Tasks, Busy
<1> HIDE DEF v
<1>3. IsOpen(w, FALSE, v.used, v.conn, v.path, v.notifyCancel, v.has, v.notifyCh, v.fsWatchPath)
  BY <1>2, SetOpen
<1>4. IsTask(t, "closed", o, task[c].req)
  BY <1>1 DEF IsTask, TaskType
<1> HIDE DEF w, t
<1>5. w \in OpenType /\ t \in TaskType
  BY <1>3, <1>4 DEF IsOpen, IsTask
<1>6. open' \in [Opens -> OpenType] /\ open'[o] = w
        /\ \A x \in Opens : x # o => open'[x] = open[x]
  BY <1>1, <1>2, <1>5, OneEntry
<1>7. task' \in [Conns -> TaskType] /\ task'[c] = t
        /\ \A x \in Conns : x # c => task'[x] = task[x]
  BY <1>1, <1>5, OneEntry
<1> QED BY <1>1, <1>2, <1>3, <1>4, <1>6, <1>7 DEF OpenStep, TaskStep, v

(* ... and the watch is given back.                                         *)
LEMMA CloseEndEffect ==
  ASSUME IInv, NEW c \in Conns, CloseEnd(c), NEW o, o = task[c].open
  PROVE  /\ o \in Opens /\ open[o].used /\ open[o].path \in Paths /\ task[c].op = "closed"
         /\ TaskStep(c, "none", Nil, NoReq) /\ token' \in [Reqs -> BOOLEAN]
         /\ MarkStep(o, mark[o].raced, mark[o].failed, TRUE)
         /\ open[o].fsWatchPath => RemoveFsWatch(open[o].path)
         /\ ~open[o].fsWatchPath => refs' = refs /\ watched' = watched
<1>1. /\ open \in [Opens -> OpenType] /\ token \in [Reqs -> BOOLEAN]
      /\ mark \in [Opens -> MarkType] /\ task[c].op = "closed"
      /\ task' = [task EXCEPT ![c] = NoTask]
      /\ open[o].fsWatchPath => RemoveFsWatch(open[o].path)
      /\ ~open[o].fsWatchPath => refs' = refs /\ watched' = watched
  BY DEF CloseEnd, IInv, TypeInv
<1>2. o \in Opens /\ open[o].used /\ Sound(open[o])
  BY <1>1 DEF IInv, Linked, Tasks, Busy
<1>3. open[o].path \in Paths
  BY <1>2 DEF Sound
<1>4. token' \in [Reqs -> BOOLEAN]
  BY <1>1 DEF CloseEnd
<1>5. MarkStep(o, mark[o].raced, mark[o].failed, TRUE)
  <2> DEFINE m == [mark[o] EXCEPT !.released = TRUE]
  <2>1. mark' = [mark EXCEPT ![o] = m]
    BY DEF CloseEnd
  <2>2. mark[o] \in MarkType
    BY <1>1, <1>2
  <2>3. /\ m \in MarkType /\ m.raced = mark[o].raced /\ m.failed = mark[o].failed
        /\ m.released = TRUE
    BY <2>2 DEF MarkType
  <2> HIDE DEF m
  <2>4. mark' \in [Opens -> MarkType] /\ mark'[o] = m
          /\ \A y \in Opens : y # o => mark'[y] = mark[y]
    BY <1>1, <1>2, <2>1, <2>3, OneEntry
  <2> QED BY <1>2, <2>3, <2>4 DEF MarkStep
<1>6. TaskStep(c, "none", Nil, NoReq)
  BY <1>1, TaskEnds
<1> QED BY <1>1, <1>2, <1>3, <1>4, <1>5, <1>6

-----------------------------------------------------------------------------
(* A handler keeps its task, with its request where it was; or it has none, *)
(* or its task is a CLOSE.                                                  *)
TaskKept(c) ==
  \/ task'[c] = task[c] /\ (task[c].op = "notify" => req'[task[c].req] = req[task[c].req])
  \/ task'[c].op = "none"
  \/ task'[c].op \in {"close", "closed"} /\ task'[c].open \in Opens /\ open'[task'[c].open].used

LEMMA TasksKept ==
  ASSUME IInv, \A o \in Opens : open[o].used => open'[o].used, \A c \in Conns : TaskKept(c)
  PROVE  Tasks'
<1>1. Tasks
  BY DEF IInv, Linked
<1>2. ASSUME NEW c \in Conns PROVE Busy(c)'
  BY <1>1, <1>2 DEF Tasks, Busy, TaskKept
<1>3. ASSUME NEW c \in Conns, task'[c].op = "notify" PROVE task'[c] = task[c]
  BY <1>3 DEF TaskKept
<1>4. ASSUME NEW c \in Conns, NEW d \in Conns, task'[c].op = "notify", task'[d].op = "notify",
             task'[c].req = task'[d].req
      PROVE  c = d
  <2>1. task'[c] = task[c] /\ task'[d] = task[d]
    BY <1>3, <1>4
  <2> QED BY <1>1, <1>4, <2>1 DEF Tasks
<1> QED BY <1>2, <1>4 DEF Tasks

(* The request of a handler is not that of a goroutine.                     *)
LEMMA StartKept ==
  ASSUME IInv, NEW r, NEW pc, NEW o, NEW ev, req[r].pc # "start", ReqStep(r, pc, o, ev),
         task' = task
  PROVE  \A c \in Conns : TaskKept(c)
<1> SUFFICES ASSUME NEW c \in Conns, task[c].op = "notify"
             PROVE  req'[task[c].req] = req[task[c].req]
  BY DEF TaskKept
<1>1. task[c].req \in Reqs /\ req[task[c].req].pc = "start"
  BY DEF IInv, Linked, Tasks, Busy
<1> QED BY <1>1 DEF ReqStep

(* The links survive a step that forgets no handle and starts no request out *)
(* of turn.                                                                  *)
LEMMA LinkedStep ==
  ASSUME IInv, TypeInv', Tasks',
         \A o \in Opens : Sound(open'[o]) /\ (open[o].used => open'[o].used),
         nreq <= nreq',
         \A r \in Reqs : \/ req[r].pc # "none" /\ req'[r].open = req[r].open
                         \/ req'[r].pc = "none"
                         \/ req'[r].open \in Opens /\ open'[req'[r].open].used /\ r <= nreq'
  PROVE  IInv'
<1>1. nreq \in Nat /\ nreq' \in Nat /\ Reqs \subseteq Nat
  BY DEF IInv, TypeInv, Reqs
<1>2. ASSUME NEW r \in Reqs PROVE Owned(r)'
  BY <1>1 DEF IInv, Linked, Owned
<1> QED BY <1>2 DEF IInv, Linked

(* One Open changes and stays in order.                                      *)
LEMMA SoundStep ==
  ASSUME IInv, NEW o, NEW it, NEW cn, NEW pa, NEW nc, NEW ha, NEW ch, NEW fw,
         OpenStep(o, it, TRUE, cn, pa, nc, ha, ch, fw), Len(ch) <= NotifyCap, pa \in Paths
  PROVE  \A x \in Opens : Sound(open'[x]) /\ (open[x].used => open'[x].used)
BY DEF OpenStep, IsOpen, IInv, Linked, Sound

(* One request changes and keeps its handle.                                 *)
LEMMA OwnedStep ==
  ASSUME IInv, NEW r, NEW pc, NEW ev, req[r].pc # "none", ReqStep(r, pc, req[r].open, ev)
  PROVE  /\ req' \in [Reqs -> ReqType]
         /\ \A x \in Reqs : \/ req[x].pc # "none" /\ req'[x].open = req[x].open
                            \/ req'[x].pc = "none"
<1>1. ASSUME NEW x \in Reqs, x # r PROVE req'[x] = req[x]
  BY <1>1 DEF ReqStep
<1>2. req'[r].open = req[r].open
  BY DEF ReqStep, IsReq
<1> QED BY <1>1, <1>2 DEF ReqStep

(* An Open in use has a channel within its capacity and a path.              *)
LEMMA UsedOpen ==
  ASSUME IInv, NEW o \in Opens, open[o].used
  PROVE  /\ open[o].used = TRUE /\ open[o].path \in Paths /\ Len(open[o].notifyCh) <= NotifyCap
         /\ open[o].notifyCh \in Seq(Nat) /\ NotifyCap \in Nat
<1>1. open[o] \in OpenType /\ Sound(open[o])
  BY DEF IInv, TypeInv, Linked
<1> QED BY <1>1, OpenFields, NotifyCapAssumption DEF Sound, Events

(* The reference counts stay natural numbers.                                *)
LEMMA WatchTypes ==
  ASSUME refs \in [Paths -> Nat], watched \in SUBSET Paths, NEW p \in Paths
  PROVE  /\ \A f : AddFsWatch(p, f) => refs' \in [Paths -> Nat] /\ watched' \in SUBSET Paths
         /\ RemoveFsWatch(p) => refs' \in [Paths -> Nat] /\ watched' \in SUBSET Paths
<1>1. refs[p] \in Nat
  OBVIOUS
<1>2. ASSUME NEW f, AddFsWatch(p, f) PROVE refs' \in [Paths -> Nat] /\ watched' \in SUBSET Paths
  BY <1>1, <1>2 DEF AddFsWatch
<1>3. ASSUME RemoveFsWatch(p) PROVE refs' \in [Paths -> Nat] /\ watched' \in SUBSET Paths
  <2>1. CASE refs[p] <= 1
    BY <1>3, <2>1 DEF RemoveFsWatch
  <2>2. CASE ~(refs[p] <= 1)
    <3>1. refs[p] - 1 \in Nat
      BY <1>1, <2>2
    <3>2. refs' = [refs EXCEPT ![p] = refs[p] - 1] /\ watched' = watched
      BY <1>3, <2>2 DEF RemoveFsWatch
    <3> QED BY <3>1, <3>2
  <2> QED BY <2>1, <2>2
<1> QED BY <1>2, <1>3

(* Every action keeps types and links.                                       *)
LEMMA StepLinked ==
  ASSUME IInv, Next
  PROVE  IInv'
<1>1. TypeInv
  BY DEF IInv
<1>2. \A o \in Opens : Sound(open[o])
  BY DEF IInv, Linked
<1>3. nreq <= nreq
  BY DEF IInv, TypeInv
<1>4. ASSUME NEW c \in Conns, NEW o \in Opens, NEW p \in Paths, Create(c, o, p) PROVE IInv'
  <2>1. OpenStep(o, TRUE, TRUE, c, p, NoReq, FALSE, <<>>, FALSE)
    BY <1>4, CreateEffect
  <2>2. UNCHANGED <<refs, watched, req, token, connected, task, nreq, nev, seen, mark>>
    BY <1>4 DEF Create
  <2>3. TypeInv'
    BY <1>1, <2>1, <2>2 DEF TypeInv, OpenStep
  <2>4. Len(<<>>) <= NotifyCap
    BY NotifyCapAssumption
  <2>5. \A x \in Opens : Sound(open'[x]) /\ (open[x].used => open'[x].used)
    BY <2>1, <2>4, SoundStep
  <2>6. \A r \in Reqs : \/ req[r].pc # "none" /\ req'[r].open = req[r].open
                       \/ req'[r].pc = "none"
    BY <2>2
  <2>7. \A x \in Conns : TaskKept(x)
    BY <2>2 DEF TaskKept
  <2>8. Tasks'
    BY <2>5, <2>7, TasksKept
  <2> QED BY <1>3, <2>2, <2>3, <2>5, <2>6, <2>8, LinkedStep
<1>5. ASSUME NEW c \in Conns, NEW o \in Opens, ChangeNotify(c, o) PROVE IInv'
  <2>0. PICK r : r = nreq + 1
    OBVIOUS
  <2>1. /\ ReqStep(r, "start", o, <<>>) /\ nreq' = r /\ nreq \in Nat
        /\ open[o].used /\ TaskStep(c, "notify", o, r) /\ mark' \in [Opens -> MarkType]
    BY <1>5, <2>0, ChangeNotifyEffect
  <2>2. UNCHANGED <<open, refs, watched, token, connected, nev, seen>>
    BY <1>5 DEF ChangeNotify
  <2>3. nreq' \in Nat /\ nreq <= nreq'
    BY <2>0, <2>1
  <2>4. TypeInv'
    BY <1>1, <2>1, <2>2, <2>3 DEF TypeInv, ReqStep, TaskStep
  <2>5. r \in Reqs /\ req'[r].open = o /\ req'[r].pc = "start"
        /\ \A x \in Reqs : x # r => req'[x] = req[x]
    BY <2>1 DEF ReqStep, IsReq
  <2>6. ASSUME NEW x \in Reqs
        PROVE  \/ req[x].pc # "none" /\ req'[x].open = req[x].open
               \/ req'[x].pc = "none"
               \/ req'[x].open \in Opens /\ open'[req'[x].open].used /\ x <= nreq'
    <3>1. CASE x = r
      BY <2>1, <2>2, <2>3, <2>5, <3>1
    <3>2. CASE x # r
      BY <2>5, <3>2
    <3> QED BY <3>1, <3>2
  <2>7. Tasks'
    <3>1. /\ task'[c].op = "notify" /\ task'[c].open = o /\ task'[c].req = r
          /\ \A d \in Conns : d # c => task'[d] = task[d]
      BY <2>1 DEF TaskStep, IsTask
    <3>2. req[r].pc = "none"
      <4>1. ~(r <= nreq)
        BY <2>0, <2>1
      <4> QED BY <2>5, <4>1 DEF IInv, Linked, Owned
    <3>3. ASSUME NEW d \in Conns, d # c, task[d].op = "notify"
          PROVE  task[d].req \in Reqs /\ task[d].req # r
      BY <3>2, <3>3 DEF IInv, Linked, Tasks, Busy
    <3>4. ASSUME NEW d \in Conns PROVE Busy(d)'
      <4>1. CASE d = c
        BY <2>1, <2>2, <2>5, <3>1, <4>1 DEF Busy
      <4>2. CASE d # c
        <5>1. Busy(d) /\ task'[d] = task[d]
          BY <3>1, <4>2 DEF IInv, Linked, Tasks
        <5>2. task[d].op = "notify" => req'[task[d].req] = req[task[d].req]
          BY <2>5, <3>3, <4>2
        <5> QED BY <2>2, <5>1, <5>2 DEF Busy
      <4> QED BY <4>1, <4>2
    <3>5. ASSUME NEW d \in Conns, NEW e \in Conns, task'[d].op = "notify",
                 task'[e].op = "notify", task'[d].req = task'[e].req
          PROVE  d = e
      <4>1. CASE d # c /\ e # c
        BY <3>1, <3>5, <4>1 DEF IInv, Linked, Tasks
      <4>2. CASE d = c \/ e = c
        BY <3>1, <3>3, <3>5, <4>2
      <4> QED BY <4>1, <4>2
    <3> QED BY <3>4, <3>5 DEF Tasks
  <2>8. \A x \in Opens : Sound(open'[x]) /\ (open[x].used => open'[x].used)
    BY <1>2, <2>2
  <2> QED BY <2>3, <2>4, <2>6, <2>7, <2>8, LinkedStep
<1>15. ASSUME NEW c \in Conns, NEW f \in BOOLEAN, Register(c, f) PROVE IInv'
  <2>0. PICK o, r, p, it, cn, ch, ev :
          /\ o = task[c].open /\ r = task[c].req /\ p = open[o].path /\ it = open[o].inTable
          /\ cn = open[o].conn /\ ch = open[o].notifyCh /\ ev = req[r].events
    OBVIOUS
  <2>9. Registered(c, f, o, r)
    BY <1>15, <2>0, RegisterEffect
  <2>1. /\ OpenStep(o, it, TRUE, cn, p, r, TRUE, ch, TRUE)
        /\ p \in Paths /\ Len(ch) <= NotifyCap /\ task[c].op = "notify"
        /\ req[r].pc = "start" /\ req[r].open = o
        /\ ReqStep(r, "wait", o, ev) /\ TaskStep(c, "none", Nil, NoReq)
        /\ open[o].fsWatchPath => UNCHANGED <<refs, watched, mark>>
        /\ ~open[o].fsWatchPath => AddFsWatch(p, f) /\ mark' \in [Opens -> MarkType]
    BY <2>0, <2>9 DEF Registered
  <2>2. UNCHANGED <<token, connected, nreq, nev, seen>>
    BY <1>15 DEF Register
  <2>3. refs' \in [Paths -> Nat] /\ watched' \in SUBSET Paths /\ mark' \in [Opens -> MarkType]
    BY <1>1, <2>1, WatchTypes DEF TypeInv
  <2>4. TypeInv'
    BY <1>1, <2>1, <2>2, <2>3 DEF TypeInv, OpenStep, ReqStep, TaskStep
  <2>5. \A x \in Opens : Sound(open'[x]) /\ (open[x].used => open'[x].used)
    BY <2>1, SoundStep
  <2>6. \A x \in Reqs : \/ req[x].pc # "none" /\ req'[x].open = req[x].open
                        \/ req'[x].pc = "none"
    BY <2>1, OwnedStep
  <2>7. ASSUME NEW d \in Conns PROVE TaskKept(d)
    <3>1. CASE d = c
      BY <2>1, <3>1 DEF TaskKept, TaskStep, IsTask
    <3>2. CASE d # c
      <4>1. task'[d] = task[d]
        BY <2>1, <3>2 DEF TaskStep
      <4>2. ASSUME task[d].op = "notify" PROVE req'[task[d].req] = req[task[d].req]
        <5>1. task[d].req \in Reqs /\ task[d].req # r
          BY <2>0, <2>1, <3>2, <4>2 DEF IInv, Linked, Tasks, Busy
        <5> QED BY <2>1, <5>1 DEF ReqStep
      <4> QED BY <4>1, <4>2 DEF TaskKept
    <3> QED BY <3>1, <3>2
  <2>8. Tasks'
    BY <2>5, <2>7, TasksKept
  <2> QED BY <1>3, <2>2, <2>4, <2>5, <2>6, <2>8, LinkedStep
<1>6. ASSUME NEW p, NotifyChange(p) PROVE IInv'
  <2>1. /\ open' \in [Opens -> OpenType] /\ seen' \in [Opens -> SeenType] /\ nev' \in Nat
        /\ \A o \in Opens :
             \/ open'[o] = open[o]
             \/ /\ open[o].inTable /\ Len(open[o].notifyCh) < NotifyCap
                /\ IsOpen(open'[o], open[o].inTable, open[o].used, open[o].conn, open[o].path,
                          open[o].notifyCancel, open[o].has, Append(open[o].notifyCh, nev + 1),
                          open[o].fsWatchPath)
    BY <1>6, NotifyChangeEffect
  <2>2. UNCHANGED <<refs, watched, req, token, connected, task, nreq, mark>>
    BY <1>6 DEF NotifyChange
  <2>3. TypeInv'
    BY <1>1, <2>1, <2>2 DEF TypeInv
  <2>4. ASSUME NEW o \in Opens PROVE Sound(open'[o]) /\ (open[o].used => open'[o].used)
    <3>1. CASE open'[o] = open[o]
      BY <1>2, <3>1
    <3>2. CASE /\ open[o].inTable /\ Len(open[o].notifyCh) < NotifyCap
               /\ IsOpen(open'[o], open[o].inTable, open[o].used, open[o].conn, open[o].path,
                         open[o].notifyCancel, open[o].has, Append(open[o].notifyCh, nev + 1),
                         open[o].fsWatchPath)
      <4>1. open[o].used /\ nev \in Nat
        BY <1>1, <1>2, <3>2 DEF Sound, TypeInv
      <4>2. Len(Append(open[o].notifyCh, nev + 1)) <= NotifyCap
        <5> DEFINE ch == open[o].notifyCh
                   e == nev + 1
        <5>1. ch \in Seq(Nat) /\ NotifyCap \in Nat /\ Len(ch) < NotifyCap /\ e \in Nat
          <6>1. ch \in Seq(Nat) /\ NotifyCap \in Nat
            BY <4>1, UsedOpen
          <6>2. Len(ch) < NotifyCap
            BY <3>2
          <6>3. e \in Nat
            BY <4>1
          <6> QED BY <6>1, <6>2, <6>3
        <5> HIDE DEF ch, e
        <5>2. Len(Append(ch, e)) = Len(ch) + 1 /\ Len(ch) \in Nat
          BY <5>1
        <5>3. Len(Append(ch, e)) <= NotifyCap
          BY <5>1, <5>2
        <5> QED BY <5>3 DEF ch, e
      <4> QED BY <1>2, <3>2, <4>1, <4>2 DEF IsOpen, Sound
    <3> QED BY <2>1, <3>1, <3>2
  <2>5. \A r \in Reqs : \/ req[r].pc # "none" /\ req'[r].open = req[r].open
                       \/ req'[r].pc = "none"
    BY <2>2
  <2>6. \A x \in Conns : TaskKept(x)
    BY <2>2 DEF TaskKept
  <2>7. Tasks'
    BY <2>4, <2>6, TasksKept
  <2> QED BY <1>3, <2>2, <2>3, <2>4, <2>5, <2>7, LinkedStep
<1>7. ASSUME NEW r \in Reqs, NEW pc \in {"wait", "coalesce"}, Receive(r, pc) PROVE IInv'
  <2> DEFINE o == req[r].open
             v == open[o]
  <2>1. /\ req[r].pc = pc /\ v.notifyCh # <<>>
        /\ OpenStep(o, v.inTable, v.used, v.conn, v.path, v.notifyCancel, v.has, Tail(v.notifyCh),
                    v.fsWatchPath)
        /\ ReqStep(r, "coalesce", o, Append(req[r].events, Head(v.notifyCh)))
    BY <1>7, ReceiveEffect
  <2>2. UNCHANGED <<refs, watched, token, connected, task, nreq, nev, seen, mark>>
    BY <1>7 DEF Receive
  <2>3. TypeInv'
    BY <1>1, <2>1, <2>2 DEF TypeInv, OpenStep, ReqStep
  <2>4. o \in Opens /\ v.used
    BY <2>1 DEF IInv, Linked, Owned
  <2>5. /\ v.used = TRUE /\ v.path \in Paths /\ Len(v.notifyCh) <= NotifyCap
        /\ v.notifyCh \in Seq(Nat) /\ NotifyCap \in Nat
    BY <2>4, UsedOpen
  <2>6. Len(Tail(v.notifyCh)) <= NotifyCap
    BY <2>1, <2>5
  <2>7. \A x \in Opens : Sound(open'[x]) /\ (open[x].used => open'[x].used)
    BY <2>1, <2>5, <2>6, SoundStep
  <2>8. \A x \in Reqs : \/ req[x].pc # "none" /\ req'[x].open = req[x].open
                       \/ req'[x].pc = "none"
    BY <2>1, OwnedStep
  <2>9. \A x \in Conns : TaskKept(x)
    BY <2>1, <2>2, StartKept
  <2>10. Tasks'
    BY <2>7, <2>9, TasksKept
  <2> QED BY <1>3, <2>2, <2>3, <2>7, <2>8, <2>10, LinkedStep
<1>8. ASSUME NEW r \in Reqs, NEW pc \in Pcs, NEW l \in Pcs, pc \notin {"none", "start"},
             Goroutine(r, pc, l),
             seen' \in [Opens -> SeenType],
             UNCHANGED <<open, refs, watched, token, connected, task, nreq, nev, mark>>
      PROVE  IInv'
  <2>1. req[r].pc = pc /\ ReqStep(r, l, req[r].open, req[r].events)
    BY <1>8, GoroutineEffect
  <2>2. TypeInv'
    BY <1>1, <1>8, <2>1 DEF TypeInv, ReqStep
  <2>3. \A x \in Reqs : \/ req[x].pc # "none" /\ req'[x].open = req[x].open
                       \/ req'[x].pc = "none"
    BY <1>8, <2>1, OwnedStep
  <2>4. \A x \in Conns : TaskKept(x)
    BY <1>8, <2>1, StartKept
  <2>5. Tasks'
    BY <1>8, <2>4, TasksKept
  <2> QED BY <1>2, <1>3, <1>8, <2>2, <2>3, <2>5, LinkedStep
<1>9. ASSUME NEW r \in Reqs, CoalesceEnd(r) \/ LivenessCheck(r) \/ CheckOpen(r) \/ Answer(r)
      PROVE  IInv'
  <2>1. seen \in [Opens -> SeenType]
    BY <1>1 DEF TypeInv
  <2>2. CASE CoalesceEnd(r)
    BY <1>8, <2>1, <2>2 DEF CoalesceEnd, Pcs
  <2>3. CASE LivenessCheck(r)
    BY <1>8, <2>1, <2>3 DEF LivenessCheck, Pcs
  <2>4. CASE CheckOpen(r)
    BY <1>8, <2>1, <2>4 DEF CheckOpen, Pcs
  <2>5. CASE Answer(r)
    <3>1. seen' \in [Opens -> SeenType]
      BY <2>5, AnswerEffect DEF SeenStep
    <3> QED BY <1>8, <2>5, <3>1 DEF Answer, Pcs
  <2> QED BY <1>9, <2>2, <2>3, <2>4, <2>5
<1>10. ASSUME NEW r \in Reqs, TakeCancel(r) PROVE IInv'
  <2>1. /\ req[r].pc \in {"wait", "coalesce"} /\ ReqStep(r, "check", req[r].open, <<>>)
        /\ seen' \in [Opens -> SeenType] /\ token' \in [Reqs -> BOOLEAN]
    BY <1>10, TakeCancelEffect DEF SeenStep
  <2>2. UNCHANGED <<open, refs, watched, connected, task, nreq, nev, mark>>
    BY <1>10 DEF TakeCancel
  <2>3. TypeInv'
    BY <1>1, <2>1, <2>2 DEF TypeInv, ReqStep
  <2>4. \A x \in Reqs : \/ req[x].pc # "none" /\ req'[x].open = req[x].open
                       \/ req'[x].pc = "none"
    BY <2>1, OwnedStep
  <2>5. \A x \in Conns : TaskKept(x)
    BY <2>1, <2>2, StartKept
  <2>6. Tasks'
    BY <2>2, <2>5, TasksKept
  <2> QED BY <1>2, <1>3, <2>2, <2>3, <2>4, <2>6, LinkedStep
<1>11. ASSUME NEW r \in Reqs, ClearCancel(r) PROVE IInv'
  <2> DEFINE o == req[r].open
             v == open[o]
  <2>1. /\ req[r].pc = "clear" /\ ReqStep(r, "send", o, req[r].events)
        /\ OpenStep(o, v.inTable, v.used, v.conn, v.path, NoReq, v.has, v.notifyCh, v.fsWatchPath)
    BY <1>11, ClearCancelEffect
  <2>2. UNCHANGED <<refs, watched, token, connected, task, nreq, nev, seen, mark>>
    BY <1>11 DEF ClearCancel
  <2>3. TypeInv'
    BY <1>1, <2>1, <2>2 DEF TypeInv, OpenStep, ReqStep
  <2>4. o \in Opens /\ v.used
    BY <2>1 DEF IInv, Linked, Owned
  <2>5. v.used = TRUE /\ v.path \in Paths /\ Len(v.notifyCh) <= NotifyCap
    BY <2>4, UsedOpen
  <2>6. \A x \in Opens : Sound(open'[x]) /\ (open[x].used => open'[x].used)
    BY <2>1, <2>5, SoundStep
  <2>7. \A x \in Reqs : \/ req[x].pc # "none" /\ req'[x].open = req[x].open
                       \/ req'[x].pc = "none"
    BY <2>1, OwnedStep
  <2>8. \A x \in Conns : TaskKept(x)
    BY <2>1, <2>2, StartKept
  <2>9. Tasks'
    BY <2>6, <2>8, TasksKept
  <2> QED BY <1>3, <2>2, <2>3, <2>6, <2>7, <2>9, LinkedStep
<1>12. ASSUME NEW c \in Conns, Cancel(c) \/ Disconnect(c) PROVE IInv'
  <2>1. TypeInv'
    <3>1. CASE Cancel(c)
      BY <1>1, <3>1 DEF Cancel, TypeInv
    <3>2. CASE Disconnect(c)
      BY <1>1, <3>2 DEF Disconnect, TypeInv
    <3> QED BY <1>12, <3>1, <3>2
  <2>2. UNCHANGED <<open, req, task, nreq>>
    BY <1>12 DEF Cancel, Disconnect
  <2> QED BY <2>1, <2>2 DEF IInv, Linked, Owned, Tasks, Busy
<1>13. ASSUME NEW c \in Conns, NEW o \in Opens, Close(c, o) PROVE IInv'
  <2>1. open[o].used /\ TaskStep(c, "close", o, NoReq) /\ mark' \in [Opens -> MarkType]
    BY <1>13, CloseEffect
  <2>2. UNCHANGED <<open, refs, watched, req, token, connected, nreq, nev, seen>>
    BY <1>13 DEF Close
  <2>3. TypeInv'
    BY <1>1, <2>1, <2>2 DEF TypeInv, TaskStep
  <2>4. \A d \in Conns : TaskKept(d)
    BY <2>1, <2>2 DEF TaskKept, TaskStep, IsTask
  <2>5. Tasks'
    BY <2>2, <2>4, TasksKept
  <2> QED BY <2>2, <2>3, <2>5 DEF IInv, Linked, Owned
<1>14. ASSUME NEW c \in Conns, CloseDelete(c) PROVE IInv'
  <2>0. PICK o, v, r : o = task[c].open /\ v = open[o] /\ r = task[c].req
    OBVIOUS
  <2>1. /\ o \in Opens /\ v.used /\ TaskStep(c, "closed", o, r)
        /\ OpenStep(o, FALSE, v.used, v.conn, v.path, v.notifyCancel, v.has, v.notifyCh,
                    v.fsWatchPath)
    BY <1>14, <2>0, CloseDeleteEffect
  <2>2. UNCHANGED <<refs, watched, req, token, connected, nreq, nev, seen, mark>>
    BY <1>14 DEF CloseDelete
  <2>3. v.used = TRUE /\ v.path \in Paths /\ Len(v.notifyCh) <= NotifyCap
    BY <2>0, <2>1, UsedOpen
  <2>4. TypeInv'
    BY <1>1, <2>1, <2>2 DEF TypeInv, OpenStep, TaskStep
  <2>5. \A x \in Opens : Sound(open'[x]) /\ (open[x].used => open'[x].used)
    BY <2>1, <2>3, SoundStep
  <2>6. \A x \in Reqs : \/ req[x].pc # "none" /\ req'[x].open = req[x].open
                        \/ req'[x].pc = "none"
    BY <2>2
  <2>7. open'[o].used
    BY <2>0, <2>1, <2>5
  <2>8. \A d \in Conns : TaskKept(d)
    BY <2>1, <2>2, <2>7 DEF TaskKept, TaskStep, IsTask
  <2>9. Tasks'
    BY <2>5, <2>8, TasksKept
  <2> QED BY <1>3, <2>2, <2>4, <2>5, <2>6, <2>9, LinkedStep
<1>16. ASSUME NEW c \in Conns, CloseEnd(c) PROVE IInv'
  <2>0. PICK o, p, x, f : /\ o = task[c].open /\ p = open[o].path
                          /\ x = mark[o].raced /\ f = mark[o].failed
    OBVIOUS
  <2>1. /\ o \in Opens /\ open[o].used /\ p \in Paths /\ token' \in [Reqs -> BOOLEAN]
        /\ TaskStep(c, "none", Nil, NoReq) /\ MarkStep(o, x, f, TRUE)
        /\ open[o].fsWatchPath => RemoveFsWatch(p)
        /\ ~open[o].fsWatchPath => refs' = refs /\ watched' = watched
    BY <1>16, <2>0, CloseEndEffect
  <2>2. UNCHANGED <<open, req, connected, nreq, nev, seen>>
    BY <1>16 DEF CloseEnd
  <2>3. refs' \in [Paths -> Nat] /\ watched' \in SUBSET Paths
    BY <1>1, <2>1, WatchTypes DEF TypeInv
  <2>4. TypeInv'
    BY <1>1, <2>1, <2>2, <2>3 DEF TypeInv, TaskStep, MarkStep
  <2>5. \A d \in Conns : TaskKept(d)
    BY <2>1, <2>2 DEF TaskKept, TaskStep, IsTask
  <2>6. Tasks'
    BY <2>2, <2>5, TasksKept
  <2> QED BY <2>2, <2>4, <2>6 DEF IInv, Linked, Owned
<1> QED
  BY <1>4, <1>5, <1>6, <1>7, <1>9, <1>10, <1>11, <1>12, <1>13, <1>14, <1>15, <1>16,
     WatchAssumption
     DEF Next, Handler, Step, FsEvent, OwnChange, TakeEvent, Coalesce

(* The inductive invariant behind the others.                               *)
THEOREM NotifyInvariant == Spec => []IInv
<1>1. Init => IInv
  <2> SUFFICES ASSUME Init PROVE IInv
    OBVIOUS
  <2>1. <<>> \in Events
    BY DEF Events
  <2>2. NewOpen \in OpenType /\ Sound(NewOpen)
    BY <2>1, NotifyCapAssumption DEF NewOpen, OpenType, Sound
  <2>3. /\ NewReq \in ReqType /\ NewReq.pc = "none" /\ NewSeen \in SeenType
        /\ NewMark \in MarkType /\ NoTask \in TaskType
    BY <2>1 DEF NewReq, NewSeen, NewMark, NoTask, ReqType, SeenType, MarkType, TaskType, Pcs
  <2>4. TypeInv
    BY <2>2, <2>3 DEF Init, TypeInv
  <2>5. Linked
    BY <2>2, <2>3 DEF Init, Linked, Owned, Tasks, Busy, NoTask
  <2> QED BY <2>4, <2>5 DEF IInv
<1>2. IInv /\ [Next]_vars => IInv'
  <2> SUFFICES ASSUME IInv, [Next]_vars PROVE IInv'
    OBVIOUS
  <2>1. CASE Next
    BY <2>1, StepLinked
  <2>2. CASE UNCHANGED vars
    BY <2>2 DEF vars, IInv, TypeInv, Linked, Owned, Tasks, Busy
  <2> QED BY <2>1, <2>2
<1> QED BY <1>1, <1>2, PTL DEF Spec

(* Every channel, counter and table of change notification keeps its type;   *)
(* notifyCh never holds more than its capacity.                              *)
THEOREM NotifyTypes == Spec => []TypeOK
<1>1. IInv => TypeOK
  <2> SUFFICES ASSUME IInv PROVE TypeOK
    OBVIOUS
  <2>1. \A o \in Opens : open[o] \in OpenType /\ Sound(open[o])
    BY DEF IInv, TypeInv, Linked
  <2>2. ASSUME NEW o \in Opens
        PROVE  /\ open[o].conn \in Conns \cup {Nil} /\ open[o].path \in Paths \cup {Nil}
               /\ open[o].notifyCancel \in Reqs \cup {NoReq}
               /\ Len(open[o].notifyCh) <= NotifyCap
               /\ {open[o].inTable, open[o].used, open[o].has,
                  open[o].fsWatchPath} \subseteq BOOLEAN
    BY <2>1, OpenFields DEF Sound
  <2>3. ASSUME NEW r \in Reqs
        PROVE  /\ req[r].pc \in {"none", "start", "wait", "coalesce", "check", "clear", "send",
                              "done"}
               /\ req[r].open \in Opens \cup {Nil} /\ req[r].conn \in Conns \cup {Nil}
    <3>1. req[r] \in ReqType
      BY DEF IInv, TypeInv
    <3>2. req[r].conn \in Conns \cup {Nil}
      BY <3>1 DEF ReqType
    <3> QED BY <3>1, <3>2, ReqFields DEF Pcs
  <2> QED BY <2>2, <2>3 DEF IInv, TypeInv, TypeOK, TaskType
<1> QED BY <1>1, NotifyInvariant, PTL

-----------------------------------------------------------------------------
(* Watches.                                                                  *)

(* A handle that two connections never had in hand at once is in hand of one *)
(* at most, and its CLOSE has given nothing back before it is over; a handle *)
(* that was created has a path, and watching it was tried if it failed.      *)
Marked(o) ==
  /\ open[o].path \in Paths => open[o].used
  /\ mark[o].released => open[o].used
  /\ mark[o].failed => open[o].fsWatchPath
  /\ open[o].inTable => ~mark[o].released
  /\ \A c \in Conns : task[c].op = "closed" /\ task[c].open = o => ~open[o].inTable
  /\ ~mark[o].raced =>
       \A c \in Conns : task[c].open = o =>
         ~mark[o].released /\ \A d \in Conns : task[d].open = o => d = c
Marks == \A o \in Opens : Marked(o)

(* A step of nobody's handler.                                               *)
SameHold(o) ==
  /\ open'[o].path = open[o].path /\ open'[o].fsWatchPath = open[o].fsWatchPath
  /\ open[o].used => open'[o].used
  /\ open'[o].inTable => open[o].inTable

(* Such a step leaves the marks right.                                       *)
LEMMA MarksSame ==
  ASSUME Marks, \A o \in Opens : SameHold(o), task' = task, mark' = mark
  PROVE  Marks'
BY DEF Marks, Marked, SameHold

(* One Open changes, not its path nor its hold.                              *)
LEMMA SameStep ==
  ASSUME NEW o, NEW cn, NEW nc, NEW ha, NEW ch,
         OpenStep(o, open[o].inTable, open[o].used, cn, open[o].path, nc, ha, ch,
                  open[o].fsWatchPath)
  PROVE  \A x \in Opens : SameHold(x)
<1>1. /\ open'[o].path = open[o].path /\ open'[o].fsWatchPath = open[o].fsWatchPath
      /\ open[o].used => open'[o].used
      /\ open'[o].inTable => open[o].inTable
  BY DEF OpenStep, IsOpen
<1>2. \A x \in Opens : x # o => open'[x] = open[x]
  BY DEF OpenStep
<1>3. ASSUME NEW x \in Opens PROVE SameHold(x)
  <2>1. CASE x = o
    BY <1>1, <2>1 DEF SameHold
  <2>2. CASE x # o
    <3>1. open'[x] = open[x]
      BY <1>2, <2>2
    <3> QED BY <3>1 DEF SameHold
  <2> QED BY <2>1, <2>2
<1> QED BY <1>3

(* Every step does.                                                          *)
LEMMA StepMarks ==
  ASSUME IInv, Marks, Next
  PROVE  Marks'
<1>1. \A o \in Opens : open[o] \in OpenType /\ Sound(open[o]) /\ Marked(o)
  BY DEF IInv, TypeInv, Linked, Marks
<1>2. \A c \in Conns : Busy(c)
  BY DEF IInv, Linked, Tasks
<1>3. ASSUME NEW c \in Conns, NEW o \in Opens, NEW p \in Paths, Create(c, o, p) PROVE Marks'
  <2>1. OpenStep(o, TRUE, TRUE, c, p, NoReq, FALSE, <<>>, FALSE)
    BY <1>3, CreateEffect
  <2>2. ~open[o].used /\ task' = task /\ mark' = mark
    BY <1>3 DEF Create
  <2>3. open'[o].used /\ ~open'[o].fsWatchPath /\ \A x \in Opens : x # o => open'[x] = open[x]
    BY <2>1 DEF OpenStep, IsOpen
  <2>4. \A d \in Conns : task[d].op # "none" => task[d].open # o
    BY <1>2, <2>2 DEF Busy
  <2>5. ~mark[o].released /\ ~mark[o].failed
    BY <1>1, <2>2 DEF Marked, Sound
  <2>6. ASSUME NEW x \in Opens PROVE Marked(x)'
    <3>1. CASE x = o
      <4>1. ~mark'[o].raced => \A d \in Conns : task'[d].open = o =>
              ~mark'[o].released /\ \A e \in Conns : task'[e].open = o => e = d
        BY <1>1, <2>2 DEF Marked
      <4> QED BY <2>2, <2>3, <2>4, <2>5, <3>1, <4>1 DEF Marked
    <3>2. CASE x # o
      <4>1. open'[x] = open[x] /\ Marked(x)
        BY <1>1, <2>3, <3>2
      <4> QED BY <2>2, <4>1 DEF Marked
    <3> QED BY <3>1, <3>2
  <2> QED BY <2>6 DEF Marks
<1>4. ASSUME NEW c \in Conns, NEW o \in Opens, NEW op \in {"notify", "close"},
             NEW r \in Reqs \cup {NoReq}, Take(c, o, op, r), open' = open
      PROVE  Marks'
  <2>1. Taken(c, o, op, r)
    BY <1>4, TakeEffect
  <2>2. /\ open[o].inTable /\ task[c] = NoTask /\ mark'[o].failed = mark[o].failed
        /\ mark'[o].released = mark[o].released
        /\ mark[o].raced => mark'[o].raced
        /\ \A d \in Conns : task[d].open = o => mark'[o].raced
        /\ \A y \in Opens : y # o => mark'[y] = mark[y]
        /\ task'[c].op = op /\ task'[c].open = o /\ \A d \in Conns : d # c => task'[d] = task[d]
    BY <2>1 DEF Taken, TaskStep, IsTask
  <2>3. task[c].open \notin Opens
    BY <2>2, NilAssumption DEF NoTask
  <2>4. ASSUME NEW x \in Opens, x # o PROVE Marked(x)'
    <3>1. Marked(x) /\ mark'[x] = mark[x] /\ task'[c].open # x
      BY <1>1, <2>2, <2>4
    <3>2. \A d \in Conns : task'[d].open = x => task'[d] = task[d]
      BY <2>2, <3>1
    <3> QED BY <1>4, <3>1, <3>2 DEF Marked
  <2>5. Marked(o)'
    <3>1. Marked(o) /\ ~mark'[o].released
      BY <1>1, <2>2 DEF Marked
    <3>2. \A d \in Conns : task'[d].op = "closed" /\ task'[d].open = o => ~open'[o].inTable
      BY <1>4, <2>2, <3>1 DEF Marked
    <3>3. ~mark'[o].raced => \A d \in Conns : task'[d].open = o => d = c
      BY <2>2
    <3> QED BY <1>4, <2>2, <3>1, <3>2, <3>3 DEF Marked
  <2> QED BY <2>4, <2>5 DEF Marks
<1>5. ASSUME NEW c \in Conns, NEW f \in BOOLEAN, Register(c, f) PROVE Marks'
  <2>0. PICK o, r : o = task[c].open /\ r = task[c].req
    OBVIOUS
  <2>1. Registered(c, f, o, r)
    BY <1>5, <2>0, RegisterEffect
  <2>2. /\ o \in Opens /\ open'[o].inTable = open[o].inTable /\ open'[o].fsWatchPath
        /\ open'[o].used /\ open'[o].path = open[o].path
        /\ \A x \in Opens : x # o => open'[x] = open[x]
    BY <2>1 DEF Registered, OpenStep, IsOpen
  <2>3. /\ mark'[o].raced = mark[o].raced /\ mark'[o].released = mark[o].released
        /\ \A y \in Opens : y # o => mark'[y] = mark[y]
    BY <2>1 DEF Registered
  <2>4. task'[c].op = "none" /\ task'[c].open = Nil
        /\ \A d \in Conns : d # c => task'[d] = task[d]
    BY <2>1 DEF Registered, TaskStep, IsTask
  <2>5. ASSUME NEW x \in Opens PROVE Marked(x)'
    <3>1. Marked(x) /\ x # Nil
      BY <1>1, NilAssumption
    <3>2. \A d \in Conns : task'[d].open = x => task'[d] = task[d]
      BY <2>4, <3>1
    <3>3. CASE x = o
      BY <2>2, <2>3, <3>1, <3>2, <3>3 DEF Marked
    <3>4. CASE x # o
      <4>1. open'[x] = open[x] /\ mark'[x] = mark[x]
        BY <2>2, <2>3, <3>4
      <4> QED BY <3>1, <3>2, <4>1 DEF Marked
    <3> QED BY <3>3, <3>4
  <2> QED BY <2>5 DEF Marks
<1>6. ASSUME NEW c \in Conns, CloseDelete(c) PROVE Marks'
  <2>0. PICK o, v, r : o = task[c].open /\ v = open[o] /\ r = task[c].req
    OBVIOUS
  <2>1. /\ o \in Opens /\ v.used /\ TaskStep(c, "closed", o, r) /\ task[c].op = "close"
        /\ OpenStep(o, FALSE, v.used, v.conn, v.path, v.notifyCancel, v.has, v.notifyCh,
                    v.fsWatchPath)
    BY <1>6, <2>0, CloseDeleteEffect
  <2>2. mark' = mark
    BY <1>6 DEF CloseDelete
  <2>3. /\ ~open'[o].inTable /\ open'[o].fsWatchPath = open[o].fsWatchPath
        /\ open'[o].used = open[o].used /\ open'[o].path = open[o].path
        /\ \A x \in Opens : x # o => open'[x] = open[x]
    BY <2>0, <2>1 DEF OpenStep, IsOpen
  <2>4. task'[c].open = o /\ \A d \in Conns : d # c => task'[d] = task[d]
    BY <2>1 DEF TaskStep, IsTask
  <2>5. \A d \in Conns : task'[d].open = task[d].open
    BY <2>0, <2>4
  <2>6. ASSUME NEW x \in Opens PROVE Marked(x)'
    <3>1. Marked(x)
      BY <1>1
    <3>2. CASE x = o
      BY <2>2, <2>3, <2>5, <3>1, <3>2 DEF Marked
    <3>3. CASE x # o
      <4>1. open'[x] = open[x]
        BY <2>3, <3>3
      <4>2. \A d \in Conns : task'[d].open = x => task'[d] = task[d]
        BY <2>4, <3>3
      <4> QED BY <2>2, <2>5, <3>1, <4>1, <4>2 DEF Marked
    <3> QED BY <3>2, <3>3
  <2> QED BY <2>6 DEF Marks
<1>7. ASSUME NEW c \in Conns, CloseEnd(c) PROVE Marks'
  <2>0. PICK o, y, f : o = task[c].open /\ y = mark[o].raced /\ f = mark[o].failed
    OBVIOUS
  <2>1. /\ o \in Opens /\ open[o].used /\ task[c].op = "closed"
        /\ TaskStep(c, "none", Nil, NoReq) /\ MarkStep(o, y, f, TRUE)
    BY <1>7, <2>0, CloseEndEffect
  <2>2. open' = open
    BY <1>7 DEF CloseEnd
  <2>3. mark'[o].raced = mark[o].raced /\ mark'[o].failed = mark[o].failed
        /\ \A x \in Opens : x # o => mark'[x] = mark[x]
    BY <2>0, <2>1 DEF MarkStep
  <2>4. task'[c].open = Nil /\ \A d \in Conns : d # c => task'[d] = task[d]
    BY <2>1 DEF TaskStep, IsTask
  <2>5. ASSUME NEW x \in Opens PROVE Marked(x)'
    <3>1. Marked(x) /\ x # Nil
      BY <1>1, NilAssumption
    <3>2. \A d \in Conns : task'[d].open = x => d # c /\ task'[d] = task[d]
      BY <2>4, <3>1
    <3>3. CASE x = o
      <4>1. ~open[o].inTable
        BY <2>0, <2>1, <3>1, <3>3 DEF Marked
      <4>2. ~mark[o].raced => \A d \in Conns : task[d].open = o => d = c
        BY <2>0, <3>1, <3>3 DEF Marked
      <4>3. ~mark'[o].raced => \A d \in Conns : task'[d].open # o
        BY <2>3, <3>2, <3>3, <4>2
      <4> QED BY <2>1, <2>2, <2>3, <3>1, <3>2, <3>3, <4>1, <4>3 DEF Marked
    <3>4. CASE x # o
      <4>1. mark'[x] = mark[x]
        BY <2>3, <3>4
      <4> QED BY <2>2, <3>1, <3>2, <4>1 DEF Marked
    <3> QED BY <3>3, <3>4
  <2> QED BY <2>5 DEF Marks
<1>8. ASSUME NEW r \in Reqs, ClearCancel(r) PROVE Marks'
  BY <1>8, ClearCancelEffect, SameStep, MarksSame DEF ClearCancel
<1>9. ASSUME NEW r \in Reqs, NEW pc \in {"wait", "coalesce"}, Receive(r, pc) PROVE Marks'
  BY <1>9, ReceiveEffect, SameStep, MarksSame DEF Receive
<1>10. ASSUME NEW p, NotifyChange(p) PROVE Marks'
  <2>1. \A o \in Opens : SameHold(o)
    BY <1>10, NotifyChangeEffect DEF IsOpen, SameHold
  <2> QED BY <1>10, <2>1, MarksSame DEF NotifyChange
<1>11. ASSUME UNCHANGED <<open, task, mark>> PROVE Marks'
  BY <1>11, MarksSame DEF SameHold
<1>12. ASSUME NEW r \in Reqs, CoalesceEnd(r) \/ TakeCancel(r) \/ LivenessCheck(r) \/ CheckOpen(r)
                              \/ Answer(r)
       PROVE  Marks'
  BY <1>11, <1>12 DEF CoalesceEnd, TakeCancel, LivenessCheck, CheckOpen, Answer
<1>13. ASSUME NEW c \in Conns, Cancel(c) \/ Disconnect(c) PROVE Marks'
  BY <1>11, <1>13 DEF Cancel, Disconnect
<1>14. ASSUME NEW c \in Conns, NEW o \in Opens, ChangeNotify(c, o) \/ Close(c, o) PROVE Marks'
  BY <1>4, <1>14 DEF ChangeNotify, Close
<1> QED
  BY <1>3, <1>5, <1>6, <1>7, <1>8, <1>9, <1>10, <1>12, <1>13, <1>14, WatchAssumption
     DEF Next, Handler, Step, FsEvent, OwnChange, TakeEvent, Coalesce

(* A step that changes nobody's path or hold leaves the watches right.       *)
LEMMA SameHolders ==
  ASSUME WatchesMatchHandles, refs' = refs, watched' = watched,
         \A o \in Opens : /\ open'[o].path = open[o].path
                          /\ open'[o].fsWatchPath = open[o].fsWatchPath
                          /\ mark[o].raced => mark'[o].raced
                          /\ mark'[o].failed = mark[o].failed
                          /\ mark'[o].released = mark[o].released
  PROVE  WatchesMatchHandles'
<1>1. ASSUME NEW p \in Paths PROVE Holders(p)' = Holders(p) /\ Of(p)' = Of(p)
  BY DEF Holders, Of
<1>2. \A p \in Paths : \A o \in Of(p) : o \in Opens
  BY DEF Of
<1> QED BY <1>1, <1>2 DEF WatchesMatchHandles

(* The case in which nothing is counted or marked.                           *)
LEMMA SameWatches ==
  ASSUME WatchesMatchHandles, \A o \in Opens : SameHold(o),
         UNCHANGED <<refs, watched, mark>>
  PROVE  WatchesMatchHandles'
BY SameHolders DEF SameHold

(* Sets of handles are finite.                                               *)
LEMMA HoldersFinite ==
  ASSUME NEW p
  PROVE  IsFiniteSet(Holders(p)) /\ Cardinality(Holders(p)) \in Nat
<1>1. Holders(p) \subseteq Opens
  BY DEF Holders, Of
<1> QED BY <1>1, OpensAssumption, FS_Subset, FS_CardinalityType

(* One more handle holds path p, ...                                         *)
LEMMA HoldersGrow ==
  ASSUME NEW p, NEW o \in Opens, o \notin Holders(p), NEW H, H = Holders(p) \cup {o}
  PROVE  Cardinality(H) = Cardinality(Holders(p)) + 1
BY HoldersFinite, FS_AddElement

(* ... or one less.                                                          *)
LEMMA HoldersShrink ==
  ASSUME NEW p, NEW o \in Holders(p), NEW H, H = Holders(p) \ {o}
  PROVE  Cardinality(H) = Cardinality(Holders(p)) - 1 /\ Cardinality(H) \in Nat
<1>1. IsFiniteSet(Holders(p))
  BY HoldersFinite
<1>2. Cardinality(H) = Cardinality(Holders(p)) - 1 /\ IsFiniteSet(H)
  BY <1>1, FS_RemoveElement
<1> QED BY <1>2, FS_CardinalityType

(* What WatchesMatchHandles says of one path.                                *)
Matched(p) ==
  /\ p \in watched <=> refs[p] > 0
  /\ (\A o \in Of(p) : ~mark[o].raced) =>
       /\ refs[p] <= Cardinality(Holders(p))
       /\ (\A o \in Of(p) : ~mark[o].failed) => refs[p] = Cardinality(Holders(p))

(* changeNotify's registration adds one reference and one holder, or the     *)
(* watch failed.                                                             *)
LEMMA RegisterWatches ==
  ASSUME IInv, Marks, WatchesMatchHandles, NEW c \in Conns, NEW f \in BOOLEAN, Register(c, f)
  PROVE  WatchesMatchHandles'
<1>0. PICK o, r : o = task[c].open /\ r = task[c].req
  OBVIOUS
<1>1. Registered(c, f, o, r)
  BY <1>0, RegisterEffect
<1>2. /\ o \in Opens /\ open'[o].fsWatchPath /\ open'[o].path = open[o].path
      /\ open[o].path \in Paths /\ \A x \in Opens : x # o => open'[x] = open[x]
  BY <1>1 DEF Registered, OpenStep, IsOpen
<1>3. CASE open[o].fsWatchPath
  <2>1. UNCHANGED <<refs, watched, mark>>
    BY <1>1, <1>3 DEF Registered
  <2>2. open[o] \in OpenType /\ open' \in [Opens -> OpenType]
    BY <1>1, <1>2 DEF Registered, OpenStep, IInv, TypeInv
  <2>3. open'[o].fsWatchPath = open[o].fsWatchPath
    BY <1>2, <1>3, <2>2, OpenFields
  <2>4. \A x \in Opens : /\ open'[x].path = open[x].path
                         /\ open'[x].fsWatchPath = open[x].fsWatchPath
    BY <1>2, <2>3
  <2> QED BY <2>1, <2>4, SameHolders
<1>4. CASE ~open[o].fsWatchPath
  <2>0. PICK p : p = open[o].path
    OBVIOUS
  <2>1. /\ p \in Paths /\ AddFsWatch(p, f) /\ mark'[o].raced = mark[o].raced
        /\ mark'[o].released = mark[o].released
        /\ Fails(p, f) => mark'[o].failed
        /\ \A y \in Opens : y # o => mark'[y] = mark[y]
    BY <1>1, <1>4, <2>0 DEF Registered
  <2>2. refs \in [Paths -> Nat] /\ Marked(o)
    BY <1>2 DEF IInv, TypeInv, Marks
  <2>3. \A q \in Paths : Of(q)' = Of(q)
    BY <1>2 DEF Of
  <2>4. o \in Of(p) /\ o \notin Holders(p) /\ \A q \in Paths : q # p => o \notin Of(q)
    BY <1>2, <1>4, <2>0 DEF Of, Holders
  <2>5. \A q \in Paths : \A x \in Of(q) : x \in Opens
    BY DEF Of
  <2>6. ASSUME NEW q \in Paths, q # p PROVE Matched(q)'
    <3>1. Matched(q)
      BY DEF WatchesMatchHandles, Matched
    <3>2. refs'[q] = refs[q] /\ (q \in watched' <=> q \in watched)
      <4>1. CASE Fails(p, f)
        BY <2>1, <4>1 DEF AddFsWatch
      <4>2. CASE ~Fails(p, f)
        BY <2>1, <2>2, <2>6, <4>2 DEF AddFsWatch
      <4> QED BY <4>1, <4>2
    <3>3. \A x \in Of(q) : open'[x] = open[x] /\ mark'[x] = mark[x]
      BY <1>2, <2>1, <2>4, <2>5, <2>6
    <3>4. Holders(q)' = Holders(q)
      BY <2>3, <3>3 DEF Holders
    <3> QED BY <2>3, <3>1, <3>2, <3>3, <3>4 DEF Matched
  <2>7. Matched(p)'
    <3>1. Matched(p) /\ refs[p] \in Nat
      BY <2>1, <2>2 DEF WatchesMatchHandles, Matched
    <3>2. \A x \in Of(p) : mark'[x].raced = mark[x].raced
      BY <2>1, <2>5
    <3>3. ASSUME \A x \in Of(p) : ~mark[x].raced
          PROVE  /\ Cardinality(Holders(p)') = Cardinality(Holders(p)) + 1
                 /\ refs[p] <= Cardinality(Holders(p)) /\ Cardinality(Holders(p)) \in Nat
      <4>1. ~mark[o].released /\ ~mark'[o].released
        BY <1>0, <2>1, <2>2, <2>4, <3>3 DEF Marked
      <4>2. \A x \in Of(p) : x # o => open'[x] = open[x] /\ mark'[x] = mark[x]
        BY <1>2, <2>1, <2>5
      <4>3. Holders(p)' = Holders(p) \cup {o}
        BY <1>2, <2>1, <2>3, <2>4, <4>1, <4>2 DEF Holders
      <4> QED BY <1>2, <2>4, <3>1, <3>3, <4>3, HoldersGrow, HoldersFinite DEF Matched
    <3>4. CASE Fails(p, f)
      <4>1. refs[p] = 0 /\ refs' = refs /\ watched' = watched /\ mark'[o].failed
        BY <2>1, <3>4 DEF AddFsWatch, Fails
      <4> HIDE DEF Of, Holders
      <4>2. ~(\A x \in Of(p) : ~mark'[x].failed)
        BY <2>4, <4>1
      <4> QED BY <2>1, <2>3, <3>1, <3>2, <3>3, <4>1, <4>2 DEF Matched
    <3>5. CASE ~Fails(p, f)
      <4>1. refs'[p] = refs[p] + 1 /\ p \in watched'
        BY <2>1, <2>2, <3>5 DEF AddFsWatch
      <4>2. ASSUME \A x \in Of(p) : ~mark'[x].failed PROVE \A x \in Of(p) : ~mark[x].failed
        <5>1. ~mark[o].failed
          BY <1>4, <2>2 DEF Marked
        <5>2. \A x \in Of(p) : x # o => mark'[x] = mark[x]
          BY <2>1, <2>5
        <5> QED BY <4>2, <5>1, <5>2
      <4>3. ASSUME \A x \in Of(p) : ~mark[x].raced
            PROVE  /\ refs'[p] <= Cardinality(Holders(p)')
                   /\ (\A x \in Of(p) : ~mark'[x].failed)
                        => refs'[p] = Cardinality(Holders(p)')
        <5>1. /\ Cardinality(Holders(p)') = Cardinality(Holders(p)) + 1
              /\ refs[p] <= Cardinality(Holders(p)) /\ Cardinality(Holders(p)) \in Nat
          BY <3>3, <4>3
        <5>2. (\A x \in Of(p) : ~mark[x].failed) => refs[p] = Cardinality(Holders(p))
          BY <3>1, <4>3 DEF Matched
        <5> QED BY <3>1, <4>1, <4>2, <5>1, <5>2
      <4>4. p \in watched' <=> refs'[p] > 0
        BY <3>1, <4>1
      <4>5. Of(p)' = Of(p)
        BY <2>1, <2>3
      <4> QED BY <3>2, <4>3, <4>4, <4>5 DEF Matched
    <3> QED BY <3>4, <3>5
  <2>8. \A q \in Paths : Matched(q)'
    BY <2>6, <2>7
  <2> QED BY <2>8 DEF WatchesMatchHandles, Matched
<1> QED BY <1>3, <1>4

(* CLOSE gives one reference back and the handle is a holder no more.        *)
LEMMA CloseWatches ==
  ASSUME IInv, Marks, WatchesMatchHandles, NEW c \in Conns, CloseEnd(c)
  PROVE  WatchesMatchHandles'
<1>0. PICK o, p, y, f : /\ o = task[c].open /\ p = open[o].path
                        /\ y = mark[o].raced /\ f = mark[o].failed
  OBVIOUS
<1>1. /\ o \in Opens /\ p \in Paths /\ MarkStep(o, y, f, TRUE)
      /\ open[o].fsWatchPath => RemoveFsWatch(p)
      /\ ~open[o].fsWatchPath => refs' = refs /\ watched' = watched
  BY <1>0, CloseEndEffect
<1>2. open' = open
  BY DEF CloseEnd
<1>3. /\ mark'[o].raced = mark[o].raced /\ mark'[o].failed = mark[o].failed
      /\ mark'[o].released = TRUE
      /\ \A x \in Opens : x # o => mark'[x] = mark[x]
  BY <1>0, <1>1 DEF MarkStep
<1>4. refs \in [Paths -> Nat] /\ Marked(o)
  BY <1>1 DEF IInv, TypeInv, Marks
<1>5. /\ \A q \in Paths : Of(q)' = Of(q) /\ \A x \in Of(q) : x \in Opens
      /\ o \in Of(p) /\ \A q \in Paths : q # p => o \notin Of(q)
  BY <1>0, <1>1, <1>2 DEF Of
<1>6. \A x \in Opens : mark'[x].raced = mark[x].raced /\ mark'[x].failed = mark[x].failed
  BY <1>3
<1>7. ASSUME NEW q \in Paths, q # p PROVE Matched(q)'
  <2>1. Matched(q)
    BY DEF WatchesMatchHandles, Matched
  <2>2. refs'[q] = refs[q] /\ (q \in watched' <=> q \in watched)
    <3>1. CASE ~open[o].fsWatchPath
      BY <1>1, <3>1
    <3>2. CASE open[o].fsWatchPath
      BY <1>1, <1>4, <1>7, <3>2 DEF RemoveFsWatch
    <3> QED BY <3>1, <3>2
  <2>3. \A x \in Of(q) : mark'[x] = mark[x]
    BY <1>3, <1>5, <1>7
  <2>4. Holders(q)' = Holders(q)
    BY <1>2, <1>5, <2>3 DEF Holders
  <2> QED BY <1>5, <2>1, <2>2, <2>3, <2>4 DEF Matched
<1>8. Matched(p)'
  <2>1. Matched(p) /\ refs[p] \in Nat
    BY <1>1, <1>4 DEF WatchesMatchHandles, Matched
  <2>2. \A x \in Of(p) : mark'[x].raced = mark[x].raced /\ mark'[x].failed = mark[x].failed
    BY <1>1, <1>5, <1>6
  <2>3. Holders(p)' = Holders(p) \ {o}
    <3>1. Of(p)' = Of(p) /\ \A x \in Of(p) : x # o => mark'[x] = mark[x]
      BY <1>1, <1>3, <1>5
    <3> QED BY <1>2, <1>3, <3>1 DEF Holders
  <2>4. CASE ~open[o].fsWatchPath
    <3>1. Holders(p)' = Holders(p)
      BY <2>3, <2>4 DEF Holders
    <3>2. refs' = refs /\ watched' = watched
      BY <1>1, <2>4
    <3> QED BY <1>1, <1>5, <2>1, <2>2, <3>1, <3>2 DEF Matched
  <2>5. CASE open[o].fsWatchPath
    <3>1. /\ refs'[p] = IF refs[p] <= 1 THEN 0 ELSE refs[p] - 1
          /\ p \in watched' <=> ~(refs[p] <= 1)
      <4>1. p \in watched <=> refs[p] > 0
        BY <2>1 DEF Matched
      <4>2. CASE refs[p] <= 1
        BY <1>1, <1>4, <2>5, <4>2 DEF RemoveFsWatch
      <4>3. CASE ~(refs[p] <= 1)
        BY <1>1, <1>4, <2>1, <2>5, <4>1, <4>3 DEF RemoveFsWatch
      <4> QED BY <4>2, <4>3
    <3>2. ASSUME \A x \in Of(p) : ~mark[x].raced
          PROVE  /\ refs'[p] <= Cardinality(Holders(p)')
                 /\ (\A x \in Of(p) : ~mark[x].failed) => refs'[p] = Cardinality(Holders(p)')
      <4>1. ~mark[o].released
        BY <1>0, <1>4, <1>5, <3>2 DEF Marked
      <4>2. o \in Holders(p)
        BY <1>5, <2>5, <4>1 DEF Holders
      <4>3. /\ Cardinality(Holders(p)') = Cardinality(Holders(p)) - 1
            /\ Cardinality(Holders(p)') \in Nat
        BY <2>3, <4>2, HoldersShrink
      <4>4. /\ refs[p] <= Cardinality(Holders(p))
            /\ (\A x \in Of(p) : ~mark[x].failed) => refs[p] = Cardinality(Holders(p))
        BY <2>1, <3>2 DEF Matched
      <4>5. Cardinality(Holders(p)) \in Nat
        BY HoldersFinite
      <4> QED BY <2>1, <3>1, <4>3, <4>4, <4>5
    <3>3. p \in watched' <=> refs'[p] > 0
      BY <2>1, <3>1
    <3> QED BY <1>1, <1>5, <2>2, <3>2, <3>3 DEF Matched
  <2> QED BY <2>4, <2>5
<1>9. \A q \in Paths : Matched(q)'
  BY <1>7, <1>8
<1> QED BY <1>9 DEF WatchesMatchHandles, Matched

(* No action upsets the watches.                                             *)
LEMMA StepWatches ==
  ASSUME IInv, Marks, Next, WatchesMatchHandles
  PROVE  WatchesMatchHandles'
<1>1. \A o \in Opens : open[o] \in OpenType /\ Sound(open[o]) /\ Marked(o)
  BY DEF IInv, TypeInv, Linked, Marks
<1>2. ASSUME NEW c \in Conns, NEW o \in Opens, NEW p \in Paths, Create(c, o, p)
      PROVE  WatchesMatchHandles'
  <2>1. OpenStep(o, TRUE, TRUE, c, p, NoReq, FALSE, <<>>, FALSE)
    BY <1>2, CreateEffect
  <2>2. ~open[o].used /\ refs' = refs /\ watched' = watched /\ mark' = mark
    BY <1>2 DEF Create
  <2>3. ~open[o].fsWatchPath /\ open[o].path \notin Paths
    BY <1>1, <2>2 DEF Sound, Marked
  <2>4. ~open'[o].fsWatchPath /\ \A x \in Opens : x # o => open'[x] = open[x]
    BY <2>1 DEF OpenStep, IsOpen
  <2>5. ASSUME NEW q \in Paths PROVE Holders(q)' = Holders(q) /\ Of(q) \subseteq Of(q)'
    BY <2>2, <2>3, <2>4 DEF Holders, Of
  <2> QED BY <2>2, <2>5 DEF WatchesMatchHandles
<1>3. ASSUME NEW c \in Conns, NEW o \in Opens, NEW op \in {"notify", "close"},
             NEW r \in Reqs \cup {NoReq}, Take(c, o, op, r), UNCHANGED <<open, refs, watched>>
      PROVE  WatchesMatchHandles'
  <2>1. Taken(c, o, op, r)
    BY <1>3, TakeEffect
  <2>2. /\ mark'[o].failed = mark[o].failed /\ mark'[o].released = mark[o].released
        /\ mark[o].raced => mark'[o].raced
        /\ \A y \in Opens : y # o => mark'[y] = mark[y]
    BY <2>1 DEF Taken
  <2>3. \A x \in Opens : /\ mark[x].raced => mark'[x].raced
                         /\ mark'[x].failed = mark[x].failed
                         /\ mark'[x].released = mark[x].released
    BY <2>2
  <2> QED BY <1>3, <2>3, SameHolders
<1>4. ASSUME NEW c \in Conns, NEW o \in Opens, ChangeNotify(c, o) \/ Close(c, o)
      PROVE  WatchesMatchHandles'
  BY <1>3, <1>4 DEF ChangeNotify, Close
<1>5. ASSUME NEW c \in Conns, CloseDelete(c) PROVE WatchesMatchHandles'
  <2>0. PICK o, v, r : o = task[c].open /\ v = open[o] /\ r = task[c].req
    OBVIOUS
  <2>1. OpenStep(o, FALSE, v.used, v.conn, v.path, v.notifyCancel, v.has, v.notifyCh,
                 v.fsWatchPath)
    BY <1>5, <2>0, CloseDeleteEffect
  <2>2. open'[o].path = open[o].path /\ open'[o].fsWatchPath = open[o].fsWatchPath
        /\ \A x \in Opens : x # o => open'[x] = open[x]
    BY <2>0, <2>1 DEF OpenStep, IsOpen
  <2>3. \A x \in Opens : /\ open'[x].path = open[x].path
                         /\ open'[x].fsWatchPath = open[x].fsWatchPath
    BY <2>2
  <2> QED BY <1>5, <2>3, SameHolders DEF CloseDelete
<1>6. ASSUME NEW r \in Reqs, ClearCancel(r) PROVE WatchesMatchHandles'
  BY <1>6, ClearCancelEffect, SameStep, SameWatches DEF ClearCancel
<1>7. ASSUME NEW r \in Reqs, NEW pc \in {"wait", "coalesce"}, Receive(r, pc)
      PROVE  WatchesMatchHandles'
  BY <1>7, ReceiveEffect, SameStep, SameWatches DEF Receive
<1>8. ASSUME NEW p, NotifyChange(p) PROVE WatchesMatchHandles'
  <2>1. \A o \in Opens : SameHold(o)
    BY <1>8, NotifyChangeEffect DEF IsOpen, SameHold
  <2> QED BY <1>8, <2>1, SameWatches DEF NotifyChange
<1>9. ASSUME UNCHANGED <<open, refs, watched, mark>> PROVE WatchesMatchHandles'
  BY <1>9, SameHolders
<1>10. ASSUME NEW r \in Reqs, CoalesceEnd(r) \/ TakeCancel(r) \/ LivenessCheck(r) \/ CheckOpen(r)
                              \/ Answer(r)
       PROVE  WatchesMatchHandles'
  BY <1>9, <1>10 DEF CoalesceEnd, TakeCancel, LivenessCheck, CheckOpen, Answer
<1>11. ASSUME NEW c \in Conns, Cancel(c) \/ Disconnect(c) PROVE WatchesMatchHandles'
  BY <1>9, <1>11 DEF Cancel, Disconnect
<1> QED
  BY <1>2, <1>4, <1>5, <1>6, <1>7, <1>8, <1>10, <1>11, RegisterWatches, CloseWatches,
     WatchAssumption
     DEF Next, Handler, Step, FsEvent, OwnChange, TakeEvent, Coalesce

(* A directory is watched as long as fsWatchRefs counts a reference to it;   *)
(* however CREATE, CHANGE_NOTIFY, CLOSE, failing watches and lost            *)
(* connections interleave, the references of a path no handle of which two   *)
(* connections had in hand at once are at most the handles that hold it, and *)
(* as many if no watch failed.                                               *)
THEOREM WatchesHold == Spec => []WatchesMatchHandles
<1>1. Init => Marks /\ WatchesMatchHandles
  <2> SUFFICES ASSUME Init PROVE Marks /\ WatchesMatchHandles
    OBVIOUS
  <2>1. /\ NewOpen.fsWatchPath = FALSE /\ NewOpen.path = Nil /\ NewOpen.inTable = FALSE
        /\ NewMark.released = FALSE /\ NewMark.failed = FALSE /\ NoTask.open = Nil
        /\ NewMark.raced = FALSE
    BY DEF NewOpen, NewMark, NoTask
  <2>2. Marks
    BY <2>1, NilAssumption DEF Init, Marks, Marked
  <2>3. ASSUME NEW p \in Paths
        PROVE  refs[p] = 0 /\ p \notin watched /\ Cardinality(Holders(p)) = 0
    <3>1. Holders(p) = {}
      BY <2>1 DEF Init, Holders, Of
    <3> QED BY <3>1, FS_EmptySet DEF Init
  <2>4. WatchesMatchHandles
    BY <2>3 DEF WatchesMatchHandles
  <2> QED BY <2>2, <2>4
<1>2. IInv /\ Marks /\ WatchesMatchHandles /\ [Next]_vars => Marks' /\ WatchesMatchHandles'
  <2>1. IInv /\ Marks /\ WatchesMatchHandles /\ Next => Marks' /\ WatchesMatchHandles'
    BY StepMarks, StepWatches
  <2>2. Marks /\ WatchesMatchHandles /\ UNCHANGED vars => Marks' /\ WatchesMatchHandles'
    BY SameHolders, MarksSame DEF vars, SameHold
  <2> QED BY <2>1, <2>2
<1> QED BY <1>1, <1>2, NotifyInvariant, PTL DEF Spec

-----------------------------------------------------------------------------
(* One request at a time.                                                    *)

(* Active and InHand of a table of requests.                                 *)
AliveIn(rq, r) == rq[r].pc \notin {"none", "done"}
InHandIn(rq, o) ==
  LET R == {r \in Reqs : AliveIn(rq, r) /\ rq[r].open = o /\ rq[r].events # <<>>} IN
  IF R = {} THEN <<>> ELSE rq[CHOOSE r \in R : TRUE].events

(* They are those of the state.                                              *)
LEMMA InHandState ==
  ASSUME NEW o
  PROVE  InHand(o) = InHandIn(req, o) /\ InHand(o)' = InHandIn(req', o)
<1> DEFINE R == {r \in Pending(o) : req[r].events # <<>>}
           S == {r \in Reqs : AliveIn(req, r) /\ req[r].open = o /\ req[r].events # <<>>}
           T == {r \in Reqs : AliveIn(req', r) /\ req'[r].open = o /\ req'[r].events # <<>>}
<1>1. R = S /\ R' = T
  BY DEF Pending, Active, AliveIn
<1>2. InHand(o) = IF R = {} THEN <<>> ELSE req[CHOOSE r \in R : TRUE].events
  BY DEF InHand
<1>3. InHand(o)' = IF R' = {} THEN <<>> ELSE req'[CHOOSE r \in R' : TRUE].events
  BY DEF InHand
<1>4. InHandIn(req, o) = IF S = {} THEN <<>> ELSE req[CHOOSE r \in S : TRUE].events
  BY DEF InHandIn
<1>5. InHandIn(req', o) = IF T = {} THEN <<>> ELSE req'[CHOOSE r \in T : TRUE].events
  BY DEF InHandIn
<1> HIDE DEF R, S, T
<1> QED BY <1>1, <1>2, <1>3, <1>4, <1>5

(* The only request of a handle has its events in hand.                      *)
LEMMA InHandOf ==
  ASSUME NEW rq, NEW o, NEW r \in Reqs, AliveIn(rq, r), rq[r].open = o,
         \A x \in Reqs : AliveIn(rq, x) /\ rq[x].open = o => x = r
  PROVE  InHandIn(rq, o) = rq[r].events
<1> DEFINE R == {x \in Reqs : AliveIn(rq, x) /\ rq[x].open = o /\ rq[x].events # <<>>}
<1>1. InHandIn(rq, o) = IF R = {} THEN <<>> ELSE rq[CHOOSE x \in R : TRUE].events
  BY DEF InHandIn
<1>2. CASE rq[r].events = <<>>
  <2>1. R = {}
    BY <1>2
  <2> QED BY <1>1, <1>2, <2>1
<1>3. CASE rq[r].events # <<>>
  <2>1. R = {r}
    BY <1>3
  <2>2. (CHOOSE x \in R : TRUE) = r /\ R # {}
    BY <2>1
  <2> HIDE DEF R
  <2> QED BY <1>1, <2>2
<1> QED BY <1>2, <1>3

(* Without a request nothing is in hand.                                     *)
LEMMA InHandNone ==
  ASSUME NEW rq, NEW o, \A x \in Reqs : AliveIn(rq, x) => rq[x].open # o
  PROVE  InHandIn(rq, o) = <<>>
BY DEF InHandIn

(* The requests of other handles do not matter.                              *)
LEMMA InHandSame ==
  ASSUME NEW rq, NEW rq2, NEW o,
         \A x \in Reqs : rq2[x] = rq[x] \/ (rq[x].open # o /\ rq2[x].open # o)
  PROVE  InHandIn(rq2, o) = InHandIn(rq, o)
<1> DEFINE R == {x \in Reqs : AliveIn(rq, x) /\ rq[x].open = o /\ rq[x].events # <<>>}
           S == {x \in Reqs : AliveIn(rq2, x) /\ rq2[x].open = o /\ rq2[x].events # <<>>}
<1>1. R = S
  BY DEF AliveIn
<1>2. InHandIn(rq, o) = IF R = {} THEN <<>> ELSE rq[CHOOSE x \in R : TRUE].events
  BY DEF InHandIn
<1>3. InHandIn(rq2, o) = IF S = {} THEN <<>> ELSE rq2[CHOOSE x \in S : TRUE].events
  BY DEF InHandIn
<1>4. \A x \in R : rq2[x] = rq[x]
  OBVIOUS
<1> HIDE DEF R, S
<1>5. R # {} => (CHOOSE x \in R : TRUE) \in R
  OBVIOUS
<1> QED BY <1>1, <1>2, <1>3, <1>4, <1>5

(* What is in hand is a sequence of events.                                  *)
LEMMA InHandType ==
  ASSUME NEW rq \in [Reqs -> ReqType], NEW o
  PROVE  InHandIn(rq, o) \in Events
<1> DEFINE R == {x \in Reqs : AliveIn(rq, x) /\ rq[x].open = o /\ rq[x].events # <<>>}
<1>1. InHandIn(rq, o) = IF R = {} THEN <<>> ELSE rq[CHOOSE x \in R : TRUE].events
  BY DEF InHandIn
<1>2. \A x \in R : rq[x].events \in Events
  BY ReqFields
<1>3. <<>> \in Events
  BY DEF Events
<1> HIDE DEF R
<1>4. R # {} => (CHOOSE x \in R : TRUE) \in R
  OBVIOUS
<1> QED BY <1>1, <1>2, <1>3, <1>4

(* Joining sequences of events.                                              *)
LEMMA ConcatAssoc ==
  ASSUME NEW s \in Events, NEW t \in Events, NEW u \in Events
  PROVE  (s \o t) \o u = s \o (t \o u)
BY DEF Events

(* The order of events: what notifyChange appends, what the goroutine moves  *)
(* from the channel to its hand, and what it sends.                          *)
LEMMA StreamFacts ==
  ASSUME NEW t \in Events, NEW h \in Events, NEW ch \in Events
  PROVE  /\ \A e \in Nat : t \o h \o Append(ch, e) = Append(t \o h \o ch, e)
         /\ ch # <<>> => t \o Append(h, Head(ch)) \o Tail(ch) = t \o h \o ch
         /\ (t \o h) \o <<>> \o ch = t \o h \o ch
         /\ <<>> \o <<>> \o <<>> = <<>>
<1>1. ASSUME NEW e \in Nat PROVE t \o h \o Append(ch, e) = Append(t \o h \o ch, e)
  BY DEF Events
<1>2. ASSUME ch # <<>> PROVE t \o Append(h, Head(ch)) \o Tail(ch) = t \o h \o ch
  <2> DEFINE a == Append(h, Head(ch))
             b == Tail(ch)
  <2>1. a \o b = h \o ch
    <3>1. PICK x \in Nat, y \in Seq(Nat) : x = Head(ch) /\ y = Tail(ch)
      BY <1>2, HeadTailProperties DEF Events
    <3>2. ch = <<x>> \o y
      BY <1>2, <3>1 DEF Events
    <3>3. Append(h, x) = h \o <<x>>
      BY <3>1, AppendIsConcat DEF Events
    <3>4. (h \o <<x>>) \o y = h \o (<<x>> \o y)
      <4>1. h \in Events /\ <<x>> \in Events /\ y \in Events
        BY <3>1 DEF Events
      <4> HIDE DEF Events
      <4> QED BY <4>1, ConcatAssoc
    <3> QED BY <3>1, <3>2, <3>3, <3>4
  <2>2. a \in Events /\ b \in Events
    <3>1. Head(ch) \in Nat /\ Tail(ch) \in Seq(Nat)
      BY <1>2, HeadTailProperties DEF Events
    <3> QED BY <3>1, AppendProperties DEF Events
  <2> HIDE DEF a, b
  <2>3. (t \o a) \o b = t \o (a \o b)
    BY <2>2, ConcatAssoc
  <2>4. (t \o h) \o ch = t \o (h \o ch)
    BY ConcatAssoc
  <2>5. t \o a \o b = t \o h \o ch
    BY <2>1, <2>3, <2>4
  <2> QED BY <2>5 DEF a, b
<1>3. (t \o h) \o <<>> = t \o h
  BY DEF Events
<1>4. <<>> \o <<>> \o <<>> = <<>>
  <2>1. <<>> \in Seq(Nat)
    OBVIOUS
  <2> QED BY <2>1, ConcatEmptySeq
<1> QED BY <1>1, <1>2, <1>3, <1>4

(* A goroutine's step leaves it alone with its handle, as the others.        *)
LEMMA AloneStep ==
  ASSUME \A x \in Reqs : Alone(x), NEW r, NEW o, NEW pc, NEW ev, o = req[r].open, Active(r),
         ReqStep(r, pc, o, ev)
  PROVE  \A x \in Reqs : Alone(x)'
<1>1. r \in Reqs /\ req'[r].open = o /\ \A x \in Reqs : x # r => req'[x] = req[x]
  BY DEF ReqStep, IsReq
<1>2. \A x \in Reqs : Active(x)' => Active(x) /\ req'[x].open = req[x].open
  BY <1>1 DEF Active
<1> QED BY <1>2 DEF Alone

(* The requests a cancel channel may still have to reach.                    *)
Wakeable == {"wait", "coalesce", "check", "clear"}

(* Steps that leave the cancel channels of the handles in the table alone.   *)
LEMMA ReachableStep ==
  ASSUME IInv, \A x \in Reqs : Reachable(x),
         \A o \in Opens : open'[o].inTable =>
             open[o].inTable /\ open'[o].notifyCancel = open[o].notifyCancel,
         \A x \in Reqs : req'[x].pc \in Wakeable =>
             req[x].pc \in Wakeable /\ req'[x].open = req[x].open
  PROVE  \A x \in Reqs : Reachable(x)'
<1> SUFFICES ASSUME NEW x \in Reqs, req'[x].pc \in Wakeable, open'[req'[x].open].inTable
             PROVE  open'[req'[x].open].notifyCancel = x
  BY DEF Reachable, Wakeable
<1>1. req[x].pc \in Wakeable /\ req'[x].open = req[x].open
  OBVIOUS
<1>2. req[x].open \in Opens
  BY <1>1 DEF IInv, Linked, Owned, Wakeable
<1>3. open[req[x].open].inTable
        /\ open'[req[x].open].notifyCancel = open[req[x].open].notifyCancel
  BY <1>1, <1>2
<1> QED BY <1>1, <1>3 DEF Reachable, Wakeable

(* Steps that put no event in a handle's channel and take none.              *)
LEMMA StreamStep ==
  ASSUME NEW o \in Opens, Stream(o), open[o].used => open'[o].used,
         open'[o].inTable => open[o].inTable, open'[o].notifyCh = open[o].notifyCh,
         seen'[o].told = seen[o].told, seen'[o].put = seen[o].put,
         seen[o].lost => seen'[o].lost,
         open'[o].inTable /\ ~seen'[o].lost => InHandIn(req', o) = InHandIn(req, o)
  PROVE  Stream(o)'
<1>1. InHand(o) = InHandIn(req, o) /\ InHand(o)' = InHandIn(req', o)
  BY InHandState
<1>2. ~open'[o].used => seen'[o].told = <<>> /\ seen'[o].put = <<>>
  BY DEF Stream
<1>3. ASSUME open'[o].inTable, ~seen'[o].lost
      PROVE  seen'[o].told \o InHand(o)' \o open'[o].notifyCh = seen'[o].put
  BY <1>1, <1>3 DEF Stream
<1> QED BY <1>2, <1>3 DEF Stream

(* The requests of other handles: nothing in hand changes there.             *)
LEMMA OthersInHand ==
  ASSUME NEW r, NEW o, NEW pc, NEW ev, o = req[r].open \/ req[r].pc = "none",
         ReqStep(r, pc, o, ev), NEW x, x # o, ~(req[r].pc = "none" /\ req[r].open = x)
  PROVE  InHandIn(req', x) = InHandIn(req, x)
<1>1. r \in Reqs /\ req'[r].open = o /\ \A y \in Reqs : y # r => req'[y] = req[y]
  BY DEF ReqStep, IsReq
<1>2. \A y \in Reqs : req'[y] = req[y] \/ (req[y].open # x /\ req'[y].open # x)
  BY <1>1
<1> QED BY <1>2, InHandSame

(* The handle of a request that takes a step: before and after.              *)
LEMMA OwnInHand ==
  ASSUME NEW r, NEW o, NEW pc, NEW ev, o = req[r].open, Active(r), Alone(r),
         ReqStep(r, pc, o, ev)
  PROVE  /\ InHandIn(req, o) = req[r].events
         /\ pc \notin {"none", "done"} => InHandIn(req', o) = ev
         /\ pc \in {"none", "done"} => InHandIn(req', o) = <<>>
<1>1. /\ r \in Reqs /\ req'[r].open = o /\ req'[r].pc = pc /\ req'[r].events = ev
      /\ \A y \in Reqs : y # r => req'[y] = req[y]
  BY DEF ReqStep, IsReq
<1>2. AliveIn(req, r) /\ \A x \in Reqs : AliveIn(req, x) /\ req[x].open = o => x = r
  BY DEF Active, Alone, AliveIn
<1>3. InHandIn(req, o) = req[r].events
  BY <1>1, <1>2, InHandOf
<1>4. ASSUME pc \notin {"none", "done"} PROVE InHandIn(req', o) = ev
  <2>1. AliveIn(req', r)
    BY <1>1, <1>4 DEF AliveIn
  <2>2. \A x \in Reqs : AliveIn(req', x) /\ req'[x].open = o => x = r
    BY <1>1, <1>2 DEF AliveIn
  <2>3. InHandIn(req', o) = req'[r].events
    BY <1>1, <2>1, <2>2, InHandOf
  <2> QED BY <1>1, <2>3
<1>5. ASSUME pc \in {"none", "done"} PROVE InHandIn(req', o) = <<>>
  <2>1. \A x \in Reqs : AliveIn(req', x) => req'[x].open # o
    BY <1>1, <1>2, <1>5 DEF AliveIn
  <2> QED BY <2>1, InHandNone
<1> QED BY <1>3, <1>4, <1>5

(* A handle without a pending request, when one at a time is allowed.        *)
LEMMA NonePending ==
  ASSUME NEW o, Cardinality(Pending(o)) < 1
  PROVE  \A x \in Reqs : Active(x) => req[x].open # o
<1>1. Pending(o) \subseteq 1 .. MaxReqs
  BY DEF Pending, Reqs
<1>2. IsFiniteSet(1 .. MaxReqs)
  BY LimitsAssumption, FS_Interval
<1>3. IsFiniteSet(Pending(o))
  BY <1>1, <1>2, FS_Subset
<1>4. Cardinality(Pending(o)) = 0
  BY <1>3, FS_CardinalityType
<1>5. Pending(o) = {}
  BY <1>3, <1>4, FS_EmptySet
<1> QED BY <1>5 DEF Pending

(* The handle of a request that a step concerns, as a fixed value.           *)
LEMMA ActiveHandle ==
  ASSUME IInv, NEW r \in Reqs, Active(r)
  PROVE  /\ req[r].open \in Opens /\ open[req[r].open].used
         /\ req[r].events \in Events
         /\ seen[req[r].open].told \in Events /\ open[req[r].open].notifyCh \in Events
<1>1. req[r].open \in Opens /\ open[req[r].open].used
  BY DEF IInv, Linked, Owned, Active
<1>2. /\ req[r] \in ReqType /\ seen[req[r].open] \in SeenType
      /\ open[req[r].open] \in OpenType
  BY <1>1 DEF IInv, TypeInv
<1> QED BY <1>1, <1>2, OpenFields, ReqFields

-----------------------------------------------------------------------------
(* CREATE: a handle nobody has used has no request and no events.            *)
LEMMA OneCreate ==
  ASSUME IInv, OneInv, NEW c \in Conns, NEW o \in Opens, NEW p \in Paths, Create(c, o, p)
  PROVE  OneInv'
<1>1. OpenStep(o, TRUE, TRUE, c, p, NoReq, FALSE, <<>>, FALSE)
  BY CreateEffect
<1>2. req' = req /\ seen' = seen /\ ~open[o].used
  BY DEF Create
<1>3. \A x \in Reqs : Active(x) => req[x].open # o
  BY <1>2 DEF IInv, Linked, Owned, Active
<1>4. \A x \in Opens : x # o => open'[x] = open[x]
  BY <1>1 DEF OpenStep
<1>5. \A x \in Reqs : Alone(x)'
  BY <1>2 DEF OneInv, Alone, Active
<1>6. ASSUME NEW x \in Reqs PROVE Reachable(x)'
  <2>1. CASE ~Active(x)
    BY <1>2, <2>1 DEF Reachable, Active
  <2>2. CASE Active(x)
    <3>1. req[x].open \in Opens /\ req[x].open # o
      BY <1>3, <2>2 DEF IInv, Linked, Owned, Active
    <3>2. open'[req[x].open] = open[req[x].open]
      BY <1>4, <3>1
    <3> QED BY <1>2, <3>2 DEF Reachable, OneInv
  <2> QED BY <2>1, <2>2
<1>7. ASSUME NEW x \in Opens PROVE Stream(x)'
  <2>1. CASE x # o
    <3>1. open'[x] = open[x]
      BY <1>4, <2>1
    <3> QED BY <1>2, <3>1, StreamStep DEF OneInv
  <2>2. CASE x = o
    <3>1. seen[o].told = <<>> /\ seen[o].put = <<>>
      BY <1>2 DEF OneInv, Stream
    <3>2. InHandIn(req', o) = <<>>
      BY <1>2, <1>3, InHandNone DEF Active, AliveIn
    <3>3. InHand(o)' = <<>>
      BY <3>2, InHandState
    <3>4. open'[o].notifyCh = <<>> /\ open'[o].used = TRUE
      BY <1>1 DEF OpenStep, IsOpen
    <3>5. <<>> \o <<>> \o <<>> = <<>>
      <4>1. <<>> \in Events
        BY DEF Events
      <4> QED BY <4>1, StreamFacts
    <3>6. seen'[o].told \o InHand(o)' \o open'[o].notifyCh = seen'[o].put
      BY <1>2, <3>1, <3>3, <3>4, <3>5
    <3> QED BY <2>2, <3>4, <3>6 DEF Stream
  <2> QED BY <2>1, <2>2
<1> QED BY <1>5, <1>6, <1>7 DEF OneInv

(* changeNotify: the handle had no request, and now has this one.            *)
LEMMA OneChangeNotify ==
  ASSUME IInv, OneInv, MaxOutstanding = 1, NEW c \in Conns, NEW o \in Opens, ChangeNotify(c, o)
  PROVE  OneInv'
<1>1. PICK r \in Reqs : r = nreq + 1
  BY DEF ChangeNotify
<1>2. ReqStep(r, "start", o, <<>>) /\ nreq \in Nat
  BY <1>1, ChangeNotifyEffect
<1>3. open' = open /\ seen' = seen
  BY DEF ChangeNotify
<1>4. \A x \in Reqs : Active(x) => req[x].open # o
  <2>1. Cardinality(Pending(o)) < 1
    BY DEF ChangeNotify
  <2> QED BY <2>1, NonePending
<1>5. req[r].pc = "none"
  <2>1. ~(r <= nreq)
    BY <1>1, <1>2
  <2> QED BY <2>1 DEF IInv, Linked, Owned
<1>6. /\ req'[r].open = o /\ req'[r].pc = "start" /\ req'[r].events = <<>>
      /\ \A x \in Reqs : x # r => req'[x] = req[x]
  BY <1>2 DEF ReqStep, IsReq
<1>7. \A x \in Reqs : Alone(x)'
  BY <1>4, <1>6 DEF OneInv, Alone, Active
<1>8. \A x \in Reqs : Reachable(x)'
  <2>1. \A x \in Reqs : req'[x].pc \in Wakeable =>
          req[x].pc \in Wakeable /\ req'[x].open = req[x].open
    BY <1>6 DEF Wakeable
  <2> QED BY <1>3, <2>1, ReachableStep DEF OneInv
<1>9. ASSUME NEW x \in Opens PROVE Stream(x)'
  <2>1. InHandIn(req', x) = InHandIn(req, x)
    <3>1. CASE x # o
      <4>1. \A y \in Reqs : AliveIn(req, y) => y # r
        BY <1>5 DEF AliveIn
      <4> DEFINE R == {y \in Reqs : AliveIn(req, y) /\ req[y].open = x /\ req[y].events # <<>>}
                 S == {y \in Reqs : AliveIn(req', y) /\ req'[y].open = x /\ req'[y].events # <<>>}
      <4>2. R = S
        BY <1>6, <3>1, <4>1 DEF AliveIn
      <4>3. InHandIn(req, x) = IF R = {} THEN <<>> ELSE req[CHOOSE y \in R : TRUE].events
        BY DEF InHandIn
      <4>4. InHandIn(req', x) = IF S = {} THEN <<>> ELSE req'[CHOOSE y \in S : TRUE].events
        BY DEF InHandIn
      <4>5. \A y \in R : req'[y] = req[y]
        BY <1>6, <4>1
      <4> HIDE DEF R, S
      <4>6. R # {} => (CHOOSE y \in R : TRUE) \in R
        OBVIOUS
      <4> QED BY <4>2, <4>3, <4>4, <4>5, <4>6
    <3>2. CASE x = o
      <4>1. InHandIn(req, o) = <<>>
        BY <1>4, InHandNone DEF Active, AliveIn
      <4>2. AliveIn(req', r) /\ \A y \in Reqs : AliveIn(req', y) /\ req'[y].open = o => y = r
        BY <1>4, <1>6 DEF Active, AliveIn
      <4>3. InHandIn(req', o) = <<>>
        BY <1>6, <4>2, InHandOf
      <4> QED BY <3>2, <4>1, <4>3
    <3> QED BY <3>1, <3>2
  <2> QED BY <1>3, <2>1, StreamStep DEF OneInv
<1> QED BY <1>7, <1>8, <1>9 DEF OneInv

(* The rest of changeNotify: the handle's cancel channel is the request's.   *)
LEMMA OneRegister ==
  ASSUME IInv, OneInv, NEW c \in Conns, NEW f \in BOOLEAN, Register(c, f)
  PROVE  OneInv'
<1>1. PICK o, r, ev : o = task[c].open /\ r = task[c].req /\ ev = req[r].events
  OBVIOUS
<1>2. Registered(c, f, o, r)
  BY <1>1, RegisterEffect
<1>3. req[r].pc = "start" /\ req[r].open = o /\ ReqStep(r, "wait", o, ev)
  BY <1>1, <1>2 DEF Registered
<1>4. seen' = seen
  BY DEF Register
<1>5. r \in Reqs /\ Active(r) /\ Alone(r)
  BY <1>3 DEF Active, OneInv, ReqStep
<1>6. \A x \in Reqs : Alone(x)'
  BY <1>3, <1>5, AloneStep DEF OneInv
<1>7. /\ open'[o].used /\ open'[o].inTable = open[o].inTable
      /\ open'[o].notifyCancel = r /\ open'[o].notifyCh = open[o].notifyCh
      /\ \A x \in Opens : x # o => open'[x] = open[x]
  BY <1>2 DEF Registered, OpenStep, IsOpen
<1>8. req'[r].open = o /\ \A x \in Reqs : x # r => req'[x] = req[x]
  BY <1>3 DEF ReqStep, IsReq
<1>9. ASSUME NEW x \in Reqs PROVE Reachable(x)'
  <2>1. CASE x = r
    BY <1>7, <1>8, <2>1 DEF Reachable
  <2>2. CASE x # r /\ ~Active(x)
    BY <1>8, <2>2 DEF Reachable, Active
  <2>3. CASE x # r /\ Active(x)
    <3>1. req[x].open \in Opens /\ req[x].open # o
      BY <1>3, <1>5, <2>3 DEF Alone, IInv, Linked, Owned, Active
    <3>2. open'[req[x].open] = open[req[x].open] /\ req'[x] = req[x]
      BY <1>7, <1>8, <2>3, <3>1
    <3> QED BY <3>2 DEF Reachable, OneInv
  <2> QED BY <2>1, <2>2, <2>3
<1>10. ASSUME NEW x \in Opens PROVE Stream(x)'
  <2>1. InHandIn(req', x) = InHandIn(req, x)
    <3>1. CASE x # o
      BY <1>3, <1>5, <3>1, OthersInHand DEF Active
    <3>2. CASE x = o
      <4>1. /\ InHandIn(req, o) = req[r].events
            /\ "wait" \notin {"none", "done"} => InHandIn(req', o) = ev
        BY <1>3, <1>5, OwnInHand
      <4> QED BY <1>1, <3>2, <4>1
    <3> QED BY <3>1, <3>2
  <2>2. CASE x # o
    <3>1. open'[x] = open[x]
      BY <1>7, <2>2
    <3> QED BY <1>4, <2>1, <3>1, StreamStep DEF OneInv
  <2>3. CASE x = o
    BY <1>4, <1>7, <2>1, <2>3, StreamStep DEF OneInv
  <2> QED BY <2>2, <2>3
<1> QED BY <1>6, <1>9, <1>10 DEF OneInv

(* notifyChange: the event is the last one in the channel and the last one   *)
(* put there.                                                                *)
LEMMA OneNotifyChange ==
  ASSUME IInv, OneInv, NEW p, NotifyChange(p)
  PROVE  OneInv'
<1>1. \A o \in Opens :
        \/ open'[o] = open[o] /\ seen'[o] = seen[o]
        \/ /\ open[o].inTable
           /\ IsOpen(open'[o], open[o].inTable, open[o].used, open[o].conn, open[o].path,
                     open[o].notifyCancel, open[o].has, Append(open[o].notifyCh, nev + 1),
                     open[o].fsWatchPath)
           /\ IsSeen(seen'[o], seen[o].told, Append(seen[o].put, nev + 1), seen[o].lost)
  BY NotifyChangeEffect
<1>2. req' = req
  BY DEF NotifyChange
<1>3. \A x \in Reqs : Alone(x)'
  BY <1>2 DEF OneInv, Alone, Active
<1>4. \A o \in Opens : open'[o].inTable = open[o].inTable
                       /\ open'[o].notifyCancel = open[o].notifyCancel
  BY <1>1 DEF IsOpen
<1>5. \A x \in Reqs : Reachable(x)'
  BY <1>2, <1>4, ReachableStep DEF OneInv
<1>6. ASSUME NEW o \in Opens PROVE Stream(o)'
  <2>1. CASE open'[o] = open[o] /\ seen'[o] = seen[o]
    BY <1>2, <2>1, StreamStep DEF OneInv
  <2>2. CASE /\ open[o].inTable
             /\ IsOpen(open'[o], open[o].inTable, open[o].used, open[o].conn, open[o].path,
                       open[o].notifyCancel, open[o].has, Append(open[o].notifyCh, nev + 1),
                       open[o].fsWatchPath)
             /\ IsSeen(seen'[o], seen[o].told, Append(seen[o].put, nev + 1), seen[o].lost)
    <3>1. /\ open'[o].used = open[o].used /\ open'[o].inTable = open[o].inTable
          /\ open'[o].notifyCh = Append(open[o].notifyCh, nev + 1)
          /\ seen'[o].told = seen[o].told /\ seen'[o].put = Append(seen[o].put, nev + 1)
          /\ seen'[o].lost = seen[o].lost
      BY <2>2 DEF IsOpen, IsSeen
    <3>2. open[o].used
      BY <2>2 DEF IInv, Linked, Sound
    <3>3. InHand(o) = InHandIn(req, o) /\ InHand(o)' = InHandIn(req, o)
      BY <1>2, InHandState
    <3>4. ASSUME open'[o].inTable, ~seen'[o].lost
          PROVE  seen'[o].told \o InHand(o)' \o open'[o].notifyCh = seen'[o].put
      <4>1. seen[o].told \o InHandIn(req, o) \o open[o].notifyCh = seen[o].put
        BY <1>2, <3>1, <3>3, <3>4 DEF OneInv, Stream
      <4>2. /\ seen[o].told \in Events /\ open[o].notifyCh \in Events /\ nev + 1 \in Nat
            /\ InHandIn(req, o) \in Events
        <5>1. open[o] \in OpenType /\ seen[o] \in SeenType /\ req \in [Reqs -> ReqType]
                /\ nev \in Nat
          BY DEF IInv, TypeInv
        <5> QED BY <5>1, OpenFields, ReqFields, InHandType
      <4>3. seen[o].told \o InHandIn(req, o) \o Append(open[o].notifyCh, nev + 1)
              = Append(seen[o].told \o InHandIn(req, o) \o open[o].notifyCh, nev + 1)
        BY <4>2, StreamFacts
      <4> QED BY <3>1, <3>3, <4>1, <4>3
    <3> QED BY <3>1, <3>2, <3>4 DEF Stream
  <2> QED BY <1>1, <2>1, <2>2
<1> QED BY <1>3, <1>5, <1>6 DEF OneInv

(* A goroutine receives an event: it moves from the channel to its hand.     *)
LEMMA OneReceive ==
  ASSUME IInv, OneInv, NEW r \in Reqs, NEW pc \in {"wait", "coalesce"}, Receive(r, pc)
  PROVE  OneInv'
<1>1. PICK o : o = req[r].open
  OBVIOUS
<1>2. /\ req[r].pc = pc /\ open[o].notifyCh # <<>>
      /\ OpenStep(o, open[o].inTable, open[o].used, open[o].conn, open[o].path,
                  open[o].notifyCancel, open[o].has, Tail(open[o].notifyCh),
                  open[o].fsWatchPath)
      /\ ReqStep(r, "coalesce", o, Append(req[r].events, Head(open[o].notifyCh)))
  BY <1>1, ReceiveEffect
<1>3. seen' = seen
  BY DEF Receive
<1>4. Active(r) /\ Alone(r)
  BY <1>2 DEF Active, OneInv
<1>5. /\ o \in Opens /\ req[r].events \in Events /\ seen[o].told \in Events
      /\ open[o].notifyCh \in Events /\ open[o].used
  BY <1>1, <1>4, ActiveHandle
<1>6. \A x \in Reqs : Alone(x)'
  BY <1>1, <1>2, <1>4, AloneStep DEF OneInv
<1>7. /\ open'[o].used = open[o].used /\ open'[o].inTable = open[o].inTable
      /\ open'[o].notifyCancel = open[o].notifyCancel
      /\ open'[o].notifyCh = Tail(open[o].notifyCh)
      /\ \A x \in Opens : x # o => open'[x] = open[x]
  BY <1>2 DEF OpenStep, IsOpen
<1>8. \A x \in Reqs : Reachable(x)'
  <2>1. \A x \in Opens : open'[x].inTable =>
          open[x].inTable /\ open'[x].notifyCancel = open[x].notifyCancel
    BY <1>7
  <2>2. \A x \in Reqs : req'[x].pc \in Wakeable =>
          req[x].pc \in Wakeable /\ req'[x].open = req[x].open
    BY <1>1, <1>2 DEF ReqStep, IsReq, Wakeable
  <2> QED BY <2>1, <2>2, ReachableStep DEF OneInv
<1>9. ASSUME NEW x \in Opens PROVE Stream(x)'
  <2>1. CASE x # o
    <3>1. open'[x] = open[x]
      BY <1>7, <2>1
    <3>2. InHandIn(req', x) = InHandIn(req, x)
      BY <1>1, <1>2, <1>4, <2>1, OthersInHand DEF Active
    <3> QED BY <1>3, <3>1, <3>2, StreamStep DEF OneInv
  <2>2. CASE x = o
    <3>1. /\ InHandIn(req, o) = req[r].events
          /\ InHandIn(req', o) = Append(req[r].events, Head(open[o].notifyCh))
      <4>1. PICK ev : ev = Append(req[r].events, Head(open[o].notifyCh))
        OBVIOUS
      <4>2. ReqStep(r, "coalesce", o, ev)
        BY <1>2, <4>1
      <4>3. /\ InHandIn(req, o) = req[r].events
            /\ "coalesce" \notin {"none", "done"} => InHandIn(req', o) = ev
        BY <1>1, <1>4, <4>2, OwnInHand
      <4> QED BY <4>1, <4>3
    <3>2. InHand(o) = InHandIn(req, o) /\ InHand(o)' = InHandIn(req', o)
      BY InHandState
    <3>3. seen[o].told \o Append(req[r].events, Head(open[o].notifyCh)) \o Tail(open[o].notifyCh)
            = seen[o].told \o req[r].events \o open[o].notifyCh
      BY <1>2, <1>5, StreamFacts
    <3>4. Stream(o)
      BY <1>5 DEF OneInv
    <3>5. ASSUME open'[o].inTable, ~seen'[o].lost
          PROVE  seen'[o].told \o InHand(o)' \o open'[o].notifyCh = seen'[o].put
      <4>1. seen[o].told \o req[r].events \o open[o].notifyCh = seen[o].put
        BY <1>3, <1>7, <3>1, <3>2, <3>4, <3>5 DEF Stream
      <4> QED BY <1>3, <1>7, <3>1, <3>2, <3>3, <4>1
    <3>6. open'[o].used
      BY <1>5, <1>7
    <3> QED BY <2>2, <3>5, <3>6 DEF Stream
  <2> QED BY <2>1, <2>2
<1> QED BY <1>6, <1>8, <1>9 DEF OneInv

(* A goroutine moves on with its events, or ends because the handle is gone. *)
LEMMA OneGoroutine ==
  ASSUME IInv, OneInv, NEW r \in Reqs, NEW pc \in Wakeable, NEW l \in Pcs,
         Goroutine(r, pc, l), l \in Wakeable \/ (l = "done" /\ ~open[req[r].open].inTable),
         UNCHANGED <<open, seen>>
  PROVE  OneInv'
<1>1. PICK o : o = req[r].open
  OBVIOUS
<1>2. req[r].pc = pc /\ ReqStep(r, l, o, req[r].events)
  BY <1>1, GoroutineEffect DEF Wakeable, Pcs
<1>3. Active(r) /\ Alone(r)
  BY <1>2 DEF Active, OneInv, Wakeable
<1>4. \A x \in Reqs : Alone(x)'
  BY <1>1, <1>2, <1>3, AloneStep DEF OneInv
<1>5. \A x \in Reqs : Reachable(x)'
  <2>1. \A x \in Reqs : req'[x].pc \in Wakeable =>
          req[x].pc \in Wakeable /\ req'[x].open = req[x].open
    BY <1>1, <1>2 DEF ReqStep, IsReq
  <2> QED BY <2>1, ReachableStep DEF OneInv
<1>6. ASSUME NEW x \in Opens PROVE Stream(x)'
  <2>1. open'[x].inTable => InHandIn(req', x) = InHandIn(req, x)
    <3>1. CASE x # o
      BY <1>1, <1>2, <1>3, <3>1, OthersInHand DEF Active
    <3>2. CASE x = o
      <4>1. /\ InHandIn(req, o) = req[r].events
            /\ l \notin {"none", "done"} => InHandIn(req', o) = req[r].events
        BY <1>1, <1>2, <1>3, OwnInHand
      <4> QED BY <1>1, <3>2, <4>1 DEF Wakeable
    <3> QED BY <3>1, <3>2
  <2> QED BY <2>1, StreamStep DEF OneInv
<1> QED BY <1>4, <1>5, <1>6 DEF OneInv

(* The cancel case: events that are discarded count as lost.                 *)
LEMMA OneTakeCancel ==
  ASSUME IInv, OneInv, NEW r \in Reqs, TakeCancel(r)
  PROVE  OneInv'
<1>1. PICK o : o = req[r].open
  OBVIOUS
<1>2. /\ req[r].pc \in {"wait", "coalesce"} /\ ReqStep(r, "check", o, <<>>) /\ o \in Opens
      /\ SeenStep(o, seen[o].told, seen[o].put,
                  IF req[r].events # <<>> THEN TRUE ELSE seen[o].lost)
  BY <1>1, TakeCancelEffect
<1>3. open' = open
  BY DEF TakeCancel
<1>4. Active(r) /\ Alone(r)
  BY <1>2 DEF Active, OneInv
<1>5. \A x \in Reqs : Alone(x)'
  BY <1>1, <1>2, <1>4, AloneStep DEF OneInv
<1>6. \A x \in Reqs : Reachable(x)'
  <2>1. \A x \in Reqs : req'[x].pc \in Wakeable =>
          req[x].pc \in Wakeable /\ req'[x].open = req[x].open
    BY <1>1, <1>2 DEF ReqStep, IsReq, Wakeable
  <2> QED BY <1>3, <2>1, ReachableStep DEF OneInv
<1>7. /\ seen'[o].told = seen[o].told /\ seen'[o].put = seen[o].put
      /\ seen'[o].lost = IF req[r].events # <<>> THEN TRUE ELSE seen[o].lost
      /\ \A x \in Opens : x # o => seen'[x] = seen[x]
  BY <1>2 DEF SeenStep, IsSeen
<1>8. ASSUME NEW x \in Opens PROVE Stream(x)'
  <2>1. CASE x # o
    <3>1. InHandIn(req', x) = InHandIn(req, x)
      BY <1>1, <1>2, <1>4, <2>1, OthersInHand DEF Active
    <3>2. seen'[x] = seen[x]
      BY <1>7, <2>1
    <3> QED BY <1>3, <3>1, <3>2, StreamStep DEF OneInv
  <2>2. CASE x = o
    <3>1. InHandIn(req, o) = req[r].events /\ InHandIn(req', o) = <<>>
      BY <1>1, <1>2, <1>4, OwnInHand
    <3>2. ~seen'[o].lost => InHandIn(req', o) = InHandIn(req, o)
      BY <1>7, <3>1
    <3>3. seen[o].lost => seen'[o].lost
      BY <1>7
    <3> QED BY <1>2, <1>3, <1>7, <2>2, <3>2, <3>3, StreamStep DEF OneInv
  <2> QED BY <2>1, <2>2
<1> QED BY <1>5, <1>6, <1>8 DEF OneInv

(* The request that clears the cancel channel no longer needs it, and no     *)
(* other request of the handle does.                                         *)
LEMMA OneClearCancel ==
  ASSUME IInv, OneInv, NEW r \in Reqs, ClearCancel(r)
  PROVE  OneInv'
<1>1. PICK o : o = req[r].open
  OBVIOUS
<1>2. /\ req[r].pc = "clear" /\ ReqStep(r, "send", o, req[r].events)
      /\ OpenStep(o, open[o].inTable, open[o].used, open[o].conn, open[o].path, NoReq,
                  open[o].has, open[o].notifyCh, open[o].fsWatchPath)
  BY <1>1, ClearCancelEffect
<1>3. seen' = seen
  BY DEF ClearCancel
<1>4. Active(r) /\ Alone(r)
  BY <1>2 DEF Active, OneInv
<1>5. \A x \in Reqs : Alone(x)'
  BY <1>1, <1>2, <1>4, AloneStep DEF OneInv
<1>6. /\ open'[o].used = open[o].used /\ open'[o].inTable = open[o].inTable
      /\ open'[o].notifyCh = open[o].notifyCh
      /\ \A x \in Opens : x # o => open'[x] = open[x]
  BY <1>2 DEF OpenStep, IsOpen
<1>7. req'[r].pc = "send" /\ \A x \in Reqs : x # r => req'[x] = req[x]
  BY <1>2 DEF ReqStep, IsReq
<1>8. ASSUME NEW x \in Reqs PROVE Reachable(x)'
  <2>1. CASE x = r
    BY <1>7, <2>1 DEF Reachable
  <2>2. CASE x # r /\ ~Active(x)
    BY <1>7, <2>2 DEF Reachable, Active
  <2>3. CASE x # r /\ Active(x)
    <3>1. req[x].open \in Opens /\ req[x].open # o
      BY <1>1, <1>4, <2>3 DEF Alone, IInv, Linked, Owned, Active
    <3>2. open'[req[x].open] = open[req[x].open] /\ req'[x] = req[x]
      BY <1>6, <1>7, <2>3, <3>1
    <3> QED BY <3>2 DEF Reachable, OneInv
  <2> QED BY <2>1, <2>2, <2>3
<1>9. ASSUME NEW x \in Opens PROVE Stream(x)'
  <2>1. InHandIn(req', x) = InHandIn(req, x)
    <3>1. CASE x # o
      BY <1>1, <1>2, <1>4, <3>1, OthersInHand DEF Active
    <3>2. CASE x = o
      <4>1. /\ InHandIn(req, o) = req[r].events
            /\ "send" \notin {"none", "done"} => InHandIn(req', o) = req[r].events
        BY <1>1, <1>2, <1>4, OwnInHand
      <4> QED BY <3>2, <4>1
    <3> QED BY <3>1, <3>2
  <2>2. /\ open'[x].used = open[x].used /\ open'[x].inTable = open[x].inTable
        /\ open'[x].notifyCh = open[x].notifyCh
    BY <1>6
  <2> QED BY <1>3, <2>1, <2>2, StreamStep DEF OneInv
<1> QED BY <1>5, <1>8, <1>9 DEF OneInv

(* The answer moves the events from the goroutine's hand to the client.      *)
LEMMA OneAnswer ==
  ASSUME IInv, OneInv, NEW r \in Reqs, Answer(r)
  PROVE  OneInv'
<1>1. PICK o : o = req[r].open
  OBVIOUS
<1>2. /\ req[r].pc = "send" /\ o \in Opens /\ ReqStep(r, "done", o, req[r].events)
      /\ \/ SeenStep(o, seen[o].told \o req[r].events, seen[o].put, seen[o].lost)
         \/ SeenStep(o, seen[o].told, seen[o].put,
                     IF req[r].events # <<>> THEN TRUE ELSE seen[o].lost)
  BY <1>1, AnswerEffect
<1>3. open' = open
  BY DEF Answer
<1>4. Active(r) /\ Alone(r)
  BY <1>2 DEF Active, OneInv
<1>5. /\ req[r].events \in Events /\ seen[o].told \in Events
      /\ open[o].notifyCh \in Events /\ open[o].used
  BY <1>1, <1>4, ActiveHandle
<1>6. \A x \in Reqs : Alone(x)'
  BY <1>1, <1>2, <1>4, AloneStep DEF OneInv
<1>7. \A x \in Reqs : Reachable(x)'
  <2>1. \A x \in Reqs : req'[x].pc \in Wakeable =>
          req[x].pc \in Wakeable /\ req'[x].open = req[x].open
    BY <1>2 DEF ReqStep, IsReq, Wakeable
  <2> QED BY <1>3, <2>1, ReachableStep DEF OneInv
<1>8. /\ \/ /\ seen'[o].told = seen[o].told \o req[r].events
            /\ seen'[o].lost = seen[o].lost
         \/ /\ seen'[o].told = seen[o].told
            /\ seen'[o].lost = IF req[r].events # <<>> THEN TRUE ELSE seen[o].lost
      /\ seen'[o].put = seen[o].put
      /\ \A x \in Opens : x # o => seen'[x] = seen[x]
  BY <1>2 DEF SeenStep, IsSeen
<1>9. ASSUME NEW x \in Opens PROVE Stream(x)'
  <2>1. CASE x # o
    <3>1. InHandIn(req', x) = InHandIn(req, x)
      BY <1>1, <1>2, <1>4, <2>1, OthersInHand DEF Active
    <3>2. seen'[x] = seen[x]
      BY <1>8, <2>1
    <3> QED BY <1>3, <3>1, <3>2, StreamStep DEF OneInv
  <2>2. CASE x = o
    <3>1. InHandIn(req, o) = req[r].events /\ InHandIn(req', o) = <<>>
      BY <1>1, <1>2, <1>4, OwnInHand
    <3>2. InHand(o) = InHandIn(req, o) /\ InHand(o)' = InHandIn(req', o)
      BY InHandState
    <3>3. (seen[o].told \o req[r].events) \o <<>> \o open[o].notifyCh
            = seen[o].told \o req[r].events \o open[o].notifyCh
      BY <1>5, StreamFacts
    <3>4. ASSUME open'[o].inTable, ~seen'[o].lost
          PROVE  seen'[o].told \o InHand(o)' \o open'[o].notifyCh = seen'[o].put
      <4>1. ~seen[o].lost
        BY <1>8, <3>4
      <4>2. seen[o].told \o req[r].events \o open[o].notifyCh = seen[o].put
        BY <1>2, <1>3, <3>1, <3>2, <3>4, <4>1 DEF OneInv, Stream
      <4>3. CASE seen'[o].told = seen[o].told \o req[r].events
        BY <1>3, <1>8, <3>1, <3>2, <3>3, <4>2, <4>3
      <4>4. CASE /\ seen'[o].told = seen[o].told
                 /\ seen'[o].lost = IF req[r].events # <<>> THEN TRUE ELSE seen[o].lost
        <5>1. req[r].events = <<>>
          BY <3>4, <4>4
        <5> QED BY <1>3, <1>8, <3>1, <3>2, <4>2, <4>4, <5>1
      <4> QED BY <1>8, <4>3, <4>4
    <3> QED BY <1>3, <1>5, <2>2, <3>4 DEF Stream
  <2> QED BY <2>1, <2>2
<1> QED BY <1>6, <1>7, <1>9 DEF OneInv

(* CANCEL, CLOSE and the end of a connection move no event.                  *)
LEMMA OneHandler ==
  ASSUME IInv, OneInv, NEW c \in Conns,
         Cancel(c) \/ Disconnect(c) \/ CloseDelete(c) \/ CloseEnd(c)
           \/ \E o \in Opens : Close(c, o)
  PROVE  OneInv'
<1>1. req' = req /\ seen' = seen
  BY DEF Cancel, Disconnect, CloseDelete, CloseEnd, Close
<1>2. \A x \in Opens : /\ open'[x].used = open[x].used
                       /\ open'[x].inTable => open[x].inTable
                       /\ open'[x].notifyCancel = open[x].notifyCancel
                       /\ open'[x].notifyCh = open[x].notifyCh
  <2>1. CASE ~CloseDelete(c)
    <3>1. open' = open
      BY <2>1 DEF Cancel, Disconnect, CloseEnd, Close
    <3> QED BY <3>1
  <2>2. CASE CloseDelete(c)
    <3>1. PICK o : o = task[c].open
      OBVIOUS
    <3>2. OpenStep(o, FALSE, open[o].used, open[o].conn, open[o].path, open[o].notifyCancel,
                   open[o].has, open[o].notifyCh, open[o].fsWatchPath)
      BY <2>2, <3>1, CloseDeleteEffect
    <3>3. /\ ~open'[o].inTable /\ open'[o].used = open[o].used
          /\ open'[o].notifyCancel = open[o].notifyCancel
          /\ open'[o].notifyCh = open[o].notifyCh
          /\ \A x \in Opens : x # o => open'[x] = open[x]
      BY <3>2 DEF OpenStep, IsOpen
    <3> QED BY <3>3
  <2> QED BY <2>1, <2>2
<1>3. \A x \in Reqs : Alone(x)'
  BY <1>1 DEF OneInv, Alone, Active
<1>4. \A x \in Reqs : Reachable(x)'
  BY <1>1, <1>2, ReachableStep DEF OneInv
<1>5. \A x \in Opens : Stream(x)'
  BY <1>1, <1>2, StreamStep DEF OneInv
<1> QED BY <1>3, <1>4, <1>5 DEF OneInv

(* Every step.                                                               *)
LEMMA StepOne ==
  ASSUME IInv, OneInv, Next, MaxOutstanding = 1
  PROVE  OneInv'
<1>1. ASSUME NEW r \in Reqs, Step(r) PROVE OneInv'
  <2>1. CASE TakeEvent(r) \/ Coalesce(r)
    BY <2>1, OneReceive DEF TakeEvent, Coalesce
  <2>2. CASE CoalesceEnd(r)
    BY <2>2, OneGoroutine DEF CoalesceEnd, Wakeable, Pcs
  <2>3. CASE LivenessCheck(r)
    BY <2>3, OneGoroutine DEF LivenessCheck, Wakeable, Pcs
  <2>4. CASE CheckOpen(r)
    <3>1. CASE open[req[r].open].inTable
      BY <2>4, <3>1, OneGoroutine DEF CheckOpen, Wakeable, Pcs
    <3>2. CASE ~open[req[r].open].inTable
      BY <2>4, <3>2, OneGoroutine DEF CheckOpen, Wakeable, Pcs
    <3> QED BY <3>1, <3>2
  <2>5. CASE TakeCancel(r)
    BY <2>5, OneTakeCancel
  <2>6. CASE ClearCancel(r)
    BY <2>6, OneClearCancel
  <2>7. CASE Answer(r)
    BY <2>7, OneAnswer
  <2> QED BY <1>1, <2>1, <2>2, <2>3, <2>4, <2>5, <2>6, <2>7 DEF Step
<1>2. ASSUME NEW c \in Conns, Handler(c) \/ Disconnect(c) PROVE OneInv'
  <2>1. CASE \E o \in Opens, p \in Paths : Create(c, o, p)
    BY <2>1, OneCreate
  <2>2. CASE \E o \in Opens : ChangeNotify(c, o)
    BY <2>2, OneChangeNotify
  <2>3. CASE \E f \in {FALSE, WatchMayFail} : Register(c, f)
    BY <2>3, OneRegister, WatchAssumption
  <2>4. CASE Cancel(c) \/ Disconnect(c) \/ CloseDelete(c) \/ CloseEnd(c)
               \/ \E o \in Opens : Close(c, o)
    BY <2>4, OneHandler
  <2> QED BY <1>2, <2>1, <2>2, <2>3, <2>4 DEF Handler
<1>3. ASSUME NEW p \in Paths, FsEvent(p) \/ OwnChange(p) PROVE OneInv'
  BY <1>3, OneNotifyChange DEF FsEvent, OwnChange
<1> QED BY <1>1, <1>2, <1>3 DEF Next

(* The invariant of clients that have one request pending per handle.        *)
LEMMA OneAtATime ==
  ASSUME MaxOutstanding = 1
  PROVE  Spec => []OneInv
<1>1. Init => OneInv
  <2> SUFFICES ASSUME Init PROVE OneInv
    OBVIOUS
  <2>1. \A r \in Reqs : req[r].pc = "none"
    BY DEF Init, NewReq
  <2>2. \A o \in Opens : /\ open[o].inTable = FALSE
                         /\ seen[o].told = <<>> /\ seen[o].put = <<>>
    BY DEF Init, NewOpen, NewSeen
  <2>3. \A r \in Reqs : Alone(r) /\ Reachable(r)
    BY <2>1 DEF Alone, Reachable, Active
  <2>4. \A o \in Opens : Stream(o)
    BY <2>2 DEF Stream
  <2> QED BY <2>3, <2>4 DEF OneInv
<1>2. IInv /\ OneInv /\ [Next]_vars => OneInv'
  <2> SUFFICES ASSUME IInv, OneInv, [Next]_vars PROVE OneInv'
    OBVIOUS
  <2>1. CASE Next
    BY <2>1, StepOne
  <2>2. CASE UNCHANGED vars
    <3>1. open' = open /\ req' = req /\ seen' = seen
      BY <2>2 DEF vars
    <3>2. \A r \in Reqs : Alone(r)' /\ Reachable(r)'
      BY <3>1 DEF OneInv, Alone, Reachable, Active
    <3>3. \A o \in Opens : Stream(o)'
      BY <3>1, StreamStep DEF OneInv
    <3> QED BY <3>2, <3>3 DEF OneInv
  <2> QED BY <2>1, <2>2
<1> QED BY <1>1, <1>2, NotifyInvariant, PTL DEF Spec

(* A client with one request pending per handle is told every change that    *)
(* found room in notifyCh once and in order, whatever the goroutine, CANCEL, *)
(* CLOSE and the watcher do at the same time, unless it cancelled while      *)
(* changes were being collected, or was gone when they were sent.            *)
THEOREM EventStreamHolds ==
  ASSUME MaxOutstanding = 1
  PROVE  Spec => []EventStreamIntact
<1>1. OneInv => EventStreamIntact
  BY DEF OneInv, Stream, EventStreamIntact
<1> QED BY <1>1, OneAtATime, PTL

(* CANCEL puts a token in the channel of every request of the connection     *)
(* that is waiting, when each handle has one request pending at most.        *)
THEOREM CancelReachesHolds ==
  ASSUME MaxOutstanding = 1
  PROVE  Spec => CancelReachesAll
<1> DEFINE Reached == \A c \in Conns : Cancel(c) =>
             \A r \in Reqs : (req[r].pc = "wait" /\ open[req[r].open].inTable
                              /\ open[req[r].open].conn = c) => token'[r]
<1>1. IInv /\ OneInv => Reached
  <2> SUFFICES ASSUME IInv, OneInv, NEW c \in Conns, Cancel(c), NEW r \in Reqs,
                      req[r].pc = "wait", open[req[r].open].inTable, open[req[r].open].conn = c
               PROVE  token'[r]
    OBVIOUS
  <2>1. PICK o \in Opens : o = req[r].open
    BY DEF IInv, Linked, Owned
  <2>2. open[o].inTable /\ open[o].conn = c /\ open[o].notifyCancel = r
    BY <2>1 DEF OneInv, Reachable
  <2>3. token' = [x \in Reqs |-> token[x] \/ \E y \in Opens :
                    open[y].inTable /\ open[y].conn = c /\ open[y].notifyCancel = x]
    BY DEF Cancel
  <2> QED BY <2>2, <2>3
<1>2. [Reached]_vars <=> Reached \/ UNCHANGED vars
  OBVIOUS
<1>3. IInv /\ OneInv => [Reached]_vars
  BY <1>1
<1> QED BY <1>3, NotifyInvariant, OneAtATime, PTL DEF CancelReachesAll
=============================================================================
