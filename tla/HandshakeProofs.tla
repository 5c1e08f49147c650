-------------------------- MODULE HandshakeProofs ---------------------------
(* Proofs about the handshake, for any number of connections, messages and  *)
(* handshakes in progress.                                                  *)
EXTENDS Handshake, FiniteSetTheorems, TLAPS

Maps(S) == UNION {[D -> S] : D \in SUBSET Sids}

PendingType == [sid : Sids \cup {None}, preauth : Hashes, mech : BOOLEAN]
StepType == [sid : Sids \cup {None}, as : {"none", "user", "guest"}, binding : BOOLEAN]
ConnType ==
  [serverState : {"NEGOTIATE", "SESSION_SETUP", "CHALLENGE", "ACTIVE"},
   dialect : Dialects \cup {"none"}, useSession : BOOLEAN,
   preauth : Hashes, negotiatePreauth : Hashes,
   session : Sids \cup {None}, sessions : Maps(SessionRecords),
   pending : PendingType, step : StepType]
ClientType ==
  [sent : 0 .. MaxMsgs, neg : Hashes, negotiated : BOOLEAN, failed : BOOLEAN, stained : BOOLEAN,
   hs : Maps(Hashes), keys : Maps(Hashes),
   last : {"none", "negotiate", "setup1", "setup2", "token", "reauth", "request"},
   cred : {"none", "good", "bad"}, reply : Outcomes]

TypeInv ==
  /\ conn \in [Conns -> ConnType] /\ client \in [Conns -> ClientType]
  /\ mech \in BOOLEAN /\ down \in Downs /\ ntlm \in Servers

(* What every connection k and its client l have in common, in any state of *)
(* the handshake: a session is in use exactly when the state is active, its *)
(* id is no handshake's, and a setup half done is one the client began.     *)
Paired(k, l) ==
  /\ k.useSession <=> k.serverState = "ACTIVE"
  /\ ~k.useSession => DOMAIN k.sessions = {}
  /\ DOMAIN l.keys = DOMAIN k.sessions
  /\ DOMAIN l.hs \cap DOMAIN k.sessions = {}
  /\ \A s \in DOMAIN l.hs \cup DOMAIN k.sessions : s <= l.sent
  /\ k.step.sid # None => /\ k.step.sid \in DOMAIN l.hs
                          /\ k.step.as \in {"user", "guest"}
                          /\ k.step.binding <=> k.useSession
                          /\ k.step.binding => k.pending.sid = k.step.sid
  /\ k.pending.sid # None => k.useSession
  /\ ~l.negotiated => /\ k.serverState = "NEGOTIATE" /\ k.dialect = "none"
                      /\ k.preauth = <<>> /\ DOMAIN l.hs = {} /\ ~l.failed
  /\ l.sent = 0 => ~l.negotiated
  /\ k.dialect # "SMB311" => l.neg = <<>> /\ \A s \in DOMAIN l.hs : l.hs[s] = <<>>

(* Where the two ends' hashes are, for a client whose first tokens were all *)
(* accepted until it had a session.                                         *)
Fresh(k, l) ==
  k.serverState = "NEGOTIATE" =>
    /\ DOMAIN l.hs = {} /\ ~l.failed
    /\ l.negotiated => k.preauth = l.neg /\ k.negotiatePreauth = l.neg
Challenging(k, l) ==
  k.serverState = "CHALLENGE" =>
    /\ \E s \in Sids : DOMAIN l.hs = {s} /\ k.preauth = l.hs[s]
    /\ k.negotiatePreauth = l.neg
Failed(k, l) == k.serverState = "SESSION_SETUP" => DOMAIN l.hs = {}
Active(k, l) ==
  k.useSession =>
    /\ k.negotiatePreauth = l.neg
    /\ k.pending.sid \in DOMAIN l.hs => k.pending.preauth = l.hs[k.pending.sid]
    /\ \A s \in DOMAIN l.keys : k.sessions[s].preauth = l.keys[s]

Agreed(k, l) == ~l.stained => Fresh(k, l) /\ Challenging(k, l) /\ Failed(k, l) /\ Active(k, l)

IInv == TypeInv /\ \A c \in Conns : Paired(conn[c], client[c]) /\ Agreed(conn[c], client[c])

-----------------------------------------------------------------------------
(* The fields of a connection, one by one.                                  *)
IsConn(j, st, d, u, pa, np, se, ss, pe, sp) ==
  /\ j \in ConnType
  /\ j.serverState = st /\ j.dialect = d /\ j.useSession = u /\ j.preauth = pa
  /\ j.negotiatePreauth = np /\ j.session = se /\ j.sessions = ss /\ j.pending = pe /\ j.step = sp

(* The fields of a connection have their types. *)
LEMMA ConnFields ==
  ASSUME NEW k \in ConnType
  PROVE  /\ k.serverState \in {"NEGOTIATE", "SESSION_SETUP", "CHALLENGE", "ACTIVE"}
         /\ k.dialect \in Dialects \cup {"none"} /\ k.useSession \in BOOLEAN
         /\ k.preauth \in Hashes /\ k.negotiatePreauth \in Hashes
         /\ k.session \in Sids \cup {None} /\ k.sessions \in Maps(SessionRecords)
         /\ k.pending \in PendingType /\ k.step \in StepType
BY DEF ConnType

(* ... those of a pending binding, *)
LEMMA PendingFields ==
  ASSUME NEW q \in PendingType
  PROVE  q.sid \in Sids \cup {None} /\ q.preauth \in Hashes /\ q.mech \in BOOLEAN
BY DEF PendingType

(* ... and those of a setup half done. *)
LEMMA StepFields ==
  ASSUME NEW q \in StepType
  PROVE  q.sid \in Sids \cup {None} /\ q.as \in {"none", "user", "guest"} /\ q.binding \in BOOLEAN
BY DEF StepType

(* A connection as accept leaves it. *)
LEMMA NewFields ==
  /\ NewConn \in ConnType /\ NewConn.pending \in PendingType /\ NewConn.step \in StepType
  /\ NewConn.serverState = "NEGOTIATE" /\ NewConn.dialect = "none" /\ NewConn.useSession = FALSE
  /\ NewConn.preauth = <<>> /\ NewConn.negotiatePreauth = <<>> /\ DOMAIN NewConn.sessions = {}
  /\ NewConn.pending.sid = None /\ NewConn.step.sid = None
<1>1. <<>> \in Hashes
  BY DEF Hashes
<1>2. [s \in {} |-> <<>>] \in Maps(SessionRecords)
  BY DEF Maps
<1>3. /\ [sid |-> None, preauth |-> <<>>, mech |-> FALSE] \in PendingType
      /\ [sid |-> None, as |-> "none", binding |-> FALSE] \in StepType
  BY <1>1 DEF PendingType, StepType
<1> QED BY <1>1, <1>2, <1>3 DEF NewConn, ConnType

(* calcPreauthHash gives a hash, *)
LEMMA HashType ==
  ASSUME NEW d, NEW h \in Hashes, NEW m \in Messages
  PROVE  Hash(d, h, m) \in Hashes
BY DEF Hash, Hashes

(* ... of messages, *)
LEMMA MessageType ==
  ASSUME NEW n \in Sids
  PROVE  <<"req", n>> \in Messages /\ <<"rsp", n>> \in Messages
BY DEF Messages

(* ... and so does what the client does with an exchange. *)
LEMMA ClientHashType ==
  ASSUME NEW d, NEW h \in Hashes, NEW n \in Sids
  PROVE  ClientHash(d, h, n) \in Hashes
BY HashType, MessageType DEF ClientHash

(* Hashes of a dialect without the pre-authentication hash stay empty.      *)
LEMMA NoHash ==
  ASSUME NEW d, d # "SMB311", NEW n, NEW h
  PROVE  ClientHash(d, h, n) = h /\ Hash(d, h, n) = h
BY DEF ClientHash, Hash

-----------------------------------------------------------------------------
(* Updates of one field.                                                    *)
LEMMA SetPreauth ==
  ASSUME NEW k \in ConnType, NEW h \in Hashes
  PROVE  IsConn([k EXCEPT !.preauth = h], k.serverState, k.dialect, k.useSession, h,
                k.negotiatePreauth, k.session, k.sessions, k.pending, k.step)
BY DEF IsConn, ConnType

(* A handler sets the hash and the state, *)
LEMMA SetState ==
  ASSUME NEW k \in ConnType, NEW h \in Hashes,
         NEW st \in {"NEGOTIATE", "SESSION_SETUP", "CHALLENGE", "ACTIVE"}
  PROVE  IsConn([k EXCEPT !.preauth = h, !.serverState = st], st, k.dialect, k.useSession, h,
                k.negotiatePreauth, k.session, k.sessions, k.pending, k.step)
BY DEF IsConn, ConnType

(* ... the pending binding, *)
LEMMA SetPending ==
  ASSUME NEW k \in ConnType, NEW q \in PendingType
  PROVE  IsConn([k EXCEPT !.pending = q], k.serverState, k.dialect, k.useSession, k.preauth,
                k.negotiatePreauth, k.session, k.sessions, q, k.step)
BY DEF IsConn, ConnType

(* ... or the active session, and nothing else. *)
LEMMA SetSession ==
  ASSUME NEW k \in ConnType, NEW s \in Sids \cup {None}
  PROVE  IsConn([k EXCEPT !.session = s], k.serverState, k.dialect, k.useSession, k.preauth,
                k.negotiatePreauth, s, k.sessions, k.pending, k.step)
BY DEF IsConn, ConnType

(* What a response does to a connection: its hash, and the binding's.       *)
LEMMA SendFields ==
  ASSUME NEW k \in ConnType, NEW n \in Sids
  PROVE  IsConn(Send(k, n), k.serverState, k.dialect, k.useSession,
                IF k.serverState # "ACTIVE" THEN Hash(k.dialect, k.preauth, <<"rsp", n>>)
                ELSE k.preauth,
                k.negotiatePreauth, k.session, k.sessions, k.pending, k.step)
<1> DEFINE h == Hash(k.dialect, k.preauth, <<"rsp", n>>)
<1>1. h \in Hashes /\ k.serverState \in {"NEGOTIATE", "SESSION_SETUP", "CHALLENGE", "ACTIVE"}
  BY ConnFields, HashType, MessageType
<1>2. Send(k, n) = IF k.serverState # "ACTIVE" THEN [k EXCEPT !.preauth = h] ELSE k
  BY <1>1 DEF Send, HashResponse
<1> HIDE DEF h
<1>3. CASE k.serverState # "ACTIVE"
  BY <1>1, <1>2, <1>3, SetPreauth DEF h
<1>4. CASE k.serverState = "ACTIVE"
  BY <1>2, <1>4 DEF IsConn
<1> QED BY <1>3, <1>4

BindingHash(k, n, sid) ==
  IF k.pending.sid # None /\ k.pending.sid = sid
  THEN [k.pending EXCEPT !.preauth = Hash(k.dialect, k.pending.preauth, <<"rsp", n>>)]
  ELSE k.pending

(* sendPacket leaves all but the binding's hash alone when it hashes a binding's response. *)
LEMMA BindingFields ==
  ASSUME NEW k \in ConnType, NEW n \in Sids, NEW sid
  PROVE  /\ IsConn(HashBinding(k, n, sid), k.serverState, k.dialect, k.useSession, k.preauth,
                   k.negotiatePreauth, k.session, k.sessions, BindingHash(k, n, sid), k.step)
         /\ BindingHash(k, n, sid) \in PendingType
         /\ BindingHash(k, n, sid).sid = k.pending.sid
         /\ BindingHash(k, n, sid).mech = k.pending.mech
         /\ BindingHash(k, n, sid).preauth =
              IF k.pending.sid # None /\ k.pending.sid = sid
              THEN Hash(k.dialect, k.pending.preauth, <<"rsp", n>>) ELSE k.pending.preauth
<1> DEFINE h == Hash(k.dialect, k.pending.preauth, <<"rsp", n>>)
           q == [k.pending EXCEPT !.preauth = h]
<1>1. k.pending \in PendingType /\ h \in Hashes
  BY ConnFields, PendingFields, HashType, MessageType
<1>2. q \in PendingType /\ q.sid = k.pending.sid /\ q.preauth = h /\ q.mech = k.pending.mech
  BY <1>1 DEF PendingType
<1>3. CASE k.pending.sid # None /\ k.pending.sid = sid
  <2>1. HashBinding(k, n, sid) = [k EXCEPT !.pending = q] /\ BindingHash(k, n, sid) = q
    BY <1>3 DEF HashBinding, BindingHash, ConnType
  <2> HIDE DEF q
  <2>2. IsConn([k EXCEPT !.pending = q], k.serverState, k.dialect, k.useSession, k.preauth,
               k.negotiatePreauth, k.session, k.sessions, q, k.step)
    BY <1>2, SetPending
  <2> QED BY <1>2, <1>3, <2>1, <2>2
<1>4. CASE ~(k.pending.sid # None /\ k.pending.sid = sid)
  BY <1>1, <1>4 DEF HashBinding, BindingHash, IsConn
<1> QED BY <1>3, <1>4

(* The response to a SESSION_SETUP: both hashes. *)
LEMMA SendSetupFields ==
  ASSUME NEW k \in ConnType, NEW n \in Sids, NEW sid
  PROVE  IsConn(SendSetup(k, n, sid), k.serverState, k.dialect, k.useSession,
                IF k.serverState # "ACTIVE" THEN Hash(k.dialect, k.preauth, <<"rsp", n>>)
                ELSE k.preauth,
                k.negotiatePreauth, k.session, k.sessions, BindingHash(k, n, sid), k.step)
<1> DEFINE j == HashResponse(k, n)
<1>1. IsConn(j, k.serverState, k.dialect, k.useSession,
             IF k.serverState # "ACTIVE" THEN Hash(k.dialect, k.preauth, <<"rsp", n>>)
             ELSE k.preauth,
             k.negotiatePreauth, k.session, k.sessions, k.pending, k.step)
  BY SendFields DEF Send
<1> HIDE DEF j
<1>2. BindingHash(j, n, sid) = BindingHash(k, n, sid) /\ j \in ConnType
  BY <1>1 DEF IsConn, BindingHash
<1>3. IsConn(HashBinding(j, n, sid), j.serverState, j.dialect, j.useSession, j.preauth,
             j.negotiatePreauth, j.session, j.sessions, BindingHash(j, n, sid), j.step)
  BY <1>2, BindingFields
<1>4. SendSetup(k, n, sid) = HashBinding(j, n, sid)
  BY DEF SendSetup, j
<1> QED BY <1>1, <1>2, <1>3, <1>4 DEF IsConn

-----------------------------------------------------------------------------
(* The fields of a client that the invariant speaks of.                     *)
IsClient(j, n, ng, nd, fl, sd, hs, ks) ==
  /\ j \in ClientType
  /\ j.sent = n /\ j.neg = ng /\ j.negotiated = nd /\ j.failed = fl /\ j.stained = sd
  /\ j.hs = hs /\ j.keys = ks

(* The fields of a client have their types. *)
LEMMA ClientFields ==
  ASSUME NEW l \in ClientType
  PROVE  /\ l.sent \in 0 .. MaxMsgs /\ l.neg \in Hashes /\ l.negotiated \in BOOLEAN
         /\ l.failed \in BOOLEAN /\ l.stained \in BOOLEAN
         /\ l.hs \in Maps(Hashes) /\ l.keys \in Maps(Hashes)
BY DEF ClientType

Lasts == {"none", "negotiate", "setup1", "setup2", "token", "reauth", "request"}

(* A client hears of its request.                                           *)
LEMMA ReplyFields ==
  ASSUME NEW l \in ClientType, NEW n \in Sids, NEW q \in Lasts, NEW o \in Outcomes
  PROVE  IsClient(Reply(l, n, q, o), n, l.neg, l.negotiated, l.failed, l.stained, l.hs, l.keys)
<1>1. n \in 0 .. MaxMsgs
  BY DEF Sids
<1> QED BY <1>1 DEF Reply, IsClient, ClientType, Lasts

(* Maps from session ids: one more, one less.                               *)
LEMMA WithMap ==
  ASSUME NEW S, NEW f \in Maps(S), NEW s \in Sids, NEW v \in S
  PROVE  /\ With(f, s, v) \in Maps(S)
         /\ DOMAIN With(f, s, v) = DOMAIN f \cup {s}
<1>1. PICK D \in SUBSET Sids : f \in [D -> S]
  BY DEF Maps
<1>2. With(f, s, v) \in [D \cup {s} -> S] /\ D \cup {s} \in SUBSET Sids
  BY <1>1 DEF With
<1> QED BY <1>1, <1>2 DEF Maps, With

(* Dropping an entry of a map leaves a map. *)
LEMMA WithoutMap ==
  ASSUME NEW S, NEW f \in Maps(S), NEW s
  PROVE  /\ Without(f, s) \in Maps(S)
         /\ DOMAIN Without(f, s) = DOMAIN f \ {s}
<1>1. PICK D \in SUBSET Sids : f \in [D -> S]
  BY DEF Maps
<1>2. Without(f, s) \in [D \ {s} -> S] /\ D \ {s} \in SUBSET Sids
  BY <1>1 DEF Without
<1> QED BY <1>1, <1>2 DEF Maps, Without

(* What a map over session ids is. *)
LEMMA MapFacts ==
  ASSUME NEW S, NEW f \in Maps(S)
  PROVE  /\ DOMAIN f \subseteq Sids
         /\ \A x \in DOMAIN f : f[x] \in S
BY DEF Maps

(* A session is neither removed nor rekeyed, and its connection keeps its   *)
(* dialect and the hash bindings start from.                                *)
Survives(k, j) ==
  DOMAIN k.sessions # {} =>
    /\ j.dialect = k.dialect /\ j.negotiatePreauth = k.negotiatePreauth
    /\ \A s \in DOMAIN k.sessions : s \in DOMAIN j.sessions /\ j.sessions[s] = k.sessions[s]

Related(k, l) == k \in ConnType /\ l \in ClientType /\ Paired(k, l) /\ Agreed(k, l)
Kept(k, j, m) == Related(j, m) /\ Survives(k, j)

(* The next message number of the client l.                                 *)
LEMMA NextMessage ==
  ASSUME NEW l \in ClientType, l.sent < MaxMsgs
  PROVE  l.sent + 1 \in Sids /\ l.sent \in Nat /\ l.sent + 1 # 0
BY ClientFields, BoundsAssumption DEF Sids

-----------------------------------------------------------------------------
(* One lemma per outcome of a request: on the connection k and its client l *)
(* as they were, on j and m as they become.                                 *)

(* Requests that find and leave a session in use.                           *)
LEMMA ActiveKeeps ==
  ASSUME NEW k, NEW l, Related(k, l), k.useSession, l.sent < MaxMsgs,
         NEW j \in ConnType, NEW m \in ClientType, NEW se, NEW sd,
         IsConn(j, k.serverState, k.dialect, k.useSession, k.preauth, k.negotiatePreauth, se,
                k.sessions, k.pending, k.step),
         \/ IsClient(m, l.sent + 1, l.neg, l.negotiated, l.failed, l.stained, l.hs, l.keys)
         \/ /\ IsClient(m, l.sent + 1, l.neg, l.negotiated, TRUE, sd, l.hs, l.keys)
            /\ l.stained => sd
  PROVE  Kept(k, j, m)
<1>1. /\ j.serverState = "ACTIVE" /\ j.dialect = k.dialect /\ j.useSession
      /\ j.negotiatePreauth = k.negotiatePreauth /\ j.sessions = k.sessions
      /\ j.pending = k.pending /\ j.step = k.step
      /\ m.sent = l.sent + 1 /\ m.neg = l.neg /\ m.negotiated = l.negotiated /\ l.negotiated
      /\ m.hs = l.hs /\ m.keys = l.keys /\ (l.stained => m.stained)
  BY DEF IsConn, IsClient, Related, Paired
<1>2. l.sent \in Nat /\ DOMAIN l.hs \subseteq Sids /\ DOMAIN k.sessions \subseteq Sids
  BY NextMessage, ClientFields, ConnFields, MapFacts DEF Related
<1>3. \A s \in DOMAIN l.hs \cup DOMAIN k.sessions : s <= m.sent
  BY <1>1, <1>2 DEF Related, Paired, Sids
<1>4. Paired(j, m)
  BY <1>1, <1>2, <1>3 DEF Related, Paired
<1>5. Agreed(j, m)
  BY <1>1 DEF Related, Agreed, Fresh, Challenging, Failed, Active
<1> QED BY <1>1, <1>4, <1>5 DEF Kept, Related, Survives

(* An SMB1 NEGOTIATE, before any other.                                     *)
LEMMA Smb1Keeps ==
  ASSUME NEW k, NEW l, Related(k, l), l.sent = 0, l.sent < MaxMsgs, NEW m,
         IsClient(m, l.sent + 1, l.neg, l.negotiated, l.failed, l.stained, l.hs, l.keys)
  PROVE  Kept(k, Send(k, l.sent + 1), m)
<1> DEFINE j == Send(k, l.sent + 1)
<1>1. /\ ~l.negotiated /\ k.serverState = "NEGOTIATE" /\ k.dialect = "none" /\ ~k.useSession
      /\ DOMAIN k.sessions = {} /\ k.pending.sid = None
  BY NextMessage DEF Related, Paired
<1>2. IsConn(j, k.serverState, k.dialect, k.useSession, k.preauth, k.negotiatePreauth,
             k.session, k.sessions, k.pending, k.step)
  BY <1>1, NextMessage, SendFields DEF Related, Hash
<1> HIDE DEF j
<1>3. Paired(j, m)
  BY <1>1, <1>2, NextMessage DEF Related, Paired, IsConn, IsClient
<1>4. Agreed(j, m)
  BY <1>1, <1>2 DEF Related, Agreed, Fresh, Challenging, Failed, Active, IsConn, IsClient
<1> QED BY <1>1, <1>2, <1>3, <1>4 DEF Kept, Related, Survives, IsConn, IsClient, j

(* NEGOTIATE, where no session is in use: the hash it leaves.               *)
LEMMA NegotiateFields ==
  ASSUME NEW k \in ConnType, NEW n \in Sids, NEW d \in Dialects, k.serverState # "ACTIVE"
  PROVE  IsConn(NegotiateConn(k, n, d), k.serverState, d, k.useSession,
                ClientHash(d, k.preauth, n), ClientHash(d, k.preauth, n),
                k.session, k.sessions, k.pending, k.step)
<1> DEFINE h1 == Hash(d, k.preauth, <<"req", n>>)
           k1 == [k EXCEPT !.dialect = d, !.preauth = h1]
           k2 == Send(k1, n)
           h2 == ClientHash(d, k.preauth, n)
<1>1. h1 \in Hashes /\ h2 \in Hashes /\ d \in Dialects \cup {"none"}
  BY ConnFields, HashType, ClientHashType, MessageType
<1>2. h2 = Hash(d, h1, <<"rsp", n>>)
  BY DEF ClientHash
<1> HIDE DEF h1, h2
<1>3. IsConn(k1, k.serverState, d, k.useSession, h1, k.negotiatePreauth, k.session, k.sessions,
             k.pending, k.step)
  BY <1>1 DEF IsConn, ConnType
<1> HIDE DEF k1
<1>4. IsConn(k2, k.serverState, d, k.useSession, h2, k.negotiatePreauth, k.session, k.sessions,
             k.pending, k.step)
  BY <1>2, <1>3, SendFields DEF IsConn
<1>5. NegotiateConn(k, n, d) = [k2 EXCEPT !.negotiatePreauth = k2.preauth]
  BY DEF NegotiateConn, k1, h1
<1> HIDE DEF k2
<1>6. IsConn([k2 EXCEPT !.negotiatePreauth = k2.preauth], k.serverState, d, k.useSession, h2, h2,
             k.session, k.sessions, k.pending, k.step)
  BY <1>1, <1>4 DEF IsConn, ConnType
<1> QED BY <1>5, <1>6 DEF h2

(* NEGOTIATE, where no session is in use, keeps what the two ends share. *)
LEMMA NegotiateKeeps ==
  ASSUME NEW k, NEW l, Related(k, l), ~k.useSession, l.sent < MaxMsgs, k.step.sid = None,
         NEW d \in Dialects, NEW m,
         ~l.negotiated \/ (l.failed /\ DOMAIN l.hs = {}),
         IsClient(m, l.sent + 1, ClientHash(d, <<>>, l.sent + 1), TRUE, l.failed, l.stained,
                  l.hs, l.keys)
  PROVE  Kept(k, NegotiateConn(k, l.sent + 1, d), m)
<1> DEFINE n == l.sent + 1
           j == NegotiateConn(k, n, d)
<1>1. /\ n \in Sids /\ n # 0 /\ k \in ConnType
      /\ k.serverState # "ACTIVE" /\ DOMAIN k.sessions = {} /\ DOMAIN l.hs = {}
      /\ k.pending.sid = None /\ DOMAIN l.keys = {}
  BY NextMessage DEF Related, Paired
<1> HIDE DEF n
<1>2. IsConn(j, k.serverState, d, k.useSession, ClientHash(d, k.preauth, n),
             ClientHash(d, k.preauth, n), k.session, k.sessions, k.pending, k.step)
  BY <1>1, NegotiateFields
<1> HIDE DEF j
<1>3. IsClient(m, n, ClientHash(d, <<>>, n), TRUE, l.failed, l.stained, l.hs, l.keys)
  BY DEF n
<1>4. d # "SMB311" => ClientHash(d, <<>>, n) = <<>>
  BY NoHash
<1>5. Paired(j, m)
  BY <1>1, <1>2, <1>3, <1>4 DEF Related, Paired, IsConn, IsClient
<1>6. ASSUME ~l.stained PROVE Fresh(j, m) /\ Challenging(j, m) /\ Failed(j, m) /\ Active(j, m)
  <2>1. CASE ~l.negotiated
    BY <1>1, <1>2, <1>3, <1>6, <2>1
       DEF Related, Paired, Agreed, Fresh, Challenging, Failed, Active, IsConn, IsClient
  <2>2. CASE l.failed /\ DOMAIN l.hs = {}
    BY <1>1, <1>2, <1>3, <1>6, <2>2
       DEF Related, Agreed, Fresh, Challenging, Failed, Active, IsConn, IsClient
  <2> QED BY <2>1, <2>2
<1> QED BY <1>1, <1>2, <1>3, <1>5, <1>6
        DEF Kept, Related, Agreed, Survives, IsConn, IsClient, j, n

-----------------------------------------------------------------------------
(* The first token: a new binding on an active connection.                  *)
LEMMA BindingKeeps ==
  ASSUME NEW k, NEW l, Related(k, l), k.useSession, l.sent < MaxMsgs, k.step.sid = None, NEW m,
         IsClient(m, l.sent + 1, l.neg, l.negotiated, l.failed, l.stained,
                  With(l.hs, l.sent + 1, ClientHash(k.dialect, l.neg, l.sent + 1)), l.keys)
  PROVE  Kept(k, NewBinding(k, l.sent + 1), m)
<1> DEFINE n == l.sent + 1
           h1 == Hash(k.dialect, k.negotiatePreauth, <<"req", n>>)
           h2 == ClientHash(k.dialect, k.negotiatePreauth, n)
           q == [sid |-> n, mech |-> TRUE, preauth |-> h1]
           k1 == [k EXCEPT !.pending = q]
           j == NewBinding(k, n)
           v == ClientHash(k.dialect, l.neg, n)
<1>1. /\ n \in Sids /\ n # 0 /\ l.sent \in Nat /\ n = l.sent + 1
      /\ k \in ConnType /\ k.serverState = "ACTIVE" /\ l \in ClientType
  BY NextMessage DEF Related, Paired
<1> HIDE DEF n
<1>2. h1 \in Hashes /\ h2 \in Hashes /\ v \in Hashes /\ h2 = Hash(k.dialect, h1, <<"rsp", n>>)
  BY <1>1, ConnFields, ClientFields, HashType, ClientHashType, MessageType DEF ClientHash
<1>3. q \in PendingType /\ q.sid = n /\ q.preauth = h1
  BY <1>1, <1>2 DEF PendingType
<1>4. IsConn(k1, k.serverState, k.dialect, k.useSession, k.preauth, k.negotiatePreauth,
             k.session, k.sessions, q, k.step)
  BY <1>1, <1>3, SetPending
<1>5. j = SendSetup(k1, n, n)
  BY DEF NewBinding
<1> HIDE DEF h1, h2, q, k1, j, v
<1>6. /\ IsConn(j, k1.serverState, k1.dialect, k1.useSession, k1.preauth, k1.negotiatePreauth,
                k1.session, k1.sessions, BindingHash(k1, n, n), k1.step)
      /\ BindingHash(k1, n, n).sid = n /\ BindingHash(k1, n, n).preauth = h2
  <2>1. k1 \in ConnType /\ k1.serverState = "ACTIVE" /\ k1.pending = q /\ k1.dialect = k.dialect
    BY <1>1, <1>4 DEF IsConn
  <2>2. IsConn(SendSetup(k1, n, n), k1.serverState, k1.dialect, k1.useSession,
                IF k1.serverState # "ACTIVE" THEN Hash(k1.dialect, k1.preauth, <<"rsp", n>>)
                ELSE k1.preauth,
                k1.negotiatePreauth, k1.session, k1.sessions, BindingHash(k1, n, n), k1.step)
    BY <1>1, <2>1, SendSetupFields
  <2>3. /\ BindingHash(k1, n, n).sid = k1.pending.sid
        /\ BindingHash(k1, n, n).preauth =
             IF k1.pending.sid # None /\ k1.pending.sid = n
             THEN Hash(k1.dialect, k1.pending.preauth, <<"rsp", n>>) ELSE k1.pending.preauth
    BY <1>1, <2>1, BindingFields
  <2> QED BY <1>1, <1>2, <1>3, <1>5, <2>1, <2>2, <2>3 DEF None
<1>7. /\ j \in ConnType /\ j.serverState = "ACTIVE" /\ j.useSession /\ j.dialect = k.dialect
      /\ j.negotiatePreauth = k.negotiatePreauth /\ j.sessions = k.sessions /\ j.step = k.step
      /\ j.pending.sid = n /\ j.pending.preauth = h2
  BY <1>1, <1>4, <1>6 DEF IsConn
<1>8. /\ DOMAIN With(l.hs, n, v) = DOMAIN l.hs \cup {n} /\ With(l.hs, n, v)[n] = v
      /\ \A x \in DOMAIN l.hs : x # n => With(l.hs, n, v)[x] = l.hs[x]
  BY DEF With
<1>9. /\ m \in ClientType /\ m.sent = n /\ m.neg = l.neg /\ m.negotiated = l.negotiated
      /\ m.stained = l.stained /\ m.hs = With(l.hs, n, v) /\ m.keys = l.keys
  BY DEF IsClient, n, v
<1>10. \A s \in DOMAIN l.hs \cup DOMAIN k.sessions : s <= n /\ s # n
  BY <1>1, ClientFields, ConnFields, MapFacts DEF Related, Paired, Sids
<1>11. k.dialect # "SMB311" => v = <<>>
  BY NoHash DEF Related, Paired, v
<1>12. Paired(j, m)
  BY <1>1, <1>7, <1>8, <1>9, <1>10, <1>11 DEF Related, Paired
<1>13. Agreed(j, m)
  BY <1>1, <1>7, <1>8, <1>9
     DEF Related, Agreed, Fresh, Challenging, Failed, Active, h2, v
<1> QED BY <1>7, <1>9, <1>12, <1>13 DEF Kept, Related, Survives, j, n

(* Requests before there is a session: what they leave of it.               *)
LEMMA SetupFields ==
  ASSUME NEW k \in ConnType, NEW n \in Sids, ~k.useSession,
         NEW st \in {"NEGOTIATE", "SESSION_SETUP", "CHALLENGE"}
  PROVE  IsConn(Send([k EXCEPT !.preauth = Hash(k.dialect, @, <<"req", n>>), !.serverState = st], n),
                st, k.dialect, k.useSession, ClientHash(k.dialect, k.preauth, n),
                k.negotiatePreauth, k.session, k.sessions, k.pending, k.step)
<1> DEFINE h1 == Hash(k.dialect, k.preauth, <<"req", n>>)
           k1 == [k EXCEPT !.preauth = h1, !.serverState = st]
<1>1. h1 \in Hashes
  BY ConnFields, HashType, MessageType
<1>2. IsConn(k1, st, k.dialect, k.useSession, h1, k.negotiatePreauth, k.session, k.sessions,
             k.pending, k.step)
  BY <1>1, SetState
<1> HIDE DEF k1
<1>3. Hash(k1.dialect, k1.preauth, <<"rsp", n>>) = ClientHash(k.dialect, k.preauth, n)
  BY <1>2 DEF IsConn, ClientHash
<1>4. IsConn(Send(k1, n), k1.serverState, k1.dialect, k1.useSession,
             ClientHash(k.dialect, k.preauth, n),
             k1.negotiatePreauth, k1.session, k1.sessions, k1.pending, k1.step)
  BY <1>2, <1>3, SendFields DEF IsConn
<1> QED BY <1>2, <1>4 DEF IsConn, k1

(* ... the first challenge.                                                 *)
LEMMA ChallengeKeeps ==
  ASSUME NEW k, NEW l, Related(k, l), ~k.useSession, k.serverState = "NEGOTIATE",
         l.sent < MaxMsgs, k.step.sid = None, l.negotiated, DOMAIN l.hs = {}, NEW m,
         IsClient(m, l.sent + 1, l.neg, l.negotiated, l.failed, l.stained,
                  With(l.hs, l.sent + 1, ClientHash(k.dialect, l.neg, l.sent + 1)), l.keys)
  PROVE  Kept(k, ServerSetup(k, l.sent + 1), m)
<1> DEFINE n == l.sent + 1
           v == ClientHash(k.dialect, l.neg, n)
           j == ServerSetup(k, n)
<1>1. n \in Sids /\ n # 0 /\ l.sent \in Nat /\ n = l.sent + 1 /\ k \in ConnType
        /\ l \in ClientType
  BY NextMessage DEF Related
<1> HIDE DEF n
<1>2. IsConn(j, "CHALLENGE", k.dialect, k.useSession, ClientHash(k.dialect, k.preauth, n),
             k.negotiatePreauth, k.session, k.sessions, k.pending, k.step)
  BY <1>1, SetupFields DEF ServerSetup
<1>3. v \in Hashes /\ (k.dialect # "SMB311" => v = <<>>)
  BY <1>1, ClientFields, ClientHashType, NoHash DEF Related, Paired
<1> HIDE DEF j, v
<1>4. DOMAIN With(l.hs, n, v) = {n} /\ With(l.hs, n, v)[n] = v
  BY DEF With
<1>5. /\ m \in ClientType /\ m.sent = n /\ m.neg = l.neg /\ m.negotiated /\ m.stained = l.stained
      /\ m.hs = With(l.hs, n, v) /\ m.keys = l.keys
  BY DEF IsClient, n, v
<1>6. DOMAIN k.sessions = {} /\ k.pending.sid = None /\ DOMAIN l.keys = {}
  BY DEF Related, Paired
<1>7. Paired(j, m)
  BY <1>1, <1>2, <1>3, <1>4, <1>5, <1>6 DEF Related, Paired, IsConn, Sids
<1>8. Agreed(j, m)
  BY <1>1, <1>2, <1>4, <1>5, <1>6
     DEF Related, Agreed, Fresh, Challenging, Failed, Active, IsConn, v
<1> QED BY <1>2, <1>5, <1>6, <1>7, <1>8 DEF Kept, Related, Survives, IsConn, j, n

(* ... a first token where a second one was due.                            *)
LEMMA RefusedKeeps ==
  ASSUME NEW k, NEW l, Related(k, l), ~k.useSession, l.sent < MaxMsgs, k.step.sid = None,
         l.negotiated, DOMAIN l.hs = {}, NEW m,
         IsClient(m, l.sent + 1, l.neg, l.negotiated, l.failed, l.stained, l.hs, l.keys)
  PROVE  Kept(k, ServerSetupRefused(k, l.sent + 1), m)
<1> DEFINE n == l.sent + 1
           j == ServerSetupRefused(k, n)
<1>1. n \in Sids /\ n # 0 /\ n = l.sent + 1 /\ k \in ConnType /\ l \in ClientType
  BY NextMessage DEF Related
<1> HIDE DEF n
<1>2. IsConn(j, "SESSION_SETUP", k.dialect, k.useSession, ClientHash(k.dialect, k.preauth, n),
             k.negotiatePreauth, k.session, k.sessions, k.pending, k.step)
  BY <1>1, SetupFields DEF ServerSetupRefused
<1> HIDE DEF j
<1>3. DOMAIN k.sessions = {} /\ k.pending.sid = None /\ DOMAIN l.keys = {}
  BY DEF Related, Paired
<1>4. Paired(j, m)
  BY <1>1, <1>2, <1>3 DEF Related, Paired, IsConn, IsClient
<1>5. Agreed(j, m)
  BY <1>2, <1>3 DEF Related, Agreed, Fresh, Challenging, Failed, Active, IsConn, IsClient
<1> QED BY <1>2, <1>3, <1>4, <1>5 DEF Kept, Related, Survives, IsConn, IsClient, j, n

(* ... a first token of another mechanism: the client is stained.           *)
LEMMA TokenKeeps ==
  ASSUME NEW k, NEW l, Related(k, l), ~k.useSession, k.serverState = "NEGOTIATE",
         l.sent < MaxMsgs, k.step.sid = None, l.negotiated, DOMAIN l.hs = {}, NEW m,
         IsClient(m, l.sent + 1, l.neg, l.negotiated, TRUE, TRUE, l.hs, l.keys)
  PROVE  Kept(k, TokenRefused(k, l.sent + 1), m)
<1> DEFINE n == l.sent + 1
           j == TokenRefused(k, n)
<1>1. n \in Sids /\ n # 0 /\ n = l.sent + 1 /\ k \in ConnType /\ l \in ClientType
  BY NextMessage DEF Related
<1> HIDE DEF n
<1>2. IsConn(j, "NEGOTIATE", k.dialect, k.useSession, ClientHash(k.dialect, k.preauth, n),
             k.negotiatePreauth, k.session, k.sessions, k.pending, k.step)
  <2>1. [k EXCEPT !.preauth = Hash(k.dialect, @, <<"req", n>>)]
          = [k EXCEPT !.preauth = Hash(k.dialect, @, <<"req", n>>), !.serverState = "NEGOTIATE"]
    BY <1>1 DEF ConnType
  <2> QED BY <1>1, <2>1, SetupFields DEF TokenRefused
<1> HIDE DEF j
<1>3. DOMAIN k.sessions = {} /\ k.pending.sid = None /\ DOMAIN l.keys = {}
  BY DEF Related, Paired
<1>4. Paired(j, m)
  BY <1>1, <1>2, <1>3 DEF Related, Paired, IsConn, IsClient
<1>5. Agreed(j, m)
  BY DEF Agreed, IsClient
<1> QED BY <1>2, <1>3, <1>4, <1>5 DEF Kept, Related, Survives, IsConn, IsClient, j, n

-----------------------------------------------------------------------------
(* The second token.                                                        *)
PendingAfter(k, n, b) ==
  [k.pending EXCEPT !.preauth =
     IF b THEN Hash(k.dialect, k.pending.preauth, <<"req", n>>) ELSE k.pending.preauth]

(* What authenticate leaves in the connection. *)
LEMMA AuthenticatedFields ==
  ASSUME NEW k \in ConnType, NEW n \in Sids, NEW s \in Sids, NEW a \in {"user", "guest"},
         NEW b \in BOOLEAN
  PROVE  /\ IsConn(Authenticated(k, n, s, a, b), k.serverState, k.dialect, k.useSession,
                   IF b THEN k.preauth ELSE Hash(k.dialect, k.preauth, <<"req", n>>),
                   k.negotiatePreauth, k.session, k.sessions, PendingAfter(k, n, b),
                   [sid |-> s, as |-> a, binding |-> b])
         /\ PendingAfter(k, n, b).sid = k.pending.sid
         /\ PendingAfter(k, n, b).preauth =
              IF b THEN Hash(k.dialect, k.pending.preauth, <<"req", n>>) ELSE k.pending.preauth
<1> DEFINE h == IF b THEN k.preauth ELSE Hash(k.dialect, k.preauth, <<"req", n>>)
           g == IF b THEN Hash(k.dialect, k.pending.preauth, <<"req", n>>) ELSE k.pending.preauth
           q == PendingAfter(k, n, b)
           t == [sid |-> s, as |-> a, binding |-> b]
<1>1. k.pending \in PendingType /\ h \in Hashes /\ g \in Hashes
  BY ConnFields, PendingFields, HashType, MessageType
<1>2. q \in PendingType /\ q.sid = k.pending.sid /\ q.preauth = g
  BY <1>1 DEF PendingAfter, PendingType
<1>3. t \in StepType
  BY DEF StepType
<1>4. Authenticated(k, n, s, a, b) = [k EXCEPT !.step = t, !.preauth = h, !.pending = q]
  BY DEF Authenticated, PendingAfter, ConnType
<1> HIDE DEF h, q, t
<1>5. IsConn([k EXCEPT !.step = t, !.preauth = h, !.pending = q], k.serverState, k.dialect,
             k.useSession, h, k.negotiatePreauth, k.session, k.sessions, q, t)
  BY <1>1, <1>2, <1>3 DEF IsConn, ConnType
<1> QED BY <1>2, <1>4, <1>5 DEF h, q, t

(* What a client that waits for its second response has hashed.             *)
Waits(l, s, h) == [l.hs EXCEPT ![s] = h]

(* A logon that is accepted keeps what the two ends share. *)
LEMMA AuthenticatedKeeps ==
  ASSUME NEW k, NEW l, Related(k, l), l.sent < MaxMsgs, k.step.sid = None,
         NEW s \in DOMAIN l.hs, NEW a \in {"user", "guest"}, NEW b \in BOOLEAN,
         b <=> k.useSession, b => k.pending.sid = s, NEW m,
         IsClient(m, l.sent + 1, l.neg, l.negotiated, l.failed, l.stained,
                  Waits(l, s, Hash(k.dialect, l.hs[s], <<"req", l.sent + 1>>)), l.keys)
  PROVE  Kept(k, Authenticated(k, l.sent + 1, s, a, b), m)
<1> DEFINE n == l.sent + 1
           j == Authenticated(k, n, s, a, b)
           v == Hash(k.dialect, l.hs[s], <<"req", n>>)
           t == [sid |-> s, as |-> a, binding |-> b]
<1>1. /\ n \in Sids /\ n # 0 /\ n = l.sent + 1 /\ k \in ConnType /\ l \in ClientType
      /\ DOMAIN l.hs \subseteq Sids /\ DOMAIN k.sessions \subseteq Sids /\ l.sent \in Nat
  BY NextMessage, ClientFields, ConnFields, MapFacts DEF Related
<1> HIDE DEF n
<1>2. /\ IsConn(j, k.serverState, k.dialect, k.useSession,
                IF b THEN k.preauth ELSE Hash(k.dialect, k.preauth, <<"req", n>>),
                k.negotiatePreauth, k.session, k.sessions, PendingAfter(k, n, b), t)
      /\ PendingAfter(k, n, b).sid = k.pending.sid
      /\ PendingAfter(k, n, b).preauth =
           IF b THEN Hash(k.dialect, k.pending.preauth, <<"req", n>>) ELSE k.pending.preauth
  BY <1>1, AuthenticatedFields
<1> HIDE DEF j
<1>3. /\ j \in ConnType /\ j.serverState = k.serverState /\ j.dialect = k.dialect
      /\ j.useSession = k.useSession /\ j.negotiatePreauth = k.negotiatePreauth
      /\ j.sessions = k.sessions /\ j.pending.sid = k.pending.sid
      /\ j.step.sid = s /\ j.step.as = a /\ j.step.binding = b
  BY <1>2 DEF IsConn
<1>4. /\ b => j.pending.preauth = Hash(k.dialect, k.pending.preauth, <<"req", n>>)
      /\ ~b => j.preauth = Hash(k.dialect, k.preauth, <<"req", n>>)
  BY <1>2 DEF IsConn
<1>5. /\ DOMAIN Waits(l, s, v) = DOMAIN l.hs /\ Waits(l, s, v)[s] = v
      /\ \A x \in DOMAIN l.hs : x # s => Waits(l, s, v)[x] = l.hs[x]
  BY DEF Waits
<1>6. k.dialect # "SMB311" => v = <<>>
  BY NoHash DEF Related, Paired, Hash
<1>7. /\ m \in ClientType /\ m.sent = n /\ m.neg = l.neg /\ m.negotiated = l.negotiated
      /\ m.failed = l.failed /\ m.stained = l.stained /\ m.hs = Waits(l, s, v) /\ m.keys = l.keys
  BY DEF IsClient, n
<1>8. \A x \in DOMAIN l.hs \cup DOMAIN k.sessions : x <= n
  BY <1>1 DEF Related, Paired, Sids
<1>9. Paired(j, m)
  BY <1>1, <1>3, <1>5, <1>6, <1>7, <1>8 DEF Related, Paired
<1>10. ASSUME ~l.stained PROVE Fresh(j, m) /\ Challenging(j, m) /\ Failed(j, m) /\ Active(j, m)
  <2>1. Fresh(k, l) /\ Challenging(k, l) /\ Failed(k, l) /\ Active(k, l)
    BY <1>10 DEF Related, Agreed
  <2>2. Fresh(j, m) /\ Failed(j, m)
    BY <1>3, <1>5, <1>7, <2>1 DEF Fresh, Failed
  <2>3. Challenging(j, m)
    <3> SUFFICES ASSUME k.serverState = "CHALLENGE"
                 PROVE  /\ \E x \in Sids : DOMAIN m.hs = {x} /\ j.preauth = m.hs[x]
                        /\ j.negotiatePreauth = m.neg
      BY <1>3 DEF Challenging
    <3>1. DOMAIN l.hs = {s} /\ k.preauth = l.hs[s] /\ k.negotiatePreauth = l.neg
      BY <2>1 DEF Challenging
    <3>2. ~b
      BY DEF Related, Paired
    <3> QED BY <1>1, <1>3, <1>4, <1>5, <1>7, <3>1, <3>2
  <2>4. Active(j, m)
    BY <1>3, <1>4, <1>5, <1>7, <2>1 DEF Active
  <2> QED BY <2>2, <2>3, <2>4
<1> QED BY <1>3, <1>7, <1>9, <1>10 DEF Kept, Related, Agreed, Survives, j, n

(* ... refused: the connection starts again, or the binding is forgotten.   *)
LEMMA LogonFails ==
  ASSUME NEW k, NEW l, Related(k, l), l.sent < MaxMsgs, k.step.sid = None,
         NEW s \in DOMAIN l.hs, NEW b \in BOOLEAN, b <=> k.useSession, NEW m,
         IsClient(m, l.sent + 1, l.neg, l.negotiated, TRUE, l.stained, Without(l.hs, s), l.keys)
  PROVE  Kept(k, Refused(k, l.sent + 1, b), m)
<1> DEFINE n == l.sent + 1
           j == Refused(k, n, b)
<1>1. /\ n \in Sids /\ n # 0 /\ n = l.sent + 1 /\ k \in ConnType /\ l \in ClientType
      /\ DOMAIN l.hs \subseteq Sids /\ DOMAIN k.sessions \subseteq Sids /\ l.sent \in Nat
      /\ l.negotiated
  BY NextMessage, ClientFields, ConnFields, MapFacts DEF Related, Paired
<1> HIDE DEF n
<1>2. /\ DOMAIN Without(l.hs, s) = DOMAIN l.hs \ {s}
      /\ \A x \in DOMAIN l.hs : x # s => Without(l.hs, s)[x] = l.hs[x]
  BY DEF Without
<1>3. /\ m \in ClientType /\ m.sent = n /\ m.neg = l.neg /\ m.negotiated = l.negotiated
      /\ m.stained = l.stained /\ m.hs = Without(l.hs, s) /\ m.keys = l.keys
  BY DEF IsClient, n
<1>4. \A x \in DOMAIN l.hs \cup DOMAIN k.sessions : x <= n
  BY <1>1 DEF Related, Paired, Sids
<1>5. CASE b
  <2> DEFINE k1 == [k EXCEPT !.pending = NewConn.pending]
  <2>1. IsConn(k1, k.serverState, k.dialect, k.useSession, k.preauth, k.negotiatePreauth,
               k.session, k.sessions, NewConn.pending, k.step)
    BY <1>1, NewFields, SetPending
  <2>2. j = Send(k1, n)
    BY <1>5 DEF Refused
  <2> HIDE DEF j, k1
  <2>3. IsConn(j, k.serverState, k.dialect, k.useSession, k.preauth, k.negotiatePreauth,
               k.session, k.sessions, NewConn.pending, k.step)
    <3>1. k1 \in ConnType /\ k1.serverState = "ACTIVE" /\ k.serverState = "ACTIVE"
      BY <1>5, <2>1 DEF IsConn, Related, Paired
    <3>2. IsConn(Send(k1, n), k1.serverState, k1.dialect, k1.useSession, k1.preauth,
                 k1.negotiatePreauth, k1.session, k1.sessions, k1.pending, k1.step)
      BY <1>1, <3>1, SendFields
    <3> QED BY <2>1, <2>2, <3>2 DEF IsConn
  <2>4. /\ j \in ConnType /\ j.serverState = "ACTIVE" /\ j.useSession /\ j.dialect = k.dialect
        /\ j.negotiatePreauth = k.negotiatePreauth /\ j.sessions = k.sessions
        /\ j.pending.sid = None /\ j.step = k.step
    BY <1>5, <2>3, NewFields DEF IsConn, Related, Paired
  <2>5. Paired(j, m)
    BY <1>1, <1>2, <1>3, <1>4, <2>4 DEF Related, Paired
  <2>6. None \notin DOMAIN l.hs
    BY <1>1 DEF None, Sids
  <2>7. Agreed(j, m)
    BY <1>2, <1>3, <1>5, <2>4, <2>6
       DEF Related, Agreed, Fresh, Challenging, Failed, Active
  <2> QED BY <1>3, <2>4, <2>5, <2>7 DEF Kept, Related, Survives, j, n
<1>6. CASE ~b
  <2>1. IsConn(j, "SESSION_SETUP", k.dialect, k.useSession, ClientHash(k.dialect, k.preauth, n),
               k.negotiatePreauth, k.session, k.sessions, k.pending, k.step)
    BY <1>1, <1>6, SetupFields DEF Refused
  <2> HIDE DEF j
  <2>2. DOMAIN k.sessions = {} /\ k.pending.sid = None /\ DOMAIN l.keys = {} /\ ~k.useSession
    BY <1>6 DEF Related, Paired
  <2>3. Paired(j, m)
    BY <1>1, <1>2, <1>3, <1>4, <2>1, <2>2 DEF Related, Paired, IsConn
  <2>4. ASSUME ~l.stained PROVE DOMAIN l.hs = {s}
    BY <1>1, <2>2, <2>4, ConnFields
       DEF Related, Paired, Agreed, Fresh, Challenging, Failed
  <2>5. Agreed(j, m)
    BY <1>2, <1>3, <2>1, <2>2, <2>4
       DEF Agreed, Fresh, Challenging, Failed, Active, IsConn
  <2> QED BY <1>3, <2>1, <2>2, <2>3, <2>5 DEF Kept, Related, Survives, IsConn, j, n
<1> QED BY <1>5, <1>6

IsFinished(k, key, j) ==
  /\ j \in ConnType /\ j.serverState = "ACTIVE" /\ j.useSession = TRUE
  /\ j.dialect = k.dialect /\ j.negotiatePreauth = k.negotiatePreauth
  /\ j.sessions = With(k.sessions, k.step.sid, NewSession(k, key)) /\ j.step.sid = None
  /\ k.step.binding => j.pending.sid = None
  /\ ~k.step.binding /\ k.pending.sid = None => j.pending.sid = None

(* The rest of the second token's handler: the session and its keys.        *)
LEMMA FinishFields ==
  ASSUME NEW k \in ConnType, NEW n \in Sids, NEW key \in Logons, k.step.sid \in Sids,
         k.step.as \in {"user", "guest"}
  PROVE  IsFinished(k, key, FinishConn(k, n, key))
<1> DEFINE s == k.step.sid
           f == With(k.sessions, s, NewSession(k, key))
           k1 == [k EXCEPT !.sessions = f, !.session = s, !.serverState = "ACTIVE",
                           !.step = NewConn.step]
           k2 == SendSetup(k1, n, s)
           q == IF k.step.binding THEN NewConn.pending ELSE k2.pending
           j == [k2 EXCEPT !.useSession = TRUE, !.pending = q]
<1>1. NewSession(k, key) \in SessionRecords
  <2>1. k.preauth \in Hashes /\ k.pending.preauth \in Hashes /\ <<>> \in Hashes
    BY ConnFields, PendingFields DEF Hashes
  <2>2. Nobody \in Logons
    BY DEF Logons
  <2> QED BY <2>1, <2>2 DEF NewSession, SessionRecords
<1>2. f \in Maps(SessionRecords)
  BY <1>1, ConnFields, WithMap
<1>3. FinishConn(k, n, key) = j
  BY DEF FinishConn
<1> HIDE DEF f
<1>4. IsConn(k1, "ACTIVE", k.dialect, k.useSession, k.preauth, k.negotiatePreauth, s, f,
             k.pending, NewConn.step)
  BY <1>2, NewFields DEF IsConn, ConnType
<1> HIDE DEF k1
<1>5. /\ IsConn(k2, "ACTIVE", k.dialect, k.useSession, k.preauth, k.negotiatePreauth, s, f,
                BindingHash(k1, n, s), NewConn.step)
      /\ BindingHash(k1, n, s).sid = k.pending.sid /\ BindingHash(k1, n, s) \in PendingType
  <2>1. k1 \in ConnType /\ k1.serverState = "ACTIVE"
    BY <1>4 DEF IsConn
  <2>2. IsConn(k2, k1.serverState, k1.dialect, k1.useSession, k1.preauth, k1.negotiatePreauth,
               k1.session, k1.sessions, BindingHash(k1, n, s), k1.step)
    BY <2>1, SendSetupFields
  <2>3. BindingHash(k1, n, s).sid = k1.pending.sid /\ BindingHash(k1, n, s) \in PendingType
    BY <2>1, BindingFields
  <2> QED BY <1>4, <2>2, <2>3 DEF IsConn
<1> HIDE DEF k2
<1>6. q \in PendingType
  BY <1>5, NewFields DEF IsConn
<1>7. /\ k.step.binding => q.sid = None
      /\ ~k.step.binding /\ k.pending.sid = None => q.sid = None
  BY <1>5, NewFields DEF IsConn
<1> HIDE DEF q
<1>8. IsConn(j, k2.serverState, k2.dialect, TRUE, k2.preauth, k2.negotiatePreauth, k2.session,
             k2.sessions, q, k2.step)
  BY <1>5, <1>6 DEF IsConn, ConnType
<1> HIDE DEF j
<1>9. /\ j \in ConnType /\ j.serverState = "ACTIVE" /\ j.useSession = TRUE
         /\ j.dialect = k.dialect
      /\ j.negotiatePreauth = k.negotiatePreauth /\ j.sessions = f /\ j.step = NewConn.step
      /\ j.pending = q
  BY <1>5, <1>8 DEF IsConn
<1> QED BY <1>3, <1>7, <1>9, NewFields DEF f, IsFinished

(* The rest of the handler gives both ends the same hash for the new session. *)
LEMMA FinishKeeps ==
  ASSUME NEW k, NEW l, Related(k, l), NEW s, s = k.step.sid, s # None, NEW m,
         NEW key \in Logons,
         IsClient(m, l.sent, l.neg, l.negotiated, FALSE, l.stained, Without(l.hs, s),
                  With(l.keys, s, IF k.step.as = "user" THEN l.hs[s] ELSE <<>>))
  PROVE  Kept(k, FinishConn(k, l.sent, key), m)
<1> DEFINE n == l.sent
           j == FinishConn(k, n, key)
           v == IF k.step.as = "user" THEN l.hs[s] ELSE <<>>
<1>1. /\ k \in ConnType /\ l \in ClientType /\ k.step.as \in {"user", "guest"}
      /\ s \in DOMAIN l.hs /\ s \notin DOMAIN k.sessions /\ (k.step.binding <=> k.useSession)
      /\ k.step.binding => k.pending.sid = s
      /\ ~k.step.binding => k.pending.sid = None /\ DOMAIN k.sessions = {}
      /\ DOMAIN l.keys = DOMAIN k.sessions /\ l.negotiated
  BY DEF Related, Paired
<1>2. /\ s \in Sids /\ n \in Sids /\ DOMAIN l.hs \subseteq Sids
         /\ DOMAIN k.sessions \subseteq Sids
  <2>1. s \in Sids /\ DOMAIN l.hs \subseteq Sids /\ DOMAIN k.sessions \subseteq Sids
    BY <1>1, ClientFields, ConnFields, MapFacts
  <2>2. s <= n /\ n \in 0 .. MaxMsgs
    BY <1>1, ClientFields DEF Related, Paired
  <2> QED BY <2>1, <2>2, BoundsAssumption DEF Sids
<1>3. /\ j \in ConnType /\ j.serverState = "ACTIVE" /\ j.useSession = TRUE
      /\ j.dialect = k.dialect /\ j.negotiatePreauth = k.negotiatePreauth
      /\ j.sessions = With(k.sessions, s, NewSession(k, key)) /\ j.step.sid = None
      /\ j.pending.sid = None
  <2>1. /\ k \in ConnType /\ n \in Sids /\ s \in Sids /\ s = k.step.sid /\ key \in Logons
        /\ k.step.as \in {"user", "guest"}
    BY <1>1, <1>2
  <2> HIDE DEF n, j
  <2>2. /\ j \in ConnType /\ j.serverState = "ACTIVE" /\ j.useSession = TRUE
        /\ j.dialect = k.dialect /\ j.negotiatePreauth = k.negotiatePreauth
        /\ j.sessions = With(k.sessions, k.step.sid, NewSession(k, key)) /\ j.step.sid = None
        /\ k.step.binding => j.pending.sid = None
        /\ ~k.step.binding /\ k.pending.sid = None => j.pending.sid = None
    <3>1. IsFinished(k, key, j)
      BY <2>1, FinishFields DEF j
    <3> QED BY <3>1 DEF IsFinished
  <2> QED BY <1>1, <2>1, <2>2
<1> HIDE DEF n, j
<1>4. /\ m \in ClientType /\ m.sent = n /\ m.neg = l.neg /\ m.negotiated = l.negotiated
      /\ m.stained = l.stained /\ m.hs = Without(l.hs, s) /\ m.keys = With(l.keys, s, v)
  BY DEF IsClient, n
<1> HIDE DEF v
<1>5. /\ DOMAIN m.hs = DOMAIN l.hs \ {s} /\ \A x \in DOMAIN m.hs : m.hs[x] = l.hs[x]
  BY <1>4 DEF Without
<1>6. /\ DOMAIN m.keys = DOMAIN l.keys \cup {s} /\ m.keys[s] = v
      /\ \A x \in DOMAIN l.keys : x # s => m.keys[x] = l.keys[x]
  BY <1>4 DEF With
<1>7. /\ DOMAIN j.sessions = DOMAIN k.sessions \cup {s} /\ j.sessions[s] = NewSession(k, key)
      /\ \A x \in DOMAIN k.sessions : x # s => j.sessions[x] = k.sessions[x]
  BY <1>3 DEF With
<1>8. Paired(j, m)
  <2>1. \A x \in DOMAIN m.hs \cup DOMAIN j.sessions : x <= m.sent
    BY <1>1, <1>4, <1>5, <1>7 DEF Related, Paired, n
  <2>2. DOMAIN m.keys = DOMAIN j.sessions /\ DOMAIN m.hs \cap DOMAIN j.sessions = {}
    BY <1>1, <1>5, <1>6, <1>7 DEF Related, Paired
  <2>3. m.sent # 0
    BY <1>2, <1>4 DEF Sids
  <2>4. j.dialect # "SMB311" => m.neg = <<>> /\ \A x \in DOMAIN m.hs : m.hs[x] = <<>>
    BY <1>3, <1>4, <1>5 DEF Related, Paired
  <2> QED BY <1>1, <1>3, <1>4, <2>1, <2>2, <2>3, <2>4 DEF Paired
<1>9. ASSUME ~l.stained PROVE Fresh(j, m) /\ Challenging(j, m) /\ Failed(j, m) /\ Active(j, m)
  <2>1. Fresh(k, l) /\ Challenging(k, l) /\ Failed(k, l) /\ Active(k, l)
    BY <1>9 DEF Related, Agreed
  <2>2. k.negotiatePreauth = l.neg
    BY <1>1, <2>1, ConnFields DEF Related, Paired, Fresh, Challenging, Failed, Active
  <2>3. IF k.step.binding THEN k.pending.preauth = l.hs[s] ELSE k.preauth = l.hs[s]
    <3>1. CASE k.step.binding
      BY <1>1, <2>1, <3>1 DEF Active
    <3>2. CASE ~k.step.binding
      <4>1. k.serverState = "CHALLENGE"
        BY <1>1, <2>1, <3>2, ConnFields DEF Related, Paired, Fresh, Failed
      <4> QED BY <1>1, <2>1, <3>2, <4>1 DEF Challenging
    <3> QED BY <3>1, <3>2
  <2>4. k.dialect # "SMB311" => l.hs[s] = <<>>
    BY <1>1 DEF Related, Paired
  <2>5. NewSession(k, key).preauth = v
    BY <1>1, <2>3, <2>4 DEF NewSession, v
  <2>6. \A x \in DOMAIN l.keys : k.sessions[x].preauth = l.keys[x]
    BY <1>1, <2>1 DEF Active
  <2>7. \A x \in DOMAIN m.keys : j.sessions[x].preauth = m.keys[x]
    BY <1>1, <1>6, <1>7, <2>5, <2>6
  <2>8. None \notin DOMAIN m.hs
    BY <1>2, <1>5 DEF Sids, None
  <2> QED BY <1>3, <1>4, <2>2, <2>7, <2>8 DEF Fresh, Challenging, Failed, Active
<1>10. Survives(k, j)
  BY <1>1, <1>3, <1>7 DEF Survives
<1> QED BY <1>3, <1>4, <1>8, <1>9, <1>10 DEF Kept, Related, Agreed, j, n

(* The client learns that a handshake of its is unknown.                    *)
LEMMA UnknownKeeps ==
  ASSUME NEW k, NEW l, Related(k, l), k.useSession, l.sent < MaxMsgs, k.step.sid = None,
         NEW s \in DOMAIN l.hs, k.pending.sid # s, NEW j, NEW m,
         IsConn(j, k.serverState, k.dialect, k.useSession, k.preauth, k.negotiatePreauth,
                k.session, k.sessions, k.pending, k.step),
         IsClient(m, l.sent + 1, l.neg, l.negotiated, l.failed, l.stained,
                  Without(l.hs, s), l.keys)
  PROVE  Kept(k, j, m)
<1>1. /\ j.serverState = "ACTIVE" /\ j.dialect = k.dialect /\ j.useSession
      /\ j.negotiatePreauth = k.negotiatePreauth /\ j.sessions = k.sessions
      /\ j.pending = k.pending /\ j.step = k.step /\ j \in ConnType /\ m \in ClientType
      /\ m.sent = l.sent + 1 /\ m.neg = l.neg /\ m.negotiated = l.negotiated /\ l.negotiated
      /\ m.hs = Without(l.hs, s) /\ m.keys = l.keys /\ m.stained = l.stained
  BY DEF IsConn, IsClient, Related, Paired
<1>2. DOMAIN m.hs = DOMAIN l.hs \ {s} /\ \A x \in DOMAIN m.hs : m.hs[x] = l.hs[x]
  BY <1>1 DEF Without
<1>3. l.sent \in Nat /\ DOMAIN l.hs \subseteq Sids /\ DOMAIN k.sessions \subseteq Sids
  BY NextMessage, ClientFields, ConnFields, MapFacts DEF Related
<1>4. \A x \in DOMAIN m.hs \cup DOMAIN k.sessions : x <= m.sent
  BY <1>1, <1>2, <1>3 DEF Related, Paired, Sids
<1>5. Paired(j, m)
  BY <1>1, <1>2, <1>3, <1>4 DEF Related, Paired
<1>6. Agreed(j, m)
  BY <1>1, <1>2 DEF Related, Agreed, Fresh, Challenging, Failed, Active
<1> QED BY <1>1, <1>5, <1>6 DEF Kept, Related, Survives

-----------------------------------------------------------------------------
(* What each request makes of its client.                                   *)
LEMMA NegotiatedClient ==
  ASSUME NEW l \in ClientType, NEW n \in Sids, NEW d, NEW x \in BOOLEAN
  PROVE  IsClient([Reply(l, n, "negotiate", "ok") EXCEPT !.negotiated = x,
                     !.neg = ClientHash(d, <<>>, n)],
                  n, ClientHash(d, <<>>, n), x, l.failed, l.stained, l.hs, l.keys)
<1> DEFINE r == Reply(l, n, "negotiate", "ok")
           h == ClientHash(d, <<>>, n)
<1>1. IsClient(r, n, l.neg, l.negotiated, l.failed, l.stained, l.hs, l.keys)
  BY ReplyFields DEF Lasts, Outcomes
<1>2. h \in Hashes
  <2>1. <<>> \in Hashes
    BY DEF Hashes
  <2> QED BY <2>1, ClientHashType
<1> HIDE DEF r, h
<1>3. IsClient([r EXCEPT !.negotiated = x, !.neg = h], n, h, x, l.failed, l.stained, l.hs, l.keys)
  BY <1>1, <1>2 DEF IsClient, ClientType
<1> QED BY <1>3 DEF r, h

(* The client after a challenge, *)
LEMMA ChallengedClient ==
  ASSUME NEW l \in ClientType, NEW n \in Sids, NEW d
  PROVE  IsClient(Challenged(l, n, d), n, l.neg, l.negotiated, l.failed, l.stained,
                  With(l.hs, n, ClientHash(d, l.neg, n)), l.keys)
<1> DEFINE r == Reply(l, n, "setup1", "challenge")
           f == With(l.hs, n, ClientHash(d, l.neg, n))
<1>1. IsClient(r, n, l.neg, l.negotiated, l.failed, l.stained, l.hs, l.keys)
  BY ReplyFields DEF Lasts, Outcomes
<1>2. f \in Maps(Hashes)
  BY ClientFields, ClientHashType, WithMap
<1>3. Challenged(l, n, d) = [r EXCEPT !.hs = f]
  BY <1>1 DEF Challenged, IsClient
<1> HIDE DEF r, f
<1>4. IsClient([r EXCEPT !.hs = f], n, l.neg, l.negotiated, l.failed, l.stained, f, l.keys)
  BY <1>1, <1>2 DEF IsClient, ClientType
<1> QED BY <1>3, <1>4 DEF f

(* ... after a refused first token, *)
LEMMA TokenClient ==
  ASSUME NEW l \in ClientType, NEW n \in Sids, NEW u \in BOOLEAN
  PROVE  IsClient(TokenFailed(l, n, u), n, l.neg, l.negotiated, TRUE,
                  IF u THEN l.stained ELSE TRUE, l.hs, l.keys)
<1> DEFINE r == Reply(l, n, "token", "LOGON_FAILURE")
           x == IF u THEN l.stained ELSE TRUE
<1>1. IsClient(r, n, l.neg, l.negotiated, l.failed, l.stained, l.hs, l.keys)
  BY ReplyFields DEF Lasts, Outcomes
<1>3. r.stained = l.stained /\ l.stained \in BOOLEAN
  BY <1>1, ClientFields DEF IsClient
<1>4. (r.stained \/ ~u) = x /\ x \in BOOLEAN
  BY <1>3
<1> HIDE DEF r, x
<1>2. IsClient([r EXCEPT !.failed = TRUE, !.stained = x], n, l.neg, l.negotiated, TRUE, x, l.hs,
               l.keys)
  BY <1>1, <1>4 DEF IsClient, ClientType
<1> QED BY <1>2, <1>4 DEF r, x, TokenFailed

(* ... after a refused logon, *)
LEMMA RefusedClient ==
  ASSUME NEW l \in ClientType, NEW n \in Sids, NEW s, NEW cred \in {"good", "bad"}
  PROVE  IsClient(LogonFailed(l, n, s, cred), n, l.neg, l.negotiated, TRUE, l.stained, Without(l.hs, s), l.keys)
<1> DEFINE r == Reply(l, n, "setup2", "LOGON_FAILURE")
           f == Without(l.hs, s)
<1>1. IsClient(r, n, l.neg, l.negotiated, l.failed, l.stained, l.hs, l.keys)
  BY ReplyFields DEF Lasts, Outcomes
<1>2. f \in Maps(Hashes)
  BY ClientFields, WithoutMap
<1>3. Without(r.hs, s) = f
  BY <1>1 DEF IsClient
<1> HIDE DEF r, f
<1>4. IsClient([r EXCEPT !.hs = f, !.failed = TRUE, !.cred = cred], n, l.neg, l.negotiated, TRUE,
               l.stained, f, l.keys)
  BY <1>1, <1>2 DEF IsClient, ClientType
<1> QED BY <1>3, <1>4 DEF r, f, LogonFailed

(* ... after an unknown session id, *)
LEMMA UnknownClient ==
  ASSUME NEW l \in ClientType, NEW n \in Sids, NEW s
  PROVE  IsClient(Denied(l, n, s), n, l.neg, l.negotiated, l.failed, l.stained, Without(l.hs, s), l.keys)
<1> DEFINE r == Reply(l, n, "setup2", "ACCESS_DENIED")
           f == Without(l.hs, s)
<1>1. IsClient(r, n, l.neg, l.negotiated, l.failed, l.stained, l.hs, l.keys)
  BY ReplyFields DEF Lasts, Outcomes
<1>2. f \in Maps(Hashes)
  BY ClientFields, WithoutMap
<1>3. Without(r.hs, s) = f
  BY <1>1 DEF IsClient
<1> HIDE DEF r, f
<1>4. IsClient([r EXCEPT !.hs = f, !.cred = "good"], n, l.neg, l.negotiated, l.failed, l.stained,
               f, l.keys)
  BY <1>1, <1>2 DEF IsClient, ClientType
<1> QED BY <1>3, <1>4 DEF r, f, Denied

(* ... while it waits for the result of its logon, *)
LEMMA WaitingClient ==
  ASSUME NEW l \in ClientType, NEW n \in Sids, NEW s \in DOMAIN l.hs, NEW d,
         NEW cred \in {"good", "bad"}
  PROVE  IsClient(Waiting(l, n, s, cred, d), n, l.neg, l.negotiated, l.failed, l.stained,
                  Waits(l, s, Hash(d, l.hs[s], <<"req", n>>)), l.keys)
<1> DEFINE f == Waits(l, s, Hash(d, l.hs[s], <<"req", n>>))
<1>1. l.hs \in Maps(Hashes) /\ n \in 0 .. MaxMsgs
  BY ClientFields DEF Sids
<1>2. Hash(d, l.hs[s], <<"req", n>>) \in Hashes
  BY <1>1, MapFacts, HashType, MessageType
<1>3. f \in Maps(Hashes)
  <2>1. PICK D \in SUBSET Sids : l.hs \in [D -> Hashes]
    BY <1>1 DEF Maps
  <2>2. f \in [D -> Hashes]
    BY <1>2, <2>1 DEF Waits
  <2> QED BY <2>2 DEF Maps
<1>4. Waiting(l, n, s, cred, d)
        = [l EXCEPT !.sent = n, !.last = "setup2", !.cred = cred, !.reply = "none", !.hs = f]
  BY DEF Waiting, Waits, ClientType
<1> HIDE DEF f
<1>5. IsClient([l EXCEPT !.sent = n, !.last = "setup2", !.cred = cred, !.reply = "none", !.hs = f],
               n, l.neg, l.negotiated, l.failed, l.stained, f, l.keys)
  BY <1>1, <1>3 DEF IsClient, ClientType, Outcomes
<1> QED BY <1>4, <1>5 DEF f

(* ... and once it has its session. *)
LEMMA FinishedClient ==
  ASSUME NEW l \in ClientType, NEW s \in Sids, NEW a \in {"user", "guest"}, NEW v \in Hashes,
         v = IF a = "user" THEN l.hs[s] ELSE <<>>
  PROVE  IsClient(Granted(l, s, a), l.sent, l.neg, l.negotiated, FALSE, l.stained, Without(l.hs, s),
                  With(l.keys, s, v))
<1> DEFINE f == Without(l.hs, s)
           g == With(l.keys, s, v)
<1>1. f \in Maps(Hashes) /\ g \in Maps(Hashes)
  BY ClientFields, WithMap, WithoutMap
<1> HIDE DEF f, g
<1>2. IsClient([l EXCEPT !.reply = a, !.hs = f, !.failed = FALSE, !.keys = g],
               l.sent, l.neg, l.negotiated, FALSE, l.stained, f, g)
  BY <1>1 DEF IsClient, ClientType, Outcomes
<1> QED BY <1>2 DEF f, g, Granted

-----------------------------------------------------------------------------
(* On an active connection a response changes no hash but its binding's.    *)
LEMMA QuietSend ==
  ASSUME NEW k \in ConnType, k.serverState = "ACTIVE", NEW n \in Sids, NEW se \in Sids \cup {None}
  PROVE  /\ IsConn(Send([k EXCEPT !.session = se], n), k.serverState, k.dialect, k.useSession,
                   k.preauth, k.negotiatePreauth, se, k.sessions, k.pending, k.step)
         /\ \A s : k.pending.sid # s =>
              IsConn(SendSetup([k EXCEPT !.session = se], n, s), k.serverState, k.dialect,
                     k.useSession, k.preauth, k.negotiatePreauth, se, k.sessions, k.pending,
                       k.step)
         /\ [k EXCEPT !.session = k.session] = k
<1> DEFINE k1 == [k EXCEPT !.session = se]
<1>1. IsConn(k1, k.serverState, k.dialect, k.useSession, k.preauth, k.negotiatePreauth, se,
             k.sessions, k.pending, k.step)
  BY SetSession
<1> HIDE DEF k1
<1>2. k1 \in ConnType /\ k1.serverState = "ACTIVE"
  BY <1>1 DEF IsConn
<1>3. IsConn(Send(k1, n), k1.serverState, k1.dialect, k1.useSession, k1.preauth,
             k1.negotiatePreauth, k1.session, k1.sessions, k1.pending, k1.step)
  BY <1>2, SendFields
<1>4. ASSUME NEW s, k.pending.sid # s
      PROVE  IsConn(SendSetup(k1, n, s), k1.serverState, k1.dialect, k1.useSession, k1.preauth,
                    k1.negotiatePreauth, k1.session, k1.sessions, k1.pending, k1.step)
  <2>1. BindingHash(k1, n, s) = k1.pending
    BY <1>1, <1>4 DEF BindingHash, IsConn
  <2> QED BY <1>2, <2>1, SendSetupFields
<1>5. [k EXCEPT !.session = k.session] = k
  BY DEF ConnType
<1> QED BY <1>1, <1>3, <1>4, <1>5 DEF IsConn, k1

(* One connection and its client change.                                    *)
LEMMA OneConn ==
  ASSUME IInv, NEW c \in Conns, NEW j, NEW m, Kept(conn[c], j, m),
         conn' = [conn EXCEPT ![c] = j], client' = [client EXCEPT ![c] = m],
         mech' \in BOOLEAN, down' \in Downs, ntlm' \in Servers
  PROVE  IInv' /\ \A x \in Conns : Survives(conn[x], conn'[x])
<1>1. /\ conn' \in [Conns -> ConnType] /\ client' \in [Conns -> ClientType]
      /\ conn'[c] = j /\ client'[c] = m
      /\ \A x \in Conns : x # c => conn'[x] = conn[x] /\ client'[x] = client[x]
  BY DEF IInv, TypeInv, Kept, Related
<1>2. \A x \in Conns : Paired(conn'[x], client'[x]) /\ Agreed(conn'[x], client'[x])
  BY <1>1 DEF IInv, Kept, Related
<1>3. \A x \in Conns : Survives(conn[x], conn'[x])
  BY <1>1 DEF Kept, Survives
<1> QED BY <1>1, <1>2, <1>3 DEF IInv, TypeInv

(* Every action keeps the invariant and every session.                      *)
LEMMA StepKeeps ==
  ASSUME IInv, Next
  PROVE  IInv' /\ \A x \in Conns : Survives(conn[x], conn'[x])
<1> DEFINE Goal == IInv' /\ \A x \in Conns : Survives(conn[x], conn'[x])
<1>1. PICK c \in Conns :
        \/ NegotiateSmb1(c)
        \/ \E d \in Dialects : Negotiate(c, d) \/ NegotiateAgain(c, d)
        \/ (\E t \in Tokens : Setup1(c, t)) \/ Setup1Down(c)
        \/ \E s \in Sids : Setup2Down(c, s)
        \/ \E s \in Sids, cred \in {"good", "bad"} : Setup2(c, s, cred)
        \/ \E s \in Sids : SetupUnknown(c, s) \/ SetupKnown(c, s) \/ Request(c, s)
        \/ Finish(c) \/ FinishDown(c)
  BY DEF Next
<1> DEFINE k == conn[c]
           l == client[c]
           n == l.sent + 1
<1>2. /\ Related(k, l) /\ k \in ConnType /\ l \in ClientType /\ Msg(c) = n
      /\ mech \in BOOLEAN /\ down \in Downs /\ ntlm \in Servers
      /\ l.stained \in BOOLEAN
  BY ClientFields DEF IInv, TypeInv, Related, Msg
<1>3. CanSend(c) => l.sent < MaxMsgs /\ k.step.sid = None /\ n \in Sids
  BY <1>2, NextMessage DEF CanSend
<1>4. k.useSession => k.serverState = "ACTIVE"
  BY <1>2 DEF Related, Paired
<1>5. (Challenge(c, n) \in Servers \/ n \notin Sids) /\ NoServer \in Servers
  BY DEF Challenge, Logons, Servers, NoServer
<1>6. ASSUME NEW j, NEW m, Kept(k, j, m), conn' = [conn EXCEPT ![c] = j],
             client' = [client EXCEPT ![c] = m], mech' \in BOOLEAN, down' \in Downs,
             ntlm' \in Servers
      PROVE  Goal
  BY <1>6, OneConn
<1> HIDE DEF k, l, n, Goal
<1>7. CASE NegotiateSmb1(c)
  <2> DEFINE m == Reply(l, n, "negotiate", "ok")
  <2>1. /\ CanSend(c) /\ l.sent = 0 /\ conn' = [conn EXCEPT ![c] = Send(k, n)]
        /\ client' = [client EXCEPT ![c] = m] /\ UNCHANGED <<mech, ntlm, down>>
    BY <1>2, <1>7 DEF NegotiateSmb1, k, l
  <2>2. IsClient(m, n, l.neg, l.negotiated, l.failed, l.stained, l.hs, l.keys)
    BY <1>2, <1>3, <2>1, ReplyFields DEF Lasts, Outcomes
  <2> HIDE DEF m
  <2>3. Kept(k, Send(k, n), m)
    BY <1>2, <1>3, <2>1, <2>2, Smb1Keeps DEF n
  <2>4. mech' \in BOOLEAN /\ down' \in Downs /\ ntlm' \in Servers
    BY <1>2, <2>1
  <2> QED BY <1>6, <2>1, <2>3, <2>4 DEF Goal
<1>8. ASSUME NEW d \in Dialects, Negotiate(c, d) PROVE Goal
  <2> DEFINE m == [Reply(l, n, "negotiate", "ok") EXCEPT !.negotiated = TRUE,
                     !.neg = ClientHash(d, <<>>, n)]
  <2>1. /\ CanSend(c) /\ ~l.negotiated /\ conn' = [conn EXCEPT ![c] = NegotiateConn(k, n, d)]
        /\ client' = [client EXCEPT ![c] = m] /\ mech' = FALSE /\ UNCHANGED <<ntlm, down>>
    BY <1>2, <1>8 DEF Negotiate, k, l
  <2>2. IsClient(m, n, ClientHash(d, <<>>, n), TRUE, l.failed, l.stained, l.hs, l.keys)
    BY <1>2, <1>3, <2>1, NegotiatedClient
  <2> HIDE DEF m
  <2>3. ~k.useSession
    BY <1>2, <2>1 DEF Related, Paired
  <2>4. Kept(k, NegotiateConn(k, n, d), m)
    BY <1>2, <1>3, <2>1, <2>2, <2>3, NegotiateKeeps DEF n
  <2> QED BY <1>2, <1>6, <2>1, <2>4
<1>9. ASSUME NEW d \in Dialects, NegotiateAgain(c, d) PROVE Goal
  <2>1. /\ CanSend(c) /\ UNCHANGED <<ntlm, down>>
        /\ (l.failed /\ DOMAIN l.hs = {}) \/ DOMAIN l.keys # {}
    BY <1>9 DEF NegotiateAgain, MayNegotiateAgain, l
  <2>2. CASE k.useSession
    <3> DEFINE m == Reply(l, n, "negotiate", "SESSION_EXPIRED")
    <3>1. /\ conn' = [conn EXCEPT ![c] = Send(k, n)] /\ client' = [client EXCEPT ![c] = m]
          /\ mech' = mech
      BY <1>2, <1>4, <1>9, <2>2 DEF NegotiateAgain, k, l
    <3>2. IsClient(m, n, l.neg, l.negotiated, l.failed, l.stained, l.hs, l.keys)
      BY <1>2, <1>3, <2>1, ReplyFields DEF Lasts, Outcomes
    <3> HIDE DEF m
    <3>3. IsConn(Send(k, n), k.serverState, k.dialect, k.useSession, k.preauth,
                 k.negotiatePreauth, k.session, k.sessions, k.pending, k.step)
      BY <1>2, <1>3, <1>4, <2>1, <2>2, SendFields
    <3>4. Kept(k, Send(k, n), m)
      BY <1>2, <1>3, <2>1, <2>2, <3>2, <3>3, ActiveKeeps DEF n, IsConn, IsClient
    <3> QED BY <1>2, <1>6, <2>1, <3>1, <3>4
  <2>3. CASE ~k.useSession
    <3> DEFINE m == [Reply(l, n, "negotiate", "ok") EXCEPT !.neg = ClientHash(d, <<>>, n)]
    <3>1. /\ conn' = [conn EXCEPT ![c] = NegotiateConn(k, n, d)]
          /\ client' = [client EXCEPT ![c] = m] /\ mech' = FALSE
      BY <1>2, <1>9, <2>3 DEF NegotiateAgain, k, l
    <3>2. l.failed /\ DOMAIN l.hs = {} /\ l.negotiated
      BY <1>2, <2>1, <2>3 DEF Related, Paired
    <3>3. IsClient(m, n, ClientHash(d, <<>>, n), TRUE, l.failed, l.stained, l.hs, l.keys)
      <4> DEFINE r == Reply(l, n, "negotiate", "ok")
                 h == ClientHash(d, <<>>, n)
      <4>1. IsClient(r, n, l.neg, l.negotiated, l.failed, l.stained, l.hs, l.keys)
        BY <1>2, <1>3, <2>1, ReplyFields DEF Lasts, Outcomes
      <4>2. h \in Hashes
        <5>1. <<>> \in Hashes
          BY DEF Hashes
        <5> QED BY <1>3, <2>1, <5>1, ClientHashType
      <4> HIDE DEF r, h
      <4>3. IsClient([r EXCEPT !.neg = h], n, h, l.negotiated, l.failed, l.stained, l.hs, l.keys)
        BY <4>1, <4>2 DEF IsClient, ClientType
      <4>4. l.negotiated = TRUE
        BY <1>2, <3>2, ClientFields
      <4> QED BY <4>3, <4>4 DEF r, h
    <3> HIDE DEF m
    <3>4. Kept(k, NegotiateConn(k, n, d), m)
      BY <1>2, <1>3, <2>1, <2>3, <3>2, <3>3, NegotiateKeeps DEF n
    <3> QED BY <1>2, <1>6, <2>1, <3>1, <3>4
  <2> QED BY <2>2, <2>3
<1>10. ASSUME NEW tok \in Tokens, Setup1(c, tok) PROVE Goal
  <2>1. /\ CanSend(c) /\ n \in Sids /\ l.sent < MaxMsgs /\ k.step.sid = None /\ l.negotiated
        /\ down' = down
        /\ ~k.useSession => DOMAIN l.hs = {}
    BY <1>2, <1>3, <1>10 DEF Setup1, MayStart, l, Related, Paired
  <2>2. CASE /\ k.useSession /\ tok # "other"
             /\ conn' = [conn EXCEPT ![c] = NewBinding(k, n)] /\ ntlm' = Challenge(c, n)
             /\ client' = [client EXCEPT ![c] = Challenged(l, n, k.dialect)] /\ mech' = mech
    <3>1. Kept(k, NewBinding(k, n), Challenged(l, n, k.dialect))
      BY <1>2, <2>1, <2>2, ChallengedClient, BindingKeeps DEF n
    <3> QED BY <1>2, <1>5, <1>6, <2>1, <2>2, <3>1
  <2>3. CASE /\ ~k.useSession /\ k.serverState = "NEGOTIATE" /\ tok # "other"
             /\ conn' = [conn EXCEPT ![c] = ServerSetup(k, n)] /\ ntlm' = Challenge(c, n)
             /\ client' = [client EXCEPT ![c] = Challenged(l, n, k.dialect)] /\ mech' = TRUE
    <3>1. Kept(k, ServerSetup(k, n), Challenged(l, n, k.dialect))
      BY <1>2, <2>1, <2>3, ChallengedClient, ChallengeKeeps DEF n
    <3> QED BY <1>2, <1>5, <1>6, <2>1, <2>3, <3>1
  <2>4. CASE /\ ~k.useSession /\ k.serverState \in {"SESSION_SETUP", "CHALLENGE"}
             /\ (tok = "raw" => mech)
             /\ conn' = [conn EXCEPT ![c] = ServerSetupRefused(k, n)]
             /\ client' = [client EXCEPT ![c] = Reply(l, n, "setup1", "LOGON_FAILURE")]
             /\ UNCHANGED <<mech, ntlm>>
    <3> DEFINE m == Reply(l, n, "setup1", "LOGON_FAILURE")
    <3>1. IsClient(m, n, l.neg, l.negotiated, l.failed, l.stained, l.hs, l.keys)
      BY <1>2, <2>1, ReplyFields DEF Lasts, Outcomes
    <3> HIDE DEF m
    <3>2. Kept(k, ServerSetupRefused(k, n), m)
      BY <1>2, <2>1, <2>4, <3>1, RefusedKeeps DEF n
    <3> QED BY <1>2, <1>6, <2>1, <2>4, <3>2 DEF m
  <2>5. CASE /\ k.useSession \/ k.serverState = "NEGOTIATE"
             /\ conn' = [conn EXCEPT ![c] = TokenRefused(k, n)]
             /\ client' = [client EXCEPT ![c] = TokenFailed(l, n, k.useSession)]
             /\ mech' = mech /\ ntlm' \in {ntlm, NoServer}
    <3> DEFINE x == IF k.useSession THEN l.stained ELSE TRUE
               m == TokenFailed(l, n, k.useSession)
    <3>1. client' = [client EXCEPT ![c] = m]
      BY <2>5
    <3>2. IsClient(m, n, l.neg, l.negotiated, TRUE, x, l.hs, l.keys)
      BY <1>2, <2>1, TokenClient, ConnFields
    <3> HIDE DEF m
    <3>3. CASE k.useSession
      <4>1. x = l.stained
        BY <3>3
      <4>2. TokenRefused(k, n) = Send(k, n)
        BY <3>3 DEF TokenRefused
      <4>3. IsConn(Send(k, n), k.serverState, k.dialect, k.useSession, k.preauth,
                   k.negotiatePreauth, k.session, k.sessions, k.pending, k.step)
        BY <1>2, <1>4, <2>1, <3>3, SendFields
      <4>4. Kept(k, Send(k, n), m)
        BY <1>2, <2>1, <3>2, <3>3, <4>1, <4>3, ActiveKeeps DEF n, IsConn, IsClient
      <4> QED BY <1>2, <1>5, <1>6, <2>1, <2>5, <3>1, <4>2, <4>4
    <3>4. CASE ~k.useSession
      <4>1. x = TRUE
        BY <3>4
      <4>2. Kept(k, TokenRefused(k, n), m)
        BY <1>2, <2>1, <2>5, <3>2, <3>4, <4>1, TokenKeeps DEF n
      <4> QED BY <1>2, <1>5, <1>6, <2>1, <2>5, <3>1, <4>2
    <3> QED BY <3>3, <3>4
  <2> QED BY <1>2, <1>10, <2>2, <2>3, <2>4, <2>5 DEF Setup1, SecondExpected, Msg, k, l, n
<1>11. ASSUME NEW s \in Sids, NEW cred \in {"good", "bad"}, Setup2(c, s, cred) PROVE Goal
  <2> DEFINE b == Binding(c, s)
             a == Authenticate(c, s, cred)
  <2>1. /\ CanSend(c) /\ n \in Sids /\ l.sent < MaxMsgs /\ k.step.sid = None
        /\ s \in DOMAIN l.hs /\ mech' = mech
        /\ b \in BOOLEAN /\ (b <=> k.useSession) /\ (b => k.pending.sid = s)
    BY <1>2, <1>3, <1>11, ConnFields DEF Setup2, Binding, k, l
  <2>2. a \in {"user", "guest", "fail"}
    BY DEF Authenticate
  <2> HIDE DEF b, a
  <2>4. CASE /\ a = "fail" /\ down' = down /\ ntlm' = ntlm
             /\ conn' = [conn EXCEPT ![c] = Refused(k, n, b)]
             /\ client' = [client EXCEPT ![c] = LogonFailed(l, n, s, cred)]
    <3> DEFINE m == LogonFailed(l, n, s, cred)
    <3>1. IsClient(m, n, l.neg, l.negotiated, TRUE, l.stained, Without(l.hs, s), l.keys)
      BY <1>2, <2>1, RefusedClient
    <3>2. client' = [client EXCEPT ![c] = m]
      BY <2>4
    <3> HIDE DEF m
    <3>3. Kept(k, Refused(k, n, b), m)
      BY <1>2, <2>1, <3>1, LogonFails DEF n
    <3> QED BY <1>2, <1>6, <2>1, <2>4, <3>2, <3>3
  <2>5. CASE /\ a # "fail" /\ down' = down /\ ntlm' = [ntlm EXCEPT !.session = <<c, s>>]
             /\ conn' = [conn EXCEPT ![c] = Authenticated(k, n, s, a, b)]
             /\ client' = [client EXCEPT ![c] = Waiting(l, n, s, cred, k.dialect)]
    <3> DEFINE m == Waiting(l, n, s, cred, k.dialect)
    <3>1. IsClient(m, n, l.neg, l.negotiated, l.failed, l.stained,
                   Waits(l, s, Hash(k.dialect, l.hs[s], <<"req", n>>)), l.keys)
      BY <1>2, <2>1, WaitingClient
    <3>2. client' = [client EXCEPT ![c] = m]
      BY <2>5
    <3> HIDE DEF m
    <3>3. Kept(k, Authenticated(k, n, s, a, b), m)
      BY <1>2, <2>1, <2>2, <2>5, <3>1, AuthenticatedKeeps DEF n
    <3>4. <<c, s>> \in Logons
      BY DEF Logons
    <3>5. ntlm' \in Servers
      BY <1>2, <2>5, <3>4 DEF Servers
    <3> QED BY <1>2, <1>6, <2>1, <2>5, <3>2, <3>3, <3>5
  <2> QED
    <3>1. \/ /\ a = "fail" /\ down' = down /\ ntlm' = ntlm
             /\ conn' = [conn EXCEPT ![c] = Refused(k, n, b)]
             /\ client' = [client EXCEPT ![c] = LogonFailed(l, n, s, cred)]
          \/ /\ a # "fail" /\ down' = down /\ ntlm' = [ntlm EXCEPT !.session = <<c, s>>]
             /\ conn' = [conn EXCEPT ![c] = Authenticated(k, n, s, a, b)]
             /\ client' = [client EXCEPT ![c] = Waiting(l, n, s, cred, k.dialect)]
      BY <1>2, <1>11 DEF Setup2, Msg, k, l, n, a, b
    <3> QED BY <2>4, <2>5, <3>1
<1>12. ASSUME NEW s \in Sids, SetupUnknown(c, s) PROVE Goal
  <2> DEFINE m == Denied(l, n, s)
  <2>1. /\ CanSend(c) /\ n \in Sids /\ l.sent < MaxMsgs /\ k.step.sid = None
        /\ k.useSession /\ s \in DOMAIN l.hs /\ k.pending.sid # s
        /\ conn' = [conn EXCEPT ![c] = SendSetup(k, n, s)]
        /\ client' = [client EXCEPT ![c] = m] /\ UNCHANGED <<mech, ntlm, down>>
    BY <1>2, <1>3, <1>12 DEF SetupUnknown, k, l
  <2>2. IsClient(m, n, l.neg, l.negotiated, l.failed, l.stained, Without(l.hs, s), l.keys)
    BY <1>2, <2>1, UnknownClient
  <2> HIDE DEF m
  <2>3. k.session \in Sids \cup {None}
    BY <1>2, ConnFields
  <2>4. IsConn(SendSetup(k, n, s), k.serverState, k.dialect, k.useSession, k.preauth,
               k.negotiatePreauth, k.session, k.sessions, k.pending, k.step)
    BY <1>2, <1>4, <2>1, <2>3, QuietSend
  <2>5. Kept(k, SendSetup(k, n, s), m)
    BY <1>2, <2>1, <2>2, <2>4, UnknownKeeps DEF n
  <2> QED BY <1>2, <1>6, <2>1, <2>5
<1>13. ASSUME NEW s \in Sids, SetupKnown(c, s) PROVE Goal
  <2> DEFINE m == Reply(l, n, "reauth", "ok")
             j == SendSetup([k EXCEPT !.session = s], n, s)
  <2>1. /\ CanSend(c) /\ n \in Sids /\ l.sent < MaxMsgs /\ k.useSession /\ k.pending.sid # s
        /\ conn' = [conn EXCEPT ![c] = j]
        /\ client' = [client EXCEPT ![c] = m] /\ UNCHANGED <<mech, ntlm, down>>
    BY <1>2, <1>3, <1>13 DEF SetupKnown, k, l
  <2>2. IsClient(m, n, l.neg, l.negotiated, l.failed, l.stained, l.hs, l.keys)
    BY <1>2, <2>1, ReplyFields DEF Lasts, Outcomes
  <2>3. IsConn(j, k.serverState, k.dialect, k.useSession, k.preauth, k.negotiatePreauth, s,
               k.sessions, k.pending, k.step)
    BY <1>2, <1>4, <2>1, QuietSend
  <2> HIDE DEF m, j
  <2>4. Kept(k, j, m)
    BY <1>2, <2>1, <2>2, <2>3, ActiveKeeps DEF n, IsConn, IsClient
  <2> QED BY <1>2, <1>6, <2>1, <2>4
<1>14. ASSUME NEW s \in Sids, Request(c, s) PROVE Goal
  <2> DEFINE m == Reply(l, n, "request", "ok")
             se == IF s \in DOMAIN k.sessions THEN s ELSE None
             j == Send([k EXCEPT !.session = se], n)
  <2>1. /\ CanSend(c) /\ n \in Sids /\ l.sent < MaxMsgs /\ s \in DOMAIN l.keys
        /\ conn' = [conn EXCEPT ![c] = j]
        /\ client' = [client EXCEPT ![c] = m] /\ UNCHANGED <<mech, ntlm, down>>
    BY <1>2, <1>3, <1>14 DEF Request, k, l
  <2>2. IsClient(m, n, l.neg, l.negotiated, l.failed, l.stained, l.hs, l.keys)
    BY <1>2, <2>1, ReplyFields DEF Lasts, Outcomes
  <2>3. k.useSession /\ se \in Sids \cup {None}
    BY <1>2, <2>1 DEF Related, Paired
  <2> HIDE DEF se
  <2>4. IsConn(j, k.serverState, k.dialect, k.useSession, k.preauth, k.negotiatePreauth, se,
               k.sessions, k.pending, k.step)
    BY <1>2, <1>4, <2>1, <2>3, QuietSend
  <2> HIDE DEF m, j
  <2>5. Kept(k, j, m)
    BY <1>2, <2>1, <2>2, <2>3, <2>4, ActiveKeeps DEF n, IsConn, IsClient
  <2> QED BY <1>2, <1>6, <2>1, <2>5
<1>15. CASE Finish(c)
  <2> DEFINE s == k.step.sid
             v == IF k.step.as = "user" THEN l.hs[s] ELSE <<>>
             m == Granted(l, s, k.step.as)
  <2>1. /\ s # None /\ conn' = [conn EXCEPT ![c] = FinishConn(k, l.sent, ntlm.session)]
        /\ client' = [client EXCEPT ![c] = m] /\ UNCHANGED <<mech, ntlm, down>>
    BY <1>15 DEF Finish, k, l
  <2>2. s \in DOMAIN l.hs /\ k.step.as \in {"user", "guest"}
    BY <1>2, <2>1 DEF Related, Paired
  <2>3. s \in Sids /\ v \in Hashes
    <3>1. s \in Sids /\ l.hs[s] \in Hashes
      BY <1>2, <2>2, ClientFields, MapFacts
    <3>2. <<>> \in Hashes
      BY DEF Hashes
    <3> QED BY <3>1, <3>2
  <2> HIDE DEF v
  <2>4. IsClient(m, l.sent, l.neg, l.negotiated, FALSE, l.stained, Without(l.hs, s),
                 With(l.keys, s, v))
    BY <1>2, <2>2, <2>3, FinishedClient DEF v
  <2> HIDE DEF m
  <2>5. Kept(k, FinishConn(k, l.sent, ntlm.session), m)
    <3>1. ntlm.session \in Logons
      BY <1>2 DEF Servers
    <3> QED BY <1>2, <2>1, <2>4, <3>1, FinishKeeps DEF v
  <2>6. mech' \in BOOLEAN /\ down' \in Downs /\ ntlm' \in Servers
    BY <1>2, <2>1
  <2> QED BY <1>6, <2>1, <2>5, <2>6 DEF Goal
<1>16. CASE FinishDown(c) \/ Setup1Down(c) \/ \E s \in Sids : Setup2Down(c, s)
  <2>1. UNCHANGED <<conn, client, mech, ntlm>> /\ down' \in Downs
    BY <1>16 DEF FinishDown, Setup1Down, Setup2Down, Downs
  <2> QED BY <1>2, <2>1 DEF IInv, TypeInv, Goal, Survives
<1> QED BY <1>1, <1>7, <1>8, <1>9, <1>10, <1>11, <1>12, <1>13, <1>14, <1>15, <1>16 DEF Goal

-----------------------------------------------------------------------------
(* The inductive invariant: each connection and its client are at matching  *)
(* points of the handshake, with the same hashes.                           *)
THEOREM HandshakeInvariant == Spec => []IInv
<1>1. Init => IInv
  <2> SUFFICES ASSUME Init PROVE IInv
    OBVIOUS
  <2>1. /\ NewClient \in ClientType
        /\ NewClient.sent = 0 /\ NewClient.neg = <<>> /\ ~NewClient.negotiated
           /\ ~NewClient.failed
        /\ DOMAIN NewClient.hs = {} /\ DOMAIN NewClient.keys = {}
    <3>1. <<>> \in Hashes
      BY DEF Hashes
    <3>2. [s \in {} |-> <<>>] \in Maps(Hashes)
      BY DEF Maps
    <3>3. 0 \in 0 .. MaxMsgs
      BY BoundsAssumption
    <3> QED BY <3>1, <3>2, <3>3 DEF NewClient, ClientType, Outcomes
  <2>2. Paired(NewConn, NewClient) /\ Agreed(NewConn, NewClient)
    BY <2>1, NewFields DEF Paired, Agreed, Fresh, Challenging, Failed, Active, None
  <2>3. conn \in [Conns -> ConnType] /\ client \in [Conns -> ClientType]
    BY <2>1, NewFields DEF Init
  <2>4. mech \in BOOLEAN /\ down \in Downs /\ ntlm \in Servers
    BY DEF Init, Logons, Servers, NoServer, Downs
  <2> QED BY <2>2, <2>3, <2>4 DEF Init, IInv, TypeInv
<1>2. IInv /\ [Next]_vars => IInv'
  <2> SUFFICES ASSUME IInv, [Next]_vars PROVE IInv'
    OBVIOUS
  <2>1. CASE Next
    BY <2>1, StepKeeps
  <2>2. CASE UNCHANGED vars
    BY <2>2 DEF vars, IInv, TypeInv
  <2> QED BY <2>1, <2>2
<1> QED BY <1>1, <1>2, PTL DEF Spec

(* The fields of the conn struct, the authenticator and the negotiator keep *)
(* their types through every request.                                       *)
THEOREM HandshakeTypes == Spec => []TypeOK
<1>1. IInv => TypeOK
  <2> SUFFICES ASSUME IInv PROVE TypeOK
    OBVIOUS
  <2>1. \A c \in Conns : conn[c] \in ConnType
    BY DEF IInv, TypeInv
  <2>2. ASSUME NEW c \in Conns
        PROVE  /\ conn[c].serverState \in {"NEGOTIATE", "SESSION_SETUP", "CHALLENGE", "ACTIVE"}
               /\ conn[c].dialect \in Dialects \cup {"none"} /\ conn[c].useSession \in BOOLEAN
               /\ conn[c].preauth \in Hashes /\ conn[c].negotiatePreauth \in Hashes
               /\ conn[c].session \in Sids \cup {None}
               /\ DOMAIN conn[c].sessions \subseteq Sids
               /\ \A s \in DOMAIN conn[c].sessions : conn[c].sessions[s] \in SessionRecords
               /\ conn[c].pending \in [sid : Sids \cup {None}, preauth : Hashes, mech : BOOLEAN]
               /\ conn[c].step \in [sid : Sids \cup {None}, as : {"none", "user", "guest"},
                                    binding : BOOLEAN]
    BY <2>1, ConnFields, MapFacts DEF PendingType, StepType
  <2> QED BY <2>2 DEF IInv, TypeInv, TypeOK
<1> QED BY <1>1, HandshakeInvariant, PTL

(* sendPacket and the SESSION_SETUP handlers hash what the client hashes:   *)
(* the keys of every session come from the same hash at both ends, whatever *)
(* handshakes, bindings and other requests lie between its messages, on its *)
(* own or on other connections.                                             *)
THEOREM HashesAgreeHolds == Spec => []HashesAgree
<1>1. IInv => HashesAgree
  <2> SUFFICES ASSUME IInv, NEW c \in Conns, ~client[c].stained, NEW s \in DOMAIN client[c].keys
               PROVE  /\ s \in DOMAIN conn[c].sessions
                      /\ conn[c].sessions[s].preauth = client[c].keys[s]
    BY DEF HashesAgree
  <2>1. Paired(conn[c], client[c]) /\ Agreed(conn[c], client[c])
    BY DEF IInv
  <2>2. s \in DOMAIN conn[c].sessions /\ conn[c].useSession
    BY <2>1 DEF Paired
  <2> QED BY <2>1, <2>2 DEF Agreed, Active
<1> QED BY <1>1, HandshakeInvariant, PTL

(* "Do not reset an active authenticated session": no request of any client *)
(* removes or rekeys a session, or changes what its bindings start from.    *)
THEOREM SessionsSurviveHolds == Spec => SessionsSurvive
<1> DEFINE Keeps == \A c \in Conns : conn[c].sessions # NewConn.sessions =>
       /\ conn'[c].dialect = conn[c].dialect
       /\ conn'[c].negotiatePreauth = conn[c].negotiatePreauth
       /\ \A s \in DOMAIN conn[c].sessions :
            s \in DOMAIN conn'[c].sessions /\ conn'[c].sessions[s] = conn[c].sessions[s]
<1>1. IInv /\ [Next]_vars => [Keeps]_vars
  <2> SUFFICES ASSUME IInv, Next, NEW c \in Conns, conn[c].sessions # NewConn.sessions
               PROVE  /\ conn'[c].dialect = conn[c].dialect
                      /\ conn'[c].negotiatePreauth = conn[c].negotiatePreauth
                      /\ \A s \in DOMAIN conn[c].sessions :
                           /\ s \in DOMAIN conn'[c].sessions
                           /\ conn'[c].sessions[s] = conn[c].sessions[s]
    OBVIOUS
  <2>1. DOMAIN conn[c].sessions # {}
    <3>1. conn[c].sessions \in Maps(SessionRecords)
      BY ConnFields DEF IInv, TypeInv
    <3>2. NewConn.sessions = [s \in {} |-> <<>>]
      BY DEF NewConn
    <3> QED BY <3>1, <3>2 DEF Maps
  <2> QED BY <2>1, StepKeeps DEF Survives
<1> QED BY <1>1, HandshakeInvariant, PTL DEF Spec, SessionsSurvive
-----------------------------------------------------------------------------
(* One connection whose client has at most one handshake in progress: the   *)
(* challenge the authenticator holds is that handshake's, its SPNEGO server *)
(* has a mechanism, and a setup half done is the logon of its user, which   *)
(* the authenticator's session is.                                          *)
Ready(c, k, l, me, nt) ==
  /\ \A s \in DOMAIN l.hs :
       /\ \A t \in DOMAIN l.hs : s = t
       /\ k.step.sid = None =>
            nt.of = <<c, s>> /\ IF k.useSession THEN k.pending.sid = s /\ k.pending.mech ELSE me
  /\ k.step.sid # None =>
       /\ nt.session = <<c, k.step.sid>> /\ (k.step.binding \/ me)
       /\ l.last = "setup2" /\ l.reply = "none"
       /\ l.cred = "good" => k.step.as = "user"
  /\ l.last = "setup2" /\ l.cred = "good" => l.reply \in {"none", "user"}

GInv == IInv /\ down # "logon" /\ \A c \in Conns : Ready(c, conn[c], client[c], mech, ntlm)

(* A request that is none of the handshake.                                 *)
LEMMA ReadyStays ==
  ASSUME NEW c, NEW k, NEW l, NEW me, NEW nt, Ready(c, k, l, me, nt), k.step.sid = None,
         NEW j, NEW m, NEW me2, j.step = k.step, j.useSession = k.useSession,
         j.pending = k.pending, m.hs = l.hs, m.last # "setup2",
         me2 = me \/ DOMAIN l.hs = {}
  PROVE  Ready(c, j, m, me2, nt)
BY DEF Ready

(* The end of a handshake.                                                  *)
LEMMA ReadyOver ==
  ASSUME NEW c, NEW j, NEW m, NEW me, NEW nt, DOMAIN m.hs = {}, j.step.sid = None,
         m.last = "setup2" /\ m.cred = "good" => m.reply \in {"none", "user"}
  PROVE  Ready(c, j, m, me, nt)
BY DEF Ready

(* A challenge.                                                             *)
LEMMA ReadyChallenged ==
  ASSUME NEW c, NEW j, NEW m, NEW me, NEW n, DOMAIN m.hs = {n}, j.step.sid = None,
         IF j.useSession THEN j.pending.sid = n /\ j.pending.mech ELSE me, m.last # "setup2"
  PROVE  Ready(c, j, m, me, Challenge(c, n))
BY DEF Ready, Challenge

(* What a client knows of its last request, and of its handshakes.          *)
LEMMA ReplyKeeps ==
  ASSUME NEW l \in ClientType, NEW n, NEW q, NEW o
  PROVE  /\ Reply(l, n, q, o).last = q /\ Reply(l, n, q, o).hs = l.hs
         /\ \A d : /\ [Reply(l, n, q, o) EXCEPT !.neg = d].last = q
                  /\ [Reply(l, n, q, o) EXCEPT !.neg = d].hs = l.hs
                  /\ [Reply(l, n, q, o) EXCEPT !.negotiated = TRUE, !.neg = d].last = q
                  /\ [Reply(l, n, q, o) EXCEPT !.negotiated = TRUE, !.neg = d].hs = l.hs
BY DEF Reply, ClientType

(* ... after each answer to a SESSION_SETUP.                                *)
LEMMA AnswerKeeps ==
  ASSUME NEW l \in ClientType
  PROVE  /\ \A n, d : /\ Challenged(l, n, d).last = "setup1"
                     /\ Challenged(l, n, d).hs = With(l.hs, n, ClientHash(d, l.neg, n))
         /\ \A n, u : TokenFailed(l, n, u).last = "token" /\ TokenFailed(l, n, u).hs = l.hs
         /\ \A n, s, cred : /\ LogonFailed(l, n, s, cred).cred = cred
                           /\ LogonFailed(l, n, s, cred).hs = Without(l.hs, s)
         /\ \A n, s, cred, d : /\ Waiting(l, n, s, cred, d).last = "setup2"
                              /\ Waiting(l, n, s, cred, d).cred = cred
                              /\ Waiting(l, n, s, cred, d).reply = "none"
         /\ \A s, o : /\ Granted(l, s, o).cred = l.cred /\ Granted(l, s, o).reply = o
                     /\ Granted(l, s, o).hs = Without(l.hs, s)
<1>1. \A n, d : /\ Challenged(l, n, d).last = "setup1"
               /\ Challenged(l, n, d).hs = With(l.hs, n, ClientHash(d, l.neg, n))
  BY DEF Challenged, Reply, ClientType
<1>2. \A n, u : TokenFailed(l, n, u).last = "token" /\ TokenFailed(l, n, u).hs = l.hs
  BY DEF TokenFailed, Reply, ClientType
<1>3. \A n, s, cred : /\ LogonFailed(l, n, s, cred).cred = cred
                     /\ LogonFailed(l, n, s, cred).hs = Without(l.hs, s)
  BY DEF LogonFailed, Reply, ClientType
<1>4. \A n, s, cred, d : /\ Waiting(l, n, s, cred, d).last = "setup2"
                        /\ Waiting(l, n, s, cred, d).cred = cred
                        /\ Waiting(l, n, s, cred, d).reply = "none"
  BY DEF Waiting, ClientType
<1>5. \A s, o : /\ Granted(l, s, o).cred = l.cred /\ Granted(l, s, o).reply = o
               /\ Granted(l, s, o).hs = Without(l.hs, s)
  BY DEF Granted, ClientType
<1> QED BY <1>1, <1>2, <1>3, <1>4, <1>5

(* A response leaves the setup in progress and the use of sessions alone,   *)
(* and of a pending binding all but the hash.                               *)
LEMMA SendKeeps ==
  ASSUME NEW k \in ConnType, NEW n \in Sids, NEW sid
  PROVE  /\ Send(k, n).step = k.step /\ Send(k, n).useSession = k.useSession
         /\ Send(k, n).pending = k.pending
         /\ SendSetup(k, n, sid).step = k.step /\ SendSetup(k, n, sid).useSession = k.useSession
         /\ SendSetup(k, n, sid).pending = BindingHash(k, n, sid)
<1>1. IsConn(Send(k, n), k.serverState, k.dialect, k.useSession,
             IF k.serverState # "ACTIVE" THEN Hash(k.dialect, k.preauth, <<"rsp", n>>)
             ELSE k.preauth,
             k.negotiatePreauth, k.session, k.sessions, k.pending, k.step)
  BY SendFields
<1>2. IsConn(SendSetup(k, n, sid), k.serverState, k.dialect, k.useSession,
             IF k.serverState # "ACTIVE" THEN Hash(k.dialect, k.preauth, <<"rsp", n>>)
             ELSE k.preauth,
             k.negotiatePreauth, k.session, k.sessions, BindingHash(k, n, sid), k.step)
  BY SendSetupFields
<1> QED BY <1>1, <1>2 DEF IsConn

(* So does a SESSION_SETUP that moves the first handshake on.               *)
LEMMA SetupKeeps ==
  ASSUME NEW k \in ConnType, NEW n \in Sids, ~k.useSession, NEW j,
         j = ServerSetup(k, n) \/ j = ServerSetupRefused(k, n) \/ j = Refused(k, n, FALSE)
  PROVE  j.step = k.step /\ j.useSession = k.useSession /\ j.pending = k.pending
<1> DEFINE S(st) ==
      Send([k EXCEPT !.preauth = Hash(k.dialect, @, <<"req", n>>), !.serverState = st], n)
<1>1. j = S("CHALLENGE") \/ j = S("SESSION_SETUP")
  BY DEF ServerSetup, ServerSetupRefused, Refused
<1>2. \A st \in {"NEGOTIATE", "SESSION_SETUP", "CHALLENGE"} :
        IsConn(S(st), st, k.dialect, k.useSession, ClientHash(k.dialect, k.preauth, n),
               k.negotiatePreauth, k.session, k.sessions, k.pending, k.step)
  BY SetupFields
<1> HIDE DEF S
<1> QED BY <1>1, <1>2 DEF IsConn

(* The connection and its client, for the invariant's preservation.          *)
LEMMA ReadyConn ==
  ASSUME IInv, NEW c, Conns = {c}, NEW j, NEW m,
         conn' = [conn EXCEPT ![c] = j], client' = [client EXCEPT ![c] = m],
         Ready(c, j, m, mech', ntlm')
  PROVE  \A x \in Conns : Ready(x, conn'[x], client'[x], mech', ntlm')
<1>1. conn'[c] = j /\ client'[c] = m
  BY DEF IInv, TypeInv
<1> QED BY <1>1

(* A client that may start a handshake, one at a time, has none.            *)
LEMMA NoneInProgress ==
  ASSUME NEW l \in ClientType, Cardinality(DOMAIN l.hs) < 1
  PROVE  DOMAIN l.hs = {}
<1>1. DOMAIN l.hs \subseteq 1 .. MaxMsgs
  BY ClientFields, MapFacts DEF Sids
<1>2. IsFiniteSet(1 .. MaxMsgs)
  BY BoundsAssumption, FS_Interval
<1>3. IsFiniteSet(DOMAIN l.hs)
  BY <1>1, <1>2, FS_Subset
<1>4. Cardinality(DOMAIN l.hs) \in Nat
  BY <1>3, FS_CardinalityType
<1>5. Cardinality(DOMAIN l.hs) = 0
  BY <1>4
<1> QED BY <1>3, <1>5, FS_EmptySet

(* Every action of the one connection leaves its handshake in order.        *)
LEMMA StepReady ==
  ASSUME GInv, Next, NEW c, Conns = {c}, MaxPending = 1
  PROVE  down' # "logon" /\ \A x \in Conns : Ready(x, conn'[x], client'[x], mech', ntlm')
<1> DEFINE k == conn[c]
           l == client[c]
           n == l.sent + 1
           Goal == down' # "logon"
             /\ \A x \in Conns : Ready(x, conn'[x], client'[x], mech', ntlm')
<1>1. /\ IInv /\ down # "logon" /\ Ready(c, k, l, mech, ntlm) /\ Paired(k, l)
      /\ k \in ConnType /\ l \in ClientType /\ Msg(c) = n
  BY DEF GInv, IInv, TypeInv, Msg
<1>2. CanSend(c) => k.step.sid = None /\ n \in Sids
  BY <1>1, NextMessage DEF CanSend
<1>3. ASSUME NEW j, NEW m, conn' = [conn EXCEPT ![c] = j], client' = [client EXCEPT ![c] = m],
             Ready(c, j, m, mech', ntlm'), down' = down
      PROVE  Goal
  BY <1>1, <1>3, ReadyConn
<1>4. k.useSession => k.serverState = "ACTIVE"
  BY <1>1 DEF Paired
<1>5. ASSUME NEW j, NEW m, CanSend(c), conn' = [conn EXCEPT ![c] = j],
             client' = [client EXCEPT ![c] = m], down' = down, ntlm' = ntlm,
             j.step = k.step, j.useSession = k.useSession, j.pending = k.pending,
             m.hs = l.hs, m.last # "setup2", mech' = mech \/ DOMAIN l.hs = {}
      PROVE  Goal
  <2>1. Ready(c, j, m, mech', ntlm)
    BY <1>1, <1>2, <1>5, ReadyStays
  <2> QED BY <1>3, <1>5, <2>1
<1> HIDE DEF k, l, n, Goal
<1>6. CASE NegotiateSmb1(c)
  <2>1. /\ CanSend(c) /\ conn' = [conn EXCEPT ![c] = Send(k, n)]
        /\ client' = [client EXCEPT ![c] = Reply(l, n, "negotiate", "ok")]
        /\ mech' = mech /\ ntlm' = ntlm /\ down' = down
    BY <1>1, <1>6 DEF NegotiateSmb1, k, l
  <2>2. /\ Send(k, n).step = k.step /\ Send(k, n).useSession = k.useSession
        /\ Send(k, n).pending = k.pending
    BY <1>1, <1>2, <2>1, SendFields DEF IsConn
  <2>3. Reply(l, n, "negotiate", "ok").hs = l.hs /\ Reply(l, n, "negotiate", "ok").last # "setup2"
    BY <1>1, ReplyKeeps
  <2> QED BY <1>5, <2>1, <2>2, <2>3 DEF Goal
<1>7. ASSUME NEW d \in Dialects, Negotiate(c, d) PROVE Goal
  <2> DEFINE m == [Reply(l, n, "negotiate", "ok") EXCEPT !.negotiated = TRUE,
                     !.neg = ClientHash(d, <<>>, n)]
             j == NegotiateConn(k, n, d)
  <2>1. /\ CanSend(c) /\ ~l.negotiated /\ conn' = [conn EXCEPT ![c] = j]
        /\ client' = [client EXCEPT ![c] = m] /\ mech' = FALSE /\ ntlm' = ntlm /\ down' = down
    BY <1>1, <1>7 DEF Negotiate, k, l
  <2>2. m.hs = l.hs /\ m.last # "setup2"
    BY <1>1, ReplyKeeps
  <2>3. DOMAIN l.hs = {} /\ k.serverState # "ACTIVE"
    BY <1>1, <2>1 DEF Paired
  <2>4. j.step = k.step /\ j.useSession = k.useSession /\ j.pending = k.pending
    BY <1>1, <1>2, <2>1, <2>3, NegotiateFields DEF IsConn
  <2> HIDE DEF m, j
  <2> QED BY <1>5, <2>1, <2>2, <2>3, <2>4
<1>8. ASSUME NEW d \in Dialects, NegotiateAgain(c, d) PROVE Goal
  <2>1. /\ CanSend(c) /\ ntlm' = ntlm /\ down' = down
        /\ (l.failed /\ DOMAIN l.hs = {}) \/ DOMAIN l.keys # {}
    BY <1>8 DEF NegotiateAgain, MayNegotiateAgain, l
  <2>2. CASE k.useSession
    <3> DEFINE m == Reply(l, n, "negotiate", "SESSION_EXPIRED")
               j == Send(k, n)
    <3>1. /\ conn' = [conn EXCEPT ![c] = j] /\ client' = [client EXCEPT ![c] = m]
          /\ mech' = mech
      BY <1>1, <1>4, <1>8, <2>2 DEF NegotiateAgain, k, l
    <3>2. j.step = k.step /\ j.useSession = k.useSession /\ j.pending = k.pending
      BY <1>1, <1>2, <2>1, SendFields DEF IsConn
    <3>3. m.hs = l.hs /\ m.last # "setup2"
      BY <1>1, ReplyKeeps
    <3> HIDE DEF m, j
    <3> QED BY <1>5, <2>1, <3>1, <3>2, <3>3
  <2>3. CASE ~k.useSession
    <3> DEFINE m == [Reply(l, n, "negotiate", "ok") EXCEPT !.neg = ClientHash(d, <<>>, n)]
               j == NegotiateConn(k, n, d)
    <3>1. /\ conn' = [conn EXCEPT ![c] = j] /\ client' = [client EXCEPT ![c] = m]
      BY <1>1, <1>8, <2>3 DEF NegotiateAgain, k, l
    <3>2. DOMAIN l.hs = {} /\ k.serverState # "ACTIVE"
      BY <1>1, <2>1, <2>3 DEF Paired
    <3>3. j.step = k.step /\ j.useSession = k.useSession /\ j.pending = k.pending
      BY <1>1, <1>2, <2>1, <3>2, NegotiateFields DEF IsConn
    <3>4. m.hs = l.hs /\ m.last # "setup2"
      BY <1>1, ReplyKeeps
    <3> HIDE DEF m, j
    <3> QED BY <1>5, <2>1, <3>1, <3>2, <3>3, <3>4
  <2> QED BY <2>2, <2>3
<1>9. ASSUME NEW tok \in Tokens, Setup1(c, tok) PROVE Goal
  <2>1. CanSend(c) /\ down' = down /\ n \in Sids /\ DOMAIN l.hs = {} /\ k.step.sid = None
    BY <1>1, <1>2, <1>9, NoneInProgress DEF Setup1, l
  <2>2. /\ DOMAIN Challenged(l, n, k.dialect).hs = {n}
        /\ Challenged(l, n, k.dialect).last # "setup2"
    <3>1. Challenged(l, n, k.dialect).hs = With(l.hs, n, ClientHash(k.dialect, l.neg, n))
      BY <1>1, AnswerKeeps
    <3>2. DOMAIN With(l.hs, n, ClientHash(k.dialect, l.neg, n)) = DOMAIN l.hs \cup {n}
      BY DEF With
    <3> QED BY <1>1, <2>1, <3>1, <3>2, AnswerKeeps
  <2>3. CASE /\ k.useSession /\ tok # "other" /\ conn' = [conn EXCEPT ![c] = NewBinding(k, n)]
             /\ ntlm' = Challenge(c, n)
             /\ client' = [client EXCEPT ![c] = Challenged(l, n, k.dialect)] /\ mech' = mech
    <3> DEFINE h == Hash(k.dialect, k.negotiatePreauth, <<"req", n>>)
               q == [sid |-> n, mech |-> TRUE, preauth |-> h]
               k1 == [k EXCEPT !.pending = q]
               j == NewBinding(k, n)
    <3>1. h \in Hashes
      BY <1>1, <2>1, ConnFields, HashType, MessageType
    <3> HIDE DEF h
    <3>2. q \in PendingType /\ q.sid = n /\ q.mech = TRUE
      BY <2>1, <3>1 DEF PendingType
    <3> HIDE DEF q
    <3>3. k1 \in ConnType /\ k1.useSession = k.useSession /\ k1.pending = q /\ k1.step = k.step
      BY <1>1, <3>2, SetPending DEF IsConn
    <3>4. j = SendSetup(k1, n, n)
      BY DEF NewBinding, q, h
    <3> HIDE DEF k1, j
    <3>5. /\ j.useSession = k1.useSession /\ j.pending = BindingHash(k1, n, n) /\ j.step = k1.step
      BY <2>1, <3>3, <3>4, SendKeeps
    <3>6. BindingHash(k1, n, n).sid = k1.pending.sid
            /\ BindingHash(k1, n, n).mech = k1.pending.mech
      BY <2>1, <3>3, BindingFields
    <3>7. j.useSession /\ j.pending.sid = n /\ j.pending.mech /\ j.step.sid = None
      BY <2>1, <2>3, <3>2, <3>3, <3>5, <3>6
    <3>8. Ready(c, j, Challenged(l, n, k.dialect), mech, Challenge(c, n))
      BY <2>2, <3>7, ReadyChallenged
    <3> QED BY <1>3, <2>1, <2>3, <3>8 DEF j
  <2>4. CASE /\ ~k.useSession /\ conn' = [conn EXCEPT ![c] = ServerSetup(k, n)]
             /\ ntlm' = Challenge(c, n)
             /\ client' = [client EXCEPT ![c] = Challenged(l, n, k.dialect)] /\ mech' = TRUE
    <3>1. ServerSetup(k, n).useSession = k.useSession /\ ServerSetup(k, n).step = k.step
      BY <1>1, <2>1, <2>4, SetupKeeps
    <3>2. Ready(c, ServerSetup(k, n), Challenged(l, n, k.dialect), TRUE, Challenge(c, n))
      BY <2>1, <2>2, <2>4, <3>1, ReadyChallenged
    <3> QED BY <1>3, <2>1, <2>4, <3>2
  <2>5. CASE /\ SecondExpected(k) /\ conn' = [conn EXCEPT ![c] = ServerSetupRefused(k, n)]
             /\ client' = [client EXCEPT ![c] = Reply(l, n, "setup1", "LOGON_FAILURE")]
             /\ UNCHANGED <<mech, ntlm>>
    <3> DEFINE m == Reply(l, n, "setup1", "LOGON_FAILURE")
               j == ServerSetupRefused(k, n)
    <3>1. j.useSession = k.useSession /\ j.step = k.step /\ j.pending = k.pending
      BY <1>1, <2>1, <2>5, SetupKeeps DEF SecondExpected
    <3>2. m.hs = l.hs /\ m.last # "setup2"
      BY <1>1, ReplyKeeps
    <3>3. conn' = [conn EXCEPT ![c] = j] /\ client' = [client EXCEPT ![c] = m]
      BY <2>5
    <3> HIDE DEF m, j
    <3> QED BY <1>5, <2>1, <2>5, <3>1, <3>2, <3>3
  <2>6. CASE /\ k.useSession \/ k.serverState = "NEGOTIATE"
             /\ conn' = [conn EXCEPT ![c] = TokenRefused(k, n)]
             /\ client' = [client EXCEPT ![c] = TokenFailed(l, n, k.useSession)]
    <3> DEFINE m == TokenFailed(l, n, k.useSession)
               j == TokenRefused(k, n)
    <3>1. j.useSession = k.useSession /\ j.step = k.step /\ j.pending = k.pending
      <4>1. CASE k.useSession
        BY <1>1, <2>1, <4>1, SendFields DEF TokenRefused, IsConn
      <4>2. CASE ~k.useSession
        <5> DEFINE h == Hash(k.dialect, k.preauth, <<"req", n>>)
                   k1 == [k EXCEPT !.preauth = h]
        <5>1. h \in Hashes
          BY <1>1, <2>1, ConnFields, HashType, MessageType
        <5>2. j = Send(k1, n)
          BY <4>2 DEF TokenRefused
        <5> HIDE DEF h, j
        <5>3. /\ k1 \in ConnType /\ k1.useSession = k.useSession /\ k1.step = k.step
              /\ k1.pending = k.pending
          BY <1>1, <5>1, SetPreauth DEF IsConn
        <5> HIDE DEF k1
        <5> QED BY <2>1, <5>2, <5>3, SendFields DEF IsConn
      <4> QED BY <4>1, <4>2
    <3>2. m.hs = l.hs /\ m.last # "setup2"
      BY <1>1, AnswerKeeps
    <3>3. conn' = [conn EXCEPT ![c] = j] /\ client' = [client EXCEPT ![c] = m]
      BY <2>6
    <3> HIDE DEF m, j
    <3>4. Ready(c, j, m, mech', ntlm')
      BY <2>1, <3>1, <3>2, ReadyOver
    <3> QED BY <1>3, <2>1, <3>3, <3>4
  <2> QED BY <1>1, <1>9, <2>3, <2>4, <2>5, <2>6 DEF Setup1, Msg, k, l, n
<1>10. ASSUME NEW s \in Sids, NEW cred \in {"good", "bad"}, Setup2(c, s, cred) PROVE Goal
  <2> DEFINE b == Binding(c, s)
             a == Authenticate(c, s, cred)
  <2>1. /\ CanSend(c) /\ n \in Sids /\ k.step.sid = None
        /\ s \in DOMAIN l.hs /\ b \in BOOLEAN /\ (b <=> k.useSession)
    BY <1>1, <1>2, <1>10, ConnFields DEF Setup2, Binding, k, l
  <2>2. /\ \A t \in DOMAIN l.hs : s = t
        /\ ntlm.of = <<c, s>> /\ IF b THEN k.pending.mech ELSE mech
    BY <1>1, <2>1 DEF Ready
  <2>3. a \in {"user", "guest", "fail"} /\ (cred = "good" => a = "user")
    BY <2>2 DEF Authenticate
  <2> HIDE DEF b, a
  <2>4. \/ /\ a = "fail" /\ down' = down /\ ntlm' = ntlm
           /\ conn' = [conn EXCEPT ![c] = Refused(k, n, b)]
           /\ client' = [client EXCEPT ![c] = LogonFailed(l, n, s, cred)]
        \/ /\ a # "fail" /\ down' = down /\ ntlm' = [ntlm EXCEPT !.session = <<c, s>>]
           /\ conn' = [conn EXCEPT ![c] = Authenticated(k, n, s, a, b)]
           /\ client' = [client EXCEPT ![c] = Waiting(l, n, s, cred, k.dialect)]
    BY <1>1, <1>10, <2>2 DEF Setup2, Msg, k, l, n, a, b
  <2>5. CASE /\ a = "fail" /\ down' = down /\ ntlm' = ntlm
             /\ conn' = [conn EXCEPT ![c] = Refused(k, n, b)]
             /\ client' = [client EXCEPT ![c] = LogonFailed(l, n, s, cred)]
    <3> DEFINE m == LogonFailed(l, n, s, cred)
    <3>1. DOMAIN m.hs = {} /\ m.cred # "good"
      <4>1. m.hs = Without(l.hs, s) /\ m.cred = cred
        BY <1>1, AnswerKeeps
      <4>2. DOMAIN Without(l.hs, s) = DOMAIN l.hs \ {s}
        BY DEF Without
      <4> QED BY <2>2, <2>3, <2>5, <4>1, <4>2
    <3>2. Refused(k, n, b).step = k.step
      <4>1. CASE b
        <5> DEFINE k1 == [k EXCEPT !.pending = NewConn.pending]
        <5>1. k1 \in ConnType /\ k1.step = k.step
          BY <1>1, NewFields, SetPending DEF IsConn
        <5>2. Refused(k, n, b) = Send(k1, n)
          BY <4>1 DEF Refused
        <5> HIDE DEF k1
        <5> QED BY <2>1, <5>1, <5>2, SendKeeps
      <4>2. CASE ~b
        <5>1. Refused(k, n, b) = Refused(k, n, FALSE)
          BY <2>1, <4>2
        <5> QED BY <1>1, <2>1, <4>2, <5>1, SetupKeeps
      <4> QED BY <4>1, <4>2
    <3> HIDE DEF m
    <3>3. Ready(c, Refused(k, n, b), m, mech', ntlm')
      BY <2>1, <3>1, <3>2, ReadyOver
    <3> QED BY <1>3, <2>5, <3>3 DEF m
  <2>6. CASE /\ a # "fail" /\ down' = down /\ ntlm' = [ntlm EXCEPT !.session = <<c, s>>]
             /\ conn' = [conn EXCEPT ![c] = Authenticated(k, n, s, a, b)]
             /\ client' = [client EXCEPT ![c] = Waiting(l, n, s, cred, k.dialect)]
    <3> DEFINE m == Waiting(l, n, s, cred, k.dialect)
               j == Authenticated(k, n, s, a, b)
    <3>1. DOMAIN m.hs = DOMAIN l.hs
      <4>1. m.hs = Waits(l, s, Hash(k.dialect, l.hs[s], <<"req", n>>))
        BY <1>1, <2>1, WaitingClient DEF IsClient
      <4> QED BY <4>1 DEF Waits
    <3>2. m.last = "setup2" /\ m.cred = cred /\ m.reply = "none"
      BY <1>1, AnswerKeeps
    <3>3. j.step = [sid |-> s, as |-> a, binding |-> b]
      BY <1>1 DEF Authenticated, ConnType
    <3>4. ntlm'.session = <<c, s>> /\ (b \/ mech')
      BY <1>1, <1>10, <2>2, <2>6 DEF IInv, TypeInv, Servers, Setup2
    <3>5. s # None
      BY DEF Sids, None
    <3> HIDE DEF m, j
    <3>6. Ready(c, j, m, mech', ntlm')
      BY <2>2, <2>3, <3>1, <3>2, <3>3, <3>4, <3>5 DEF Ready
    <3> QED BY <1>3, <2>6, <3>6 DEF m, j
  <2> QED BY <2>4, <2>5, <2>6
<1>11. ASSUME NEW s \in Sids, SetupUnknown(c, s) PROVE Goal
  BY <1>1, <1>2, <1>11 DEF SetupUnknown, Ready, k, l
<1>12. ASSUME NEW s \in Sids, SetupKnown(c, s) PROVE Goal
  <2> DEFINE m == Reply(l, n, "reauth", "ok")
             j == SendSetup([k EXCEPT !.session = s], n, s)
  <2>1. /\ CanSend(c) /\ k.useSession /\ k.pending.sid # s /\ conn' = [conn EXCEPT ![c] = j]
        /\ client' = [client EXCEPT ![c] = m] /\ mech' = mech /\ ntlm' = ntlm /\ down' = down
    BY <1>1, <1>12 DEF SetupKnown, k, l
  <2>2. m.hs = l.hs /\ m.last # "setup2"
    BY <1>1, ReplyKeeps
  <2>3. j.step = k.step /\ j.useSession = k.useSession /\ j.pending = k.pending
    <3>1. IsConn(j, k.serverState, k.dialect, k.useSession, k.preauth, k.negotiatePreauth, s,
                 k.sessions, k.pending, k.step)
      BY <1>1, <1>2, <1>4, <2>1, QuietSend
    <3> QED BY <3>1 DEF IsConn
  <2> HIDE DEF m, j
  <2> QED BY <1>5, <2>1, <2>2, <2>3
<1>13. ASSUME NEW s \in Sids, Request(c, s) PROVE Goal
  <2> DEFINE m == Reply(l, n, "request", "ok")
             se == IF s \in DOMAIN k.sessions THEN s ELSE None
             j == Send([k EXCEPT !.session = se], n)
  <2>1. /\ CanSend(c) /\ s \in DOMAIN l.keys /\ conn' = [conn EXCEPT ![c] = j]
        /\ client' = [client EXCEPT ![c] = m] /\ mech' = mech /\ ntlm' = ntlm /\ down' = down
    BY <1>1, <1>13 DEF Request, k, l
  <2>2. m.hs = l.hs /\ m.last # "setup2"
    BY <1>1, ReplyKeeps
  <2>3. k.useSession /\ se \in Sids \cup {None}
    BY <1>1, <2>1 DEF Paired
  <2> HIDE DEF se
  <2>4. j.step = k.step /\ j.useSession = k.useSession /\ j.pending = k.pending
    <3>1. IsConn(j, k.serverState, k.dialect, k.useSession, k.preauth, k.negotiatePreauth, se,
                 k.sessions, k.pending, k.step)
      BY <1>1, <1>2, <1>4, <2>1, <2>3, QuietSend
    <3> QED BY <3>1 DEF IsConn
  <2> HIDE DEF m, j
  <2> QED BY <1>5, <2>1, <2>2, <2>4
<1>14. CASE Finish(c)
  <2> DEFINE s == k.step.sid
             m == Granted(l, s, k.step.as)
             j == FinishConn(k, l.sent, ntlm.session)
  <2>1. /\ s # None /\ conn' = [conn EXCEPT ![c] = j]
        /\ client' = [client EXCEPT ![c] = m] /\ down' = down
    BY <1>14 DEF Finish, k, l
  <2>2. s \in DOMAIN l.hs /\ k.step.as \in {"user", "guest"} /\ s <= l.sent
    BY <1>1, <2>1 DEF Paired
  <2>3. s \in Sids /\ l.hs[s] \in Hashes /\ <<>> \in Hashes
    BY <1>1, <2>2, ClientFields, MapFacts DEF Hashes
  <2>4. l.sent \in Sids
    BY <1>1, <2>2, <2>3, ClientFields DEF Sids
  <2>5. DOMAIN m.hs = {}
    <3>1. m.hs = Without(l.hs, s) /\ DOMAIN Without(l.hs, s) = DOMAIN l.hs \ {s}
      BY <1>1, AnswerKeeps DEF Without
    <3>2. \A t \in DOMAIN l.hs : s = t
      BY <1>1, <2>2 DEF Ready
    <3> QED BY <3>1, <3>2
  <2>6. m.last = "setup2" /\ m.cred = "good" => m.reply \in {"none", "user"}
    <3>1. m.cred = l.cred /\ m.reply = k.step.as
      BY <1>1, AnswerKeeps
    <3>2. l.cred = "good" => k.step.as = "user"
      BY <1>1, <2>1 DEF Ready
    <3> QED BY <3>1, <3>2
  <2>7. j.step.sid = None
    <3> DEFINE key == ntlm.session
               n0 == l.sent
    <3>1. key \in Logons
      BY <1>1 DEF IInv, TypeInv, Servers
    <3>2. j = FinishConn(k, n0, key) /\ n0 \in Sids
      BY <2>4
    <3> HIDE DEF key, n0, j
    <3>3. FinishConn(k, n0, key).step.sid = None
      BY <1>1, <2>2, <2>3, <3>1, <3>2, FinishFields DEF IsFinished
    <3> QED BY <3>2, <3>3
  <2> HIDE DEF m, j
  <2>8. Ready(c, j, m, mech', ntlm')
    BY <2>5, <2>6, <2>7, ReadyOver
  <2> QED BY <1>3, <2>1, <2>8 DEF Goal
<1>15. CASE FinishDown(c)
  <2>1. <<c, k.step.sid>> # Nobody
    BY DEF Nobody
  <2> QED BY <1>1, <1>15, <2>1 DEF FinishDown, SessionGone, Ready, k, l
<1>16. CASE Setup1Down(c)
  BY <1>1, <1>16 DEF Setup1Down, GInv, Goal
<1>17. ASSUME NEW s \in Sids, Setup2Down(c, s) PROVE Goal
  <2>1. /\ CanSend(c) /\ s \in DOMAIN l.hs /\ (Binding(c, s) <=> k.useSession)
        /\ ~HasMech(c, Binding(c, s)) \/ ntlm.of = Nobody
    BY <1>1, <1>2, <1>17 DEF Setup2Down, Binding, Ready, k, l
  <2>2. ntlm.of = <<c, s>> /\ IF k.useSession THEN k.pending.mech ELSE mech
    BY <1>1, <1>2, <2>1 DEF Ready
  <2>3. <<c, s>> # Nobody
    BY DEF Nobody
  <2> QED BY <2>1, <2>2, <2>3 DEF HasMech, k
<1> QED
  <2>1. \/ NegotiateSmb1(c)
        \/ \E d \in Dialects : Negotiate(c, d) \/ NegotiateAgain(c, d)
        \/ (\E t \in Tokens : Setup1(c, t)) \/ Setup1Down(c)
        \/ \E s \in Sids : Setup2Down(c, s)
        \/ \E s \in Sids, cred \in {"good", "bad"} : Setup2(c, s, cred)
        \/ \E s \in Sids : SetupUnknown(c, s) \/ SetupKnown(c, s) \/ Request(c, s)
        \/ Finish(c) \/ FinishDown(c)
    BY DEF Next
  <2> QED BY <1>6, <1>7, <1>8, <1>9, <1>10, <1>11, <1>12, <1>13, <1>14, <1>15, <1>16,
            <1>17, <2>1 DEF Goal

(* On a server with one connection, whose client has one handshake at a time *)
(* in progress, the right password logs its user on, and nil is dereferenced *)
(* by no second token (a first one taken for a second after a new NEGOTIATE  *)
(* does it: Setup1Down).  The negotiator and the authenticator are shared,   *)
(* so this is false of two connections: see the README.                      *)
THEOREM GoodLogonHolds ==
  ASSUME NEW c, Conns = {c}, MaxPending = 1
  PROVE  Spec => []GoodLogonSucceeds
<1>1. Init => down # "logon" /\ \A x \in Conns : Ready(x, conn[x], client[x], mech, ntlm)
  <2>1. NewClient.last = "none" /\ DOMAIN NewClient.hs = {}
    BY DEF NewClient
  <2>2. \A x, me, nt : Ready(x, NewConn, NewClient, me, nt)
    BY <2>1, NewFields DEF Ready
  <2> QED BY <2>2 DEF Init
<1>2. /\ IInv /\ IInv' /\ [Next]_vars
      /\ down # "logon" /\ \A x \in Conns : Ready(x, conn[x], client[x], mech, ntlm)
      => (down # "logon" /\ \A x \in Conns : Ready(x, conn[x], client[x], mech, ntlm))'
  <2>1. CASE Next
    BY <2>1, StepReady DEF GInv
  <2>2. CASE UNCHANGED vars
    BY <2>2 DEF vars
  <2> QED BY <2>1, <2>2
<1>3. down # "logon" /\ (\A x \in Conns : Ready(x, conn[x], client[x], mech, ntlm))
        => GoodLogonSucceeds
  BY DEF Ready, GoodLogonSucceeds
<1> QED BY <1>1, <1>2, <1>3, HandshakeInvariant, PTL DEF Spec
-----------------------------------------------------------------------------
(* One connection: the authenticator's session is that of the setup half    *)
(* done, and every session of a user has the key of its own logon.          *)
Owned(c, k, nt) ==
  /\ k.step.sid # None => nt.session = <<c, k.step.sid>>
  /\ \A s \in DOMAIN k.sessions : k.sessions[s].as = "user" => k.sessions[s].key = <<c, s>>

(* What the handlers other than the last one make of the connection.        *)
Quiet(k, n, j) ==
  \/ j = Send(k, n) \/ j = NewBinding(k, n) \/ j = TokenRefused(k, n)
  \/ ~k.useSession /\ (j = ServerSetup(k, n) \/ j = ServerSetupRefused(k, n))
  \/ ~k.useSession /\ \E d \in Dialects : j = NegotiateConn(k, n, d)
  \/ \E b \in BOOLEAN : (b \/ ~k.useSession) /\ j = Refused(k, n, b)
  \/ \E s \in Sids : j = SendSetup(k, n, s)
  \/ \E s \in Sids : j = SendSetup([k EXCEPT !.session = s], n, s)
  \/ \E s \in Sids \cup {None} : j = Send([k EXCEPT !.session = s], n)

(* ... and they leave a setup in progress alone.                            *)
LEMMA StepStays ==
  ASSUME NEW k \in ConnType, NEW n \in Sids, k.useSession <=> k.serverState = "ACTIVE", NEW j,
         Quiet(k, n, j)
  PROVE  j.step = k.step
<1>1. ASSUME NEW h \in Hashes, j = Send([k EXCEPT !.preauth = h], n) PROVE j.step = k.step
  <2> DEFINE k1 == [k EXCEPT !.preauth = h]
  <2>1. k1 \in ConnType /\ k1.step = k.step
    BY SetPreauth DEF IsConn
  <2> HIDE DEF k1
  <2>2. Send(k1, n).step = k1.step
    BY <2>1, SendKeeps
  <2> QED BY <1>1, <2>1, <2>2 DEF k1
<1>2. ASSUME NEW q \in PendingType,
             \/ j = SendSetup([k EXCEPT !.pending = q], n, n)
             \/ j = Send([k EXCEPT !.pending = q], n)
      PROVE  j.step = k.step
  <2> DEFINE k1 == [k EXCEPT !.pending = q]
  <2>1. k1 \in ConnType /\ k1.step = k.step
    BY SetPending DEF IsConn
  <2> HIDE DEF k1
  <2>2. Send(k1, n).step = k1.step /\ SendSetup(k1, n, n).step = k1.step
    BY <2>1, SendKeeps
  <2> QED BY <1>2, <2>1, <2>2 DEF k1
<1>3. ASSUME NEW s \in Sids \cup {None},
             \/ j = SendSetup([k EXCEPT !.session = s], n, s)
             \/ j = Send([k EXCEPT !.session = s], n)
      PROVE  j.step = k.step
  <2> DEFINE k1 == [k EXCEPT !.session = s]
  <2>1. k1 \in ConnType /\ k1.step = k.step
    BY SetSession DEF IsConn
  <2> HIDE DEF k1
  <2>2. Send(k1, n).step = k1.step /\ SendSetup(k1, n, s).step = k1.step
    BY <2>1, SendKeeps
  <2> QED BY <1>3, <2>1, <2>2 DEF k1
<1>4. CASE j = Send(k, n) \/ \E s \in Sids : j = SendSetup(k, n, s)
  BY <1>4, SendKeeps
<1>5. CASE j = NewBinding(k, n)
  <2> DEFINE h == Hash(k.dialect, k.negotiatePreauth, <<"req", n>>)
             q == [sid |-> n, mech |-> TRUE, preauth |-> h]
  <2>1. h \in Hashes
    BY ConnFields, HashType, MessageType
  <2> HIDE DEF h
  <2>2. q \in PendingType
    BY <2>1 DEF PendingType
  <2>3. j = SendSetup([k EXCEPT !.pending = q], n, n)
    BY <1>5 DEF NewBinding, h
  <2> HIDE DEF q
  <2> QED BY <1>2, <2>2, <2>3
<1>6. CASE j = TokenRefused(k, n)
  <2> DEFINE h == Hash(k.dialect, k.preauth, <<"req", n>>)
  <2>1. h \in Hashes
    BY ConnFields, HashType, MessageType
  <2>2. j = Send(k, n) \/ j = Send([k EXCEPT !.preauth = h], n)
    BY <1>6 DEF TokenRefused
  <2> HIDE DEF h
  <2> QED BY <1>1, <1>4, <2>1, <2>2
<1>7. CASE /\ ~k.useSession
           /\ j = ServerSetup(k, n) \/ j = ServerSetupRefused(k, n) \/ j = Refused(k, n, FALSE)
  BY <1>7, SetupKeeps
<1>8. CASE ~k.useSession /\ \E d \in Dialects : j = NegotiateConn(k, n, d)
  BY <1>8, NegotiateFields DEF IsConn
<1>9. ASSUME NEW b \in BOOLEAN, b \/ ~k.useSession, j = Refused(k, n, b) PROVE j.step = k.step
  <2>1. CASE b
    <3>1. j = Send([k EXCEPT !.pending = NewConn.pending], n)
      BY <1>9, <2>1 DEF Refused
    <3> QED BY <1>2, <3>1, NewFields
  <2>2. CASE ~b
    <3>1. j = Refused(k, n, FALSE)
      BY <1>9, <2>2
    <3> QED BY <1>7, <1>9, <2>2, <3>1
  <2> QED BY <2>1, <2>2
<1> QED BY <1>3, <1>4, <1>5, <1>6, <1>7, <1>8, <1>9 DEF Quiet

(* No answer but the last one gives a client keys.                          *)
LEMMA KeysStay ==
  ASSUME NEW l \in ClientType
  PROVE  /\ \A n, q, o, d : /\ Reply(l, n, q, o).keys = l.keys
                           /\ [Reply(l, n, q, o) EXCEPT !.neg = d].keys = l.keys
                           /\ [Reply(l, n, q, o) EXCEPT !.negotiated = TRUE, !.neg = d].keys
                                = l.keys
         /\ \A n, d : Challenged(l, n, d).keys = l.keys
         /\ \A n, u : TokenFailed(l, n, u).keys = l.keys
         /\ \A n, s : Denied(l, n, s).keys = l.keys
         /\ \A n, s, cred : LogonFailed(l, n, s, cred).keys = l.keys
         /\ \A n, s, cred, d : Waiting(l, n, s, cred, d).keys = l.keys
<1>1. \A n, q, o, d : /\ Reply(l, n, q, o).keys = l.keys
                     /\ [Reply(l, n, q, o) EXCEPT !.neg = d].keys = l.keys
                     /\ [Reply(l, n, q, o) EXCEPT !.negotiated = TRUE, !.neg = d].keys = l.keys
  BY DEF Reply, ClientType
<1>2. /\ \A n, d : Challenged(l, n, d).keys = l.keys
      /\ \A n, u : TokenFailed(l, n, u).keys = l.keys
  BY DEF Challenged, TokenFailed, Reply, ClientType
<1>3. /\ \A n, s : Denied(l, n, s).keys = l.keys
      /\ \A n, s, cred : LogonFailed(l, n, s, cred).keys = l.keys
  BY DEF Denied, LogonFailed, Reply, ClientType
<1>4. \A n, s, cred, d : Waiting(l, n, s, cred, d).keys = l.keys
  BY DEF Waiting, ClientType
<1> QED BY <1>1, <1>2, <1>3, <1>4

(* Every action of the one connection leaves its sessions their own keys.   *)
LEMMA StepOwned ==
  ASSUME IInv, Next, NEW c, Conns = {c}, Owned(c, conn[c], ntlm)
  PROVE  Owned(c, conn'[c], ntlm')
<1> DEFINE k == conn[c]
           l == client[c]
           n == l.sent + 1
           Goal == Owned(c, conn'[c], ntlm')
<1>1. /\ Owned(c, k, ntlm) /\ Paired(k, l) /\ k \in ConnType /\ l \in ClientType /\ Msg(c) = n
      /\ k.useSession <=> k.serverState = "ACTIVE"
      /\ conn' \in [Conns -> ConnType] /\ Paired(conn'[c], client'[c]) /\ Survives(k, conn'[c])
  BY StepKeeps DEF IInv, TypeInv, Msg, Paired
<1>2. CanSend(c) => k.step.sid = None /\ n \in Sids
  BY <1>1, NextMessage DEF CanSend
<1>3. ASSUME NEW j, NEW m, conn' = [conn EXCEPT ![c] = j], client' = [client EXCEPT ![c] = m]
      PROVE  conn'[c] = j /\ client'[c] = m
  BY <1>3 DEF IInv, TypeInv
<1>4. ASSUME client'[c].keys = l.keys
      PROVE  \A s \in DOMAIN conn'[c].sessions :
               conn'[c].sessions[s].as = "user" => conn'[c].sessions[s].key = <<c, s>>
  <2>1. DOMAIN conn'[c].sessions = DOMAIN k.sessions
    BY <1>1, <1>4 DEF Paired
  <2> QED BY <1>1, <2>1 DEF Owned, Survives
<1>5. ASSUME NEW j, NEW m, CanSend(c), conn' = [conn EXCEPT ![c] = j],
             client' = [client EXCEPT ![c] = m], j.step = k.step, m.keys = l.keys
      PROVE  Goal
  <2>1. conn'[c] = j /\ client'[c] = m
    BY <1>3, <1>5
  <2> QED BY <1>2, <1>4, <1>5, <2>1 DEF Owned
<1> HIDE DEF k, l, n, Goal
<1>6. CASE NegotiateSmb1(c)
  <2> DEFINE j == Send(k, n)
             m == Reply(l, n, "negotiate", "ok")
  <2>1. /\ CanSend(c) /\ conn' = [conn EXCEPT ![c] = j] /\ client' = [client EXCEPT ![c] = m]
    BY <1>1, <1>6 DEF NegotiateSmb1, k, l
  <2>2. j.step = k.step
    BY <1>1, <1>2, <2>1, StepStays DEF Quiet
  <2>3. m.keys = l.keys
    BY <1>1, KeysStay
  <2> HIDE DEF j, m
  <2> QED BY <1>5, <2>1, <2>2, <2>3 DEF Goal
<1>7. ASSUME NEW d \in Dialects, Negotiate(c, d) PROVE Goal
  <2> DEFINE j == NegotiateConn(k, n, d)
             m == [Reply(l, n, "negotiate", "ok") EXCEPT !.negotiated = TRUE,
                                          !.neg = ClientHash(d, <<>>, n)]
  <2>1. /\ CanSend(c) /\ conn' = [conn EXCEPT ![c] = j] /\ client' = [client EXCEPT ![c] = m]
        /\ ~k.useSession
    BY <1>1, <1>7 DEF Negotiate, Paired, k, l
  <2>2. j.step = k.step
    BY <1>1, <1>2, <2>1, StepStays DEF Quiet
  <2>3. m.keys = l.keys
    BY <1>1, KeysStay
  <2> HIDE DEF j, m
  <2> QED BY <1>5, <2>1, <2>2, <2>3
<1>8. ASSUME NEW d \in Dialects, NegotiateAgain(c, d) PROVE Goal
  <2>1. CanSend(c)
    BY <1>8 DEF NegotiateAgain
  <2>2. CASE k.useSession
    <3> DEFINE j == Send(k, n)
               m == Reply(l, n, "negotiate", "SESSION_EXPIRED")
    <3>1. conn' = [conn EXCEPT ![c] = j] /\ client' = [client EXCEPT ![c] = m]
      BY <1>1, <1>8, <2>2 DEF NegotiateAgain, k, l
    <3>2. j.step = k.step
      BY <1>1, <1>2, <2>1, StepStays DEF Quiet
    <3>3. m.keys = l.keys
      BY <1>1, KeysStay
    <3> HIDE DEF j, m
    <3> QED BY <1>5, <2>1, <3>1, <3>2, <3>3
  <2>3. CASE ~k.useSession
    <3> DEFINE j == NegotiateConn(k, n, d)
               m == [Reply(l, n, "negotiate", "ok") EXCEPT !.neg = ClientHash(d, <<>>, n)]
    <3>1. conn' = [conn EXCEPT ![c] = j] /\ client' = [client EXCEPT ![c] = m]
      BY <1>1, <1>8, <2>3 DEF NegotiateAgain, k, l
    <3>2. j.step = k.step
      BY <1>1, <1>2, <2>1, <2>3, StepStays DEF Quiet
    <3>3. m.keys = l.keys
      BY <1>1, KeysStay
    <3> HIDE DEF j, m
    <3> QED BY <1>5, <2>1, <3>1, <3>2, <3>3
  <2> QED BY <2>2, <2>3
<1>9. ASSUME NEW tok \in Tokens, Setup1(c, tok) PROVE Goal
  <2>1. PICK j, m : /\ CanSend(c) /\ conn' = [conn EXCEPT ![c] = j]
                    /\ client' = [client EXCEPT ![c] = m]
                    /\ \/ j = NewBinding(k, n) \/ j = TokenRefused(k, n)
                       \/ ~k.useSession /\ (j = ServerSetup(k, n) \/ j = ServerSetupRefused(k, n))
                    /\ \/ m = Challenged(l, n, k.dialect) \/ m = TokenFailed(l, n, k.useSession)
                       \/ m = Reply(l, n, "setup1", "LOGON_FAILURE")
    <3>1. CanSend(c) /\ Msg(c) = n /\ conn[c] = k /\ client[c] = l
      BY <1>1, <1>9 DEF Setup1, k, l
    <3>2. \/ /\ conn' = [conn EXCEPT ![c] = NewBinding(k, n)]
             /\ client' = [client EXCEPT ![c] = Challenged(l, n, k.dialect)]
          \/ /\ ~k.useSession /\ conn' = [conn EXCEPT ![c] = ServerSetup(k, n)]
             /\ client' = [client EXCEPT ![c] = Challenged(l, n, k.dialect)]
          \/ /\ ~k.useSession /\ conn' = [conn EXCEPT ![c] = ServerSetupRefused(k, n)]
             /\ client' = [client EXCEPT ![c] = Reply(l, n, "setup1", "LOGON_FAILURE")]
          \/ /\ conn' = [conn EXCEPT ![c] = TokenRefused(k, n)]
             /\ client' = [client EXCEPT ![c] = TokenFailed(l, n, k.useSession)]
      BY <1>9, <3>1 DEF Setup1, SecondExpected
    <3> QED BY <3>1, <3>2
  <2>2. Quiet(k, n, j)
    BY <2>1 DEF Quiet
  <2>3. j.step = k.step
    BY <1>1, <1>2, <2>1, <2>2, StepStays
  <2>4. m.keys = l.keys
    BY <1>1, <2>1, KeysStay
  <2> QED BY <1>5, <2>1, <2>3, <2>4
<1>10. ASSUME NEW s \in Sids, NEW cred \in {"good", "bad"}, Setup2(c, s, cred) PROVE Goal
  <2> DEFINE b == Binding(c, s)
             a == Authenticate(c, s, cred)
  <2>1. /\ CanSend(c) /\ b \in BOOLEAN /\ (b \/ ~k.useSession)
    BY <1>1, <1>10, ConnFields DEF Setup2, Binding, k
  <2> HIDE DEF b, a
  <2>2. CASE /\ conn' = [conn EXCEPT ![c] = Refused(k, n, b)]
             /\ client' = [client EXCEPT ![c] = LogonFailed(l, n, s, cred)]
    <3> DEFINE j == Refused(k, n, b)
               m == LogonFailed(l, n, s, cred)
    <3>1. conn' = [conn EXCEPT ![c] = j] /\ client' = [client EXCEPT ![c] = m]
      BY <2>2
    <3>2. \E x \in BOOLEAN : (x \/ ~k.useSession) /\ j = Refused(k, n, x)
      BY <2>1
    <3>3. m.keys = l.keys
      BY <1>1, KeysStay
    <3> HIDE DEF j, m
    <3>4. Quiet(k, n, j)
      BY <3>2 DEF Quiet
    <3>5. j.step = k.step
      BY <1>1, <1>2, <2>1, <3>4, StepStays
    <3> QED BY <1>5, <2>1, <3>1, <3>3, <3>5
  <2>3. CASE /\ ntlm' = [ntlm EXCEPT !.session = <<c, s>>]
             /\ conn' = [conn EXCEPT ![c] = Authenticated(k, n, s, a, b)]
             /\ client' = [client EXCEPT ![c] = Waiting(l, n, s, cred, k.dialect)]
    <3> DEFINE j == Authenticated(k, n, s, a, b)
               m == Waiting(l, n, s, cred, k.dialect)
    <3>1. j.step = [sid |-> s, as |-> a, binding |-> b]
      BY <1>1 DEF Authenticated, ConnType
    <3>2. m.keys = l.keys
      BY <1>1, KeysStay
    <3>3. conn'[c] = j /\ client'[c] = m
      BY <1>3, <2>3
    <3>4. ntlm'.session = <<c, s>>
      BY <2>3 DEF IInv, TypeInv, Servers
    <3> HIDE DEF j, m
    <3> QED BY <1>4, <3>1, <3>2, <3>3, <3>4 DEF Owned, Goal
  <2> QED BY <1>1, <1>10, <2>2, <2>3 DEF Setup2, Msg, k, l, n, a, b
<1>11. ASSUME NEW s \in Sids, SetupUnknown(c, s) PROVE Goal
  <2> DEFINE j == SendSetup(k, n, s)
             m == Denied(l, n, s)
  <2>1. /\ CanSend(c) /\ conn' = [conn EXCEPT ![c] = j] /\ client' = [client EXCEPT ![c] = m]
    BY <1>1, <1>11 DEF SetupUnknown, k, l
  <2>2. j.step = k.step
    BY <1>1, <1>2, <2>1, StepStays DEF Quiet
  <2>3. m.keys = l.keys
    BY <1>1, KeysStay
  <2> HIDE DEF j, m
  <2> QED BY <1>5, <2>1, <2>2, <2>3
<1>12. ASSUME NEW s \in Sids, SetupKnown(c, s) PROVE Goal
  <2> DEFINE j == SendSetup([k EXCEPT !.session = s], n, s)
             m == Reply(l, n, "reauth", "ok")
  <2>1. /\ CanSend(c) /\ conn' = [conn EXCEPT ![c] = j] /\ client' = [client EXCEPT ![c] = m]
    BY <1>1, <1>12 DEF SetupKnown, k, l
  <2>2. j.step = k.step
    BY <1>1, <1>2, <2>1, StepStays DEF Quiet
  <2>3. m.keys = l.keys
    BY <1>1, KeysStay
  <2> HIDE DEF j, m
  <2> QED BY <1>5, <2>1, <2>2, <2>3
<1>13. ASSUME NEW s \in Sids, Request(c, s) PROVE Goal
  <2> DEFINE se == IF s \in DOMAIN k.sessions THEN s ELSE None
             j == Send([k EXCEPT !.session = se], n)
             m == Reply(l, n, "request", "ok")
  <2>1. CanSend(c) /\ conn' = [conn EXCEPT ![c] = j] /\ client' = [client EXCEPT ![c] = m]
    BY <1>1, <1>13 DEF Request, k, l
  <2>2. se \in Sids \cup {None}
    OBVIOUS
  <2> HIDE DEF se
  <2>3. j.step = k.step
    BY <1>1, <1>2, <2>1, <2>2, StepStays DEF Quiet
  <2>4. m.keys = l.keys
    BY <1>1, KeysStay
  <2> HIDE DEF j, m
  <2> QED BY <1>5, <2>1, <2>3, <2>4
<1>14. CASE Finish(c)
  <2> DEFINE s == k.step.sid
             key == ntlm.session
             n0 == l.sent
             j == FinishConn(k, n0, key)
  <2>1. s # None /\ conn'[c] = j /\ ntlm' = ntlm
    BY <1>14 DEF Finish, IInv, TypeInv, k, l
  <2>2. key \in Logons
    BY DEF IInv, TypeInv, Servers
  <2>3. k.step.as \in {"user", "guest"} /\ s \in Sids /\ n0 \in Sids
    <3>1. k.step.as \in {"user", "guest"} /\ s \in DOMAIN l.hs /\ s <= n0
      BY <1>1, <2>1 DEF Paired
    <3> QED BY <1>1, <3>1, ClientFields, MapFacts, BoundsAssumption DEF Sids
  <2>4. key = <<c, s>>
    BY <1>1, <2>1 DEF Owned
  <2> HIDE DEF n0, key, j
  <2>5. IsFinished(k, key, j)
    BY <1>1, <2>2, <2>3, FinishFields DEF j
  <2>6. NewSession(k, key).as = "user" => NewSession(k, key).key = key
    BY DEF NewSession
  <2>7. j.step.sid = None /\ j.sessions = With(k.sessions, s, NewSession(k, key))
    BY <2>5 DEF IsFinished
  <2>8. ASSUME NEW x \in DOMAIN j.sessions, j.sessions[x].as = "user"
        PROVE  j.sessions[x].key = <<c, x>>
    <3>1. CASE x = s
      BY <2>4, <2>6, <2>7, <2>8, <3>1 DEF With
    <3>2. CASE x # s
      <4>1. x \in DOMAIN k.sessions /\ j.sessions[x] = k.sessions[x]
        BY <2>7, <3>2 DEF With
      <4> QED BY <1>1, <2>8, <4>1 DEF Owned
    <3> QED BY <3>1, <3>2
  <2> QED BY <2>1, <2>7, <2>8 DEF Owned, Goal
<1>15. CASE FinishDown(c) \/ Setup1Down(c) \/ \E s \in Sids : Setup2Down(c, s)
  <2>1. UNCHANGED <<conn, client, mech, ntlm>>
    BY <1>15 DEF FinishDown, Setup1Down, Setup2Down
  <2> QED BY <1>1, <2>1 DEF Goal, Owned, k
<1> QED
  <2>1. \/ NegotiateSmb1(c)
        \/ \E d \in Dialects : Negotiate(c, d) \/ NegotiateAgain(c, d)
        \/ (\E t \in Tokens : Setup1(c, t)) \/ Setup1Down(c)
        \/ \E s \in Sids : Setup2Down(c, s)
        \/ \E s \in Sids, cred \in {"good", "bad"} : Setup2(c, s, cred)
        \/ \E s \in Sids : SetupUnknown(c, s) \/ SetupKnown(c, s) \/ Request(c, s)
        \/ Finish(c) \/ FinishDown(c)
    BY DEF Next
  <2> QED BY <1>6, <1>7, <1>8, <1>9, <1>10, <1>11, <1>12, <1>13, <1>14, <1>15, <2>1 DEF Goal

(* On a server with one connection every session of a user has the key of   *)
(* its own logon, and the hash its client has, however many bindings are in *)
(* progress: authenticate and the read of the key that follows it belong to *)
(* one request.  (Of two connections only the hashes agree: the other's     *)
(* logon may come between.)                                                 *)
THEOREM KeysAgreeHolds ==
  ASSUME NEW c, Conns = {c}
  PROVE  Spec => []KeysAgree
<1>1. Init => Owned(c, conn[c], ntlm)
  <2>1. conn[c] = NewConn => Owned(c, conn[c], ntlm)
    BY NewFields DEF Owned
  <2> QED BY <2>1 DEF Init
<1>2. IInv /\ Owned(c, conn[c], ntlm) /\ [Next]_vars => Owned(c, conn[c], ntlm)'
  <2>1. CASE Next
    BY <2>1, StepOwned
  <2>2. CASE UNCHANGED vars
    BY <2>2 DEF vars, Owned
  <2> QED BY <2>1, <2>2
<1>3. HashesAgree /\ Owned(c, conn[c], ntlm) => KeysAgree
  BY DEF KeysAgree, Owned
<1> QED BY <1>1, <1>2, <1>3, HandshakeInvariant, HashesAgreeHolds, PTL DEF Spec
=============================================================================
