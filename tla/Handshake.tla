----------------------------- MODULE Handshake -----------------------------
(***************************************************************************)
(* NEGOTIATE and SESSION_SETUP on the connections of one server            *)
(* (smb/server/server.go, conn.go, spnego.go, authenticator.go): the state *)
(* machine of a connection, the session bindings on an active connection,  *)
(* the pre-authentication hash of SMB 3.1.1, and the negotiator and NTLM   *)
(* authenticator that all connections share.                               *)
(*                                                                         *)
(* A hash is modelled by the sequence of messages hashed into it.  Message *)
(* n of a connection is <<"req", n>>, its response <<"rsp", n>>.  A random *)
(* session id is modelled by the number of the request that created it.    *)
(* A client sends one request, waits for the response and takes part in    *)
(* the hashing as the protocol prescribes.  Run serves a connection's      *)
(* requests one after the other, so a handler is one action, except where  *)
(* it reads the shared authenticator a second time (Finish).  A session    *)
(* key is modelled by the logon it comes from.                             *)
(***************************************************************************)
EXTENDS Naturals, Sequences, FiniteSets

CONSTANTS Conns,        \* connections
          Dialects,     \* what clients may offer as their best dialect
          Tokens,       \* first tokens: NTLM in SPNEGO or "raw", or "other"
          AllowGuest,   \* NTLMAuthenticator.AllowGuest
          MaxMsgs,      \* bound: requests per connection
          MaxPending    \* bound: handshakes a client has in progress at once

ASSUME DialectsAssumption == Dialects \subseteq {"SMB210", "SMB300", "SMB311"}
ASSUME TokensAssumption == Tokens \subseteq {"ntlm", "raw", "other"}
ASSUME BoundsAssumption == MaxMsgs \in Nat /\ MaxPending \in Nat
ASSUME GuestAssumption == AllowGuest \in BOOLEAN

VARIABLES conn,    \* per connection, the fields of the conn struct below
          client,  \* per connection, what its client knows
          mech,    \* serverCtx.negotiator.Spnego.selectedMech # nil
          ntlm,    \* authenticator.ntlm: whose challenge it holds (<<>>: of
                   \* nobody), and which logon set its session (<<>>: nil)
          down     \* the process died: "no", or in a "first" or later ("logon")
                   \* step of a handshake

vars == <<conn, client, mech, ntlm, down>>

Sids == 1 .. MaxMsgs
None == 0
Messages == {"req", "rsp"} \X Sids
Outcomes == {"none", "ok", "challenge", "user", "guest", "LOGON_FAILURE",
             "ACCESS_DENIED", "SESSION_EXPIRED"}
Nobody == <<>>
Logons == (Conns \X Sids) \cup {Nobody}
NoServer == [of |-> Nobody, session |-> Nobody]

(* serverState, dialect, the hash fields, _useSession, the active session,   *)
(* the sessions with the hash and the session key their keys come from, and  *)
(* pendingSetup.                                                             *)
(* `step` is the second step of a setup a handler still owes.                *)
NewConn == [serverState |-> "NEGOTIATE", dialect |-> "none", useSession |-> FALSE,
            preauth |-> <<>>, negotiatePreauth |-> <<>>,
            session |-> None, sessions |-> [s \in {} |-> <<>>],
            pending |-> [sid |-> None, preauth |-> <<>>, mech |-> FALSE],
            step |-> [sid |-> None, as |-> "none", binding |-> FALSE]]

(* The client's message counter, its hash after NEGOTIATE, the hash of each  *)
(* handshake in progress, the final hash of each session it was granted, the *)
(* last request with its outcome, and (history) whether a first token was    *)
(* refused before there was a session.                                       *)
NewClient == [sent |-> 0, neg |-> <<>>, negotiated |-> FALSE, failed |-> FALSE, stained |-> FALSE,
              hs |-> [s \in {} |-> <<>>], keys |-> [s \in {} |-> <<>>],
              last |-> "none", cred |-> "none", reply |-> "none"]

Init ==
  /\ conn = [c \in Conns |-> NewConn]
  /\ client = [c \in Conns |-> NewClient]
  /\ mech = FALSE
  /\ ntlm = NoServer
  /\ down = "no"

-----------------------------------------------------------------------------
(* Hashing. *)

(* calcPreauthHash. *)
Hash(d, h, m) == IF d = "SMB311" THEN Append(h, m) ELSE h

(* What sendPacket does to the connection's hash: only before the session is *)
(* active.                                                                   *)
HashResponse(k, n) ==
  IF k.serverState \in {"NEGOTIATE", "SESSION_SETUP", "CHALLENGE"}
  THEN [k EXCEPT !.preauth = Hash(k.dialect, @, <<"rsp", n>>)]
  ELSE k

(* Faulty: every SESSION_SETUP response is hashed into the pending binding. *)
HashBindingAnySession(k, n, sid) ==
  IF k.pending.sid # None
  THEN [k EXCEPT !.pending.preauth = Hash(k.dialect, @, <<"rsp", n>>)]
  ELSE k

(* ... and to the hash of the pending binding, for a SESSION_SETUP response  *)
(* that carries the pending session's id.                                    *)
HashBinding(k, n, sid) ==
  IF k.pending.sid # None /\ k.pending.sid = sid
  THEN [k EXCEPT !.pending.preauth = Hash(k.dialect, @, <<"rsp", n>>)]
  ELSE k

(* The client hashes its request and the response to it. *)
ClientHash(d, h, n) == Hash(d, Hash(d, h, <<"req", n>>), <<"rsp", n>>)

Send(k, n) == HashResponse(k, n)
SendSetup(k, n, sid) == HashBinding(HashResponse(k, n), n, sid)

With(f, s, v) == [x \in DOMAIN f \cup {s} |-> IF x = s THEN v ELSE f[x]]
Without(f, s) == [x \in DOMAIN f \ {s} |-> f[x]]

(* The next message number of c's client, who is not waiting for a response. *)
CanSend(c) == down = "no" /\ conn[c].step.sid = None /\ client[c].sent < MaxMsgs
Msg(c) == client[c].sent + 1

Reply(k, n, req, out) == [k EXCEPT !.sent = n, !.last = req, !.reply = out]

-----------------------------------------------------------------------------
(* negotiate and ServerNegotiator.negotiate. *)

(* An SMB1 multi-protocol NEGOTIATE: answered, and nothing else changes (the *)
(* dialect is not chosen yet, so the response is not hashed).                *)
NegotiateSmb1(c) ==
  /\ CanSend(c) /\ client[c].sent = 0
  /\ conn' = [conn EXCEPT ![c] = Send(@, Msg(c))]
  /\ client' = [client EXCEPT ![c] = Reply(@, Msg(c), "negotiate", "ok")]
  /\ UNCHANGED <<mech, ntlm, down>>

(* The dialect is set, a fresh SPNEGO server is installed for the WHOLE      *)
(* server, and the hash over request and response is kept for bindings.      *)
NegotiateConn(k, n, d) ==
  LET k1 == [k EXCEPT !.dialect = d, !.preauth = Hash(d, @, <<"req", n>>)]
      k2 == Send(k1, n)
  IN  [k2 EXCEPT !.negotiatePreauth = k2.preauth]

Negotiate(c, d) ==
  /\ CanSend(c) /\ ~client[c].negotiated
  /\ conn' = [conn EXCEPT ![c] = NegotiateConn(@, Msg(c), d)]
  /\ client' = [client EXCEPT ![c] =
       [Reply(@, Msg(c), "negotiate", "ok") EXCEPT !.negotiated = TRUE,
          !.neg = ClientHash(d, <<>>, Msg(c))]]
  /\ mech' = FALSE
  /\ UNCHANGED <<ntlm, down>>

(* A client does not negotiate in the middle of its first handshake. *)
MayNegotiateAgain(c) ==
  (client[c].failed /\ DOMAIN client[c].hs = {}) \/ DOMAIN client[c].keys # {}

(* Faulty: a NEGOTIATE is always obeyed. *)
NegotiateAgainObeyed(c, d) ==
  /\ CanSend(c) /\ MayNegotiateAgain(c)
  /\ conn' = [conn EXCEPT ![c] = NegotiateConn(@, Msg(c), d)]
  /\ client' = [client EXCEPT ![c] =
       [Reply(@, Msg(c), "negotiate", "ok") EXCEPT !.neg = ClientHash(d, <<>>, Msg(c))]]
  /\ mech' = FALSE
  /\ UNCHANGED <<ntlm, down>>

(* "Some Windows clients probe with extra negotiate/session traffic on the   *)
(* same TCP connection": refused once a session is in use, else as the first *)
(* NEGOTIATE, in whatever state the connection is.                           *)
NegotiateAgain(c, d) ==
  LET refused == conn[c].serverState # "NEGOTIATE" /\ conn[c].useSession IN
  /\ CanSend(c) /\ MayNegotiateAgain(c)
  /\ \/ /\ refused
        /\ conn' = [conn EXCEPT ![c] = Send(@, Msg(c))]
        /\ client' = [client EXCEPT ![c] = Reply(@, Msg(c), "negotiate", "SESSION_EXPIRED")]
        /\ UNCHANGED mech
     \/ /\ ~refused
        /\ conn' = [conn EXCEPT ![c] = NegotiateConn(@, Msg(c), d)]
        /\ client' = [client EXCEPT ![c] =
             [Reply(@, Msg(c), "negotiate", "ok") EXCEPT !.neg = ClientHash(d, <<>>, Msg(c))]]
        /\ mech' = FALSE
  /\ UNCHANGED <<ntlm, down>>

-----------------------------------------------------------------------------
(* SESSION_SETUP with session id 0 and a first NTLM token. *)

(* NTLMAuthenticator.challenge installs a new ntlm.Server for everybody. *)
Challenge(c, n) == [of |-> <<c, n>>, session |-> Nobody]

(* sessionServerSetup. *)
ServerSetup(k, n) ==
  Send([k EXCEPT !.preauth = Hash(k.dialect, @, <<"req", n>>),
                 !.serverState = "CHALLENGE"], n)

(* sessionServerSetupChallenge handed a first token: it is no NegTokenResp,  *)
(* or no NTLM Authenticate message, so authenticate fails.                   *)
SecondExpected(k) == ~k.useSession /\ k.serverState \in {"SESSION_SETUP", "CHALLENGE"}

ServerSetupRefused(k, n) ==
  Send([k EXCEPT !.preauth = Hash(k.dialect, @, <<"req", n>>),
                 !.serverState = "SESSION_SETUP"], n)

(* Faulty: the binding continues the hash of the first session. *)
NewBindingFromFirst(k, n) ==
  SendSetup([k EXCEPT !.pending = [sid |-> n, mech |-> TRUE,
               preauth |-> Hash(k.dialect, k.preauth, <<"req", n>>)]], n, n)

(* Faulty: the challenge is not asked of the binding's own SPNEGO server. *)
NewBindingNoMech(k, n) ==
  SendSetup([k EXCEPT !.pending = [sid |-> n, mech |-> FALSE,
               preauth |-> Hash(k.dialect, k.negotiatePreauth, <<"req", n>>)]], n, n)

(* sessionSetupNewBinding. *)
NewBinding(k, n) ==
  SendSetup([k EXCEPT !.pending = [sid |-> n, mech |-> TRUE,
               preauth |-> Hash(k.dialect, k.negotiatePreauth, <<"req", n>>)]], n, n)

(* Both answer a first token of another mechanism with a logon failure and   *)
(* keep the state; the exchange stays in the connection's hash.  (If another *)
(* connection has selected a mechanism in the shared SPNEGO server, the token *)
(* is given to it: a new ntlm.Server that issues no challenge.)              *)
TokenRefused(k, n) ==
  IF k.useSession THEN Send(k, n)
  ELSE Send([k EXCEPT !.preauth = Hash(k.dialect, @, <<"req", n>>)], n)

(* The client begins a handshake: the first one, one more on an active       *)
(* connection, or one after a failure.                                       *)
MayStart(c) ==
  /\ client[c].negotiated
  /\ \/ DOMAIN client[c].hs = {} /\ (client[c].failed \/ client[c].last = "negotiate")
     \/ DOMAIN client[c].keys # {}

Challenged(k, n, d) ==
  [Reply(k, n, "setup1", "challenge") EXCEPT
     !.hs = With(@, n, ClientHash(d, k.neg, n))]

(* A first token of another mechanism was refused. *)
TokenFailed(k, n, used) ==
  [Reply(k, n, "token", "LOGON_FAILURE") EXCEPT
     !.failed = TRUE, !.stained = @ \/ ~used]

Setup1(c, tok) ==
  LET n == Msg(c)
      k == conn[c]
  IN
  /\ CanSend(c) /\ MayStart(c)
  /\ Cardinality(DOMAIN client[c].hs) < MaxPending
  /\ \/ /\ k.useSession /\ tok # "other"
        /\ conn' = [conn EXCEPT ![c] = NewBinding(@, n)]
        /\ ntlm' = Challenge(c, n)
        /\ client' = [client EXCEPT ![c] = Challenged(@, n, k.dialect)]
        /\ UNCHANGED mech
     \/ /\ ~k.useSession /\ k.serverState = "NEGOTIATE" /\ tok # "other"
        /\ conn' = [conn EXCEPT ![c] = ServerSetup(@, n)]
        /\ mech' = TRUE
        /\ ntlm' = Challenge(c, n)
        /\ client' = [client EXCEPT ![c] = Challenged(@, n, k.dialect)]
     \/ /\ SecondExpected(k) /\ (tok = "raw" => mech)
        /\ conn' = [conn EXCEPT ![c] = ServerSetupRefused(@, n)]
        /\ client' = [client EXCEPT ![c] = Reply(@, n, "setup1", "LOGON_FAILURE")]
        /\ UNCHANGED <<mech, ntlm>>
     \/ /\ k.useSession \/ k.serverState = "NEGOTIATE"
        /\ tok = "other"
        /\ conn' = [conn EXCEPT ![c] = TokenRefused(@, n)]
        /\ client' = [client EXCEPT ![c] = TokenFailed(@, n, k.useSession)]
        /\ ntlm' = IF ~k.useSession /\ mech THEN NoServer ELSE ntlm
        /\ UNCHANGED mech
  /\ UNCHANGED down

(* A raw NTLM token taken for a second one goes straight to selectedMech,    *)
(* which a NEGOTIATE since then has made nil.                                *)
Setup1Down(c) ==
  /\ CanSend(c) /\ MayStart(c) /\ "raw" \in Tokens
  /\ SecondExpected(conn[c]) /\ ~mech
  /\ down' = "first"
  /\ UNCHANGED <<conn, client, mech, ntlm>>

-----------------------------------------------------------------------------
(* SESSION_SETUP with the id of a handshake and the second NTLM token. *)

(* NTLM Authenticate: the proof answers the challenge the server holds. *)
Authenticate(c, sid, cred) ==
  IF cred = "good" /\ ntlm.of = <<c, sid>> THEN "user"
  ELSE IF AllowGuest THEN "guest" ELSE "fail"

(* sessionServerSetupChallenge and sessionSetupCompleteBinding up to and     *)
(* including authenticate.                                                   *)
Authenticated(k, n, sid, as, binding) ==
  [k EXCEPT !.step = [sid |-> sid, as |-> as, binding |-> binding],
            !.preauth = IF binding THEN @ ELSE Hash(k.dialect, @, <<"req", n>>),
            !.pending.preauth = IF binding THEN Hash(k.dialect, @, <<"req", n>>) ELSE @]

(* Their error path: the connection goes back to STATE_SESSION_SETUP, the    *)
(* binding is forgotten.                                                     *)
Refused(k, n, binding) ==
  IF binding
  THEN Send([k EXCEPT !.pending = NewConn.pending], n)
  ELSE Send([k EXCEPT !.preauth = Hash(k.dialect, @, <<"req", n>>),
                      !.serverState = "SESSION_SETUP"], n)

Binding(c, sid) == conn[c].useSession /\ conn[c].pending.sid = sid

(* The client after a refused logon, and while it waits for the result. *)
LogonFailed(k, n, sid, cred) ==
  [Reply(k, n, "setup2", "LOGON_FAILURE") EXCEPT
     !.hs = Without(@, sid), !.failed = TRUE, !.cred = cred]
Waiting(k, n, sid, cred, d) ==
  [k EXCEPT !.sent = n, !.last = "setup2", !.cred = cred, !.reply = "none",
            !.hs[sid] = Hash(d, @, <<"req", n>>)]

HasMech(c, binding) == IF binding THEN conn[c].pending.mech ELSE mech

Setup2(c, sid, cred) ==
  LET n == Msg(c)
      b == Binding(c, sid)
      r == Authenticate(c, sid, cred)
      k == client[c]
  IN
  /\ CanSend(c) /\ sid \in DOMAIN k.hs
  /\ b \/ ~conn[c].useSession
  /\ HasMech(c, b) /\ (ntlm.of = Nobody => cred = "bad")
  /\ \/ /\ r = "fail"
        /\ conn' = [conn EXCEPT ![c] = Refused(@, n, b)]
        /\ client' = [client EXCEPT ![c] = LogonFailed(@, n, sid, cred)]
        /\ UNCHANGED ntlm
     \/ /\ r # "fail"
        /\ conn' = [conn EXCEPT ![c] = Authenticated(@, n, sid, r, b)]
        /\ client' = [client EXCEPT ![c] = Waiting(@, n, sid, cred, conn[c].dialect)]
        /\ ntlm' = [ntlm EXCEPT !.session = <<c, sid>>]
  /\ UNCHANGED <<mech, down>>

(* authenticate calls selectedMech, which a NEGOTIATE of any connection may  *)
(* have set to nil; and Authenticate reads the challenge of an ntlm.Server   *)
(* that has none, if the user exists.                                        *)
Setup2Down(c, sid) ==
  /\ CanSend(c) /\ sid \in DOMAIN client[c].hs
  /\ Binding(c, sid) \/ ~conn[c].useSession
  /\ ~HasMech(c, Binding(c, sid)) \/ ntlm.of = Nobody
  /\ down' = "logon"
  /\ UNCHANGED <<conn, client, mech, ntlm>>

(* The rest of the two handlers: the session, its keys from the hash and the *)
(* session key the authenticator has now, setSession, the response,          *)
(* enableSession.                                                            *)
NewSession(k, key) ==
  [as |-> k.step.as, key |-> IF k.step.as = "user" THEN key ELSE Nobody,
   preauth |-> IF k.step.as # "user" \/ k.dialect # "SMB311" THEN <<>>
               ELSE IF k.step.binding THEN k.pending.preauth ELSE k.preauth]

FinishConn(k, n, key) ==
  LET s  == k.step.sid
      k1 == [k EXCEPT !.sessions = With(@, s, NewSession(k, key)), !.session = s,
                      !.serverState = "ACTIVE", !.step = NewConn.step]
      k2 == SendSetup(k1, n, s)
  IN  [k2 EXCEPT !.useSession = TRUE, !.pending = IF k.step.binding THEN NewConn.pending ELSE @]

(* infoMap and sessionKey dereference the authenticator's session, which a   *)
(* challenge to another client has just removed; and sessionKey selectedMech, *)
(* which a NEGOTIATE of another client has just removed.                     *)
SessionGone(k) ==
  \/ ntlm.session = Nobody /\ (k.step.as = "user" \/ (~k.step.binding /\ mech))
  \/ ~k.step.binding /\ ~mech /\ k.step.as = "user"

FinishDown(c) ==
  /\ down = "no" /\ conn[c].step.sid # None /\ SessionGone(conn[c])
  /\ down' = "logon"
  /\ UNCHANGED <<conn, client, mech, ntlm>>

(* The client is granted session s. *)
Granted(k, s, as) ==
  [k EXCEPT !.reply = as, !.hs = Without(@, s), !.failed = FALSE,
            !.keys = With(@, s, IF as = "user" THEN k.hs[s] ELSE <<>>)]

Finish(c) ==
  LET s == conn[c].step.sid IN
  /\ down = "no" /\ s # None /\ ~SessionGone(conn[c])
  /\ conn' = [conn EXCEPT ![c] = FinishConn(@, client[c].sent, ntlm.session)]
  /\ client' = [client EXCEPT ![c] = Granted(@, s, conn[c].step.as)]
  /\ UNCHANGED <<mech, ntlm, down>>

-----------------------------------------------------------------------------
(* The other SESSION_SETUP requests on an active connection, and the other   *)
(* commands, which setActiveSession routes.                                  *)

(* An id that is neither pending nor known. *)
Denied(k, n, sid) ==
  [Reply(k, n, "setup2", "ACCESS_DENIED") EXCEPT !.hs = Without(@, sid), !.cred = "good"]

SetupUnknown(c, sid) ==
  /\ CanSend(c) /\ conn[c].useSession /\ sid \in DOMAIN client[c].hs
  /\ conn[c].pending.sid # sid /\ sid \notin DOMAIN conn[c].sessions
  /\ conn' = [conn EXCEPT ![c] = SendSetup(@, Msg(c), sid)]
  /\ client' = [client EXCEPT ![c] = Denied(@, Msg(c), sid)]
  /\ UNCHANGED <<mech, ntlm, down>>

(* The id of a session: confirmed without a second logon. *)
SetupKnown(c, sid) ==
  /\ CanSend(c) /\ conn[c].useSession /\ sid \in DOMAIN conn[c].sessions
  /\ conn[c].pending.sid # sid
  /\ conn' = [conn EXCEPT ![c] = SendSetup([@ EXCEPT !.session = sid], Msg(c), sid)]
  /\ client' = [client EXCEPT ![c] = Reply(@, Msg(c), "reauth", "ok")]
  /\ UNCHANGED <<mech, ntlm, down>>

(* Any other request of a session (LOGOFF, which only answers, included).    *)
Request(c, sid) ==
  /\ CanSend(c) /\ sid \in DOMAIN client[c].keys
  /\ conn' = [conn EXCEPT ![c] =
       Send([@ EXCEPT !.session = IF sid \in DOMAIN conn[c].sessions THEN sid ELSE None], Msg(c))]
  /\ client' = [client EXCEPT ![c] = Reply(@, Msg(c), "request", "ok")]
  /\ UNCHANGED <<mech, ntlm, down>>

Next == \E c \in Conns :
  \/ NegotiateSmb1(c)
  \/ \E d \in Dialects : Negotiate(c, d) \/ NegotiateAgain(c, d)
  \/ (\E t \in Tokens : Setup1(c, t)) \/ Setup1Down(c)
  \/ \E s \in Sids : Setup2Down(c, s)
  \/ \E s \in Sids, cred \in {"good", "bad"} : Setup2(c, s, cred)
  \/ \E s \in Sids : SetupUnknown(c, s) \/ SetupKnown(c, s) \/ Request(c, s)
  \/ Finish(c) \/ FinishDown(c)

Spec == Init /\ [][Next]_vars

-----------------------------------------------------------------------------
Hashes == Seq(Messages)
SessionRecords == [as : {"user", "guest"}, key : Logons, preauth : Hashes]

Servers == [of : Logons, session : Logons]
Downs == {"no", "first", "logon"}

TypeOK ==
  /\ mech \in BOOLEAN /\ down \in Downs
  /\ ntlm \in Servers
  /\ \A c \in Conns :
       /\ conn[c].serverState \in {"NEGOTIATE", "SESSION_SETUP", "CHALLENGE", "ACTIVE"}
       /\ conn[c].dialect \in Dialects \cup {"none"}
       /\ conn[c].useSession \in BOOLEAN
       /\ conn[c].preauth \in Hashes /\ conn[c].negotiatePreauth \in Hashes
       /\ conn[c].session \in Sids \cup {None}
       /\ DOMAIN conn[c].sessions \subseteq Sids
       /\ \A s \in DOMAIN conn[c].sessions : conn[c].sessions[s] \in SessionRecords
       /\ conn[c].pending \in [sid : Sids \cup {None}, preauth : Hashes, mech : BOOLEAN]
       /\ conn[c].step \in [sid : Sids \cup {None}, as : {"none", "user", "guest"},
                            binding : BOOLEAN]

(* Both ends derive the keys of an SMB 3.1.1 session from the same hash:     *)
(* whatever else happens on this or another connection between the messages  *)
(* of its handshake, the server has hashed exactly these.  (A first token    *)
(* that was refused before there was a session stays in the connection's     *)
(* hash.)                                                                    *)
HashesAgree ==
  \A c \in Conns : ~client[c].stained => \A s \in DOMAIN client[c].keys :
    /\ s \in DOMAIN conn[c].sessions
    /\ conn[c].sessions[s].preauth = client[c].keys[s]

(* ... and, on a server with one connection, from the session key of its own *)
(* logon, however many bindings are in progress: the authenticator's session *)
(* is replaced by every challenge and every logon.                           *)
KeysAgree ==
  /\ HashesAgree
  /\ \A c \in Conns : \A s \in DOMAIN conn[c].sessions :
       conn[c].sessions[s].as = "user" => conn[c].sessions[s].key = <<c, s>>

(* A client that answers its challenge with the right password is logged on  *)
(* as its user: it is not refused, not made a guest, and the server lives.   *)
(* (It may die of the first token of a handshake that is begun again: see    *)
(* Setup1Down.)                                                              *)
GoodLogonSucceeds ==
  /\ down # "logon"
  /\ \A c \in Conns :
       client[c].last = "setup2" /\ client[c].cred = "good"
         => client[c].reply \in {"none", "user"}

(* "Do not reset an active authenticated session": once a session exists, no *)
(* request removes or rekeys it or changes the negotiated dialect and the    *)
(* hash later bindings start from.                                           *)
SessionsSurvive ==
  [][\A c \in Conns : conn[c].sessions # NewConn.sessions =>
       /\ conn'[c].dialect = conn[c].dialect
       /\ conn'[c].negotiatePreauth = conn[c].negotiatePreauth
       /\ \A s \in DOMAIN conn[c].sessions :
            s \in DOMAIN conn'[c].sessions /\ conn'[c].sessions[s] = conn[c].sessions[s]]_vars
=============================================================================
