-------------------------------- MODULE Rpc ---------------------------------
(***************************************************************************)
(* The DCE/RPC messages of the srvsvc pipe: the server's encoders and      *)
(* decoders (smb2/dcerpc.go) against the client's (msrpc/msrpc.go).  A     *)
(* share name has a number of UTF-8 bytes and of UTF-16 units.             *)
(***************************************************************************)
EXTENDS Security

PacketTypeRequest  == 0
PacketTypeResponse == 2
PacketTypeBind     == 11
PacketTypeBindAck  == 12

DCEHeader(type, frag) ==
  <<N(0, 1, 5), N(1, 1, 0), N(2, 1, type), N(3, 1, 3), F("DataRepresentation", 4, 4),
    N(8, 2, frag), N(10, 2, 0), F("CallId", 12, 4)>>

(* The client's Bind has one context with one transfer syntax; v.contexts  *)
(* allows the other clients' lists of numbers of transfer syntaxes.        *)
BindContext(syntaxes) ==
  Msg(24 + 20 * syntaxes,
      <<F("ContextID", 0, 2), N(2, 1, syntaxes), F("InterfaceUUID", 4, 16),
        F("Version", 20, 4)>>
      \o FlattenSeq([j \in 1..syntaxes |->
           <<F("SyntaxUUID", 4 + 20 * j, 16), F("SyntaxVersion", 20 + 20 * j, 4)>>]))
Bind(v) ==
  LET cs == [k \in DOMAIN v.contexts |-> Entry(k, BindContext(v.contexts[k]))]
      off(k) == 28 + TotalSize(SubSeq(cs, 1, k - 1))
      size == 28 + TotalSize(cs)
  IN  MsgList(size,
        DCEHeader(PacketTypeBind, size)
        \o <<F("MaxSendFragSize", 16, 2), F("MaxRecvFragSize", 18, 2), N(20, 4, 0),
             N(24, 1, Len(cs))>>
        \o FlattenSeq([k \in DOMAIN cs |-> At(off(k), cs[k])]),
        [k \in DOMAIN cs |-> <<<<"InterfaceUUID", k>>, v.contexts[k],
                               IF v.contexts[k] = 0 THEN Zero ELSE <<"SyntaxUUID", k>>>>])
(* DCERequestDecoder and DCEBindRequestDecoder, with the loops of CtxItems.*)
DCEBindRequestDecoder(r) ==
  LET n == Num(r, 24, 1)
      after(at) == at + 24 + 20 * Num(r, at + 2, 1)
      off[i \in 1..n] == IF i = 1 THEN 28 ELSE after(off[i - 1])
  IN  DecList(r.size >= 16 /\ Num(r, 2, 1) = PacketTypeBind,
        [CallId |-> Read(r, 12, 4), MaxSendFragSize |-> Read(r, 16, 2),
         MaxRecvFragSize |-> Read(r, 18, 2)],
        [i \in 1..n |-> <<Read(r, off[i] + 4, 16), Num(r, off[i] + 2, 1),
                          IF Num(r, off[i] + 2, 1) = 0 THEN Zero
                          ELSE Read(r, off[i] + 24, 16)>>])

(* The server's answer always names the pipe in 13 bytes. *)
SecAddrLen == 13
DCEBindAck(v) ==
  LET size == Roundup(30 + SecAddrLen, 2) + v.items * 24
  IN  Msg(size,
        DCEHeader(PacketTypeBindAck, size)
        \o <<F("MaxXmitFrag", 16, 2), F("MaxRecvFrag", 18, 2), F("AssocGroupId", 20, 4),
             N(24, 2, SecAddrLen), F("SecAddr", 26, SecAddrLen), N(39, 1, 0),
             N(40, 1, v.items)>>
        \o FlattenSeq([k \in 1..v.items |->
             At(44 + 24 * (k - 1),
                Entry(k, Msg(24, <<F("Result", 0, 4), F("TransferUUID", 4, 16),
                                   F("TransferVersion", 20, 4)>>)))]))
BindAckDecoder(c) ==
  Dec(/\ c.size >= 24 /\ Num(c, 0, 1) = 5 /\ Num(c, 1, 1) = 0
      /\ Num(c, 2, 1) = PacketTypeBindAck,
      [DataRepresentation |-> Read(c, 4, 4), CallId |-> Read(c, 12, 4),
       MaxXmitFrag |-> Read(c, 16, 2), MaxRecvFrag |-> Read(c, 18, 2),
       AssocGroupId |-> Read(c, 20, 4)])

-----------------------------------------------------------------------------
(* v.server: the UTF-16 units of the server name. *)
NetShareEnumAllRequest(v) ==
  LET count == v.server + 1
      off   == Roundup(40 + count * 2, 4)
  IN  Msg(Roundup(40 + 2 * v.server + 2, 4) + 24 + 4,
        DCEHeader(PacketTypeRequest, off + 28)
        \o <<N(20, 2, 0), N(22, 2, 15), F("ReferentID", 24, 4), N(28, 4, count),
             N(32, 4, 0), N(36, 4, count), F("ServerName", 40, 2 * v.server),
             F("Level", off, 4), N(off + 4, 4, 1), F("CtrReferent", off + 8, 4),
             N(off + 12, 4, 0), N(off + 16, 4, 0), F("MaxBuffer", off + 20, 4),
             N(off + 24, 4, 0), F("AllocHint", 16, 4)>>)
DCERequestReqDecoder(r) ==
  DecList(r.size >= 16 /\ Num(r, 2, 1) = PacketTypeRequest,
      [CallId |-> Read(r, 12, 4), AllocHint |-> Read(r, 16, 4)], <<Num(r, 22, 2)>>)

(* A string of the reply: counted in UTF-8 bytes, written in UTF-16 units, *)
(* each with the closing zero.                                             *)
UnicodeStr(f, s) ==
  Msg(12 + Roundup((s.bytes + 1) * 2, 4),
      <<N(0, 4, s.bytes + 1), N(4, 4, 0), N(8, 4, s.bytes + 1),
        F(f, 12, (s.units + 1) * 2)>>)
EmptyStr == [bytes |-> 0, units |-> 0]

(* NetShareInfo1 in NetShareCtr1 in NetShareCtr in the response: a row of  *)
(* pointers per share, then the strings.                                   *)
NetShareEnumAllResponse(shares) ==
  LET n == Len(shares)
      strs == FlattenSeq([k \in 1..n |-> <<Entry(k, UnicodeStr("Name", shares[k])),
                                           Entry(k, UnicodeStr("Comment", EmptyStr))>>])
      base == 24 + 12 * n
      off(i) == base + TotalSize(SubSeq(strs, 1, i - 1))
      end == base + TotalSize(strs)
  IN  Msg(end + 16,
        <<N(0, 4, 1), N(4, 4, 1), F("CtrReferent", 8, 4), N(12, 4, n),
          F("InfoReferent", 16, 4), N(20, 4, n)>>
        \o FlattenSeq([k \in 1..n |-> At(24 + 12 * (k - 1),
             Entry(k, Msg(12, <<F("NameReferent", 0, 4), F("Type", 4, 4),
                                F("CommentReferent", 8, 4)>>)))])
        \o FlattenSeq([i \in DOMAIN strs |-> At(off(i), strs[i])])
        \o <<N(end, 4, n), F("ResumeReferent", end + 4, 4), N(end + 8, 4, 0),
             N(end + 12, 4, 0)>>)
NetShareGetInfoResponse(v) ==
  LET name == UnicodeStr("Name", v.share)
      text == UnicodeStr("Comment", [bytes |-> 7, units |-> 7])
      size == 12 + name.size + text.size
  IN  Msg(size + 12,
        <<N(0, 4, 1), F("Referent", 4, 4), F("NameReferent", 8, 4), F("Type", 12, 4),
          F("CommentReferent", 16, 4)>>
        \o At(20, name) \o At(20 + name.size, text) \o <<N(8 + size, 4, 0)>>)
DCERequestRes(data) ==
  MsgList(24 + data.size,
      DCEHeader(PacketTypeResponse, 24 + data.size)
        \o <<N(16, 4, 0), N(20, 2, 0), N(22, 1, 0)>> \o At(24, data), data.list)
NetShareEnum(v) ==
  [DCERequestRes(NetShareEnumAllResponse(v.shares)) EXCEPT
     !.list = [k \in DOMAIN v.shares |-> <<"Name", k>>]]

(* The client's walk: a name and a comment per share, each rounded up to 4.*)
StrEnd(c, at) == Roundup(at + 12 + Num(c, at + 4, 4) + 2 * Num(c, at + 8, 4), 4)
ShareOffs(c, count) ==
  LET off[i \in 1..2 * count + 1] ==
        IF i = 1 THEN 48 + count * 12 ELSE StrEnd(c, off[i - 1])
  IN  off
IsIncomplete(c) ==
  LET count == Num(c, 36, 4)
  IN  \/ c.size < 48 \/ c.size < 48 + count * 12
      \/ Num(c, 24, 4) # 1
      \/ \E i \in 1..2 * count : \/ c.size < ShareOffs(c, count)[i] + 12
                                 \/ c.size < ShareOffs(c, count)[i + 1]
NetShareEnumAllResponseDecoder(c) ==
  LET count == Num(c, 36, 4)
      off(i) == ShareOffs(c, count)[2 * i - 1]
  IN  DecList(/\ c.size >= 24 /\ Num(c, 0, 1) = 5 /\ Num(c, 1, 1) = 0
              /\ Num(c, 2, 1) = PacketTypeResponse /\ ~IsIncomplete(c),
        [CallId |-> Read(c, 12, 4)],
        [i \in 1..count |-> Read(c, off(i) + 12 + Num(c, off(i) + 4, 4),
                                 2 * Num(c, off(i) + 8, 4))])

(* NetShareGetInfo: the request as a client lays it out (both names with   *)
(* their closing zero, aligned to 4) and the server's reading of it.       *)
NetShareGetInfoRequest(v) ==
  LET off == Roundup(16 + 2 * (v.server + 1), 4)
      end == Roundup(off + 12 + 2 * (v.share + 1), 4)
  IN  Msg(end + 4,
        <<F("Referent", 0, 4), N(4, 4, v.server + 1), N(8, 4, 0), N(12, 4, v.server + 1),
          F("ServerName", 16, 2 * (v.server + 1)), N(off, 4, v.share + 1),
          N(off + 4, 4, 0), N(off + 8, 4, v.share + 1),
          F("ShareName", off + 12, 2 * (v.share + 1)), F("Level", end, 4)>>)
NetShareGetInfoRequestDecoder(r) ==
  LET server == Num(r, 12, 4)
      off    == 16 + Roundup(server - 1, 2) * 2   \* ServerName() has lost its zero
      share  == Num(r, off + 8, 4)
  IN  Dec(TRUE,
        [ServerName |-> IF 16 + server * 2 > r.size THEN Empty ELSE Read(r, 16, server * 2),
         ShareName |-> IF off + off + 12 + share * 2 > r.size THEN Empty
                       ELSE Read(r, off + 12, share * 2)])
=============================================================================
