----------------------------- MODULE Responses ------------------------------
(***************************************************************************)
(* The SMB2 responses: X(v) is what the Size and Encode of X produce after *)
(* the 64-byte header, XDecoder(p) is IsInvalid and the accessors of the   *)
(* X..Decoder (smb2/response.go).  A response whose decoder the repository *)
(* does not have is only written.  As in Requests, offsets in a body count *)
(* from the end of the header and on the wire from its start.              *)
(***************************************************************************)
EXTENDS Requests

Nothing == [f \in {} |-> Zero]     \* a decoder without accessors
WriteOnly(p) == DecList(TRUE, Nothing, p.list)

-----------------------------------------------------------------------------
(* ERROR.  Its length goes to [2:4]; a context list overwrites [2] by its  *)
(* count.  The decoder takes the length from [4:8].                        *)
SmallBufferErrorResponse == Msg(4, <<F("RequiredBufferLength", 0, 4)>>)
SmallBufferErrorResponseDecoder(r) ==
  Dec(r.size = 4, [RequiredBufferLength |-> Read(r, 0, r.size)])
(* len(p) is the whole rest of the packet, here the structure itself. *)
SymbolicLinkErrorResponse(v) ==
  LET size == 28 + v.subst + v.print
  IN  Msg(size,
        <<F("SubstituteName", 24, v.subst), F("PrintName", 24 + v.subst, v.print),
          N(0, 4, size - 4), F("SymLinkErrorTag", 4, 4), F("ReparseTag", 8, 4),
          F("UnparsedPathLength", 14, 2), F("Flags", 24, 4), N(12, 2, size - 12),
          N(16, 2, 0), N(18, 2, v.subst), N(20, 2, v.subst), N(22, 2, v.print)>>)
SymbolicLinkErrorResponseDecoder(r) ==
  LET tlen == Num(r, 0, 4)
      rlen == Num(r, 12, 2)
      soff == Num(r, 16, 2)
      slen == Num(r, 18, 2)
      poff == Num(r, 20, 2)
      plen == Num(r, 22, 2)
  IN  Dec(/\ r.size >= 28 /\ soff % 2 = 0 /\ poff % 2 = 0
          /\ r.size >= 4 + tlen /\ tlen >= 12 + rlen
          /\ rlen >= 12 + soff + slen /\ rlen >= 12 + poff + plen,
          [UnparsedPathLength |-> Read(r, 14, 2), Flags |-> Read(r, 24, 4),
           SubstituteName |-> Read(r, 28 + soff, slen),
           PrintName |-> Read(r, 28 + poff, plen)])

ErrorContextResponse(data) ==
  Msg(8 + data, <<N(0, 4, data), F("ErrorId", 4, 4), F("ErrorContextData", 8, data)>>)
ErrorContextResponseDecoder(ctx) ==
  [ok |-> ctx.size >= 8 /\ ctx.size >= 8 + Num(ctx, 0, 4),
   v  |-> <<Read(ctx, 4, 4), Read(ctx, 8, Num(ctx, 0, 4))>>,
   next |-> 8 + Roundup(Num(ctx, 0, 4), 8)]
ErrorContextListResponse(datas) ==
  LET cs == [k \in DOMAIN datas |-> Entry(k, ErrorContextResponse(datas[k]))]
  IN  MsgList(ChainEnd(cs, 0), ChainPuts(cs, 0),
              [k \in DOMAIN cs |-> <<<<"ErrorId", k>>, <<"ErrorContextData", k>>>>])
ErrorContextList(p, count) ==
  LET at[k \in 1..count] ==
        IF k = 1 THEN 0
        ELSE at[k - 1] + ErrorContextResponseDecoder(From(p, at[k - 1])).next
  IN  [k \in 1..count |-> ErrorContextResponseDecoder(From(p, at[k]))]

(* v.data: the size of the one ErrorData, v.contexts: the list if it is one*)
ErrorResponse(v) ==
  LET list == ErrorContextListResponse(v.contexts)
  IN  CASE v.contexts # <<>> ->
             MsgList(8 + list.size,
                     <<N(0, 2, 9), N(2, 2, list.size)>> \o At(8, list)
                       \o <<N(2, 1, Len(v.contexts))>>, list.list)
        [] v.data > 0 ->
             Msg(8 + v.data, <<N(0, 2, 9), N(2, 2, v.data), F("ErrorData", 8, v.data)>>)
        [] OTHER -> Msg(9, <<N(0, 2, 9)>>)
ErrorResponseDecoder(r) ==
  LET count == Num(r, 2, 1)
      bytes == Num(r, 4, 4)
      cs    == ErrorContextList(Slice(r, 8, bytes), count)
  IN  DecList(r.size >= 8 /\ Num(r, 0, 2) = 9 /\ r.size >= 8 + bytes,
              [ErrorData |-> Read(r, 8, bytes)],
              IF bytes = 0 THEN <<>> ELSE [k \in DOMAIN cs |-> cs[k].v])

OplockBreakResponse(v) == Msg(v.body, <<F("Body", 0, v.body)>>)

-----------------------------------------------------------------------------
(* v.smb311: the selected dialect, whose decoder looks at the contexts. *)
NegotiateResponse(v) ==
  LET cs  == [k \in DOMAIN v.contexts |-> Entry(k, v.contexts[k])]
      end == 64 + v.token
  IN  MsgList(IF ChainEnd(cs, end) = 64 THEN 65 ELSE ChainEnd(cs, end),
        <<N(0, 2, 65), F("SecurityMode", 2, 2), N(4, 2, IF v.smb311 THEN 785 ELSE 770),
          F("ServerGuid", 8, 16), F("Capabilities", 24, 4),
          F("MaxTransactSize", 28, 4), F("MaxReadSize", 32, 4),
          F("MaxWriteSize", 36, 4), F("SystemTime", 40, 8),
          F("ServerStartTime", 48, 8), F("SecurityBuffer", 64, v.token),
          N(56, 2, 64 + 64), N(58, 2, v.token)>>
        \o (IF cs = <<>> THEN <<>>
            ELSE <<N(60, 4, ChainOffs(cs, end)[1] + 64)>>)
        \o ChainPuts(cs, end) \o <<N(6, 2, Len(cs))>>,
        [k \in DOMAIN cs |-> ContextValue(k, cs[k])])
NegotiateResponseDecoder(r) ==
  LET soff == Num(r, 56, 2)
      slen == Num(r, 58, 2)
      noff == Num(r, 60, 4)
      cs   == IF noff < 64 THEN <<>>
              ELSE NegotiateContexts(r, noff - 64, Num(r, 6, 2))
  IN  DecList(/\ r.size >= 64 /\ Num(r, 0, 2) = 65
              /\ r.size + 64 >= U(2, soff + slen)
              /\ Num(r, 4, 2) = 785 => noff % 8 = 0 /\ r.size + 64 >= noff,
        [SecurityMode |-> Read(r, 2, 2), ServerGuid |-> Read(r, 8, 16),
         Capabilities |-> Read(r, 24, 4), MaxTransactSize |-> Read(r, 28, 4),
         MaxReadSize |-> Read(r, 32, 4), MaxWriteSize |-> Read(r, 36, 4),
         SystemTime |-> Read(r, 40, 8), ServerStartTime |-> Read(r, 48, 8),
         SecurityBuffer |-> IF soff < 64 + 64 THEN Empty ELSE Read(r, soff - 64, slen)],
        [k \in DOMAIN cs |-> cs[k].v])

SessionSetupResponse(v) ==
  Msg(8 + OrOne(v.token),
      <<N(0, 2, 9), F("SessionFlags", 2, 2)>>
      \o (IF v.token = 0 THEN <<>>
          ELSE <<N(4, 2, 8 + 64), F("SecurityBuffer", 8, v.token), N(6, 2, v.token)>>))
SessionSetupResponseDecoder(r) ==
  LET off == Num(r, 4, 2)
      len == Num(r, 6, 2)
  IN  Dec(r.size >= 8 /\ Num(r, 0, 2) = 9 /\ r.size + 64 >= U(2, off + len),
        [SessionFlags |-> Read(r, 2, 2),
         SecurityBuffer |-> IF off < 8 + 64 THEN Empty ELSE Read(r, off - 64, len)])

TreeConnectResponse ==
  Msg(16, <<N(0, 2, 16), F("ShareType", 2, 1), F("ShareFlags", 4, 4),
            F("Capabilities", 8, 4), F("MaximalAccess", 12, 4)>>)
TreeConnectResponseDecoder(r) ==
  Dec(r.size >= 16 /\ Num(r, 0, 2) = 16,
      [ShareType |-> Read(r, 2, 1), ShareFlags |-> Read(r, 4, 4),
       Capabilities |-> Read(r, 8, 4), MaximalAccess |-> Read(r, 12, 4)])

(* LOGOFF, TREE_DISCONNECT, FLUSH, LOCK, ECHO and SET_INFO answer with a   *)
(* structure size only.                                                    *)
LogoffResponse == Msg(4, <<N(0, 2, 4)>>)
LogoffResponseDecoder(r) == Dec(r.size >= 4 /\ Num(r, 0, 2) = 4, Nothing)
TreeDisconnectResponse == Msg(4, <<N(0, 2, 4)>>)
TreeDisconnectResponseDecoder(r) == Dec(r.size >= 4 /\ Num(r, 0, 2) = 4, Nothing)
FlushResponse == Msg(4, <<N(0, 2, 4)>>)
FlushResponseDecoder(r) == Dec(r.size >= 4 /\ Num(r, 0, 2) = 4, Nothing)
LockResponse == Msg(4, <<N(0, 2, 4), N(2, 2, 0)>>)
EchoResponse == Msg(4, <<N(0, 2, 4), N(2, 2, 0)>>)
SetInfoResponse == Msg(2, <<N(0, 2, 2)>>)
SetInfoResponseDecoder(r) == Dec(r.size >= 2 /\ Num(r, 0, 2) = 2, Nothing)

-----------------------------------------------------------------------------
(* CREATE and CLOSE; the times are left out when the server has none. *)
Times(v) ==
  IF ~v.times THEN <<>>
  ELSE <<F("CreationTime", 8, 8), F("LastAccessTime", 16, 8),
         F("LastWriteTime", 24, 8), F("ChangeTime", 32, 8)>>
CreateResponse(v) ==
  LET cs  == [k \in DOMAIN v.contexts |-> Entry(k, v.contexts[k])]
      off == ChainOffs(cs, 88)
  IN  MsgList(ChainEnd(cs, 88),
        <<N(0, 2, 89), F("OplockLevel", 2, 1), F("Flags", 3, 1),
          F("CreateAction", 4, 4)>>
        \o Times(v)
        \o <<F("AllocationSize", 40, 8), F("EndofFile", 48, 8),
             F("FileAttributes", 56, 4), F("FileId", 64, 16)>>
        \o (IF cs = <<>> THEN <<N(80, 4, 0)>> ELSE <<N(80, 4, 64 + off[1])>>)
        \o FlattenSeq([k \in DOMAIN cs |->
             (IF k = 1 THEN <<>> ELSE <<N(off[k - 1], 4, off[k] - off[k - 1])>>)
               \o <<N(off[k], 4, 0)>> \o At(off[k], cs[k])])
        \o <<N(84, 4, ChainEnd(cs, 88) - 88)>>,
        [k \in DOMAIN cs |-> ContextEntry(k, cs[k])])
CreateResponseDecoder(r) ==
  LET coff == Num(r, 80, 4)
      clen == Num(r, 84, 4)
      ok   == /\ r.size >= 88 /\ Num(r, 0, 2) = 89
              /\ coff % 8 = 0 /\ r.size + 64 >= coff + clen
  IN  DecList(ok,
        [OplockLevel |-> Read(r, 2, 1), Flags |-> Read(r, 3, 1),
         CreateAction |-> Read(r, 4, 4), CreationTime |-> Read(r, 8, 8),
         LastAccessTime |-> Read(r, 16, 8), LastWriteTime |-> Read(r, 24, 8),
         ChangeTime |-> Read(r, 32, 8), AllocationSize |-> Read(r, 40, 8),
         EndofFile |-> Read(r, 48, 8), FileAttributes |-> Read(r, 56, 4),
         FileId |-> Read(r, 64, 16)],
        IF ~ok \/ coff < 88 + 64 THEN <<>>
        ELSE CreateContextWalk(Slice(r, coff - 64, clen), 4))

CloseResponse(v) ==
  Msg(60, <<N(0, 2, 60), F("Flags", 2, 2)>> \o Times(v)
          \o <<F("AllocationSize", 40, 8), F("EndofFile", 48, 8),
               F("FileAttributes", 56, 4)>>)
CloseResponseDecoder(r) ==
  Dec(r.size >= 60 /\ Num(r, 0, 2) = 60,
      [Flags |-> Read(r, 2, 2), CreationTime |-> Read(r, 8, 8),
       LastAccessTime |-> Read(r, 16, 8), LastWriteTime |-> Read(r, 24, 8),
       ChangeTime |-> Read(r, 32, 8), AllocationSize |-> Read(r, 40, 8),
       EndofFile |-> Read(r, 48, 8), FileAttributes |-> Read(r, 56, 4)])

(* The data of the create contexts the server answers with.  The lease and *)
(* durable-handle replies have the layout of the requests, whose decoders  *)
(* the server has.                                                         *)
CreateContextMaximalAccessResponse ==
  Msg(8, <<F("QueryStatus", 0, 4), F("MaximalAccess", 4, 4)>>)
AAPLServerQueryResponse(v) ==
  Msg(Roundup(40 + v.model, 8),
      <<F("CommandCode", 0, 4), F("RequestBitmap", 8, 8), F("ClientCaps", 16, 8),
        F("VolumeCaps", 24, 8), N(36, 4, v.model), F("ModelString", 40, v.model)>>)
AAPLServerQueryRequestDecoder(r) ==
  Dec(TRUE, [CommandCode |-> Read(r, 0, 4), RequestBitmap |-> Read(r, 8, 8),
             ClientCaps |-> Read(r, 16, 8)])
DurableHandleResponse2 == Msg(8, <<F("Timeout", 0, 4), F("Flags", 4, 4)>>)
DurableHandleRequest2Decoder(r) ==
  Dec(TRUE, [Timeout |-> Read(r, 0, 4), Flags |-> Read(r, 4, 4)])
LeaseResponse ==
  Msg(32, <<F("LeaseKey", 0, 16), F("LeaseState", 16, 4), F("LeaseFlags", 20, 4),
            F("LeaseDuration", 24, 8)>>)
LeaseRequestDecoder(r) ==
  Dec(TRUE, [LeaseKey |-> Read(r, 0, 16), LeaseState |-> Read(r, 16, 4),
             LeaseFlags |-> Read(r, 20, 4), LeaseDuration |-> Read(r, 24, 8)])
LeaseResponse2 ==
  Msg(52, LeaseResponse.puts \o <<F("ParentLeaseKey", 32, 16), F("Epoch", 48, 2)>>)
LeaseRequest2Decoder(r) ==
  Dec(TRUE, [LeaseKey |-> Read(r, 0, 16), LeaseState |-> Read(r, 16, 4),
             LeaseFlags |-> Read(r, 20, 4), LeaseDuration |-> Read(r, 24, 8),
             ParentLeaseKey |-> Read(r, 32, 16), Epoch |-> Read(r, 48, 2)])
PosixCreateResponse(v) ==
  Msg(12 + v.owner + v.group,
      <<F("Nlinks", 0, 4), F("ReparseTag", 4, 4), F("Mode", 8, 4),
        F("OwnerSid", 12, v.owner), F("GroupSid", 12 + v.owner, v.group)>>)
DiskIdResponse == Msg(32, <<N(0, 32, 0), F("DiskFileId", 0, 8), F("VolumeId", 8, 8)>>)

-----------------------------------------------------------------------------
ReadResponse(v) ==
  Msg(16 + v.data,
      <<N(0, 2, 17)>>
      \o (IF v.data = 0 THEN <<N(2, 1, 0)>>
          ELSE <<N(2, 1, 16 + 64), F("Data", 16, v.data)>>)
      \o <<N(4, 4, v.data), F("DataRemaining", 8, 4)>>)
ReadResponseDecoder(r) ==
  LET off == Num(r, 2, 1)
      len == Num(r, 4, 4)
  IN  Dec(r.size >= 16 /\ Num(r, 0, 2) = 17 /\ r.size + 64 >= off + len,
        [DataRemaining |-> Read(r, 8, 4),
         Data |-> IF off < 16 + 64 THEN Empty ELSE Read(r, off - 64, len)])

WriteResponse == Msg(17, <<N(0, 2, 17), F("Count", 4, 4), F("Remaining", 8, 4)>>)
WriteResponseDecoder(r) ==
  Dec(r.size >= 16 /\ Num(r, 0, 2) = 17,
      [Count |-> Read(r, 4, 4), Remaining |-> Read(r, 8, 4),
       WriteChannelInfoOffset |-> Read(r, 12, 2),
       WriteChannelInfoLength |-> Read(r, 14, 2)])

(* Mutant: the output's offset ignores the input before it. *)
IoctlOutputMisplaced(v) ==
  Msg(48 + OrOne(v.input + v.output),
      <<N(0, 2, 49), F("CtlCode", 4, 4), F("FileId", 8, 16), F("Flags", 40, 4)>>
      \o (IF v.input = 0 THEN <<>>
          ELSE <<N(24, 4, 48 + 64), F("Input", 48, v.input), N(28, 4, v.input)>>)
      \o (IF v.output = 0 THEN <<>>
          ELSE <<N(32, 4, 48 + 64), F("Output", 48 + v.input, v.output),
                 N(36, 4, v.output)>>))
(* v.input, v.output: the sizes of Input and Output, 0 for nil. *)
IoctlResponse(v) ==
  Msg(48 + OrOne(v.input + v.output),
      <<N(0, 2, 49), F("CtlCode", 4, 4), F("FileId", 8, 16), F("Flags", 40, 4)>>
      \o (IF v.input = 0 THEN <<>>
          ELSE <<N(24, 4, 48 + 64), F("Input", 48, v.input), N(28, 4, v.input)>>)
      \o (IF v.output = 0 THEN <<>>
          ELSE <<N(32, 4, 48 + v.input + 64), F("Output", 48 + v.input, v.output),
                 N(36, 4, v.output)>>))
IoctlResponseDecoder(r) ==
  LET data(at) == IF Num(r, at, 4) < 64 + 48 THEN Empty
                  ELSE Read(r, Num(r, at, 4) - 64, Num(r, at + 4, 4))
  IN  Dec(/\ r.size >= 48 /\ Num(r, 0, 2) = 49
          /\ r.size + 64 >= Num(r, 24, 4) + Num(r, 28, 4)
          /\ r.size + 64 >= Num(r, 32, 4) + Num(r, 36, 4),
        [CtlCode |-> Read(r, 4, 4), FileId |-> Read(r, 8, 16),
         Flags |-> Read(r, 40, 4), Input |-> data(24), Output |-> data(32)])

(* QUERY_DIRECTORY, QUERY_INFO and CHANGE_NOTIFY differ in their size when *)
(* there is no output.                                                     *)
OutputResponse(empty, output) ==
  Msg(IF output = 0 THEN empty ELSE 8 + output,
      <<N(0, 2, 9)>>
      \o (IF output = 0 THEN <<>>
          ELSE <<N(2, 2, 8 + 64), F("OutputBuffer", 8, output), N(4, 4, output)>>))
QueryDirectoryResponse(v) == OutputResponse(9, v.output)
QueryInfoResponse(v) == OutputResponse(8, v.output)
ChangeNotifyResponse(v) == OutputResponse(9, v.output)
QueryDirectoryResponseDecoder(r) ==
  LET off == Num(r, 2, 2)
      len == Num(r, 4, 4)
  IN  Dec(r.size >= 8 /\ Num(r, 0, 2) = 9 /\ r.size + 64 >= off + len,
        [OutputBuffer |-> IF off < 64 + 8 THEN Empty ELSE Read(r, off - 64, len)])
QueryInfoResponseDecoder(r) ==
  LET off == Num(r, 2, 2)
      len == Num(r, 4, 4)
  IN  Dec(r.size >= 8 /\ Num(r, 0, 2) = 9 /\ r.size + 64 >= off + len,
        [OutputBuffer |-> IF off < 64 + 8 THEN Empty ELSE Read(r, off - 64, len)])
=============================================================================
