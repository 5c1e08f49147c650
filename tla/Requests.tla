------------------------------ MODULE Requests ------------------------------
(***************************************************************************)
(* The SMB2 requests: X(v) is what the Size and Encode of X produce after  *)
(* the 64-byte header, XDecoder(p) is IsInvalid and the accessors of the   *)
(* X..Decoder that the server reads them with (smb2/request.go, contexts   *)
(* in smb2/smb2.go).  The parameters are what the layout depends on: the   *)
(* byte lengths of names and buffers and the contexts.  Offsets count from *)
(* the end of the header; on the wire they count from its start.           *)
(***************************************************************************)
EXTENDS Wire

(* Size() leaves one byte for an empty variable part. *)
OrOne(n) == IF n = 0 THEN 1 ELSE n

-----------------------------------------------------------------------------
(* Negotiate contexts: hs algorithms of two bytes, salt bytes, cs ciphers. *)
ContextHeader(type, len) == <<N(0, 2, type), N(2, 2, len)>>
HashContext(hs, salt) ==
  Msg(8 + 4 + hs * 2 + salt,
      ContextHeader(1, 4 + hs * 2 + salt)
        \o <<F("HashAlgorithms", 12, hs * 2), N(8, 2, hs),
             F("HashSalt", 12 + hs * 2, salt), N(10, 2, salt)>>)
CipherContext(cs) ==
  Msg(8 + 2 + cs * 2,
      ContextHeader(2, 2 + cs * 2) \o <<F("Ciphers", 10, cs * 2), N(8, 2, cs)>>)
CompressionContext(cs) ==
  Msg(16 + cs * 2,
      ContextHeader(3, 8 + cs * 2)
        \o <<F("Compressions", 16, cs * 2), N(8, 2, cs), F("Flags", 12, 4)>>)
PosixContext == Msg(10, ContextHeader(256, 2) \o <<F("Version", 8, 2)>>)

HashContextDataDecoder(h) ==
  LET count == Num(h, 0, 2)
      salt  == Num(h, 2, 2)
  IN  [ok |-> h.size >= 4 /\ h.size >= 4 + count * 2 + salt,
       v  |-> <<Read(h, 4, count * 2), Read(h, 4 + U(2, count * 2), salt)>>]
CipherContextDataDecoder(c) ==
  [ok |-> c.size >= 2 /\ c.size >= 2 + Num(c, 0, 2) * 2,
   v  |-> <<Read(c, 2, Num(c, 0, 2) * 2)>>]
NegotiateContextDecoder(ctx) ==
  LET len  == Num(ctx, 2, 2)
      data == Slice(ctx, 8, len)
      ok   == ctx.size >= 8 /\ ctx.size >= 8 + len
  IN  CASE Num(ctx, 0, 2) = 1 -> [ok |-> ok /\ HashContextDataDecoder(data).ok,
                                  v  |-> HashContextDataDecoder(data).v]
        [] Num(ctx, 0, 2) = 2 -> [ok |-> ok /\ CipherContextDataDecoder(data).ok,
                                  v  |-> CipherContextDataDecoder(data).v]
        [] OTHER -> [ok |-> ok, v |-> <<>>]
(* Mutant: the padding between two contexts is forgotten. *)
NextUnpadded(ctx) == 8 + Num(ctx, 2, 2)
NegotiateContextNext(ctx) == Roundup(8 + Num(ctx, 2, 2), 8)

(* The loop over the context list (server.go): count steps of Next() bytes,*)
(* stopping with an error at the first broken context or a list that ends  *)
(* too early.                                                              *)
NegotiateContexts(p, off, count) ==
  LET at[k \in 1..count] ==
        IF k = 1 THEN off ELSE at[k - 1] + NegotiateContextNext(From(p, at[k - 1]))
  IN  IF count = 0 THEN <<>>
      ELSE [k \in 1..count |->
              IF at[k] > p.size THEN [ok |-> FALSE, v |-> <<>>]
              ELSE NegotiateContextDecoder(From(p, at[k]))]

(* What a decoder of the list is expected to find in the k-th context. *)
ContextValue(k, c) ==
  LET names == CASE c.puts[1].v[2] = 1 -> <<"HashAlgorithms", "HashSalt">>
                 [] c.puts[1].v[2] = 2 -> <<"Ciphers">>
                 [] OTHER -> <<>>
      size(f) == (CHOOSE i \in DOMAIN c.puts : c.puts[i].v[1] = f)
  IN  [i \in DOMAIN names |-> IF c.puts[size(names[i])].n = 0 THEN Empty
                               ELSE <<names[i], k>>]

NegotiateRequest(v) ==
  LET cs  == [k \in DOMAIN v.contexts |-> Entry(k, v.contexts[k])]
      end == 36 + v.dialects * 2
  IN  MsgList(ChainEnd(cs, end),
        <<N(0, 2, 36), F("SecurityMode", 4, 2), F("Capabilities", 8, 4),
          F("ClientGuid", 12, 16), F("Dialects", 36, v.dialects * 2),
          N(2, 2, v.dialects)>>
        \o (IF cs = <<>> THEN <<>>
            ELSE <<N(28, 4, ChainOffs(cs, end)[1] + 64)>>)
        \o ChainPuts(cs, end) \o <<N(32, 2, Len(cs))>>,
        [k \in DOMAIN cs |-> ContextValue(k, cs[k])])
NegotiateRequestDecoder(p) ==
  LET noff == Num(p, 28, 4)
      cs   == IF noff < 64 THEN <<>>
              ELSE NegotiateContexts(p, noff - 64, Num(p, 32, 2))
  IN  DecList(/\ p.size >= 36 /\ Num(p, 0, 2) = 36
              /\ noff % 8 = 0 /\ p.size + 36 >= noff
              /\ \A k \in DOMAIN cs : cs[k].ok,
        [SecurityMode |-> Read(p, 4, 2), Capabilities |-> Read(p, 8, 4),
         ClientGuid |-> Read(p, 12, 16),
         Dialects |-> Read(p, 36, U(2, 2 * Num(p, 2, 2)))],
        [k \in DOMAIN cs |-> cs[k].v])

SessionSetupRequest(v) ==
  Msg(24 + OrOne(v.token),
      <<N(0, 2, 25), F("Flags", 2, 1), F("SecurityMode", 3, 1),
        F("Capabilities", 4, 4), F("Channel", 8, 4), F("PreviousSessionId", 16, 8),
        F("SecurityBuffer", 24, v.token), N(12, 2, 64 + 24), N(14, 2, v.token)>>)
SessionSetupRequestDecoder(p) ==
  LET off == Num(p, 12, 2)
      len == Num(p, 14, 2)
  IN  Dec(p.size >= 24 /\ Num(p, 0, 2) = 25 /\ p.size + 64 >= U(2, off + len),
        [Flags |-> Read(p, 2, 1), SecurityMode |-> Read(p, 3, 1),
         Capabilities |-> Read(p, 4, 4), Channel |-> Read(p, 8, 4),
         PreviousSessionId |-> Read(p, 16, 8),
         SecurityBuffer |-> IF off < 64 + 24 THEN Empty ELSE Read(p, off - 64, len)])

(* LOGOFF, TREE_DISCONNECT and CANCEL carry a structure size only. *)
LogoffRequest == Msg(4, <<N(0, 2, 4)>>)
LogoffRequestDecoder(p) == Dec(p.size >= 4 /\ Num(p, 0, 2) = 4, [f \in {} |-> Zero])
TreeDisconnectRequest == Msg(4, <<N(0, 2, 4)>>)
TreeDisconnectRequestDecoder(p) ==
  Dec(p.size >= 4 /\ Num(p, 0, 2) = 4, [f \in {} |-> Zero])
CancelRequest == Msg(4, <<N(0, 2, 4)>>)
CancelRequestDecoder(p) == Dec(p.size >= 4 /\ Num(p, 0, 2) = 4, [f \in {} |-> Zero])

TreeConnectRequest(v) ==
  Msg(8 + OrOne(v.path),
      <<N(0, 2, 9), F("Flags", 2, 2), F("Path", 8, v.path),
        N(4, 2, 8 + 64), N(6, 2, v.path)>>)
TreeConnectRequestDecoder(p) ==
  LET off == Num(p, 4, 2)
      len == Num(p, 6, 2)
  IN  Dec(p.size >= 8 /\ Num(p, 0, 2) = 9 /\ p.size + 64 >= U(2, off + len),
        [Flags |-> Read(p, 2, 2),
         Path |-> IF off < 64 + 8 THEN Empty ELSE Read(p, off - 64, len)])

-----------------------------------------------------------------------------
(* CREATE.  A create context is encoded by CreateContext (response.go); the*)
(* request's loop links it with Next = Size(), without the padding.        *)
CreateContext(name, data) ==
  LET off == Roundup(16 + name, 8)
  IN  Msg(off + data,
          <<N(4, 2, 16), N(6, 2, name), N(10, 2, off), N(12, 4, data),
            F("Name", 16, name), F("Data", off, data)>>)
(* What a walk over the contexts should find in the k-th. *)
ContextEntry(k, c) ==
  LET data == c.puts[Len(c.puts)]
  IN  <<<<"Name", k>>, IF data.n = 0 THEN Empty ELSE <<"Data", k>>>>
(* The loop over cc := r.CreateContexts() (file_tree.go): name and buffer  *)
(* of each context, then on by Next until it is 0.                         *)
CreateContextDecoder(r) ==
  <<Read(r, Num(r, 4, 2), Num(r, 6, 2)), Read(r, Num(r, 10, 2), U(2, Num(r, 12, 4)))>>
CreateContextWalk(cc, bound) ==
  LET next(off) == Num(cc, off - 1, 4)
      after(off) ==   \* 0 once the chain has ended; offsets count from 1
        IF off = 0 \/ next(off) = 0 \/ off + next(off) > cc.size THEN 0
        ELSE off + next(off)
      at[k \in 1..bound] ==
        IF k > 1 THEN after(at[k - 1]) ELSE IF cc.size = 0 THEN 0 ELSE 1
      n == Cardinality({k \in 1..bound : at[k] > 0})
  IN  [k \in 1..n |-> CreateContextDecoder(From(cc, at[k] - 1))]

CreateRequest(v) ==
  LET cs  == [k \in DOMAIN v.contexts |-> Entry(k, v.contexts[k])]
      end == 56 + v.name
      off == ChainOffs(cs, end)
  IN  MsgList(IF v.name = 0 /\ cs = <<>> THEN 57 ELSE ChainEnd(cs, end),
        <<N(0, 2, 57), F("SecurityFlags", 2, 1), F("RequestedOplockLevel", 3, 1),
          F("ImpersonationLevel", 4, 4), F("SmbCreateFlags", 8, 8),
          F("DesiredAccess", 24, 4), F("FileAttributes", 28, 4),
          F("ShareAccess", 32, 4), F("CreateDisposition", 36, 4),
          F("CreateOptions", 40, 4), F("Name", 56, v.name),
          N(44, 2, 56 + 64), N(46, 2, v.name)>>
        \o (IF cs = <<>> THEN <<>> ELSE <<N(48, 4, 64 + off[1])>>)
        \o ChainPuts(cs, end)
        \o [k \in 1..(IF cs = <<>> THEN 0 ELSE Len(cs) - 1) |-> N(off[k], 4, cs[k].size)]
        \o <<N(52, 4, ChainEnd(cs, end) - end)>>,
        [k \in DOMAIN cs |-> ContextEntry(k, cs[k])])
CreateRequestDecoder(p) ==
  LET noff == Num(p, 44, 2)
      nlen == Num(p, 46, 2)
      coff == Num(p, 48, 4)
      clen == Num(p, 52, 4)
      ok   == /\ p.size >= 56 /\ Num(p, 0, 2) = 57
              /\ noff % 8 = 0 /\ p.size + 64 >= U(2, noff + nlen)
              /\ coff % 8 = 0 /\ p.size + 64 >= coff + clen
  IN  DecList(ok,
        [SecurityFlags |-> Read(p, 2, 1), RequestedOplockLevel |-> Read(p, 3, 1),
         ImpersonationLevel |-> Read(p, 4, 4), SmbCreateFlags |-> Read(p, 8, 8),
         DesiredAccess |-> Read(p, 24, 4), FileAttributes |-> Read(p, 28, 4),
         ShareAccess |-> Read(p, 32, 4), CreateDisposition |-> Read(p, 36, 4),
         CreateOptions |-> Read(p, 40, 4), Name |-> Read(p, noff - 64, nlen)],
        IF ~ok \/ clen = 0 THEN <<>>
        ELSE CreateContextWalk(Slice(p, coff - 64, clen), 4))

-----------------------------------------------------------------------------
CloseRequest == Msg(24, <<N(0, 2, 24), F("Flags", 2, 2), F("FileId", 8, 16)>>)
CloseRequestDecoder(p) ==
  Dec(p.size >= 24 /\ Num(p, 0, 2) = 24,
      [Flags |-> Read(p, 2, 2), FileId |-> Read(p, 8, 16)])

FlushRequest == Msg(24, <<N(0, 2, 24), F("FileId", 8, 16)>>)
FlushRequestDecoder(p) ==
  Dec(p.size >= 24 /\ Num(p, 0, 2) = 24, [FileId |-> Read(p, 8, 16)])

(* READ's channel information is written but has no accessor; the decoder  *)
(* only tests where it ends, against the offset from the header's start.   *)
ReadRequest(v) ==
  Msg(48 + OrOne(v.channel),
      <<N(0, 2, 49), F("Padding", 2, 1), F("Flags", 3, 1), F("Length", 4, 4),
        F("Offset", 8, 8), F("FileId", 16, 16), F("MinimumCount", 32, 4),
        F("Channel", 36, 4), F("RemainingBytes", 40, 4)>>
      \o (IF v.channel = 0 THEN <<>>
          ELSE <<N(44, 2, 64 + 48), F("ReadChannelInfo", 48, v.channel)>>)
      \o <<N(46, 2, v.channel)>>)
ReadRequestDecoder(p) ==
  Dec(/\ p.size >= 48 /\ Num(p, 0, 2) = 49
      /\ p.size >= U(2, Num(p, 44, 2) + Num(p, 46, 2)),
      [Padding |-> Read(p, 2, 1), Flags |-> Read(p, 3, 1), Length |-> Read(p, 4, 4),
       Offset |-> Read(p, 8, 8), FileId |-> Read(p, 16, 16),
       MinimumCount |-> Read(p, 32, 4), Channel |-> Read(p, 36, 4),
       RemainingBytes |-> Read(p, 40, 4)])

WriteRequest(v) ==
  Msg(48 + OrOne(v.channel + v.data),
      <<N(0, 2, 49), F("Offset", 8, 8), F("FileId", 16, 16), F("Channel", 32, 4),
        F("RemainingBytes", 36, 4), F("Flags", 44, 4)>>
      \o (IF v.channel = 0 THEN <<>>
          ELSE <<N(40, 2, 64 + 48), F("WriteChannelInfo", 48, v.channel)>>)
      \o <<N(42, 2, v.channel), N(2, 2, 64 + 48 + v.channel),
           F("Data", 48 + v.channel, v.data), N(4, 4, v.data)>>)
WriteRequestDecoder(p) ==
  LET off == Num(p, 2, 2)
      len == Num(p, 4, 4)
  IN  Dec(/\ p.size >= 48 /\ Num(p, 0, 2) = 49
          /\ p.size + 64 >= U(2, Num(p, 40, 2) + Num(p, 42, 2))
          /\ p.size + 64 >= off + len,
        [Offset |-> Read(p, 8, 8), FileId |-> Read(p, 16, 16),
         Channel |-> Read(p, 32, 4), RemainingBytes |-> Read(p, 36, 4),
         Flags |-> Read(p, 44, 4),
         Data |-> IF off < 64 \/ off - 64 + len > p.size THEN Empty
                  ELSE Read(p, off - 64, len)])

(* IOCTL, QUERY_INFO and SET_INFO: input is the size of Input, 0 for nil.  *)
IoctlRequest(v) ==
  Msg(56 + OrOne(v.input),
      <<N(0, 2, 57), F("CtlCode", 4, 4), F("FileId", 8, 16),
        F("MaxInputResponse", 32, 4), F("OutputOffset", 36, 4),
        F("OutputCount", 40, 4), F("MaxOutputResponse", 44, 4), F("Flags", 48, 4)>>
      \o (IF v.input = 0 THEN <<>>
          ELSE <<N(24, 4, 56 + 64), F("Data", 56, v.input), N(28, 4, v.input)>>))
IoctlRequestDecoder(p) ==
  Dec(/\ p.size >= 56 /\ Num(p, 0, 2) = 57
      /\ p.size + 64 >= Num(p, 24, 4) + Num(p, 28, 4),
      [CtlCode |-> Read(p, 4, 4), FileId |-> Read(p, 8, 16),
       MaxInputResponse |-> Read(p, 32, 4), OutputOffset |-> Read(p, 36, 4),
       OutputCount |-> Read(p, 40, 4), MaxOutputResponse |-> Read(p, 44, 4),
       Flags |-> Read(p, 48, 4), Data |-> Read(p, 56, p.size - 56)])

QueryDirectoryRequest(v) ==
  Msg(32 + OrOne(v.name),
      <<N(0, 2, 33), F("FileInfoClass", 2, 1), F("Flags", 3, 1), F("FileIndex", 4, 4),
        F("FileId", 8, 16), F("OutputBufferLength", 28, 4), N(24, 2, 32 + 64),
        F("FileName", 32, v.name), N(26, 2, v.name)>>)
QueryDirectoryRequestDecoder(p) ==
  LET off == Num(p, 24, 2)
      len == Num(p, 26, 2)
  IN  Dec(p.size >= 32 /\ Num(p, 0, 2) = 33 /\ p.size + 64 >= U(2, off + len),
        [FileInfoClass |-> Read(p, 2, 1), Flags |-> Read(p, 3, 1),
         FileIndex |-> Read(p, 4, 4), FileId |-> Read(p, 8, 16),
         OutputBufferLength |-> Read(p, 28, 4),
         FileName |-> IF off < 64 \/ off - 64 + len > p.size THEN Empty
                      ELSE Read(p, off - 64, len)])

QueryInfoRequest(v) ==
  Msg(40 + OrOne(v.input),
      <<N(0, 2, 41), F("InfoType", 2, 1), F("FileInfoClass", 3, 1),
        F("OutputBufferLength", 4, 4), F("AdditionalInformation", 16, 4),
        F("Flags", 20, 4), F("FileId", 24, 16)>>
      \o (IF v.input = 0 THEN <<>>
          ELSE <<N(8, 2, 40 + 64), F("Input", 40, v.input), N(12, 4, v.input)>>))
QueryInfoRequestDecoder(p) ==
  Dec(/\ p.size >= 40 /\ Num(p, 0, 2) = 41
      /\ p.size + 64 >= Num(p, 8, 2) + Num(p, 12, 4),
      [InfoType |-> Read(p, 2, 1), FileInfoClass |-> Read(p, 3, 1),
       OutputBufferLength |-> Read(p, 4, 4), AdditionalInformation |-> Read(p, 16, 4),
       Flags |-> Read(p, 20, 4), FileId |-> Read(p, 24, 16)])

SetInfoRequest(v) ==
  Msg(32 + OrOne(v.input),
      <<N(0, 2, 33), F("InfoType", 2, 1), F("FileInfoClass", 3, 1),
        F("AdditionalInformation", 12, 4), F("FileId", 16, 16)>>
      \o (IF v.input = 0 THEN <<>>
          ELSE <<N(8, 2, 32 + 64), F("Buffer", 32, v.input), N(4, 4, v.input)>>))
SetInfoRequestDecoder(p) ==
  Dec(/\ p.size >= 32 /\ Num(p, 0, 2) = 33
      /\ p.size + 64 >= Num(p, 8, 2) + Num(p, 4, 4),
      [InfoType |-> Read(p, 2, 1), FileInfoClass |-> Read(p, 3, 1),
       AdditionalInformation |-> Read(p, 12, 4), FileId |-> Read(p, 16, 16),
       Buffer |-> Read(p, 32, p.size - 32)])

(* CHANGE_NOTIFY has no encoder here; its size must be exactly 32. *)
ChangeNotifyRequest ==
  Msg(32, <<N(0, 2, 32), F("Flags", 2, 2), F("OutputBufferLength", 4, 4),
            F("FileId", 8, 16), F("CompletionFilter", 24, 4)>>)
ChangeNotifyRequestDecoder(p) ==
  Dec(p.size = 32 /\ Num(p, 0, 2) = 32,
      [Flags |-> Read(p, 2, 2), OutputBufferLength |-> Read(p, 4, 4),
       FileId |-> Read(p, 8, 16), CompletionFilter |-> Read(p, 24, 4)])
=============================================================================
