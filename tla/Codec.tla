------------------------------- MODULE Codec --------------------------------
(***************************************************************************)
(* Frames on the wire.  A sender appends messages to a compound (or sends  *)
(* one alone), frames them and, on an encrypted session, wraps the frame   *)
(* in a transform header; the receiver unwraps, validates and cuts the     *)
(* frame and decodes every message.  The structures of the modules below   *)
(* this one meet here: an information class, a security descriptor or an   *)
(* RPC message travels in the buffer of the response or request that       *)
(* carries it.  A message is a triple <<carrier, kind, v>>: the structure, *)
(* the buffer it travels in and what its layout depends on.                *)
(***************************************************************************)
EXTENDS Rpc

CONSTANTS Messages,   \* the messages sent alone
          Chained,    \* the ones that may be combined
          MaxParts,   \* the longest compound
          Headers     \* the variants of the packet header

VARIABLES parts,      \* the messages of the compound so far
          head,       \* the header variant the frame was sent with
          wire,       \* the frame
          got,        \* what the receiver decoded, part by part
          phase
vars == <<parts, head, wire, got, phase>>

NoFrame == Msg(0, <<>>)
NoHead == [set |-> {}, tree |-> FALSE]

-----------------------------------------------------------------------------
(* The SMB2 structures. *)
Body(kind, v) ==
  CASE kind = "NegotiateRequest" -> NegotiateRequest(v)
    [] kind = "SessionSetupRequest" -> SessionSetupRequest(v)
    [] kind = "LogoffRequest" -> LogoffRequest
    [] kind = "TreeConnectRequest" -> TreeConnectRequest(v)
    [] kind = "TreeDisconnectRequest" -> TreeDisconnectRequest
    [] kind = "CancelRequest" -> CancelRequest
    [] kind = "CreateRequest" -> CreateRequest(v)
    [] kind = "CloseRequest" -> CloseRequest
    [] kind = "FlushRequest" -> FlushRequest
    [] kind = "ReadRequest" -> ReadRequest(v)
    [] kind = "WriteRequest" -> WriteRequest(v)
    [] kind = "IoctlRequest" -> IoctlRequest(v)
    [] kind = "QueryDirectoryRequest" -> QueryDirectoryRequest(v)
    [] kind = "QueryInfoRequest" -> QueryInfoRequest(v)
    [] kind = "SetInfoRequest" -> SetInfoRequest(v)
    [] kind = "ChangeNotifyRequest" -> ChangeNotifyRequest
    [] kind = "ErrorResponse" -> ErrorResponse(v)
    [] kind = "OplockBreakResponse" -> OplockBreakResponse(v)
    [] kind = "NegotiateResponse" -> NegotiateResponse(v)
    [] kind = "SessionSetupResponse" -> SessionSetupResponse(v)
    [] kind = "LogoffResponse" -> LogoffResponse
    [] kind = "TreeConnectResponse" -> TreeConnectResponse
    [] kind = "TreeDisconnectResponse" -> TreeDisconnectResponse
    [] kind = "CreateResponse" -> CreateResponse(v)
    [] kind = "CloseResponse" -> CloseResponse(v)
    [] kind = "FlushResponse" -> FlushResponse
    [] kind = "ReadResponse" -> ReadResponse(v)
    [] kind = "WriteResponse" -> WriteResponse
    [] kind = "LockResponse" -> LockResponse
    [] kind = "EchoResponse" -> EchoResponse
    [] kind = "IoctlResponse" -> IoctlResponse(v)
    [] kind = "QueryDirectoryResponse" -> QueryDirectoryResponse(v)
    [] kind = "QueryInfoResponse" -> QueryInfoResponse(v)
    [] kind = "SetInfoResponse" -> SetInfoResponse
    [] kind = "ChangeNotifyResponse" -> ChangeNotifyResponse(v)

BodyDecoder(kind, p) ==
  CASE kind = "NegotiateRequest" -> NegotiateRequestDecoder(p)
    [] kind = "SessionSetupRequest" -> SessionSetupRequestDecoder(p)
    [] kind = "LogoffRequest" -> LogoffRequestDecoder(p)
    [] kind = "TreeConnectRequest" -> TreeConnectRequestDecoder(p)
    [] kind = "TreeDisconnectRequest" -> TreeDisconnectRequestDecoder(p)
    [] kind = "CancelRequest" -> CancelRequestDecoder(p)
    [] kind = "CreateRequest" -> CreateRequestDecoder(p)
    [] kind = "CloseRequest" -> CloseRequestDecoder(p)
    [] kind = "FlushRequest" -> FlushRequestDecoder(p)
    [] kind = "ReadRequest" -> ReadRequestDecoder(p)
    [] kind = "WriteRequest" -> WriteRequestDecoder(p)
    [] kind = "IoctlRequest" -> IoctlRequestDecoder(p)
    [] kind = "QueryDirectoryRequest" -> QueryDirectoryRequestDecoder(p)
    [] kind = "QueryInfoRequest" -> QueryInfoRequestDecoder(p)
    [] kind = "SetInfoRequest" -> SetInfoRequestDecoder(p)
    [] kind = "ChangeNotifyRequest" -> ChangeNotifyRequestDecoder(p)
    [] kind = "ErrorResponse" -> ErrorResponseDecoder(p)
    [] kind = "NegotiateResponse" -> NegotiateResponseDecoder(p)
    [] kind = "SessionSetupResponse" -> SessionSetupResponseDecoder(p)
    [] kind = "LogoffResponse" -> LogoffResponseDecoder(p)
    [] kind = "TreeConnectResponse" -> TreeConnectResponseDecoder(p)
    [] kind = "TreeDisconnectResponse" -> TreeDisconnectResponseDecoder(p)
    [] kind = "CreateResponse" -> CreateResponseDecoder(p)
    [] kind = "CloseResponse" -> CloseResponseDecoder(p)
    [] kind = "FlushResponse" -> FlushResponseDecoder(p)
    [] kind = "ReadResponse" -> ReadResponseDecoder(p)
    [] kind = "WriteResponse" -> WriteResponseDecoder(p)
    [] kind = "IoctlResponse" -> IoctlResponseDecoder(p)
    [] kind = "QueryDirectoryResponse" -> QueryDirectoryResponseDecoder(p)
    [] kind \in {"QueryInfoResponse", "ChangeNotifyResponse"} -> QueryInfoResponseDecoder(p)
    [] kind = "SetInfoResponse" -> SetInfoResponseDecoder(p)
    [] OTHER -> WriteOnly(p)

-----------------------------------------------------------------------------
(* What the buffers of these structures carry. *)
InfoPayload(kind, v) ==
  CASE kind = "Basic" -> FileBasicInformationInfo
    [] kind = "Standard" -> FileStandardInformationInfo
    [] kind = "Internal" -> FileInternalInformationInfo
    [] kind = "Id" -> FileIdInformationInfo
    [] kind = "Ea" -> FileEaInformationInfo
    [] kind = "Access" -> FileAccessInformationInfo
    [] kind = "Position" -> FilePositionInformationInfo
    [] kind = "Mode" -> FileModeInformationInfo
    [] kind = "Alignment" -> FileAlignmentInformationInfo
    [] kind = "AlternateName" -> FileAlternateNameInformationInfo(v.name)
    [] kind = "NormalizedName" -> FileNormalizedNameInformationInfo(v.name)
    [] kind = "All" -> FileAllInformationInfo(v)
    [] kind = "NetworkOpen" -> FileNetworkOpenInformationInfo
    [] kind = "Streams" -> FileStreamInformationInfoItems(v)
    [] kind = "FsAttribute" -> FileFsAttributeInformationInfo(v)
    [] kind = "FsDevice" -> FileFsDeviceInformationInfo
    [] kind = "FsFullSize" -> FileFsFullSizeInformationInfo
    [] kind = "FsSectorSize" -> FileFsSectorSizeInformationInfo
    [] kind = "FsPosix" -> FileFsPosixInformationInfo
    [] kind = "FsSize" -> FileFsSizeInformationInfo
    [] kind = "FsVolume" -> FileFsVolumeInformationInfo(v)
    [] kind = "FsObjectId" -> FileFsObjectIdInfo
    [] kind = "PosixFile" -> PosixFileInfo(v)
    [] kind = "Security" -> queryInfoSec(v)
InfoPayloadDecoder(kind, p) ==
  CASE kind = "Basic" -> FileBasicInformationDecoder(p)
    [] kind = "Standard" -> FileStandardInformationDecoder(p)
    [] kind = "Internal" -> FileInternalInformationDecoder(p)
    [] kind = "Ea" -> FileEaInformationDecoder(p)
    [] kind = "Access" -> FileAccessInformationDecoder(p)
    [] kind = "Position" -> FilePositionInformationDecoder(p)
    [] kind = "Mode" -> FileModeInformationDecoder(p)
    [] kind = "Alignment" -> FileAlignmentInformationDecoder(p)
    [] kind \in {"AlternateName", "NormalizedName"} -> FileNameInformationDecoder(p)
    [] kind = "All" -> FileAllInformationDecoder(p)
    [] kind = "Streams" -> StreamListing(p)
    [] kind = "FsFullSize" -> FileFsFullSizeInformationDecoder(p)
    [] kind = "Security" -> setSecInfo(p)
    [] OTHER -> WriteOnly(p)

SetPayload(kind, v) ==
  CASE kind = "SetBasic" -> FileBasicInformationEncoder(v)
    [] kind = "SetRename" -> FileRenameInformationType2Encoder(v)
    [] kind = "SetLink" -> FileLinkInformationType2Encoder(v)
    [] kind = "SetDisposition" -> FileDispositionInformationEncoder
    [] kind = "SetPosition" -> FilePositionInformationEncoder
    [] kind = "SetEndOfFile" -> FileEndOfFileInformationEncoder
    [] kind = "SetSecurity" -> [SecurityDescriptor(v) EXCEPT !.list = v.mode]
SetPayloadDecoder(kind, p) ==
  CASE kind = "SetBasic" -> FileBasicInformationInfoDecoder(p)
    [] kind \in {"SetRename", "SetLink"} -> FileRenameInformationInfoDecoder(p)
    [] kind = "SetDisposition" -> FileDispositionInformationInfoDecoder(p)
    [] kind = "SetPosition" -> FilePositionInformationDecoder(p)
    [] kind = "SetEndOfFile" -> FileEndOfFileInformationInfoDecoder(p)
    [] kind = "SetSecurity" -> setSecInfo(p)

(* The buffers of IOCTL: RPC over a pipe, reparse points, copy chunks.     *)
InPayload(kind, v) ==
  CASE kind = "RpcBind" -> Bind(v)
    [] kind = "RpcEnum" -> [NetShareEnumAllRequest(v) EXCEPT !.list = <<15>>]
    [] kind = "RpcGetInfo" -> NetShareGetInfoRequest(v)
    [] kind = "Copychunk" -> SrvCopychunkCopy(v)
InPayloadDecoder(kind, p) ==
  CASE kind = "RpcBind" -> DCEBindRequestDecoder(p)
    [] kind = "RpcEnum" -> DCERequestReqDecoder(p)
    [] kind = "RpcGetInfo" -> NetShareGetInfoRequestDecoder(p)
    [] OTHER -> WriteOnly(p)
OutPayload(kind, v) ==
  CASE kind = "RpcBindAck" -> DCEBindAck(v)
    [] kind = "RpcShares" -> NetShareEnum(v)
    [] kind = "RpcShare" -> DCERequestRes(NetShareGetInfoResponse(v))
    [] kind = "ObjectId" -> FileObjectId1
    [] kind = "Reparse" -> SymbolicLinkReparseDataBuffer(v)
    [] kind = "AfpInfo" -> AfpInfo
OutPayloadDecoder(kind, p) ==
  CASE kind = "RpcBindAck" -> BindAckDecoder(p)
    [] kind = "RpcShares" -> NetShareEnumAllResponseDecoder(p)
    [] kind = "Reparse" -> SymbolicLinkReparseDataBufferDecoder(p)
    [] OTHER -> WriteOnly(p)

(* The data of a create context and of an error. *)
ContextPayload(kind, v) ==
  CASE kind = "MaximalAccess" -> CreateContextMaximalAccessResponse
    [] kind = "AAPL" -> AAPLServerQueryResponse(v)
    [] kind = "Durable" -> DurableHandleResponse2
    [] kind = "Lease" -> LeaseResponse
    [] kind = "Lease2" -> LeaseResponse2
    [] kind = "PosixCreate" -> PosixCreateResponse(v)
    [] kind = "DiskId" -> DiskIdResponse
ContextPayloadDecoder(kind, p) ==
  CASE kind = "AAPL" -> AAPLServerQueryRequestDecoder(p)
    [] kind = "Durable" -> DurableHandleRequest2Decoder(p)
    [] kind = "Lease" -> LeaseRequestDecoder(p)
    [] kind = "Lease2" -> LeaseRequest2Decoder(p)
    [] OTHER -> WriteOnly(p)
ErrorPayload(kind, v) ==
  CASE kind = "SmallBuffer" -> SmallBufferErrorResponse
    [] kind = "SymlinkError" -> SymbolicLinkErrorResponse(v)
ErrorPayloadDecoder(kind, p) ==
  CASE kind = "SmallBuffer" -> SmallBufferErrorResponseDecoder(p)
    [] kind = "SymlinkError" -> SymbolicLinkErrorResponseDecoder(p)

-----------------------------------------------------------------------------
(* The structure itself; "Body" is one that no buffer carries. *)
Structure(m) ==
  CASE m[1] = "Body" -> Body(m[2], m[3])
    [] m[1] = "QueryInfo" -> InfoPayload(m[2], m[3])
    [] m[1] = "QueryDirectory" ->
         FileInformationInfoResponse([class |-> m[2], names |-> m[3].names])
    [] m[1] = "ChangeNotify" -> FileNotifyInformationList(m[3])
    [] m[1] = "SetInfo" -> SetPayload(m[2], m[3])
    [] m[1] = "IoctlIn" -> InPayload(m[2], m[3])
    [] m[1] = "IoctlOut" -> OutPayload(m[2], m[3])
    [] m[1] = "Context" -> ContextPayload(m[2], m[3])
    [] m[1] = "Error" -> ErrorPayload(m[2], m[3])

(* The carrier with the structure encoded where its buffer is. *)
Carry(carrier, f, s) ==
  LET at == carrier.puts[CHOOSE i \in DOMAIN carrier.puts : carrier.puts[i].v[1] = f].at
  IN  Msg(carrier.size,
          SelectSeq(carrier.puts, LAMBDA w : w.v[1] # f) \o At(at, s))
CarriedIn(carrier, s) ==
  CASE carrier = "Body" -> s
    [] carrier = "QueryInfo" ->
         Carry(QueryInfoResponse([output |-> s.size]), "OutputBuffer", s)
    [] carrier = "QueryDirectory" ->
         Carry(QueryDirectoryResponse([output |-> s.size]), "OutputBuffer", s)
    [] carrier = "ChangeNotify" ->
         Carry(ChangeNotifyResponse([output |-> s.size]), "OutputBuffer", s)
    [] carrier = "SetInfo" -> Carry(SetInfoRequest([input |-> s.size]), "Buffer", s)
    [] carrier = "IoctlIn" -> Carry(IoctlRequest([input |-> s.size]), "Data", s)
    [] carrier = "IoctlOut" ->
         Carry(IoctlResponse([input |-> 0, output |-> s.size]), "Output", s)
    [] carrier = "Context" ->
         Carry(CreateResponse([times |-> TRUE,
                               contexts |-> <<CreateContext(4, s.size)>>]), "Data", s)
    [] carrier = "Error" ->
         Carry(ErrorResponse([data |-> s.size, contexts |-> <<>>]), "ErrorData", s)
Carried(m) == CarriedIn(m[1], Structure(m))

(* The slice the accessor of the carrier's buffer returns. *)
Buffer(carrier, p) ==
  CASE carrier \in {"QueryInfo", "QueryDirectory", "ChangeNotify"} ->
         Slice(p, Num(p, 2, 2) - 64, Num(p, 4, 4))
    [] carrier = "SetInfo" -> From(p, 32)
    [] carrier = "IoctlIn" -> From(p, 56)
    [] carrier = "IoctlOut" -> Slice(p, Num(p, 32, 4) - 64, Num(p, 36, 4))
    [] carrier = "Context" ->
         LET cc == Slice(p, Num(p, 80, 4) - 64, Num(p, 84, 4))
         IN  Slice(cc, Num(cc, 10, 2), U(2, Num(cc, 12, 4)))
    [] carrier = "Error" -> Slice(p, 8, Num(p, 4, 4))
Decoded(m, p) ==
  CASE m[1] = "Body" -> BodyDecoder(m[2], p)
    [] m[1] = "QueryInfo" -> InfoPayloadDecoder(m[2], Buffer(m[1], p))
    [] m[1] = "QueryDirectory" -> DirectoryListing(m[2], Buffer(m[1], p))
    [] m[1] = "ChangeNotify" -> NotifyListing(Buffer(m[1], p))
    [] m[1] = "SetInfo" -> SetPayloadDecoder(m[2], Buffer(m[1], p))
    [] m[1] = "IoctlIn" -> InPayloadDecoder(m[2], Buffer(m[1], p))
    [] m[1] = "IoctlOut" -> OutPayloadDecoder(m[2], Buffer(m[1], p))
    [] m[1] = "Context" -> ContextPayloadDecoder(m[2], Buffer(m[1], p))
    [] m[1] = "Error" -> ErrorPayloadDecoder(m[2], Buffer(m[1], p))

(* The transform header around a frame, and the test for it. *)
Sealed(frame) ==
  Carry(TransformHeader(frame.size), "EncryptedData", frame)
OnTheWire(frame, encrypted) == IF encrypted THEN Sealed(frame) ELSE frame
IsSealed(p) == Num(p, 0, 4) = TransformMagic

-----------------------------------------------------------------------------
Init ==
  /\ parts = <<>> /\ head = NoHead /\ wire = NoFrame /\ got = <<>>
  /\ phase = "compose"

(* A response or request joins the compound. *)
Append1(m) ==
  /\ phase = "compose" /\ Len(parts) < MaxParts
  /\ parts # <<>> => m \in Chained /\ Range(parts) \subseteq Chained
  /\ parts' = Append(parts, m)
  /\ UNCHANGED <<head, wire, got, phase>>

Packets(h) == [k \in DOMAIN parts |-> PacketOf(k, Len(parts), h, Carried(parts[k]))]
Send(h, encrypted) ==
  /\ phase = "compose" /\ parts # <<>>
  /\ head' = h
  /\ wire' = OnTheWire(Frame(Packets(h)), encrypted)
  /\ phase' = "sent"
  /\ UNCHANGED <<parts, got>>

(* tryDecrypt, validateSMB2CompoundFrame, the cut and the decoders; the    *)
(* receiver knows the kind of each message by its command and class.       *)
Receive ==
  LET p  == IF IsSealed(wire) THEN From(wire, 52) ELSE wire
      ps == FrameSplit(p)
  IN  /\ phase = "sent"
      /\ got' = IF (IsSealed(wire) => TransformCodec(wire).ok) /\ FrameValid(p)
                THEN [k \in DOMAIN ps |->
                        [first |-> IsCompoundFirst(ps[k]), last |-> IsCompoundLast(ps[k]),
                         head |-> PacketCodec(ps[k]), size |-> ps[k].size,
                         body |-> Decoded(parts[k], From(ps[k], 64))]]
                ELSE <<>>
      /\ phase' = "received"
      /\ UNCHANGED <<parts, head, wire>>

Reset ==
  /\ phase = "received"
  /\ parts' = <<>> /\ head' = NoHead /\ wire' = NoFrame /\ got' = <<>>
  /\ phase' = "compose"

Next ==
  \/ \E m \in Messages : Append1(m)
  \/ \E h \in Headers, encrypted \in BOOLEAN : Send(h, encrypted)
  \/ Receive
  \/ Reset
Spec == Init /\ [][Next]_vars

-----------------------------------------------------------------------------
(* Where the code does not give back what was written (README, "Layout     *)
(* gaps").  padded: the packet is not the last of its frame and is padded. *)
Overlapping(m) ==
  \/ m[2] = "FsFullSize"
  \/ m[2] = "SymlinkError" /\ m[3].subst + m[3].print > 0
FieldGap(m, padded) ==
  \/ m[1] = "Error" \/ m[2] \in {"FsFullSize", "RpcGetInfo"}
  \/ m[2] = "ErrorResponse" /\ m[3].data > 0
  \/ m[2] = "ReadRequest" /\ m[3].channel > 0
  \/ m[2] = "NegotiateRequest" /\ m[3].contexts # <<>> /\ ChainEnd(m[3].contexts, 0) < 28
  \/ m[2] = "CreateRequest" /\ m[3].contexts # <<>> /\ m[3].name % 8 # 0
  \/ m[2] \in {"IoctlRequest", "SetInfoRequest"} /\ m[3].input > 0 /\ padded
ListGap(m) ==
  \/ m[2] = "ErrorResponse" /\ m[3].contexts # <<>>
  \/ /\ m[2] = "CreateRequest" /\ m[3].contexts # <<>>
     /\ m[3].name % 8 # 0 \/ \E c \in Range(Front(m[3].contexts)) : c.size % 8 # 0
  \/ m[2] = "Security" /\ "DACL" \in m[3]
  \/ m[2] = "RpcShares" /\ \E s \in Range(m[3].shares) : s.bytes # s.units

(* The fields a sender gave the header, and the one that does not arrive:  *)
(* a packet with a TreeId carries no AsyncId.                              *)
HeaderFields ==
  {"CreditCharge", "Command", "CreditRequest", "MessageId", "SessionId"} \union HeaderSet(head)
HeaderGap(f) == f = "AsyncId" /\ head.tree

(* Every Encode stays inside the Size() bytes its caller made for it, so   *)
(* neither a response nor a part of a compound writes into its neighbour.  *)
WithinBuffer ==
  phase = "sent" => FitsIn(wire) /\ \A k \in DOMAIN parts : FitsIn(Structure(parts[k]))

(* No field is overwritten by a later one, except in the two structures    *)
(* whose Encode does (FileFsFullSizeInformation and the symbolic link      *)
(* error).                                                                 *)
FieldsIntact ==
  phase = "sent" => \A k \in DOMAIN parts :
                      IntactIn(Structure(parts[k])) <=> ~Overlapping(parts[k])

(* The receive loop of conn.go cuts a frame exactly where compoundContext  *)
(* and sendPacket joined it: as many packets as were sent, every header    *)
(* field that was set unchanged, exactly up to HeaderGap, the first and    *)
(* the last of a chain recognised, padding only before the next packet;    *)
(* and this also behind a transform header.                                *)
FrameCutExact ==
  phase = "received" =>
    LET n == Len(parts)
        sent == Packets(head)
    IN  /\ Len(got) = n
        /\ \A k \in 1..n :
             /\ got[k].size = IF k = n THEN sent[k].size ELSE Roundup(sent[k].size, 8)
             /\ got[k].first = (n > 1 /\ k = 1) /\ got[k].last = (n > 1 /\ k = n)
             /\ \A f \in HeaderFields : got[k].head[f] = <<f, 0>> <=> ~HeaderGap(f)
        /\ IsSealed(wire) => \A f \in {"Signature", "Nonce", "Flags", "SessionId"} :
                               TransformCodec(wire).got[f] = <<f, 0>>

(* A decoder accepts what the matching encoder wrote and its accessors     *)
(* return every field of it, and nothing for a field that was left out,    *)
(* whatever the lengths and wherever in a compound the message stands,     *)
(* exactly up to the gaps above.                                           *)
FieldsReturned ==
  phase = "received" => \A k \in DOMAIN got :
    FieldsBack(Structure(parts[k]), got[k].body)
      <=> ~FieldGap(parts[k], (64 + Carried(parts[k]).size) % 8 # 0 /\ k < Len(parts))

(* Following the links, counts and lengths of a list finds its entries,    *)
(* all of them, once, in order and with their names: negotiate and create  *)
(* contexts, directory entries, streams, change records, bind contexts,    *)
(* shares; and setSecInfo finds the mode a DACL stands for.                *)
ListsReturned ==
  phase = "received" => \A k \in DOMAIN got :
    got[k].body.list = Structure(parts[k]).list <=> ~ListGap(parts[k])
=============================================================================
