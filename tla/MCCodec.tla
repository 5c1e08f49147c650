------------------------------ MODULE MCCodec -------------------------------
EXTENDS Codec

(* Name and buffer lengths: nothing, one that needs no padding, one that   *)
(* needs it, and an odd one where the code takes bytes rather than UTF-16. *)
Names == {0, 2, 8, 14}
Sizes == {0, 1, 8, 13}
Seqs(S, n) == UNION {[1..k -> S] : k \in 0..n}

NegContexts == {HashContext(1, 32), HashContext(2, 3), CipherContext(3), CipherContext(1),
                CompressionContext(1), PosixContext}
CreateContexts == {CreateContext(4, 0), CreateContext(4, 8), CreateContext(16, 13)}
Dacl(aces) == <<ACL(aces)>>
Allow(mask, sid) == ACE(ACCESS_ALLOWED_ACE_TYPE, mask, sid)
ModeDacl(u, g, o) ==
  Dacl(<<Allow(UnixModeToAceMask(u), Entry(1, SIDFromUid)),
         Allow(UnixModeToAceMask(g), Entry(2, PosixSIDFromGid)),
         Allow(UnixModeToAceMask(o), Everyone)>>)
Descriptors ==
  {[owner |-> o, group |-> g, sacl |-> <<>>, dacl |-> d[1], mode |-> d[2]] :
     o \in {<<>>, <<SIDFromUid>>, <<PosixSIDFromUid>>, <<LocalSystem>>},
     g \in {<<>>, <<SIDFromGid>>, <<PosixSIDFromGid>>},
     d \in {<<<<>>, <<>>>>,
            <<Dacl(<<Allow(0, SIDFromMode), Allow(GENERIC_ALL, Everyone)>>), <<>>>>,
            <<Dacl(<<Allow(GENERIC_ALL, LocalSystem)>>), <<>>>>}
         \union {<<ModeDacl(x[1], x[2], x[3]), <<x[1] * 64 + x[2] * 8 + x[3]>>>> :
                    x \in {<<7, 5, 5>>, <<6, 4, 0>>, <<0, 0, 7>>}}}

B(kind, vs) == {<<"Body", kind, v>> : v \in vs}
Plain(carrier, kinds) == {<<carrier, k, 0>> : k \in kinds}

Bodies ==
  B("NegotiateRequest", {[dialects |-> d, contexts |-> cs] :
                           d \in {1, 4, 5}, cs \in Seqs(NegContexts, 2)})
  \union B("NegotiateResponse", {[token |-> t, contexts |-> cs, smb311 |-> s] :
                           t \in {0, 8, 13}, cs \in Seqs(NegContexts, 2), s \in BOOLEAN})
  \union B("SessionSetupRequest", [token : Sizes]) \union B("SessionSetupResponse", [token : Sizes])
  \union B("TreeConnectRequest", [path : Names])
  \union B("CreateRequest", [name : Names, contexts : Seqs(CreateContexts, 2)])
  \union B("CreateResponse", [times : BOOLEAN, contexts : Seqs(CreateContexts, 3)])
  \union B("CloseResponse", [times : BOOLEAN])
  \union B("ReadRequest", [channel : Sizes]) \union B("WriteRequest", [channel : Sizes, data : Sizes])
  \union B("IoctlRequest", [input : Sizes]) \union B("QueryDirectoryRequest", [name : Names])
  \union B("QueryInfoRequest", [input : Sizes]) \union B("SetInfoRequest", [input : Sizes])
  \union B("ErrorResponse", {[data |-> d, contexts |-> <<>>] : d \in Sizes}
                            \union {[data |-> 0, contexts |-> cs] : cs \in Seqs(Sizes, 2)})
  \union B("OplockBreakResponse", [body : {24, 36}]) \union B("ReadResponse", [data : Sizes])
  \union B("IoctlResponse", [input : Sizes, output : Sizes])
  \union B("QueryDirectoryResponse", [output : Sizes]) \union B("QueryInfoResponse", [output : Sizes])
  \union B("ChangeNotifyResponse", [output : Sizes])
  \union Plain("Body", {"LogoffRequest", "TreeDisconnectRequest", "CancelRequest",
       "CloseRequest", "FlushRequest", "ChangeNotifyRequest", "LogoffResponse", "TreeConnectResponse",
       "TreeDisconnectResponse", "FlushResponse", "WriteResponse", "LockResponse",
       "EchoResponse", "SetInfoResponse"})

Strings == {[bytes |-> 2, units |-> 2], [bytes |-> 5, units |-> 5], [bytes |-> 6, units |-> 4]}
Payloads ==
  Plain("QueryInfo", {"Basic", "Standard", "Internal", "Id", "Ea", "Access", "Position",
       "Mode", "Alignment", "NetworkOpen", "FsDevice", "FsFullSize", "FsSectorSize",
       "FsPosix", "FsSize", "FsObjectId"})
  \union {<<"QueryInfo", k, [name |-> n]>> : n \in Names,
            k \in {"AlternateName", "NormalizedName", "All", "FsAttribute", "FsVolume"}}
  \union {<<"QueryInfo", "Streams", [names |-> ns]>> : ns \in Seqs(Names, 3) \ {<<>>}}
  \union {<<"QueryInfo", "PosixFile", [owner |-> o, group |-> g]>> : o, g \in {12, 16, 28}}
  \union {<<"QueryInfo", "Security", ai>> : ai \in SUBSET {"OWNER", "GROUP", "LABEL", "DACL"}}
  \union {<<"QueryDirectory", c, [names |-> ns]>> :
            c \in DirectoryClasses, ns \in Seqs({2, 8, 14}, 3) \ {<<>>}}
  \union {<<"ChangeNotify", "Notify", [names |-> ns]>> : ns \in Seqs(Names, 3) \ {<<>>}}
  \union {<<"SetInfo", "SetBasic", [times |-> t]>> : t \in BOOLEAN}
  \union {<<"SetInfo", k, [name |-> n]>> : n \in Names, k \in {"SetRename", "SetLink"}}
  \union Plain("SetInfo", {"SetDisposition", "SetPosition", "SetEndOfFile"})
  \union {<<"SetInfo", "SetSecurity", d>> : d \in Descriptors}
  \union {<<"IoctlIn", "RpcBind", [contexts |-> cs]>> : cs \in Seqs({0, 1, 2}, 2)}
  \union {<<"IoctlIn", "RpcEnum", [server |-> n]>> : n \in 0..3}
  \union {<<"IoctlIn", "RpcGetInfo", [server |-> n, share |-> s]>> : n \in 0..3, s \in 1..3}
  \union {<<"IoctlIn", "Copychunk", [chunks |-> n]>> : n \in 0..2}
  \union {<<"IoctlOut", "RpcBindAck", [items |-> n]>> : n \in 0..2}
  \union {<<"IoctlOut", "RpcShares", [shares |-> ss]>> : ss \in Seqs(Strings, 3)}
  \union {<<"IoctlOut", "RpcShare", [share |-> s]>> : s \in Strings}
  \union {<<"IoctlOut", "Reparse", [subst |-> n, print |-> m]>> : n, m \in Names}
  \union Plain("IoctlOut", {"ObjectId", "AfpInfo"})
  \union Plain("Context", {"MaximalAccess", "Durable", "Lease", "Lease2", "DiskId"})
  \union {<<"Context", "AAPL", [model |-> n]>> : n \in Names}
  \union {<<"Context", "PosixCreate", [owner |-> o, group |-> g]>> : o, g \in {12, 28}}
  \union {<<"Error", "SmallBuffer", 0>>}
  \union {<<"Error", "SymlinkError", [subst |-> n, print |-> m]>> : n, m \in Names}

MCMessages == Bodies \union Payloads
MCChained ==
  {<<"Body", "CreateRequest", [name |-> 14, contexts |-> <<>>]>>,
   <<"Body", "ChangeNotifyRequest", 0>>, <<"Body", "SetInfoRequest", [input |-> 13]>>,
   <<"Body", "WriteRequest", [channel |-> 0, data |-> 13]>>,
   <<"Body", "ErrorResponse", [data |-> 0, contexts |-> <<>>]>>,
   <<"QueryInfo", "AlternateName", [name |-> 14]>>,
   <<"QueryDirectory", "Names", [names |-> <<2, 14>>]>>,
   <<"SetInfo", "SetRename", [name |-> 14]>>}
(* An answer in a tree, an asynchronous one (PrepareAsyncResponse), and a  *)
(* client's CANCEL of an asynchronous request.                             *)
MCHeaders == {[set |-> {"Status"}, tree |-> TRUE], [set |-> {"Status", "AsyncId"}, tree |-> TRUE],
              [set |-> {"ChannelSequence", "AsyncId"}, tree |-> FALSE]}
=============================================================================
