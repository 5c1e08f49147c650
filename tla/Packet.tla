------------------------------- MODULE Packet -------------------------------
(***************************************************************************)
(* The SMB2 packet header, the compound frame and the transform header     *)
(* (smb2/packet.go; compound.go and conn.go of the server).  A frame is a  *)
(* sequence of packets, each but the last padded to 8 bytes and linked by  *)
(* NextCommand.  The protocol id is the number of its first byte.          *)
(***************************************************************************)
EXTENDS Responses

Smb2Magic == 254
Smb1Magic == 255
TransformMagic == 253
SMB2_FLAGS_RELATED_OPERATIONS == 4

(* h.next, h.related: what sendPacket sets for a compound; h.set: the      *)
(* fields of a shared place that are not zero, of which one is written.    *)
Header(h) ==
  <<N(0, 4, Smb2Magic), N(4, 2, 64), F("CreditCharge", 6, 2)>>
  \o (CASE "ChannelSequence" \in h.set -> <<F("ChannelSequence", 8, 2)>>
        [] "ChannelSequence" \notin h.set /\ "Status" \in h.set -> <<F("Status", 8, 4)>>
        [] OTHER -> <<>>)
  \o <<F("Command", 12, 2), F("CreditRequest", 14, 2),
       N(16, 4, IF h.related THEN SMB2_FLAGS_RELATED_OPERATIONS ELSE 0),
       N(20, 4, h.next), F("MessageId", 24, 8)>>
  \o (CASE "TreeId" \in h.set -> <<F("TreeId", 36, 4)>>
        [] "TreeId" \notin h.set /\ "AsyncId" \in h.set -> <<F("AsyncId", 32, 8)>>
        [] OTHER -> <<>>)
  \o <<F("SessionId", 40, 8)>>

PacketInvalid(p) ==
  LET next == Num(p, 20, 4)
  IN  ~ \/ p.size >= 5 /\ Num(p, 0, 4) = Smb1Magic /\ Num(p, 4, 1) = 114
        \/ /\ p.size >= 64 /\ Num(p, 0, 4) = Smb2Magic /\ Num(p, 4, 2) = 64
           /\ next % 8 = 0
           /\ next # 0 => next >= 64 /\ next < p.size /\ p.size - next >= 64

PacketCodec(p) ==
  [CreditCharge |-> Read(p, 6, 2), ChannelSequence |-> Read(p, 8, 2),
   Status |-> Read(p, 8, 4), Command |-> Read(p, 12, 2),
   CreditRequest |-> Read(p, 14, 2), MessageId |-> Read(p, 24, 8),
   TreeId |-> Read(p, 36, 4), AsyncId |-> Read(p, 32, 8), SessionId |-> Read(p, 40, 8)]

Related(p) == Num(p, 16, 4) = SMB2_FLAGS_RELATED_OPERATIONS
IsCompoundFirst(p) == ~Related(p) /\ Num(p, 20, 4) # 0
IsCompoundLast(p)  == Related(p) /\ Num(p, 20, 4) = 0

-----------------------------------------------------------------------------
(* encodePacketRaw gives a packet the id of its tree, h.tree, whatever     *)
(* else its caller has set.                                                *)
HeaderSet(h) == h.set \union IF h.tree THEN {"TreeId"} ELSE {}

(* sendPacket: every response but the last is linked, every one but the    *)
(* first is RELATED.                                                       *)
PacketOf(k, n, h, body) ==
  LET next == IF k = n THEN 0 ELSE Roundup(64 + body.size, 8)
      hd   == [next |-> next, related |-> k > 1, set |-> HeaderSet(h)]
  IN  MsgList(64 + body.size, Header(hd) \o At(64, body), body.list)

(* compoundContext.Size and Encode *)
(* Mutant: the parts of the compound are not padded. *)
FrameOffsUnpadded(ps) ==
  LET off[i \in DOMAIN ps] == IF i = 1 THEN 0 ELSE off[i - 1] + ps[i - 1].size
  IN  off
FrameOffs(ps) ==
  LET off[i \in DOMAIN ps] == IF i = 1 THEN 0 ELSE off[i - 1] + Roundup(ps[i - 1].size, 8)
  IN  off
Frame(ps) ==
  Msg(FrameOffs(ps)[Len(ps)] + ps[Len(ps)].size,
      FlattenSeq([i \in DOMAIN ps |-> At(FrameOffs(ps)[i], ps[i])]))

(* validateSMB2CompoundFrame: where the parts of the frame start.  parts   *)
(* is the bound of its loop.                                               *)
FrameParts(p) ==
  LET parts == p.size \div 64 + 1
      next(off) == Num(p, off - 1 + 20, 4)
      after(off) == IF off = 0 \/ next(off) = 0 THEN 0 ELSE off + next(off)
      at[k \in 1..parts] ==   \* 0 once the chain has ended; offsets count from 1
        IF k = 1 THEN 1 ELSE after(at[k - 1])
  IN  [k \in 1..Cardinality({j \in 1..parts : at[j] > 0}) |-> at[k] - 1]
FrameValid(p) ==
  /\ p.size >= 64
  /\ \A off \in Range(FrameParts(p)) : ~PacketInvalid(From(p, off))
(* The loop of runReciever that cuts the frame into its packets. *)
FrameSplit(p) ==
  LET at == FrameParts(p)
  IN  [k \in DOMAIN at |->
         IF k = Len(at) THEN From(p, at[k]) ELSE Slice(p, at[k], at[k + 1] - at[k])]

-----------------------------------------------------------------------------
(* The transform header around an encrypted packet of size bytes.  Bytes   *)
(* 42 to 44 are the algorithm before SMB 3.1.1 and the flags from it on.   *)
TransformHeader(size) ==
  Msg(52 + size,
      <<N(0, 4, TransformMagic), F("Signature", 4, 16), F("Nonce", 20, 16),
        N(36, 4, size), F("Flags", 42, 2), F("SessionId", 44, 8),
        F("EncryptedData", 52, size)>>)
TransformCodec(p) ==
  Dec(p.size >= 52 + 64 /\ Num(p, 0, 4) = TransformMagic /\ Num(p, 36, 4) >= 64,
      [Signature |-> Read(p, 4, 16), Nonce |-> Read(p, 20, 16),
       Flags |-> Read(p, 42, 2), SessionId |-> Read(p, 44, 8),
       EncryptedData |-> Read(p, 52, p.size - 52)])
=============================================================================
