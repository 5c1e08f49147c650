------------------------------ MODULE Security ------------------------------
(***************************************************************************)
(* Security descriptors: the encoders of server/acl.go, its decoders, and  *)
(* what SET_INFO makes of a descriptor (setSecInfo in server/file_tree.go),*)
(* a uid, a gid and a Unix mode.  The authority and the leading            *)
(* subauthorities of a SID are numbers, the id it carries is a field.      *)
(***************************************************************************)
EXTENDS InfoClasses

(* id: the field of the last subauthority, "" when all are numbers. *)
SID(auth, subs, id) ==
  LET count == Len(subs) + (IF id = "" THEN 0 ELSE 1)
  IN  Msg(8 + count * 4,
          <<N(0, 1, 1), N(1, 1, count), N(2, 6, auth)>>
          \o [i \in DOMAIN subs |-> N(4 + i * 4, 4, subs[i])]
          \o (IF id = "" THEN <<>> ELSE <<F(id, 8 + Len(subs) * 4, 4)>>))
NtAuthority == 5
WorldAuthority == 1
LabelAuthority == 16
PosixAuthority == 22
SIDFromUid == SID(NtAuthority, <<88, 1>>, "Uid")
SIDFromGid == SID(NtAuthority, <<88, 2>>, "Gid")
SIDFromMode == SID(NtAuthority, <<88, 3>>, "Mode")
PosixSIDFromUid == SID(PosixAuthority, <<1>>, "Uid")
PosixSIDFromGid == SID(PosixAuthority, <<2>>, "Gid")
LocalSystem == SID(NtAuthority, <<18>>, "")
Everyone == SID(WorldAuthority, <<0>>, "")

SidDecoder(c) ==
  LET count == Num(c, 1, 1)
  IN  [ok   |-> c.size >= 8 /\ c.size >= 8 + count * 4,
       auth |-> Num(c, 2, 6),
       subs |-> [i \in 1..count |-> Read(c, 4 + i * 4, 4)]]
ACE(type, mask, sid) ==
  Msg(8 + sid.size,
      <<N(0, 1, type), N(1, 1, 0), N(2, 2, 8 + sid.size), N(4, 4, mask)>> \o At(8, sid))
ACL(aces) ==
  LET off(i) == 8 + TotalSize(SubSeq(aces, 1, i - 1))
      size == 8 + TotalSize(aces)
  IN  Msg(size, <<N(0, 1, 2), N(2, 2, size), N(4, 2, Len(aces))>>
                \o FlattenSeq([i \in DOMAIN aces |-> At(off(i), aces[i])]))
ACCESS_ALLOWED_ACE_TYPE == 0
SYSTEM_MANDATORY_LABEL_ACE_TYPE == 17
FILE_READ_DATA == 1
FILE_WRITE_DATA == 2
FILE_EXECUTE == 32
OTHER_BITS == 2^17       \* READ_CONTROL, with the others no mode is read from
GENERIC_ALL == 2^28
Has(mask, bit) == (mask \div bit) % 2 = 1
UnixModeToAceMask(mode) ==
  (IF Has(mode, 4) THEN FILE_READ_DATA ELSE 0) + (IF Has(mode, 2) THEN FILE_WRITE_DATA ELSE 0)
    + (IF Has(mode, 1) THEN FILE_EXECUTE ELSE 0) + (IF mode = 0 THEN 0 ELSE OTHER_BITS)

(* owner, group, sacl, dacl: sequences of at most one part. *)
SecurityDescriptor(v) ==
  LET parts == <<v.owner, v.group, v.sacl, v.dacl>>
      size(i) == IF parts[i] = <<>> THEN 0 ELSE parts[i][1].size
      off[i \in 1..5] == IF i = 1 THEN 20 ELSE off[i - 1] + size(i - 1)
      control == 2^15 + (IF v.sacl = <<>> THEN 0 ELSE 16) + (IF v.dacl = <<>> THEN 0 ELSE 4)
  IN  Msg(Roundup(off[5], 8),
          <<N(0, 1, 1), N(2, 2, control)>>
          \o FlattenSeq([i \in 1..4 |->
               IF parts[i] = <<>> THEN <<>>
               ELSE <<N(4 * i, 4, off[i])>> \o At(off[i], parts[i][1])]))
(* queryInfoSec: the parts the client asks for, the same for every file. *)
queryInfoSec(ai) ==
  SecurityDescriptor(
    [owner |-> IF "OWNER" \in ai THEN <<LocalSystem>> ELSE <<>>,
     group |-> IF "GROUP" \in ai THEN <<LocalSystem>> ELSE <<>>,
     sacl |-> IF "LABEL" \in ai
              THEN <<ACL(<<ACE(SYSTEM_MANDATORY_LABEL_ACE_TYPE, 0,
                               SID(LabelAuthority, <<8192>>, ""))>>)>> ELSE <<>>,
     dacl |-> IF "DACL" \in ai
              THEN <<ACL(<<ACE(ACCESS_ALLOWED_ACE_TYPE, GENERIC_ALL, Everyone)>>)>>
              ELSE <<>>])

-----------------------------------------------------------------------------
(* The id of an owner (kind 1) or group (kind 2) SID, if it carries one.   *)
IsPosix(s, kind) == s.auth = PosixAuthority /\ Len(s.subs) = 2 /\ s.subs[1][2] = kind
IsNfs(s, kind) ==
  /\ s.auth = NtAuthority /\ Len(s.subs) = 3
  /\ s.subs[1][2] = 88 /\ s.subs[2][2] = kind
SidId(sd, offAt, kind) ==
  LET s == SidDecoder(From(sd, Num(sd, offAt, 4)))
  IN  IF Num(sd, offAt, 4) # 0 /\ s.ok /\ (IsPosix(s, kind) \/ IsNfs(s, kind))
      THEN s.subs[Len(s.subs)] ELSE Zero

AceOffs(dacl) ==
  LET n == Num(dacl, 4, 2)
      after(off) == off + Num(dacl, off + 2, 2)
      at[i \in 1..n] == IF i = 1 THEN 8 ELSE after(at[i - 1])
  IN  IF n = 0 THEN <<>> ELSE at
AceSid(dacl, off) == SidDecoder(From(dacl, off + 8))
(* A Mode SID gives the mode itself; its authority is not looked at. *)
ModeAces(dacl) ==
  {i \in DOMAIN AceOffs(dacl) :
     LET s == AceSid(dacl, AceOffs(dacl)[i])
     IN  Len(s.subs) = 3 /\ s.subs[1][2] = 88 /\ s.subs[2][2] = 3}
ModeSid(dacl) == AceSid(dacl, AceOffs(dacl)[Min(ModeAces(dacl))]).subs[3]
(* Otherwise the last allowing ACE of owner, group and everyone gives the  *)
(* three digits.                                                           *)
AceBits(mask) ==
  (IF Has(mask, 1) THEN 4 ELSE 0) + (IF Has(mask, 2) THEN 2 ELSE 0)
    + (IF Has(mask, 32) THEN 1 ELSE 0)
AceClass(s) ==
  CASE IsNfs(s, 1) \/ IsPosix(s, 1) -> 1
    [] IsNfs(s, 2) \/ IsPosix(s, 2) -> 2
    [] s.auth = WorldAuthority /\ Len(s.subs) = 1 /\ s.subs[1][2] = 0 -> 3
    [] OTHER -> 0
DerivedMode(dacl) ==
  LET offs == AceOffs(dacl)
      of(c) == {i \in DOMAIN offs : /\ Num(dacl, offs[i], 1) = ACCESS_ALLOWED_ACE_TYPE
                                    /\ AceClass(AceSid(dacl, offs[i])) = c}
      digit(c) == IF of(c) = {} THEN 0 ELSE AceBits(Num(dacl, offs[Max(of(c))] + 4, 4))
  IN  IF of(1) \union of(2) \union of(3) = {} THEN <<>>
      ELSE <<digit(1) * 64 + digit(2) * 8 + digit(3)>>

(* setSecInfo: list holds the derived mode when SetUnixMode is called with *)
(* one.                                                                    *)
setSecInfo(sd) ==
  LET has  == Num(sd, 16, 4) # 0
      dacl == From(sd, Num(sd, 16, 4))
      nfs  == has /\ ModeAces(dacl) # {}
  IN  DecList(TRUE, [Uid |-> SidId(sd, 4, 1), Gid |-> SidId(sd, 8, 2),
                     Mode |-> IF nfs THEN ModeSid(dacl) ELSE Zero],
              IF has /\ ~nfs THEN DerivedMode(dacl) ELSE <<>>)
=============================================================================
