---------------------------- MODULE InfoClasses -----------------------------
(***************************************************************************)
(* The information classes of QUERY_INFO, SET_INFO, QUERY_DIRECTORY and    *)
(* CHANGE_NOTIFY: the encoders the server answers with (server/info_fs.go) *)
(* and the decoders and client-side encoders of smb2/fscc.go.  Entries of  *)
(* a list are linked by NextEntryOffset.  Where the repository has no      *)
(* decoder for a list, EntryWalk reads it the way every client must.       *)
(***************************************************************************)
EXTENDS Packet

FileBasicInformationInfo ==
  Msg(40, <<F("CreationTime", 0, 8), F("LastAccessTime", 8, 8),
            F("LastWriteTime", 16, 8), F("ChangeTime", 24, 8),
            F("FileAttributes", 32, 4)>>)
FileBasicInformationDecoder(c) ==
  Dec(c.size >= 40,
      [CreationTime |-> Read(c, 0, 8), LastAccessTime |-> Read(c, 8, 8),
       LastWriteTime |-> Read(c, 16, 8), ChangeTime |-> Read(c, 24, 8),
       FileAttributes |-> Read(c, 32, 4)])
(* The client leaves out the times it does not set; the server's decoder. *)
FileBasicInformationEncoder(v) ==
  Msg(40, (IF v.times THEN SubSeq(FileBasicInformationInfo.puts, 1, 4) ELSE <<>>)
          \o <<F("FileAttributes", 32, 4)>>)
FileBasicInformationInfoDecoder(f) ==
  Dec(TRUE, [CreationTime |-> Read(f, 0, 8), LastAccessTime |-> Read(f, 8, 8),
             LastWriteTime |-> Read(f, 16, 8), ChangeTime |-> Read(f, 24, 8),
             FileAttributes |-> Read(f, 32, 4)])

FileStandardInformationInfo ==
  Msg(24, <<F("AllocationSize", 0, 8), F("EndOfFile", 8, 8), F("NumberOfLinks", 16, 4),
            F("DeletePending", 20, 1), F("Directory", 21, 1)>>)
FileStandardInformationDecoder(c) ==
  Dec(c.size >= 24,
      [AllocationSize |-> Read(c, 0, 8), EndOfFile |-> Read(c, 8, 8),
       NumberOfLinks |-> Read(c, 16, 4), DeletePending |-> Read(c, 20, 1),
       Directory |-> Read(c, 21, 1)])

FileInternalInformationInfo == Msg(8, <<F("IndexNumber", 0, 8)>>)
FileInternalInformationDecoder(c) == Dec(c.size >= 8, [IndexNumber |-> Read(c, 0, 8)])
FileIdInformationInfo == Msg(8, <<F("FileId", 0, 8)>>)
FileEaInformationInfo == Msg(4, <<F("EaSize", 0, 4)>>)
FileEaInformationDecoder(c) == Dec(c.size >= 4, [EaSize |-> Read(c, 0, 4)])
FileAccessInformationInfo == Msg(4, <<F("AccessFlags", 0, 4)>>)
FileAccessInformationDecoder(c) == Dec(c.size >= 4, [AccessFlags |-> Read(c, 0, 4)])
FilePositionInformationInfo == Msg(8, <<F("CurrentByteOffset", 0, 8)>>)
FilePositionInformationDecoder(c) ==
  Dec(c.size >= 8, [CurrentByteOffset |-> Read(c, 0, 8)])
FileModeInformationInfo == Msg(4, <<F("Mode", 0, 4)>>)
FileModeInformationDecoder(c) == Dec(c.size >= 4, [Mode |-> Read(c, 0, 4)])
FileAlignmentInformationInfo == Msg(4, <<F("AlignmentRequirement", 0, 4)>>)
FileAlignmentInformationDecoder(c) ==
  Dec(c.size >= 4, [AlignmentRequirement |-> Read(c, 0, 4)])

(* name: the length of the UTF-16 string in bytes, here and below. *)
FileAlternateNameInformationInfo(name) ==
  Msg(name + 4, <<N(0, 4, name), F("FileName", 4, name)>>)
FileNormalizedNameInformationInfo(name) ==
  Msg(name + 4, <<N(0, 4, name), F("FileName", 4, name)>>)
FileNameInformationDecoder(c) ==
  Dec(c.size >= 4 /\ c.size >= 4 + Num(c, 0, 4),
      [FileName |-> Read(c, 4, Num(c, 0, 4))])

(* The parts one after the other, and the slices they are read from. *)
FileAllInformationInfo(v) ==
  LET parts == <<FileBasicInformationInfo, FileStandardInformationInfo,
                 FileInternalInformationInfo, FileEaInformationInfo,
                 FileAccessInformationInfo, FilePositionInformationInfo,
                 FileModeInformationInfo, FileAlignmentInformationInfo,
                 FileAlternateNameInformationInfo(v.name)>>
      off(i) == TotalSize(SubSeq(parts, 1, i - 1))
  IN  Msg(TotalSize(parts), FlattenSeq([i \in DOMAIN parts |-> At(off(i), parts[i])]))
FileAllInformationDecoder(c) ==
  LET parts == {FileBasicInformationDecoder(Slice(c, 0, 40)),
                FileStandardInformationDecoder(Slice(c, 40, 24)),
                FileInternalInformationDecoder(Slice(c, 64, 8)),
                FileEaInformationDecoder(Slice(c, 72, 4)),
                FileAccessInformationDecoder(Slice(c, 76, 4)),
                FilePositionInformationDecoder(Slice(c, 80, 8)),
                FileModeInformationDecoder(Slice(c, 88, 4)),
                FileAlignmentInformationDecoder(Slice(c, 92, 4)),
                FileNameInformationDecoder(From(c, 96))}
      part(f) == CHOOSE d \in parts : f \in DOMAIN d.got
  IN  Dec(c.size >= 96 /\ \A d \in parts : d.ok,
          [f \in UNION {DOMAIN d.got : d \in parts} |-> part(f).got[f]])

FileNetworkOpenInformationInfo ==
  Msg(56, SubSeq(FileBasicInformationInfo.puts, 1, 4)
          \o <<F("AllocationSize", 32, 8), F("EndOfFile", 40, 8),
               F("FileAttributes", 48, 4)>>)

-----------------------------------------------------------------------------
(* The entries of a directory listing.  All but Names start alike. *)
DirectoryHead(name) ==
  <<N(0, 4, 0), F("FileIndex", 4, 4), F("CreationTime", 8, 8),
    F("LastAccessTime", 16, 8), F("LastWriteTime", 24, 8), F("ChangeTime", 32, 8),
    F("EndOfFile", 40, 8), F("AllocationSize", 48, 8), F("FileAttributes", 56, 4),
    N(60, 4, name)>>
FileDirectoryInformationInfo(name) ==
  Msg(Roundup(64 + name, 8), DirectoryHead(name) \o <<F("FileName", 64, name)>>)
FileFullDirectoryInformationInfo(name) ==
  Msg(Roundup(68 + name, 8),
      DirectoryHead(name) \o <<F("EaSize", 64, 4), F("FileName", 68, name)>>)
(* Mutant: the short name's place is not counted. *)
BothDirectoryUncounted(name) ==
  Msg(Roundup(68 + name, 8),
      DirectoryHead(name) \o <<F("EaSize", 64, 4), F("FileName", 82, name)>>)
FileBothDirectoryInformationInfo(name) ==
  Msg(Roundup(82 + name, 8),
      DirectoryHead(name) \o <<F("EaSize", 64, 4), F("FileName", 82, name)>>)
FileIdBothDirectoryInformationInfo(name) ==
  Msg(Roundup(104 + name, 8),
      DirectoryHead(name)
        \o <<F("EaSize", 64, 4), F("FileId", 96, 8), F("FileName", 104, name)>>)
(* Mutant: UnixMode is written as four bytes. *)
IdBoth2WideMode(name) ==
  Msg(Roundup(104 + name, 8),
      DirectoryHead(name)
        \o <<F("MaxAccess", 64, 4), F("ShortNameLength", 68, 1),
             F("RsrcForkLen", 70, 8), F("CompressedFinderInfo", 78, 16),
             F("UnixMode", 92, 4), F("FileId", 96, 8), F("FileName", 104, name)>>)
FileIdBothDirectoryInformationInfo2(name) ==
  Msg(Roundup(104 + name, 8),
      DirectoryHead(name)
        \o <<F("MaxAccess", 64, 4), F("ShortNameLength", 68, 1),
             F("RsrcForkLen", 70, 8), F("CompressedFinderInfo", 78, 16),
             F("UnixMode", 94, 2), F("FileId", 96, 8), F("FileName", 104, name)>>)
FileIdFullDirectoryInformationInfo(name) ==
  Msg(Roundup(80 + name, 8),
      DirectoryHead(name)
        \o <<F("EaSize", 64, 4), F("FileId", 72, 8), F("FileName", 80, name)>>)
FileIdAllExtdBothDirectoryInformationInfo(name) ==
  Msg(Roundup(122 + name, 8),
      DirectoryHead(name)
        \o <<F("EaSize", 64, 4), F("ReparsePointTag", 68, 4), F("FileId", 72, 8),
             F("FileId128", 80, 8), F("FileId128_2", 88, 8),
             F("ShortNameLength", 96, 1), F("Pad", 97, 1), F("ShortName", 98, 24),
             F("FileName", 122, name)>>)
(* The eight bytes of FileIndex reach under the name's length. *)
FileNamesInformationInfo(name) ==
  Msg(Roundup(12 + name, 8),
      <<N(0, 4, 0), F("FileIndex", 4, 4), N(8, 4, 0), N(8, 4, name),
        F("FileName", 12, name)>>)
FilePosixDirectoryInformationInfo(v) ==
  LET off == 88 + v.owner + v.group
  IN  Msg(Roundup(off + 4 + v.name, 8),
          SubSeq(DirectoryHead(v.name), 1, 8)
            \o <<F("DosAttributes", 56, 4), F("Inode", 60, 8), F("DeviceId", 68, 4),
                 N(72, 4, 0), F("HardLinks", 76, 4), F("ReparseTag", 80, 4),
                 F("Mode", 84, 4), F("OwnerSid", 88, v.owner),
                 F("GroupSid", 88 + v.owner, v.group), N(off, 4, v.name),
                 F("FileName", off + 4, v.name)>>)

DirectoryEntry(class, name) ==
  CASE class = "Directory" -> FileDirectoryInformationInfo(name)
    [] class = "FullDirectory" -> FileFullDirectoryInformationInfo(name)
    [] class = "BothDirectory" -> FileBothDirectoryInformationInfo(name)
    [] class = "IdBothDirectory" -> FileIdBothDirectoryInformationInfo(name)
    [] class = "IdBothDirectory2" -> FileIdBothDirectoryInformationInfo2(name)
    [] class = "IdFullDirectory" -> FileIdFullDirectoryInformationInfo(name)
    [] class = "IdAllExtdBoth" -> FileIdAllExtdBothDirectoryInformationInfo(name)
    [] class = "Names" -> FileNamesInformationInfo(name)
    [] class = "Posix" ->
         FilePosixDirectoryInformationInfo([name |-> name, owner |-> 12, group |-> 16])

(* What a client knows of a class: where its length and its name are.      *)
NamePlace(class) ==
  CASE class = "Directory" -> <<60, 64>>       [] class = "FullDirectory" -> <<60, 68>>
    [] class = "BothDirectory" -> <<60, 82>>   [] class = "IdBothDirectory" -> <<60, 104>>
    [] class = "IdBothDirectory2" -> <<60, 104>>
    [] class = "IdFullDirectory" -> <<60, 80>> [] class = "IdAllExtdBoth" -> <<60, 122>>
    [] class = "Names" -> <<8, 12>>            [] class = "Posix" -> <<116, 120>>
DirectoryClasses == {"Directory", "FullDirectory", "BothDirectory", "IdBothDirectory",
                     "IdBothDirectory2", "IdFullDirectory", "IdAllExtdBoth", "Names",
                     "Posix"}

(* FileInformationInfoResponse: each entry, then its NextEntryOffset. *)
Listed(f, k, n) == IF n = 0 THEN Empty ELSE <<f, k>>
FileInformationInfoResponse(v) ==
  LET cs == [k \in DOMAIN v.names |-> Entry(k, DirectoryEntry(v.class, v.names[k]))]
      off(k) == TotalSize(SubSeq(cs, 1, k - 1))
  IN  MsgList(TotalSize(cs),
        FlattenSeq([k \in DOMAIN cs |->
          At(off(k), cs[k]) \o <<N(off(k), 4, IF k = Len(cs) THEN 0 ELSE cs[k].size)>>]),
        [k \in DOMAIN cs |-> <<<<"FileIndex", k>>, Listed("FileName", k, v.names[k])>>])

(* The entries found by following NextEntryOffset, at most bound of them.  *)
EntryOffs(p, bound) ==
  LET next(off) == Num(p, off - 1, 4)
      after(off) ==   \* 0 once the chain has ended; offsets count from 1
        IF off = 0 \/ next(off) = 0 THEN 0 ELSE off + next(off)
      at[k \in 1..bound] ==
        IF k > 1 THEN after(at[k - 1]) ELSE IF p.size = 0 THEN 0 ELSE 1
  IN  [k \in 1..Cardinality({j \in 1..bound : at[j] > 0}) |-> at[k] - 1]
EntryWalk(p, fieldAt, fieldN, lenAt, nameAt) ==
  LET at == EntryOffs(p, 4)
  IN  [k \in DOMAIN at |-> <<Read(p, at[k] + fieldAt, fieldN),
                             Read(p, at[k] + nameAt, Num(p, at[k] + lenAt, 4))>>]
DirectoryListing(class, p) ==
  DecList(TRUE, Nothing, EntryWalk(p, 4, 4, NamePlace(class)[1], NamePlace(class)[2]))
FileDirectoryInformationDecoder(c) ==
  Dec(c.size >= 64 + Num(c, 60, 4),
      [FileIndex |-> Read(c, 4, 4), CreationTime |-> Read(c, 8, 8),
       LastAccessTime |-> Read(c, 16, 8), LastWriteTime |-> Read(c, 24, 8),
       ChangeTime |-> Read(c, 32, 8), EndOfFile |-> Read(c, 40, 8),
       AllocationSize |-> Read(c, 48, 8), FileAttributes |-> Read(c, 56, 4),
       FileName |-> Read(c, 64, Num(c, 60, 4))])

FileStreamInformationInfo(name) ==
  Msg(Roundup(24 + name, 8),
      <<N(0, 4, 0), N(4, 4, name), F("StreamSize", 8, 8),
        F("StreamAllocationSize", 16, 8), F("StreamName", 24, name)>>)
FileStreamInformationInfoItems(v) ==
  LET cs == [k \in DOMAIN v.names |-> Entry(k, FileStreamInformationInfo(v.names[k]))]
      next(k) == IF k = Len(cs) THEN 0 ELSE cs[k].size
      off[k \in DOMAIN cs] == IF k = 1 THEN 0 ELSE off[k - 1] + next(k - 1)
  IN  MsgList(TotalSize(cs),
        FlattenSeq([k \in DOMAIN cs |->
          At(off[k], [cs[k] EXCEPT !.puts[1] = N(0, 4, next(k))])]),
        [k \in DOMAIN cs |-> <<<<"StreamSize", k>>, Listed("StreamName", k, v.names[k])>>])
StreamListing(p) == DecList(TRUE, Nothing, EntryWalk(p, 8, 8, 4, 24))

FileNotifyInformationInfo(name) ==
  Msg(12 + name,
      <<N(0, 4, 0), F("Action", 4, 4), N(8, 4, name), F("FileName", 12, name)>>)
FileNotifyInformationList(v) ==
  LET cs == [k \in DOMAIN v.names |-> Entry(k, FileNotifyInformationInfo(v.names[k]))]
      padded(k) == IF k = Len(cs) THEN cs[k].size ELSE Roundup(cs[k].size, 4)
      off[k \in 1..Len(cs) + 1] == IF k = 1 THEN 0 ELSE off[k - 1] + padded(k - 1)
  IN  MsgList(off[Len(cs) + 1],
        FlattenSeq([k \in DOMAIN cs |->
          At(off[k], [cs[k] EXCEPT !.puts[1] =
                        N(0, 4, IF k = Len(cs) THEN 0 ELSE padded(k))])
          \o <<N(off[k] + cs[k].size, padded(k) - cs[k].size, 0)>>]),
        [k \in DOMAIN cs |-> <<<<"Action", k>>, Listed("FileName", k, v.names[k])>>])
NotifyListing(p) == DecList(TRUE, Nothing, EntryWalk(p, 4, 4, 8, 12))

-----------------------------------------------------------------------------
(* File system classes. *)
FileFsAttributeInformationInfo(v) ==
  Msg(Roundup(12 + v.name, 8),
      <<F("FileSystemAttributes", 0, 4), F("MaximumComponentNameLength", 4, 4),
        N(8, 4, v.name), F("FileSystemName", 12, v.name)>>)
FileFsDeviceInformationInfo ==
  Msg(8, <<F("DeviceType", 0, 4), F("Characteristics", 4, 4)>>)
FileFsFullSizeInformationInfo ==
  Msg(32, <<F("TotalAllocationUnits", 0, 8), F("CallerAvailableAllocationUnits", 8, 8),
            F("ActualAvailableAllocationUnits", 18, 8),
            F("SectorsPerAllocationUnit", 24, 4), F("BytesPerSector", 28, 4)>>)
FileFsFullSizeInformationDecoder(c) ==
  Dec(c.size >= 32,
      [TotalAllocationUnits |-> Read(c, 0, 8),
       CallerAvailableAllocationUnits |-> Read(c, 8, 8),
       ActualAvailableAllocationUnits |-> Read(c, 16, 8),
       SectorsPerAllocationUnit |-> Read(c, 24, 4), BytesPerSector |-> Read(c, 28, 4)])
FileFsSectorSizeInformationInfo ==
  Msg(28, <<F("LogicalBytesPerSector", 0, 4), F("ForAtomicity", 4, 4),
            F("ForPerformance", 8, 4), F("EffectiveForAtomicity", 12, 4),
            F("Flags", 16, 4), F("SectorAlignment", 20, 4),
            F("PartitionAlignment", 24, 4)>>)
FileFsPosixInformationInfo ==
  Msg(56, <<F("OptimalTransferSize", 0, 4), F("BlockSize", 4, 4), F("TotalBlocks", 8, 8),
            F("BlocksAvail", 16, 8), F("UserBlocksAvail", 24, 8),
            F("TotalFileNodes", 32, 8), F("FreeFileNodes", 40, 8),
            F("FileSysIdentifier", 48, 8)>>)
FileFsSizeInformationInfo ==
  Msg(24, <<F("TotalAllocationUnits", 0, 8), F("AvailableAllocationUnits", 8, 8),
            F("SectorsPerAllocationUnit", 16, 4), F("BytesPerSector", 20, 4)>>)
FileFsVolumeInformationInfo(v) ==
  Msg(Roundup(18 + v.name, 8),
      <<F("VolumeCreationTime", 0, 8), F("VolumeSerialNumber", 8, 4), N(12, 4, v.name),
        F("VolumeLabel", 18, v.name)>>)
FileFsObjectIdInfo == Msg(64, <<F("ObjectId", 0, 16)>>)
FileObjectId1 ==
  Msg(64, <<F("ObjectId", 0, 16), F("BirthVolumeId", 16, 16), F("BirthObjectId", 32, 16),
            F("DomainId", 48, 16)>>)
AfpInfo ==
  Msg(60, <<F("Signature", 0, 4), F("Version", 4, 4), F("FileBitmap", 8, 2),
            F("FinderInfo", 12, 32), F("ProDOSInfo", 44, 6)>>)
(* The SID area is at least posixInfoMinSidBuf bytes, zeroed before use. *)
posixInfoMinSidBuf == 40
PosixFileInfo(v) ==
  LET sids == v.owner + v.group
      size == 80 + (IF sids < posixInfoMinSidBuf THEN posixInfoMinSidBuf ELSE sids)
  IN  Msg(size,
          SubSeq(FileBasicInformationInfo.puts, 1, 4)
            \o <<F("EndOfFile", 32, 8), F("AllocationSize", 40, 8),
                 F("DosAttributes", 48, 4), F("Inode", 52, 8), F("DeviceId", 60, 4),
                 N(64, 4, 0), F("HardLinks", 68, 4), F("ReparseTag", 72, 4),
                 F("Mode", 76, 4), N(80, posixInfoMinSidBuf, 0),
                 F("OwnerSid", 80, v.owner), F("GroupSid", 80 + v.owner, v.group)>>)

-----------------------------------------------------------------------------
(* SET_INFO: what the client encodes and the server decodes. *)
FileRenameInformationType2Encoder(v) ==
  Msg(20 + v.name, <<F("FileName", 20, v.name), F("ReplaceIfExists", 0, 1),
                     F("RootDirectory", 8, 8), N(16, 4, v.name)>>)
FileLinkInformationType2Encoder(v) ==
  Msg(20 + v.name, <<F("FileName", 20, v.name), F("ReplaceIfExists", 0, 1),
                     F("RootDirectory", 8, 8), N(16, 4, v.name)>>)
FileRenameInformationInfoDecoder(f) ==
  Dec(TRUE, [ReplaceIfExists |-> Read(f, 0, 1), RootDirectory |-> Read(f, 8, 8),
             FileName |-> Read(f, 20, Num(f, 16, 4))])
FileDispositionInformationEncoder == Msg(4, <<F("DeletePending", 0, 1)>>)
FileDispositionInformationInfoDecoder(f) == Dec(TRUE, [DeletePending |-> Read(f, 0, 1)])
FilePositionInformationEncoder == Msg(8, <<F("CurrentByteOffset", 0, 8)>>)
FileEndOfFileInformationEncoder == Msg(8, <<F("EndOfFile", 0, 8)>>)
FileEndOfFileInformationInfoDecoder(f) == Dec(TRUE, [EndOfFile |-> Read(f, 0, 8)])
FileEndOfFileInformationDecoder(c) == Dec(c.size >= 8, [EndOfFile |-> Read(c, 0, 8)])

(* FSCTL buffers.  len(p) of the reparse buffer is its own size: it ends   *)
(* the packet.                                                             *)
SymbolicLinkReparseDataBuffer(v) ==
  LET size == 20 + v.subst + v.print
  IN  Msg(size,
        <<F("SubstituteName", 20, v.subst), F("PrintName", 20 + v.subst, v.print),
          F("ReparseTag", 0, 4), N(4, 2, size - 8), N(8, 2, 0), N(10, 2, v.subst),
          N(14, 2, v.print), N(12, 2, v.subst), F("Flags", 16, 4)>>)
SymbolicLinkReparseDataBufferDecoder(c) ==
  LET rlen == Num(c, 4, 2)
      soff == Num(c, 8, 2)
      slen == Num(c, 10, 2)
      poff == Num(c, 12, 2)
      plen == Num(c, 14, 2)
  IN  Dec(/\ c.size >= 20 /\ soff % 2 = 0 /\ poff % 2 = 0
          /\ c.size >= 8 + rlen
          /\ rlen >= 12 + soff + slen /\ rlen >= 12 + poff + plen,
          [Flags |-> Read(c, 16, 4), SubstituteName |-> Read(c, 20 + soff, slen),
           PrintName |-> Read(c, 20 + poff, plen)])
SrvCopychunkCopy(v) ==
  Msg(32 + v.chunks * 24,
      <<F("SourceKey", 0, 24), N(24, 4, v.chunks)>>
      \o FlattenSeq([i \in 1..v.chunks |->
           At(32 + (i - 1) * 24,
              Entry(i, Msg(24, <<F("SourceOffset", 0, 8), F("TargetOffset", 8, 8),
                                 F("Length", 16, 4)>>)))]))
=============================================================================
