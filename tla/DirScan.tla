------------------------------ MODULE DirScan ------------------------------
(***************************************************************************)
(* Enumerating a directory through one handle: QUERY_DIRECTORY             *)
(* (smb/server/file_tree.go, queryDirectory) over PassthroughFS.ReadDir    *)
(* and PutBackDirEntries (fs.go), while files are being removed and the    *)
(* handle is used to ask for the directory's deletion                      *)
(* (setDispositionInfo).                                                   *)
(*                                                                         *)
(* Entries are numbers: 0 and 1 are "." and "..", the files of the         *)
(* directory follow, in the order in which the kernel returns them.        *)
(***************************************************************************)
EXTENDS Naturals, Sequences, FiniteSets

CONSTANTS MaxFiles,      \* bound: files in the directory
          MaxEntries,    \* entries per ReadDir (1000 in the code)
          Patterns,      \* search patterns: "*" and one that matches less
          OutLens,       \* values of OutputBufferLength
          Hidden,        \* AppleDouble names, left out of every listing
          ReadMayFail    \* the kernel may fail to read the directory

ASSUME MaxFilesAssumption == MaxFiles \in Nat
ASSUME MaxEntriesAssumption == MaxEntries \in Nat \ {0}
ASSUME PatternsAssumption == Patterns \subseteq {"*", "even"}
ASSUME OutLensAssumption == OutLens \subseteq Nat \ {0}
ASSUME HiddenAssumption == Hidden \subseteq Nat \ {0, 1}
ASSUME ReadMayFailAssumption == ReadMayFail \in BOOLEAN

VARIABLES
  nfiles, live,          \* the directory: its size and the files still there
  off,                   \* how many files the kernel has returned
  dirPos, dirBuffer,     \* the fields of OpenFile
  deleteAfterClose,      \* the field of Open
  handle,                \* "open", or what became of the directory at CLOSE
  scan                   \* the client's scan: active or not, its pattern, what
                         \* it got, the last status, and whether deletion was
                         \* asked for in its course

vars == <<nfiles, live, off, dirPos, dirBuffer, deleteAfterClose, handle, scan>>

Dots == <<0, 1>>
Files == 2 .. nfiles + 1
Stream == [i \in 1 .. nfiles |-> i + 1]
Entries == 0 .. nfiles + 1

(* The loops over entries keep those in S, in their order. *)
Filter(entries, S) ==
  LET f[i \in 0 .. Len(entries)] ==
        IF i = 0 THEN <<>>
        ELSE IF entries[i] \in S THEN Append(f[i - 1], entries[i]) ELSE f[i - 1]
  IN  f[Len(entries)]

(* MatchWildcard, and the filter for macOS clients. *)
Wanted(p) == {e \in Entries : e \notin Hidden /\ (p = "*" \/ e % 2 = 0)}

(* The size of an entry in the response. *)
Size(e) == IF e % 3 = 0 THEN 2 ELSE 1

Init ==
  /\ nfiles \in 0 .. MaxFiles
  /\ live = Files
  /\ off = 0
  /\ dirPos = 0 /\ dirBuffer = <<>>
  /\ deleteAfterClose = FALSE
  /\ handle = "open"
  /\ scan = [active |-> FALSE, pattern |-> "*", got |-> <<>>, status |-> "none",
             asked |-> FALSE]

-----------------------------------------------------------------------------
(* ReadDir. *)

Lesser(m, n) == IF m < n THEN m ELSE n

(* The position it starts from: RESTART_SCANS rewinds. *)
Position(restart) == IF restart THEN [off |-> 0, dirPos |-> 0, buffer |-> <<>>]
                     ELSE [off |-> off, dirPos |-> dirPos, buffer |-> dirBuffer]

(* open.f.ReadDir: the next n entries; those removed since are skipped when  *)
(* their attributes are asked for.                                           *)
Chunk(from, n) == SubSeq(Stream, from + 1, Lesser(from + n, nfiles))
Alive(entries) == Filter(entries, live \cup {0, 1})

(* What ReadDir leaves and returns, from a position: buffered entries come   *)
(* first, and the kernel only makes up the rest.                             *)
ReadFrom(s) ==
  LET dots == IF s.dirPos = 0 THEN Dots ELSE <<>>
      used == Len(dots \o s.buffer)
      left == IF s.buffer = <<>> THEN MaxEntries ELSE MaxEntries - Lesser(used, MaxEntries)
  IN  IF Len(s.buffer) > MaxEntries
      THEN [results |-> dots \o SubSeq(s.buffer, 1, MaxEntries),
            buffer |-> SubSeq(s.buffer, MaxEntries + 1, Len(s.buffer)),
            off |-> s.off, eof |-> FALSE]
      ELSE LET c == Chunk(s.off, left)
               r == dots \o s.buffer \o Alive(c)
           IN  [results |-> r, buffer |-> <<>>, off |-> s.off + Len(c),
                eof |-> c = <<>> /\ r = <<>>]

(* Faulty: the rest of a long buffer is dropped; the buffer is never emptied; *)
(* the kernel is asked for the same entries again.                           *)
ReadDirDrops(restart) == [ReadFrom(Position(restart)) EXCEPT !.buffer = <<>>]
ReadDirKeeps(restart) == [ReadFrom(Position(restart)) EXCEPT !.buffer = dirBuffer]
ReadDirAgain(restart) == [ReadFrom(Position(restart)) EXCEPT !.off = off]

ReadDir(restart) == ReadFrom(Position(restart))

-----------------------------------------------------------------------------
(* queryDirectory. *)

(* Size of the wanted entries among the first i. *)
AccSize(dir, p) ==
  LET acc[i \in 0 .. Len(dir)] ==
        IF i = 0 THEN 0 ELSE acc[i - 1] + (IF dir[i] \in Wanted(p) THEN Size(dir[i]) ELSE 0)
  IN  acc

First(S, default) == IF S = {} THEN default ELSE CHOOSE i \in S : \A j \in S : i <= j

(* How many entries of the batch are consumed: up to the first wanted one,   *)
(* or until the next would exceed the buffer (the first always fits).        *)
Consumed(dir, p, single, maxOut) ==
  LET acc == AccSize(dir, p) IN
  IF single
  THEN First({i \in 1 .. Len(dir) : dir[i] \in Wanted(p)}, Len(dir))
  ELSE First({i \in 1 .. Len(dir) : dir[i] \in Wanted(p) /\ acc[i - 1] > 0 /\ acc[i] > maxOut},
             Len(dir) + 1) - 1

PutBackDirEntries(unconsumed, buffer) == unconsumed \o buffer

(* A query with a wildcard (one without is answered by Lookup and leaves    *)
(* the handle as it is).                                                     *)
Query(p, restart, single, maxOut) ==
  LET rd    == ReadDir(restart)
      n     == Consumed(rd.results, p, single, maxOut)
      items == Filter(SubSeq(rd.results, 1, n), Wanted(p))
      goes  == scan.active /\ ~restart
  IN
  /\ off' = rd.off /\ dirPos' = 1
  /\ dirBuffer' = PutBackDirEntries(SubSeq(rd.results, n + 1, Len(rd.results)), rd.buffer)
  /\ scan' = [pattern |-> p, got |-> IF goes THEN scan.got \o items ELSE items,
              active |-> items # <<>>, asked |-> goes /\ scan.asked,
              status |-> IF rd.eof THEN "NO_MORE_FILES"
                         ELSE IF items = <<>> THEN "NO_SUCH_FILE" ELSE "ok"]
  /\ UNCHANGED <<nfiles, live, deleteAfterClose, handle>>

(* The client starts a scan, with RESTART_SCANS or on a new handle ... *)
StartScan(p, restart, single, maxOut) ==
  /\ handle = "open"
  /\ restart \/ (scan.status = "none" /\ dirPos = 0)
  /\ Query(p, restart, single, maxOut)

(* ... and goes on until the status is an error. *)
NextEntries(single, maxOut) ==
  /\ handle = "open" /\ scan.active
  /\ Query(scan.pattern, FALSE, single, maxOut)

(* ReadDir fails: what was buffered is gone. *)
QueryFails(restart) ==
  LET s == Position(restart) IN
  /\ ReadMayFail /\ handle = "open"
  /\ Len(s.buffer) < MaxEntries
  /\ off' = s.off /\ dirPos' = s.dirPos /\ dirBuffer' = <<>>
  /\ scan' = [scan EXCEPT !.active = FALSE, !.status = "ACCESS_DENIED"]
  /\ UNCHANGED <<nfiles, live, deleteAfterClose, handle>>

-----------------------------------------------------------------------------
(* A file is removed by somebody else. *)
RemoveFile(f) ==
  /\ f \in live /\ handle = "open"
  /\ live' = live \ {f}
  /\ UNCHANGED <<nfiles, off, dirPos, dirBuffer, deleteAfterClose, handle, scan>>

(* setDispositionInfo: a batch of the scan is read to see whether the        *)
(* directory is empty; at the end of the directory nothing is checked.       *)
SetDisposition ==
  LET rd == ReadDir(FALSE) IN
  /\ handle = "open" /\ ~deleteAfterClose
  /\ off' = rd.off /\ dirPos' = 1 /\ dirBuffer' = rd.buffer
  /\ deleteAfterClose' = (\A i \in 1 .. Len(rd.results) : rd.results[i] \in {0, 1})
  /\ scan' = [scan EXCEPT !.asked = TRUE]
  /\ UNCHANGED <<nfiles, live, handle>>

ClearDisposition ==
  /\ handle = "open" /\ deleteAfterClose
  /\ deleteAfterClose' = FALSE
  /\ UNCHANGED <<nfiles, live, off, dirPos, dirBuffer, handle, scan>>

(* CLOSE: Unlink, which the kernel refuses for a directory with entries.     *)
Close ==
  /\ handle = "open"
  /\ handle' = IF deleteAfterClose /\ live = {} THEN "removed" ELSE "kept"
  /\ UNCHANGED <<nfiles, live, off, dirPos, dirBuffer, deleteAfterClose, scan>>

Next ==
  \/ \E p \in Patterns, r \in BOOLEAN, s \in BOOLEAN, n \in OutLens : StartScan(p, r, s, n)
  \/ \E s \in BOOLEAN, n \in OutLens : NextEntries(s, n)
  \/ \E r \in BOOLEAN : QueryFails(r)
  \/ \E f \in Files : RemoveFile(f)
  \/ SetDisposition \/ ClearDisposition \/ Close

Spec == Init /\ [][Next]_vars

-----------------------------------------------------------------------------
TypeOK ==
  /\ nfiles \in 0 .. MaxFiles /\ live \subseteq Files /\ off \in 0 .. nfiles
  /\ dirPos \in {0, 1} /\ deleteAfterClose \in BOOLEAN
  /\ dirBuffer \in Seq(Entries) /\ Len(dirBuffer) <= MaxEntries + 2
  /\ handle \in {"open", "removed", "kept"}
  /\ scan \in [active : BOOLEAN, pattern : Patterns \cup {"*"}, got : Seq(Entries),
               status : {"none", "ok", "NO_SUCH_FILE", "NO_MORE_FILES", "ACCESS_DENIED"},
               asked : BOOLEAN]

(* What the client asked for, of the entries that are still there. *)
Listing(entries) == Filter(Alive(entries), Wanted(scan.pattern))

(* "Put back unconsumed entries so the next QueryDirectory gets them": at    *)
(* every point of a scan what the client got, what is buffered and what the  *)
(* kernel has not returned yet make up the listing: each entry once, in      *)
(* order, whatever the buffer sizes, single-entry queries and removals; and  *)
(* NO_MORE_FILES is only said when the client got all of it.  Except when    *)
(* the handle's deletion is asked for, which reads from the scan.            *)
ScanExact ==
  ~scan.asked =>
    /\ scan.active =>
         Listing(scan.got) \o Listing(dirBuffer) \o Listing(Chunk(off, nfiles))
           = Listing(Dots \o Stream)
    /\ scan.status = "NO_MORE_FILES" => Listing(scan.got) = Listing(Dots \o Stream)

(* A scan ends, however small the client's buffer: every answer of it takes  *)
(* entries that are not returned again.                                      *)
Remaining == Len(dirBuffer) + (nfiles - off)

ScanProgress ==
  [][(\E s \in BOOLEAN, n \in OutLens : NextEntries(s, n))
       => ~scan'.active \/ Remaining' < Remaining]_vars
=============================================================================
