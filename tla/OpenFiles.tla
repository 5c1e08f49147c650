------------------------------ MODULE OpenFiles ------------------------------
(***************************************************************************)
(* Opening, naming and deleting files: CREATE, CLOSE, SET_INFO, WRITE and  *)
(* the reparse-point IOCTLs (smb/server/file_tree.go) over PassthroughFS   *)
(* (fs.go, fs_xattr_unix.go) and the server's table of opens (server.go).  *)
(*                                                                         *)
(* A connection serves one request at a time; a handler is one action per  *)
(* system call on names and access to a shared table or field, so that the *)
(* handlers of two connections interleave between them.  These are one     *)
(* action: the first look at the request with the lookups of its handle    *)
(* and, in a rename, the test of the target; a SET_INFO of attributes, a   *)
(* size, a stream or a disposition; the test and the setting of a stream   *)
(* in CREATE.  A request that is refused at its first test changes nothing *)
(* and is not an action.  READ, FLUSH, LOCK and QUERY_INFO change nothing. *)
(* Directories stay empty here (DirScan has the emptiness check) and links *)
(* point nowhere.                                                          *)
(***************************************************************************)
EXTENDS Naturals

CONSTANTS Conns,        \* connections; two channels of a session share handles
          Names,        \* the names of the share
          Objects,      \* inodes, each used once
          Handles,      \* handle values, each used once
          Nil,          \* no object, no handle, no name
          Forms,        \* the forms of CREATE clients send: a set of FormType
          MaxRequests   \* bound: requests in a behaviour

ASSUME NilAssumption == Nil \notin Names \cup Objects \cup Handles
ASSUME MaxRequestsAssumption == MaxRequests \in Nat

VARIABLES
  names,      \* the object each name of the share stands for
  obj,        \* each object: its kind, content, attributes and stream
  fsh,        \* the OpenFile of each handle
  fsOpen,     \* the keys of PassthroughFS.openFiles
  opens,      \* the keys of Server.opens
  deleteAfterClose,   \* the field of Open
  req,        \* what each connection is doing
  readOnly,   \* whether the share is, and which connections' users are
  moved,      \* history: handles whose name another request took away, or
              \* that two renames at once went through
  sent        \* requests so far

share == <<names, obj>>
vars == <<names, obj, fsh, fsOpen, opens, deleteAfterClose, req, readOnly, moved, sent>>

Kinds == {"none", "file", "dir", "link"}
Dispositions == {"open", "create", "open_if", "overwrite", "overwrite_if"}

(* An object not yet made, and a made one.  FILE_SUPERSEDE differs from      *)
(* FILE_OVERWRITE_IF in the code it answers only.                            *)
Made(k) == [kind |-> k, data |-> "empty", attr |-> FALSE, ea |-> "none"]
ObjectType == [kind : Kinds, data : {"empty", "data"}, attr : BOOLEAN,
               ea : {"none", "empty", "data"}]

(* A CREATE.  write: the access asks for writing; flag: delete on close.     *)
FormType == [disp : Dispositions, dir : BOOLEAN, write : BOOLEAN,
             stream : BOOLEAN, flag : BOOLEAN]

ASSUME FormsAssumption == Forms \subseteq FormType

Pcs == {"idle", "mkdir", "made", "open", "attr", "ea", "add", "test", "load", "path",
        "remove", "delete", "close", "from", "move", "store", "linkpath", "unplace", "link",
        "reparse", "unlink"}

(* saw: the kind of object Lookup or Lstat found.                            *)
(* form: the request, whose flag is ReplaceIfExists in a rename; name: its   *)
(* name or the target of its rename; path: the path read from its handle.    *)
ReqType == [pc : Pcs, h : Handles \cup {Nil}, saw : Kinds, name : Names \cup {Nil},
            path : Names \cup {Nil}, form : FormType]
NoForm == [disp |-> "open", dir |-> FALSE, write |-> FALSE, stream |-> FALSE,
           flag |-> FALSE]
Request(l, h) == [pc |-> l, h |-> h, saw |-> "none", name |-> Nil, path |-> Nil,
                  form |-> NoForm]
Idle == Request("idle", Nil)

(* fd: whether f is set; stream: Open.isEa.  History: excl, opened by a      *)
(* successful FILE_CREATE of a file; leaked, GetAttr failed after the open;  *)
(* late, the mark was withdrawn while a CLOSE that had seen it was under way. *)
FileType == [obj : Objects \cup {Nil}, path : Names \cup {Nil}, fd : BOOLEAN,
             rw : BOOLEAN, stream : BOOLEAN,
             excl : BOOLEAN, leaked : BOOLEAN, late : BOOLEAN]
Unused == [obj |-> Nil, path |-> Nil, fd |-> FALSE, rw |-> FALSE, stream |-> FALSE,
           excl |-> FALSE, leaked |-> FALSE, late |-> FALSE]

TypeOK ==
  /\ names \in [Names -> Objects \cup {Nil}]
  /\ obj \in [Objects -> ObjectType]
  /\ fsh \in [Handles -> FileType]
  /\ fsOpen \subseteq Handles
  /\ opens \subseteq Handles
  /\ deleteAfterClose \in [Handles -> BOOLEAN]
  /\ req \in [Conns -> ReqType]
  /\ readOnly \in [share : BOOLEAN, users : SUBSET Conns]
  /\ moved \subseteq Handles
  /\ sent \in 0 .. MaxRequests

(* The share starts empty or with one file. *)
Init ==
  /\ \/ names = [n \in Names |-> Nil] /\ obj = [o \in Objects |-> Made("none")]
     \/ \E n \in Names, o \in Objects :
          /\ names = [m \in Names |-> IF m = n THEN o ELSE Nil]
          /\ obj = [p \in Objects |-> Made(IF p = o THEN "file" ELSE "none")]
  /\ fsh = [h \in Handles |-> Unused]
  /\ fsOpen = {} /\ opens = {} /\ moved = {}
  /\ deleteAfterClose = [h \in Handles |-> FALSE]
  /\ req = [c \in Conns |-> Idle]
  /\ readOnly \in [share : BOOLEAN, users : SUBSET Conns]
  /\ sent = 0

-----------------------------------------------------------------------------
KindAt(n) == IF names[n] = Nil THEN "none" ELSE obj[names[n]].kind

(* What a path-based call that follows links reaches: links are dangling.    *)
Reaches(n) == KindAt(n) \in {"file", "dir"}

ReadOnlyContext(c) == readOnly.share \/ c \in readOnly.users

Start(c, r) ==
  /\ req[c].pc = "idle" /\ sent < MaxRequests
  /\ sent' = sent + 1
  /\ req' = [req EXCEPT ![c] = r]

Goto(c, l) == req' = [req EXCEPT ![c].pc = l]
Finish(c) == req' = [req EXCEPT ![c] = Idle]

(* A rename through h has happened whose new path is not stored yet. *)
Storing(c, h) == req[c].pc = "store" /\ req[c].h = h

(* Handles that go by one of the names ns, or will once a rename stored it.  *)
GoingBy(ns) == {h \in fsOpen :
  \/ fsh[h].path \in ns
  \/ \E c \in Conns : Storing(c, h) /\ req[c].name \in ns}

-----------------------------------------------------------------------------
(* Faulty variants of operations below, each a bug the properties must       *)
(* reveal.  The specification does not use them.                             *)

(* FILE_CREATE relies on the lookup instead of O_EXCL. *)
MayOpenShared(r, k) == k \in {"file", "dir"}

(* CLOSE closes the descriptor before it takes the open out of the table. *)
CloseFileFirst(c) ==
  /\ req[c].pc = "delete"
  /\ fsOpen' = fsOpen \ {req[c].h}
  /\ Goto(c, "close")
  /\ UNCHANGED <<share, fsh, opens, deleteAfterClose, readOnly, moved, sent>>

(* Unlink does not ask whether the share is read-only. *)
MayUnlinkAlways(h) == h \in fsOpen

(* A rename is not refused when the target exists. *)
RenameUnchecked(c, h, to, replace) ==
  /\ h \in opens \cap fsOpen /\ ~ReadOnlyContext(c) /\ ~fsh[h].stream
  /\ Start(c, [pc |-> "from", h |-> h, saw |-> KindAt(to), name |-> to, path |-> Nil,
               form |-> [NoForm EXCEPT !.flag = replace]])
  /\ UNCHANGED <<share, fsh, fsOpen, opens, deleteAfterClose, readOnly, moved>>

(* Rename forgets to set the new path. *)
RenamePathKept(c) ==
  /\ req[c].pc = "store"
  /\ Finish(c)
  /\ UNCHANGED <<share, fsh, fsOpen, opens, deleteAfterClose, readOnly, moved, sent>>

-----------------------------------------------------------------------------
(* CREATE.  The first step looks the name up and tests the request.          *)

Refused(c, a, k) ==
  \/ ReadOnlyContext(c) /\ (a.flag \/ a.write \/ a.dir \/ a.disp # "open")
  \/ k \in {"file", "link"} /\ a.dir
  \/ k = "none" /\ (a.stream \/ a.disp \in {"open", "overwrite"})
  \/ k # "none" /\ a.disp = "create"

Create(c, n, a) ==
  LET k == KindAt(n)
      mkdir == k = "none" /\ a.dir /\ a.disp \in {"open_if", "create"}
  IN  /\ ~Refused(c, a, k)
      /\ Start(c, [pc |-> IF mkdir THEN "mkdir" ELSE "open", h |-> Nil, saw |-> k,
                  name |-> n, path |-> Nil, form |-> a])
      /\ UNCHANGED <<share, fsh, fsOpen, opens, deleteAfterClose, readOnly, moved>>

(* Mkdir, then the Stat of what it made. *)
CreateMkdir(c) ==
  LET n == req[c].name
  IN  /\ req[c].pc = "mkdir"
      /\ IF names[n] # Nil
         THEN Finish(c) /\ UNCHANGED share
         ELSE \E o \in Objects :
                /\ obj[o].kind = "none"
                /\ obj' = [obj EXCEPT ![o] = Made("dir")]
                /\ names' = [names EXCEPT ![n] = o]
                /\ Goto(c, "made")
      /\ UNCHANGED <<fsh, fsOpen, opens, deleteAfterClose, readOnly, moved, sent>>

CreateMade(c) ==
  /\ req[c].pc = "made"
  /\ IF Reaches(req[c].name)
     THEN req' = [req EXCEPT ![c].pc = "open", ![c].saw = "dir"]
     ELSE Finish(c)
  /\ UNCHANGED <<share, fsh, fsOpen, opens, deleteAfterClose, readOnly, moved, sent>>

(* The flags of os.OpenFile; what Lookup saw decides, not what is there now. *)
Plain(r) == r.saw \in {"none", "file"} /\ ~r.form.stream /\ ~readOnly.share
OCreate(r) == Plain(r) /\ r.form.disp # "open"
OExcl(r) == Plain(r) /\ r.form.disp = "create"
OTrunc(r) == Plain(r) /\ r.form.disp \in {"overwrite", "overwrite_if"}
ORdWr(r) == Plain(r) /\ r.form.write
OPath(r) == r.saw = "link" /\ ~readOnly.share

(* open(2) with these flags on an existing object of kind k. *)
MayOpen(r, k) ==
  \/ k = "file" /\ ~OExcl(r)
  \/ k = "dir" /\ ~OCreate(r) /\ ~ORdWr(r)
  \/ k = "link" /\ OPath(r)

StoreHandle(c, h, o) ==
  LET r == req[c]
  IN  /\ h \notin fsOpen /\ fsh[h] = Unused
      /\ fsh' = [fsh EXCEPT ![h] = [obj |-> o, path |-> r.name, fd |-> TRUE, rw |-> ORdWr(r),
                    stream |-> r.form.stream, excl |-> OExcl(r), leaked |-> FALSE, late |-> FALSE]]
      /\ fsOpen' = fsOpen \cup {h}
      /\ req' = [req EXCEPT ![c].pc = "attr", ![c].h = h]

(* fs.Open and fs.OpenDir. *)
CreateOpen(c) ==
  LET r == req[c]
      n == r.name
  IN  /\ r.pc = "open"
      /\ \/ /\ names[n] = Nil /\ OCreate(r)
            /\ \E o \in Objects, h \in Handles :
                 /\ obj[o].kind = "none"
                 /\ obj' = [obj EXCEPT ![o] = Made("file")]
                 /\ names' = [names EXCEPT ![n] = o]
                 /\ StoreHandle(c, h, o)
         \/ /\ names[n] # Nil /\ MayOpen(r, KindAt(n))
            /\ obj' = IF OTrunc(r) THEN [obj EXCEPT ![names[n]].data = "empty"] ELSE obj
            /\ UNCHANGED names
            /\ \E h \in Handles : StoreHandle(c, h, names[n])
         \/ /\ IF names[n] = Nil THEN ~OCreate(r) ELSE ~MayOpen(r, KindAt(n))
            /\ Finish(c)
            /\ UNCHANGED <<share, fsh, fsOpen>>
      /\ UNCHANGED <<opens, deleteAfterClose, readOnly, moved, sent>>

(* GetAttr of the new descriptor.  When it fails nobody closes h. *)
CreateAttr(c) ==
  /\ req[c].pc = "attr"
  /\ \/ /\ Goto(c, IF req[c].form.stream THEN "ea" ELSE "add")
        /\ UNCHANGED fsh
     \/ /\ Finish(c)
        /\ fsh' = [fsh EXCEPT ![req[c].h].leaked = TRUE]
  /\ UNCHANGED <<share, fsOpen, opens, deleteAfterClose, readOnly, moved, sent>>

(* handleCreateEA: extended attributes go by path.  A failure closes h. *)
SetsEa(r) == \/ r.form.disp \notin {"open", "open_if", "create"}
             \/ KindAt(fsh[r.h].path) = "none" \/ obj[names[fsh[r.h].path]].ea = "none"
EaFails(r) == \/ SetsEa(r) /\ ~Reaches(fsh[r.h].path)
              \/ ~SetsEa(r) /\ r.form.disp = "create"

CreateEa(c) ==
  LET r == req[c]
      o == names[fsh[r.h].path]
  IN  /\ r.pc = "ea"
      /\ IF EaFails(r)
         THEN fsOpen' = fsOpen \ {r.h} /\ Finish(c) /\ UNCHANGED obj
         ELSE /\ obj' = IF SetsEa(r) THEN [obj EXCEPT ![o].ea = "empty"] ELSE obj
              /\ Goto(c, "add") /\ UNCHANGED fsOpen
      /\ UNCHANGED <<names, fsh, opens, deleteAfterClose, readOnly, moved, sent>>

(* The stream AFP_AfpInfo is opened without a look. *)
CreateAfpInfo(c) ==
  /\ req[c].pc = "ea"
  /\ Goto(c, "add")
  /\ UNCHANGED <<share, fsh, fsOpen, opens, deleteAfterClose, readOnly, moved, sent>>

(* addOpen, and the response. *)
CreateAdd(c) ==
  /\ req[c].pc = "add"
  /\ opens' = opens \cup {req[c].h}
  /\ deleteAfterClose' = [deleteAfterClose EXCEPT ![req[c].h] = req[c].form.flag]
  /\ Finish(c)
  /\ UNCHANGED <<share, fsh, fsOpen, readOnly, moved, sent>>

-----------------------------------------------------------------------------
(* CLOSE: the client has the handle from an earlier answer. *)

Opening == {"attr", "ea", "add"}
Known(h) == /\ h \in fsOpen /\ ~fsh[h].leaked
            /\ \A c \in Conns : req[c].h = h => req[c].pc \notin Opening

Close(c, h) ==
  /\ Known(h)
  /\ Start(c, Request(IF h \in opens THEN "test" ELSE "delete", h))
  /\ UNCHANGED <<share, fsh, fsOpen, opens, deleteAfterClose, readOnly, moved>>

CloseTest(c) ==
  /\ req[c].pc = "test"
  /\ Goto(c, IF deleteAfterClose[req[c].h] THEN "load" ELSE "delete")
  /\ UNCHANGED <<share, fsh, fsOpen, opens, deleteAfterClose, readOnly, moved, sent>>

(* PassthroughFS.Unlink finds the handle, reads its path and removes what    *)
(* has that name then.                                                       *)
MayUnlink(h) == h \in fsOpen /\ ~readOnly.share

CloseLoad(c) ==
  /\ req[c].pc = "load"
  /\ Goto(c, IF MayUnlink(req[c].h) THEN "path" ELSE "delete")
  /\ UNCHANGED <<share, fsh, fsOpen, opens, deleteAfterClose, readOnly, moved, sent>>

(* Unlink for CLOSE and for a reparse point, and Rename, read the path of    *)
(* the handle.                                                               *)
AfterPath == [path |-> "remove", reparse |-> "unlink", from |-> "move"]
ReadPath(c) ==
  /\ req[c].pc \in DOMAIN AfterPath
  /\ req' = [req EXCEPT ![c].pc = AfterPath[@], ![c].path = fsh[req[c].h].path]
  /\ UNCHANGED <<share, fsh, fsOpen, opens, deleteAfterClose, readOnly, moved, sent>>

(* os.Remove *)
Remove(n) ==
  IF names[n] = Nil THEN UNCHANGED <<names, moved>>
  ELSE names' = [names EXCEPT ![n] = Nil] /\ moved' = moved \cup GoingBy({n})

CloseRemove(c) ==
  /\ req[c].pc = "remove"
  /\ Remove(req[c].path)
  /\ Goto(c, "delete")
  /\ UNCHANGED <<obj, fsh, fsOpen, opens, deleteAfterClose, readOnly, sent>>

CloseDelete(c) ==
  /\ req[c].pc = "delete"
  /\ opens' = opens \ {req[c].h}
  /\ Goto(c, "close")
  /\ UNCHANGED <<share, fsh, fsOpen, deleteAfterClose, readOnly, moved, sent>>

CloseFile(c) ==
  /\ req[c].pc = "close"
  /\ fsOpen' = fsOpen \ {req[c].h}
  /\ Finish(c)
  /\ UNCHANGED <<share, fsh, opens, deleteAfterClose, readOnly, moved, sent>>

-----------------------------------------------------------------------------
(* SET_INFO. *)

MaySetInfo(c, h) == h \in opens /\ ~ReadOnlyContext(c)

(* A CLOSE of h that has seen the mark. *)
Deleting(c, h) == req[c].h = h /\ req[c].pc \in {"load", "path", "remove"}

SetDisposition(c, h, b) ==
  /\ MaySetInfo(c, h) /\ ~fsh[h].stream /\ h \in fsOpen
  /\ Start(c, Idle)
  /\ deleteAfterClose' = [deleteAfterClose EXCEPT ![h] = b]
  /\ fsh' = [fsh EXCEPT ![h].late = @ \/ (~b /\ \E d \in Conns : Deleting(d, h))]
  /\ UNCHANGED <<share, fsOpen, opens, readOnly, moved>>

(* Chtimes, Chmod and Lchown, by path; Lchown alone changes a link. *)
SetAttr(c, h) ==
  LET n == fsh[h].path
  IN  /\ MaySetInfo(c, h) /\ h \in fsOpen /\ names[n] # Nil
      /\ Start(c, Idle)
      /\ obj' = [obj EXCEPT ![names[n]].attr = TRUE]
      /\ UNCHANGED <<names, fsh, fsOpen, opens, deleteAfterClose, readOnly, moved>>

SetBasicInfo(c, h) == ~fsh[h].stream /\ SetAttr(c, h)
SetSecInfo(c, h) == SetAttr(c, h)
SetPosixInfo(c, h) == SetAttr(c, h)

(* Truncate goes by the descriptor while there is one. *)
SetEndOfFile(c, h) ==
  LET o == IF fsh[h].fd THEN fsh[h].obj ELSE names[fsh[h].path]
  IN  /\ MaySetInfo(c, h) /\ h \in fsOpen /\ ~fsh[h].stream
      /\ IF fsh[h].fd THEN fsh[h].rw ELSE KindAt(fsh[h].path) = "file"
      /\ Start(c, Idle)
      /\ obj' = [obj EXCEPT ![o].data = "empty"]
      /\ UNCHANGED <<names, fsh, fsOpen, opens, deleteAfterClose, readOnly, moved>>

(* Setxattr and Removexattr of a stream's handle, by path: a WRITE, a new    *)
(* size and a disposition.  Of these WRITE tests only the user.              *)
SetStream(c, h, v) ==
  LET n == fsh[h].path
  IN  /\ h \in opens /\ fsh[h].stream /\ h \in fsOpen /\ Reaches(n)
      /\ Start(c, Idle)
      /\ obj' = [obj EXCEPT ![names[n]].ea = v]
      /\ UNCHANGED <<names, fsh, fsOpen, opens, deleteAfterClose, readOnly, moved>>

WriteStream(c, h) == c \notin readOnly.users /\ SetStream(c, h, "data")
SetEndOfFileEa(c, h) == MaySetInfo(c, h) /\ SetStream(c, h, "data")
SetDispositionEa(c, h) == MaySetInfo(c, h) /\ SetStream(c, h, "none")

(* Rename: the test whether the target exists, the path (ReadPath),          *)
(* os.Rename, the new path.                                                  *)
RenameCheck(c, h, to, replace) ==
  /\ MaySetInfo(c, h) /\ h \in fsOpen /\ ~fsh[h].stream
  /\ replace \/ names[to] = Nil
  /\ Start(c, [pc |-> "from", h |-> h, saw |-> KindAt(to), name |-> to, path |-> Nil,
               form |-> [NoForm EXCEPT !.flag = replace]])
  /\ UNCHANGED <<share, fsh, fsOpen, opens, deleteAfterClose, readOnly, moved>>

(* os.Rename replaces anything but a directory, and only by a non-directory. *)
MayMove(n, to) == names[n] # Nil /\ (names[to] # Nil => "dir" \notin {KindAt(n), KindAt(to)})

RenameMove(c) ==
  LET h == req[c].h
      n == req[c].path
      to == req[c].name
  IN  /\ req[c].pc = "move"
      /\ IF MayMove(n, to)
         THEN /\ names' = IF n = to THEN names ELSE [names EXCEPT ![n] = Nil, ![to] = names[n]]
              /\ moved' = moved \cup (IF n = to THEN {} ELSE GoingBy({n, to}) \ {h})
                                \cup {k \in {h} : fsh[h].obj # names[n] \/ fsh[h].path # n
                                                   \/ \E d \in Conns : Storing(d, h)}
              /\ Goto(c, "store")
         ELSE Finish(c) /\ UNCHANGED <<names, moved>>
      /\ UNCHANGED <<obj, fsh, fsOpen, opens, deleteAfterClose, readOnly, sent>>

RenameStore(c) ==
  /\ req[c].pc = "store"
  /\ fsh' = [fsh EXCEPT ![req[c].h].path = req[c].name]
  /\ Finish(c)
  /\ UNCHANGED <<share, fsOpen, opens, deleteAfterClose, readOnly, moved, sent>>

-----------------------------------------------------------------------------
(* WRITE. *)
WriteFile(c, h) ==
  /\ h \in opens /\ c \notin readOnly.users /\ ~readOnly.share
  /\ h \in fsOpen /\ ~fsh[h].stream /\ fsh[h].fd /\ fsh[h].rw
  /\ Start(c, Idle)
  /\ obj' = [obj EXCEPT ![fsh[h].obj].data = "data"]
  /\ UNCHANGED <<names, fsh, fsOpen, opens, deleteAfterClose, readOnly, moved>>

Write(c, h) == WriteFile(c, h) \/ WriteStream(c, h)

(* FSCTL_SET_REPARSE_POINT replaces the file by a symbolic link: the path is *)
(* read and the descriptor closed, then the file is removed and the link     *)
(* made.  FSCTL_DELETE_REPARSE_POINT removes the file.                       *)
Symlink(c, h) ==
  /\ Known(h) /\ ~readOnly.share
  /\ Start(c, Request("linkpath", h))
  /\ UNCHANGED <<share, fsh, fsOpen, opens, deleteAfterClose, readOnly, moved>>

SymlinkPath(c) ==
  LET h == req[c].h
  IN  /\ req[c].pc = "linkpath"
      /\ req' = [req EXCEPT ![c].pc = "unplace", ![c].path = fsh[h].path]
      /\ fsh' = [fsh EXCEPT ![h].fd = FALSE]
      /\ UNCHANGED <<share, fsOpen, opens, deleteAfterClose, readOnly, moved, sent>>

SymlinkRemove(c) ==
  /\ req[c].pc = "unplace"
  /\ Remove(req[c].path)
  /\ Goto(c, "link")
  /\ UNCHANGED <<obj, fsh, fsOpen, opens, deleteAfterClose, readOnly, sent>>

SymlinkMake(c) ==
  LET n == req[c].path
  IN  /\ req[c].pc = "link"
      /\ IF names[n] # Nil THEN UNCHANGED share
         ELSE \E o \in Objects :
                /\ obj[o].kind = "none"
                /\ obj' = [obj EXCEPT ![o] = Made("link")]
                /\ names' = [names EXCEPT ![n] = o]
      /\ Finish(c)
      /\ UNCHANGED <<fsh, fsOpen, opens, deleteAfterClose, readOnly, moved, sent>>

DeleteReparse(c, h) ==
  /\ Known(h) /\ MayUnlink(h)
  /\ Start(c, Request("reparse", h))
  /\ UNCHANGED <<share, fsh, fsOpen, opens, deleteAfterClose, readOnly, moved>>

ReparseRemove(c) ==
  /\ req[c].pc = "unlink"
  /\ Remove(req[c].path)
  /\ Finish(c)
  /\ UNCHANGED <<obj, fsh, fsOpen, opens, deleteAfterClose, readOnly, sent>>

-----------------------------------------------------------------------------
CreateStep(c) == CreateMkdir(c) \/ CreateMade(c) \/ CreateOpen(c) \/ CreateAttr(c)
                   \/ CreateEa(c) \/ CreateAfpInfo(c) \/ CreateAdd(c)
CloseStep(c) == CloseTest(c) \/ CloseLoad(c) \/ CloseRemove(c) \/ CloseDelete(c) \/ CloseFile(c)
RenameStep(c) == RenameMove(c) \/ RenameStore(c)

SetInfo(c, h) ==
  \/ \E b \in BOOLEAN : SetDisposition(c, h, b)
  \/ SetBasicInfo(c, h) \/ SetSecInfo(c, h) \/ SetPosixInfo(c, h)
  \/ SetEndOfFile(c, h) \/ SetEndOfFileEa(c, h) \/ SetDispositionEa(c, h)
  \/ \E to \in Names, replace \in BOOLEAN : RenameCheck(c, h, to, replace)

Ioctl(c, h) == Symlink(c, h) \/ DeleteReparse(c, h)
IoctlStep(c) == SymlinkPath(c) \/ SymlinkRemove(c) \/ SymlinkMake(c) \/ ReparseRemove(c)

Next == \E c \in Conns :
  \/ \E n \in Names, a \in Forms : Create(c, n, a)
  \/ CreateStep(c) \/ CloseStep(c) \/ RenameStep(c) \/ IoctlStep(c) \/ ReadPath(c)
  \/ \E h \in Handles : Close(c, h) \/ SetInfo(c, h) \/ Write(c, h) \/ Ioctl(c, h)

Spec == Init /\ [][Next]_vars

-----------------------------------------------------------------------------
(* The two tables agree: a handle the server knows is open in the file       *)
(* system, and one only the file system knows is being given out or closed,  *)
(* or was left there by the one path of CREATE that forgets it.  So nothing  *)
(* else leaks a descriptor, whatever two connections do to one handle.       *)
TablesAgree ==
  /\ opens \subseteq fsOpen
  /\ \A h \in fsOpen \ opens :
       fsh[h].leaked \/ \E c \in Conns : req[c].h = h /\ req[c].pc \in Opening \cup {"close"}

(* A handle's path names the file it was opened on, through any renames made *)
(* with it, until another request renames, replaces or removes that name:    *)
(* what CLOSE deletes, and SET_INFO and rename act on by path, is that file. *)
PathsFollow == \A h \in fsOpen \ moved :
  \/ names[fsh[h].path] = fsh[h].obj
  \/ \E c \in Conns : Storing(c, h) /\ names[req[c].name] = fsh[h].obj

(* FILE_CREATE is exclusive: no two successful ones give handles on one      *)
(* file, although both may have looked the name up before either made it.    *)
ExclusiveCreate == \A h, k \in Handles :
  h # k /\ fsh[h].excl /\ fsh[k].excl => fsh[h].obj # fsh[k].obj

(* Nothing changes the names, the contents or the attributes of a read-only  *)
(* share, whatever was opened before and whoever asks: some handlers test it *)
(* themselves, the others leave it to PassthroughFS.  Streams are excepted:  *)
(* opening one creates it, by intention.                                     *)
Files == [o \in Objects |-> [obj[o] EXCEPT !.ea = "none"]]
ReadOnlyUnchanged == [][readOnly.share => UNCHANGED <<names, Files>>]_vars

(* A file leaves the share only when someone asked for that: by the CLOSE of *)
(* a handle on it that is marked for deletion, or was when the CLOSE looked; *)
(* by a reparse-point request on it; or replaced by a rename that may        *)
(* replace or saw no target when it looked.  A removal hits what has the     *)
(* name now when another request took the handle's name (moved), renames the *)
(* handle, has renamed it since the removal read its path, or closed it.     *)
Gone(o) == /\ \E n \in Names : names[n] = o
           /\ \A n \in Names : names'[n] # o
Overtaken(c, h) == h \in moved \/ h \notin fsOpen \/ fsh[h].path # req[c].path
                   \/ \E d \in Conns : Storing(d, h)
Aims(c, o) == fsh[req[c].h].obj = o \/ Overtaken(c, req[c].h)
NoLostFile == [][\A o \in Objects : Gone(o) => \E c \in Conns :
  \/ CloseRemove(c) /\ Aims(c, o) /\ (deleteAfterClose[req[c].h] \/ fsh[req[c].h].late)
  \/ RenameMove(c) /\ names[req[c].name] = o /\ (req[c].form.flag \/ req[c].saw = "none")
  \/ (SymlinkRemove(c) \/ ReparseRemove(c)) /\ Aims(c, o)]_vars
=============================================================================
