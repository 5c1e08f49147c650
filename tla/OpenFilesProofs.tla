-------------------------- MODULE OpenFilesProofs ---------------------------
(* Proofs about OpenFiles, for any number of connections, names, objects,   *)
(* handles and requests.                                                    *)
EXTENDS OpenFiles, TLAPS

(* A request past its first step knows its handle, its name or the path it  *)
(* has read.                                                                *)
Prepared == \A c \in Conns :
  /\ req[c].pc \notin {"idle", "mkdir", "made", "open"} => req[c].h \in Handles
  /\ req[c].pc \in {"mkdir", "made", "open", "attr", "ea", "add", "from", "move", "store"}
       => req[c].name \in Names
  /\ req[c].pc \in {"remove", "move", "unplace", "link", "unlink"} => req[c].path \in Names

(* A handle in the table or in a request's hands is not a fresh one.        *)
Taken ==
  /\ \A h \in fsOpen : fsh[h].path \in Names /\ fsh[h].obj \in Objects
  /\ \A c \in Conns : req[c].h \in Handles =>
       fsh[req[c].h].path \in Names /\ fsh[req[c].h].obj \in Objects

Good == TypeOK /\ Prepared /\ Taken

(* What the actions use of the other variables.                             *)
LEMMA Records ==
  /\ \A l \in Pcs, h \in Handles \cup {Nil} : Request(l, h) \in ReqType
  /\ Idle \in ReqType
  /\ Unused \in FileType
  /\ \A k \in Kinds : Made(k) \in ObjectType
BY DEF Request, Idle, NoForm, FormType, Dispositions, ReqType, Kinds, Pcs, Unused,
       FileType, Made, ObjectType

(* A name stands for an object of some kind.                                 *)
LEMMA KindType == ASSUME TypeOK, NEW n \in Names PROVE KindAt(n) \in Kinds
BY DEF TypeOK, KindAt, Kinds, ObjectType

(* Updates of one field keep the types of objects, handles and requests.    *)
LEMMA ObjectUpdate ==
  ASSUME obj \in [Objects -> ObjectType], NEW o \in Objects
  PROVE  /\ \A d \in {"empty", "data"} : [obj EXCEPT ![o].data = d] \in [Objects -> ObjectType]
         /\ \A b \in BOOLEAN : [obj EXCEPT ![o].attr = b] \in [Objects -> ObjectType]
         /\ \A v \in {"none", "empty", "data"} :
              [obj EXCEPT ![o].ea = v] \in [Objects -> ObjectType]
BY DEF ObjectType

(* ... of a handle.                                                          *)
LEMMA FileUpdate ==
  ASSUME fsh \in [Handles -> FileType], NEW h \in Handles
  PROVE  /\ \A n \in Names : [fsh EXCEPT ![h].path = n] \in [Handles -> FileType]
         /\ [fsh EXCEPT ![h].fd = FALSE] \in [Handles -> FileType]
         /\ [fsh EXCEPT ![h].leaked = TRUE] \in [Handles -> FileType]
         /\ \A b \in BOOLEAN : [fsh EXCEPT ![h].late = b] \in [Handles -> FileType]
BY DEF FileType

(* What such an update leaves alone: the file and the path of every handle.  *)
SameFiles == \A k \in Handles :
  fsh'[k].path = fsh[k].path /\ fsh'[k].obj = fsh[k].obj /\ fsh'[k].excl = fsh[k].excl
StillLeaked == \A k \in Handles : fsh[k].leaked => fsh'[k].leaked

(* The flags of a handle change, or nothing of it.                           *)
LEMMA FlagUpdate ==
  ASSUME TypeOK, NEW h \in Handles,
         \/ fsh' = fsh
         \/ fsh' = [fsh EXCEPT ![h].fd = FALSE]
         \/ fsh' = [fsh EXCEPT ![h].leaked = TRUE]
         \/ \E b \in BOOLEAN : fsh' = [fsh EXCEPT ![h].late = b]
  PROVE  fsh' \in [Handles -> FileType] /\ SameFiles /\ StillLeaked
<1> USE DEF TypeOK, SameFiles, StillLeaked
<1>1. CASE fsh' = fsh
  BY <1>1
<1>2. CASE fsh' = [fsh EXCEPT ![h].fd = FALSE]
  <2>1. [fsh EXCEPT ![h].fd = FALSE] \in [Handles -> FileType]
    BY FileUpdate
  <2> QED BY <1>2, <2>1 DEF FileType
<1>3. CASE fsh' = [fsh EXCEPT ![h].leaked = TRUE]
  <2>1. [fsh EXCEPT ![h].leaked = TRUE] \in [Handles -> FileType]
    BY FileUpdate
  <2> QED BY <1>3, <2>1 DEF FileType
<1>4. ASSUME NEW b \in BOOLEAN, fsh' = [fsh EXCEPT ![h].late = b]
      PROVE  fsh' \in [Handles -> FileType] /\ SameFiles /\ StillLeaked
  <2>1. [fsh EXCEPT ![h].late = b] \in [Handles -> FileType]
    BY FileUpdate
  <2> QED BY <1>4, <2>1 DEF FileType
<1> QED BY <1>1, <1>2, <1>3, <1>4

(* ... of a request.                                                         *)
LEMMA RequestUpdate ==
  ASSUME req \in [Conns -> ReqType], NEW c \in Conns, NEW l \in Pcs, NEW h \in Handles
  PROVE  [req EXCEPT ![c].pc = l, ![c].h = h] \in [Conns -> ReqType]
<1>1. [req[c] EXCEPT !.pc = l, !.h = h] \in ReqType
  BY DEF ReqType
<1>2. [req EXCEPT ![c].pc = l, ![c].h = h]
        = [req EXCEPT ![c] = [req[c] EXCEPT !.pc = l, !.h = h]]
  OBVIOUS
<1> QED BY <1>1, <1>2

(* ... of what a request has seen.                                           *)
LEMMA SawUpdate ==
  ASSUME req \in [Conns -> ReqType], NEW c \in Conns, NEW l \in Pcs, NEW k \in Kinds
  PROVE  [req EXCEPT ![c].pc = l, ![c].saw = k] \in [Conns -> ReqType]
<1>1. [req[c] EXCEPT !.pc = l, !.saw = k] \in ReqType
  BY DEF ReqType
<1>2. [req EXCEPT ![c].pc = l, ![c].saw = k]
        = [req EXCEPT ![c] = [req[c] EXCEPT !.pc = l, !.saw = k]]
  OBVIOUS
<1> QED BY <1>1, <1>2

(* ... of the path a request has read, and where it goes then.               *)
Reads(c, l, n) == req' = [req EXCEPT ![c].pc = l, ![c].path = n]
LEMMA PathUpdate ==
  ASSUME req \in [Conns -> ReqType], NEW c \in Conns, NEW l \in Pcs, NEW n \in Names,
         Reads(c, l, n)
  PROVE  /\ req' \in [Conns -> ReqType]
         /\ req'[c].pc = l /\ req'[c].path = n /\ req'[c].h = req[c].h
         /\ req'[c].name = req[c].name /\ req'[c].form = req[c].form
         /\ req'[c].saw = req[c].saw
         /\ \A d \in Conns \ {c} : req'[d] = req[d]
<1>1. [req[c] EXCEPT !.pc = l, !.path = n] \in ReqType
  BY DEF ReqType
<1>2. req' = [req EXCEPT ![c] = [req[c] EXCEPT !.pc = l, !.path = n]]
  BY DEF Reads
<1>3. req' \in [Conns -> ReqType]
  BY <1>1, <1>2
<1>4. req'[c] = [req[c] EXCEPT !.pc = l, !.path = n] /\ \A d \in Conns \ {c} : req'[d] = req[d]
  BY <1>2
<1> QED BY <1>3, <1>4 DEF ReqType

(* ... and of the place a request has come to.                               *)
LEMMA GotoUpdate ==
  ASSUME req \in [Conns -> ReqType], NEW c \in Conns, NEW l \in Pcs, Goto(c, l)
  PROVE  /\ req' \in [Conns -> ReqType]
         /\ req'[c].pc = l /\ req'[c].path = req[c].path /\ req'[c].h = req[c].h
         /\ req'[c].name = req[c].name /\ req'[c].form = req[c].form
         /\ \A d \in Conns \ {c} : req'[d] = req[d]
<1>1. req' = [req EXCEPT ![c] = [req[c] EXCEPT !.pc = l]]
  BY DEF Goto
<1>2. [req[c] EXCEPT !.pc = l] \in ReqType
  BY DEF ReqType
<1>3. req'[c] = [req[c] EXCEPT !.pc = l] /\ \A d \in Conns \ {c} : req'[d] = req[d]
  BY <1>1
<1> QED BY <1>1, <1>2, <1>3 DEF ReqType

(* os.Remove takes away at most one name.                                    *)
LEMMA RemoveType ==
  ASSUME TypeOK, NEW n, Remove(n)
  PROVE  names' \in [Names -> Objects \cup {Nil}] /\ moved' \subseteq Handles
BY DEF Remove, GoingBy, TypeOK

(* SET_INFO and WRITE, whatever their information class, do one of these.   *)
LEMMA HandleWork ==
  ASSUME NEW c \in Conns, NEW h \in Handles, SetInfo(c, h) \/ Write(c, h)
  PROVE  \/ \E b \in BOOLEAN : SetDisposition(c, h, b)
         \/ SetAttr(c, h) \/ SetEndOfFile(c, h)
         \/ \E v \in {"none", "data"} : SetStream(c, h, v)
         \/ \E to \in Names, replace \in BOOLEAN : RenameCheck(c, h, to, replace)
         \/ WriteFile(c, h)
BY DEF SetInfo, SetBasicInfo, SetSecInfo, SetPosixInfo, SetEndOfFileEa, SetDispositionEa,
       Write, WriteStream

(* Every handler keeps the types, and knows what it works on.               *)
LEMMA GoodInductive == Good /\ [Next]_vars => Good'
<1> SUFFICES ASSUME Good, [Next]_vars PROVE Good'
  OBVIOUS
<1> USE NilAssumption, FormsAssumption, MaxRequestsAssumption, Records, KindType
<1> USE DEF Good, TypeOK, Prepared, Taken, share
<1>1. ASSUME NEW c \in Conns, CreateStep(c) PROVE Good'
  <2>1. CASE CreateMkdir(c)
    <3>1. /\ names' \in [Names -> Objects \cup {Nil}] /\ obj' \in [Objects -> ObjectType]
          /\ UNCHANGED <<fsh, fsOpen, opens, deleteAfterClose, readOnly, moved, sent>>
      <4>1. CASE names[req[c].name] # Nil
        BY <2>1, <4>1 DEF CreateMkdir
      <4>2. CASE names[req[c].name] = Nil
        <5>1. PICK o \in Objects : /\ obj' = [obj EXCEPT ![o] = Made("dir")]
                                   /\ names' = [names EXCEPT ![req[c].name] = o]
          BY <2>1, <4>2 DEF CreateMkdir
        <5>2. Made("dir") \in ObjectType
          BY DEF Kinds
        <5> QED BY <2>1, <5>1, <5>2 DEF CreateMkdir
      <4> QED BY <4>1, <4>2
    <3>2. CASE Finish(c)
      BY <3>1, <3>2 DEF Finish, Idle, Request
    <3>3. CASE Goto(c, "made")
      <4>1. req' \in [Conns -> ReqType]
        BY <3>3 DEF Goto, ReqType, Pcs
      <4>2. req'[c].h = req[c].h /\ req'[c].name = req[c].name /\ req'[c].pc = "made"
              /\ \A d \in Conns \ {c} : req'[d] = req[d]
        BY <3>3 DEF Goto, ReqType
      <4>3. req[c].pc = "mkdir"
        BY <2>1 DEF CreateMkdir
      <4> QED BY <3>1, <4>1, <4>2, <4>3
    <3> QED BY <2>1, <3>2, <3>3 DEF CreateMkdir
  <2>2. CASE CreateMade(c)
    <3>1. /\ req[c].pc = "made" /\ req[c].name \in Names
          /\ UNCHANGED <<share, fsh, fsOpen, opens, deleteAfterClose, readOnly, moved, sent>>
      BY <2>2 DEF CreateMade
    <3>2. CASE Finish(c)
      BY <3>1, <3>2 DEF Finish, Idle, Request
    <3>3. CASE req' = [req EXCEPT ![c].pc = "open", ![c].saw = "dir"]
      <4>1. "open" \in Pcs /\ "dir" \in Kinds
        BY DEF Pcs, Kinds
      <4>3. req' \in [Conns -> ReqType]
        BY <3>3, <4>1, SawUpdate
      <4>4. /\ req'[c].pc = "open" /\ req'[c].name = req[c].name /\ req'[c].h = req[c].h
            /\ \A d \in Conns \ {c} : req'[d] = req[d]
        BY <3>3 DEF ReqType
      <4> QED BY <3>1, <4>3, <4>4
    <3> QED BY <2>2, <3>2, <3>3 DEF CreateMade
  <2>3. CASE CreateOpen(c)
    <3>1. ASSUME NEW h \in Handles, NEW o \in Objects, StoreHandle(c, h, o),
                 req[c].pc = "open", names' \in [Names -> Objects \cup {Nil}],
                 obj' \in [Objects -> ObjectType],
                 UNCHANGED <<opens, deleteAfterClose, readOnly, moved, sent>>
          PROVE Good'
      <4>1. fsh' \in [Handles -> FileType]
        BY <3>1 DEF StoreHandle, FileType, ReqType, FormType, ORdWr, OExcl, Plain
      <4>2. req' \in [Conns -> ReqType]
        BY <3>1, RequestUpdate DEF StoreHandle, Pcs
      <4>3. fsh'[h].path \in Names /\ fsh'[h].obj = o
              /\ \A k \in Handles \ {h} : fsh'[k] = fsh[k]
        BY <3>1 DEF StoreHandle
      <4>4. req'[c].h = h /\ req'[c].name = req[c].name /\ req'[c].pc = "attr"
              /\ \A d \in Conns \ {c} : req'[d] = req[d]
        BY <3>1 DEF StoreHandle, ReqType
      <4>5. fsOpen' = fsOpen \cup {h}
        BY <3>1 DEF StoreHandle
      <4> QED BY <3>1, <4>1, <4>2, <4>3, <4>4, <4>5
    <3>2. ASSUME names[req[c].name] = Nil, OCreate(req[c]), NEW o \in Objects,
                 NEW h \in Handles, obj' = [obj EXCEPT ![o] = Made("file")],
                 names' = [names EXCEPT ![req[c].name] = o], StoreHandle(c, h, o)
          PROVE Good'
      BY <2>3, <3>1, <3>2 DEF CreateOpen, Kinds
    <3>3. ASSUME names[req[c].name] # Nil, NEW h \in Handles, UNCHANGED names,
                 obj' = IF OTrunc(req[c])
                          THEN [obj EXCEPT ![names[req[c].name]].data = "empty"] ELSE obj,
                 StoreHandle(c, h, names[req[c].name])
          PROVE Good'
      <4>1. names[req[c].name] \in Objects
        BY <2>3, <3>3 DEF CreateOpen
      <4>2. obj' \in [Objects -> ObjectType]
        BY <3>3, <4>1, ObjectUpdate
      <4> QED BY <2>3, <3>1, <3>3, <4>1, <4>2 DEF CreateOpen
    <3>4. CASE Finish(c) /\ UNCHANGED <<share, fsh, fsOpen>>
      BY <2>3, <3>4 DEF CreateOpen, Finish, Idle, Request
    <3> QED BY <2>3, <3>2, <3>3, <3>4 DEF CreateOpen
  <2>4. CASE CreateEa(c)
    <3> DEFINE o == names[fsh[req[c].h].path]
    <3>1. CASE EaFails(req[c])
      BY <2>4, <3>1 DEF CreateEa, Finish, Idle, Request
    <3>2. CASE ~EaFails(req[c])
      <4>1. SetsEa(req[c]) => o \in Objects
        BY <2>4, <3>2 DEF CreateEa, EaFails, Reaches, KindAt
      <4>2. obj' = IF SetsEa(req[c]) THEN [obj EXCEPT ![o].ea = "empty"] ELSE obj
        BY <2>4, <3>2 DEF CreateEa
      <4>3. o \in Objects => [obj EXCEPT ![o].ea = "empty"] \in [Objects -> ObjectType]
        BY ObjectUpdate
      <4>4. obj' \in [Objects -> ObjectType]
        BY <4>1, <4>2, <4>3
      <4>5. req[c].pc = "ea" /\ Goto(c, "add") /\ req[c].h \in Handles /\ req[c].name \in Names
              /\ UNCHANGED <<names, fsh, fsOpen, opens, deleteAfterClose, readOnly, moved, sent>>
        BY <2>4, <3>2 DEF CreateEa
      <4>6. "add" \in Pcs
        BY DEF Pcs
      <4>7. /\ req' \in [Conns -> ReqType] /\ req'[c].pc = "add" /\ req'[c].h = req[c].h
            /\ req'[c].name = req[c].name /\ \A d \in Conns \ {c} : req'[d] = req[d]
        BY <4>5, <4>6, GotoUpdate
      <4> QED BY <4>4, <4>5, <4>7
    <3> QED BY <3>1, <3>2
  <2>5. CASE CreateAfpInfo(c) BY <2>5 DEF CreateAfpInfo, Goto, ReqType, Pcs
  <2>6. CASE CreateAdd(c) BY <2>6 DEF CreateAdd, Finish, Idle, Request, ReqType, FormType
  <2>7. CASE CreateAttr(c)
    <3>1. req[c].pc = "attr" /\ req[c].h \in Handles /\ req[c].name \in Names
            /\ UNCHANGED <<share, fsOpen, opens, deleteAfterClose, readOnly, moved, sent>>
      BY <2>7 DEF CreateAttr
    <3>2. fsh' = fsh \/ fsh' = [fsh EXCEPT ![req[c].h].leaked = TRUE]
      BY <2>7 DEF CreateAttr
    <3>3. fsh' \in [Handles -> FileType] /\ SameFiles
      BY <3>1, <3>2, FlagUpdate
    <3>4. CASE Finish(c)
      BY <3>1, <3>3, <3>4 DEF Finish, Idle, Request, SameFiles
    <3>5. ASSUME NEW l \in {"ea", "add"}, Goto(c, l) PROVE Good'
      <4>1. l \in Pcs
        BY DEF Pcs
      <4>2. /\ req' \in [Conns -> ReqType] /\ req'[c].pc = l /\ req'[c].h = req[c].h
            /\ req'[c].name = req[c].name /\ \A d \in Conns \ {c} : req'[d] = req[d]
        BY <3>5, <4>1, GotoUpdate
      <4> QED BY <3>1, <3>3, <4>2 DEF SameFiles
    <3> QED BY <2>7, <3>4, <3>5 DEF CreateAttr
  <2> QED BY <1>1, <2>1, <2>2, <2>3, <2>4, <2>5, <2>6, <2>7 DEF CreateStep
<1>10. ASSUME NEW c \in Conns, NEW l \in Pcs, Goto(c, l), UNCHANGED <<obj, fsh, fsOpen>>,
              opens' \subseteq opens, UNCHANGED <<deleteAfterClose, readOnly, sent>>,
              names' \in [Names -> Objects \cup {Nil}], moved' \subseteq Handles,
              req[c].h \in Handles,
              l \in {"remove", "move", "unplace", "link", "unlink"} => req[c].path \in Names,
              l \in {"mkdir", "made", "open", "attr", "ea", "add", "from", "move", "store"}
                => req[c].name \in Names
       PROVE  Good'
  <2>1. /\ req' \in [Conns -> ReqType] /\ req'[c].pc = l /\ req'[c].path = req[c].path
        /\ req'[c].h = req[c].h /\ req'[c].name = req[c].name
        /\ \A d \in Conns \ {c} : req'[d] = req[d]
    BY <1>10, GotoUpdate
  <2> QED BY <1>10, <2>1
<1>2. ASSUME NEW c \in Conns, CloseStep(c) PROVE Good'
  <2>1. CASE CloseTest(c) \/ CloseLoad(c)
    <3>1. PICK l \in {"load", "path", "delete"} : Goto(c, l)
      BY <2>1 DEF CloseTest, CloseLoad
    <3>2. l \in Pcs
      BY DEF Pcs
    <3> QED BY <1>10, <2>1, <3>1, <3>2 DEF CloseTest, CloseLoad
  <2>4. CASE CloseRemove(c)
    <3>1. "delete" \in Pcs
      BY DEF Pcs
    <3> QED BY <1>10, <2>4, <3>1, RemoveType DEF CloseRemove
  <2>2. CASE CloseDelete(c) BY <2>2 DEF CloseDelete, Goto, ReqType, Pcs
  <2>3. CASE CloseFile(c) BY <2>3 DEF CloseFile, Finish, Idle, Request
  <2> QED BY <1>2, <2>1, <2>2, <2>3, <2>4 DEF CloseStep
<1>11. ASSUME NEW c \in Conns, ReadPath(c) PROVE Good'
  <2>0. req[c].pc \in {"path", "reparse", "from"}
    BY <1>11 DEF ReadPath, AfterPath
  <2>1. req[c].h \in Handles /\ fsh[req[c].h].path \in Names
    BY <2>0
  <2>2. PICK n \in Names : n = fsh[req[c].h].path
    BY <2>1
  <2>3. ASSUME NEW l \in Pcs, AfterPath[req[c].pc] = l, l = "move" => req[c].name \in Names,
               l \in {"remove", "unlink", "move"}
        PROVE  Good'
    <3>1. Reads(c, l, n)
      BY <1>11, <2>2, <2>3 DEF ReadPath, Reads
    <3>2. /\ req' \in [Conns -> ReqType] /\ req'[c].pc = l /\ req'[c].path = n
          /\ req'[c].h = req[c].h /\ req'[c].name = req[c].name
          /\ \A d \in Conns \ {c} : req'[d] = req[d]
      BY <2>2, <3>1, PathUpdate
    <3> QED BY <1>11, <2>1, <2>3, <3>2 DEF ReadPath
  <2>4. /\ req[c].pc = "path" => AfterPath[req[c].pc] = "remove"
        /\ req[c].pc = "reparse" => AfterPath[req[c].pc] = "unlink"
        /\ req[c].pc = "from" => AfterPath[req[c].pc] = "move" /\ req[c].name \in Names
    BY DEF AfterPath
  <2>5. "remove" \in Pcs /\ "unlink" \in Pcs /\ "move" \in Pcs
    BY DEF Pcs
  <2> QED BY <2>0, <2>3, <2>4, <2>5
<1>3. ASSUME NEW c \in Conns, RenameStep(c) PROVE Good'
  <2>1. CASE RenameMove(c) BY <2>1 DEF RenameMove, Goto, Finish, Idle, Request, ReqType, Pcs,
          GoingBy, MayMove
  <2>2. CASE RenameStore(c)
    <3>1. fsh' \in [Handles -> FileType] /\ \A k \in Handles :
            fsh'[k].path \in {fsh[k].path, req[c].name} /\ fsh'[k].obj = fsh[k].obj
      <4>1. req[c].h \in Handles /\ req[c].name \in Names
              /\ fsh' = [fsh EXCEPT ![req[c].h].path = req[c].name]
        BY <2>2 DEF RenameStore
      <4>2. fsh' \in [Handles -> FileType]
        BY <4>1, FileUpdate
      <4> QED BY <4>1, <4>2 DEF FileType
    <3> QED BY <2>2, <3>1 DEF RenameStore, Finish, Idle, Request
  <2> QED BY <1>3, <2>1, <2>2 DEF RenameStep
<1>4. ASSUME NEW c \in Conns, IoctlStep(c) PROVE Good'
  <2>1. CASE SymlinkMake(c)
    BY <2>1 DEF SymlinkMake, Finish, Idle, Request, Kinds
  <2>2. CASE SymlinkRemove(c)
    <3>1. "link" \in Pcs
      BY DEF Pcs
    <3> QED BY <1>10, <2>2, <3>1, RemoveType DEF SymlinkRemove
  <2>3. CASE ReparseRemove(c)
    BY <2>3, RemoveType DEF ReparseRemove, Finish, Idle, Request
  <2>4. CASE SymlinkPath(c)
    <3>1. /\ req[c].pc = "linkpath"
          /\ req' = [req EXCEPT ![c].pc = "unplace", ![c].path = fsh[req[c].h].path]
          /\ fsh' = [fsh EXCEPT ![req[c].h].fd = FALSE]
          /\ UNCHANGED <<share, fsOpen, opens, deleteAfterClose, readOnly, moved, sent>>
          /\ req[c].h \in Handles
      BY <2>4 DEF SymlinkPath
    <3>2. "unplace" \in Pcs
      BY DEF Pcs
    <3>5. PICK n \in Names : n = fsh[req[c].h].path
      BY <3>1
    <3>6. Reads(c, "unplace", n)
      BY <3>1, <3>5 DEF Reads
    <3>3. /\ req' \in [Conns -> ReqType] /\ req'[c].pc = "unplace" /\ req'[c].path \in Names
          /\ req'[c].h = req[c].h /\ \A d \in Conns \ {c} : req'[d] = req[d]
      BY <3>2, <3>5, <3>6, PathUpdate
    <3>4. fsh' \in [Handles -> FileType] /\ SameFiles
      BY <3>1, FlagUpdate
    <3> QED BY <3>1, <3>3, <3>4 DEF SameFiles
  <2> QED BY <1>4, <2>1, <2>2, <2>3, <2>4 DEF IoctlStep
<1>5. ASSUME NEW c \in Conns, NEW n \in Names, NEW a \in Forms, Create(c, n, a) PROVE Good'
  BY <1>5 DEF Create, Start, ReqType, Pcs
<1>6. ASSUME NEW c \in Conns, NEW h \in Handles, Close(c, h) PROVE Good'
  BY <1>6 DEF Close, Start, Request, Known, Pcs
<1>7. ASSUME NEW c \in Conns, NEW h \in Handles, SetInfo(c, h) \/ Write(c, h) PROVE Good'
  <2>1. ASSUME NEW b \in BOOLEAN, SetDisposition(c, h, b) PROVE Good'
    <3>1. fsh' = [fsh EXCEPT ![h].late = @ \/ (~b /\ \E d \in Conns : Deleting(d, h))]
      BY <2>1 DEF SetDisposition
    <3>2. \E v \in BOOLEAN : fsh' = [fsh EXCEPT ![h].late = v]
      BY <3>1 DEF FileType
    <3>3. fsh' \in [Handles -> FileType] /\ SameFiles
      BY <3>2, FlagUpdate
    <3> QED BY <2>1, <3>3 DEF SetDisposition, Start, Idle, Request, SameFiles
  <2>2. CASE SetAttr(c, h)
    <3>1. names[fsh[h].path] \in Objects
      BY <2>2 DEF SetAttr
    <3>2. [obj EXCEPT ![names[fsh[h].path]].attr = TRUE] \in [Objects -> ObjectType]
      BY <3>1, ObjectUpdate
    <3>3. obj' \in [Objects -> ObjectType]
      BY <2>2, <3>2 DEF SetAttr
    <3> QED BY <2>2, <3>3 DEF SetAttr, Start, Idle, Request
  <2>3. CASE SetEndOfFile(c, h)
    <3> DEFINE o == IF fsh[h].fd THEN fsh[h].obj ELSE names[fsh[h].path]
    <3>1. o \in Objects
      BY <2>3 DEF SetEndOfFile, KindAt
    <3>2. obj' = [obj EXCEPT ![o].data = "empty"]
      BY <2>3 DEF SetEndOfFile
    <3>3. obj' \in [Objects -> ObjectType]
      BY <3>1, <3>2, ObjectUpdate
    <3> QED BY <2>3, <3>3 DEF SetEndOfFile, Start, Idle, Request
  <2>4. ASSUME NEW v \in {"none", "data"}, SetStream(c, h, v) PROVE Good'
    BY <2>4 DEF SetStream, Start, Idle, Request, ObjectType, Reaches, KindAt
  <2>5. ASSUME NEW to \in Names, NEW replace \in BOOLEAN, RenameCheck(c, h, to, replace)
        PROVE Good'
    <3> DEFINE f == [NoForm EXCEPT !.flag = replace]
               r == [pc |-> "from", h |-> h, saw |-> KindAt(to), name |-> to, path |-> Nil,
                     form |-> f]
    <3>1. f \in FormType
      BY DEF NoForm, FormType, Dispositions
    <3>2. r \in ReqType
      BY <3>1 DEF ReqType, Pcs
    <3>3. req' = [req EXCEPT ![c] = r] /\ sent' \in 0 .. MaxRequests
      BY <2>5 DEF RenameCheck, Start
    <3>4. h \in fsOpen
      BY <2>5 DEF RenameCheck
    <3> QED BY <2>5, <3>2, <3>3, <3>4 DEF RenameCheck
  <2>6. CASE WriteFile(c, h)
    BY <2>6 DEF WriteFile, Start, Idle, Request, ObjectType
  <2> QED BY <1>7, <2>1, <2>2, <2>3, <2>4, <2>5, <2>6, HandleWork
<1>8. ASSUME NEW c \in Conns, NEW h \in Handles, Ioctl(c, h) PROVE Good'
  <2>1. CASE Symlink(c, h) BY <2>1 DEF Symlink, Start, Request, Known, Pcs
  <2>2. CASE DeleteReparse(c, h) BY <2>2 DEF DeleteReparse, Start, Request, Known, Pcs
  <2> QED BY <1>8, <2>1, <2>2 DEF Ioctl
<1>9. CASE UNCHANGED vars
  BY <1>9 DEF vars
<1> QED BY <1>1, <1>2, <1>3, <1>4, <1>5, <1>6, <1>7, <1>8, <1>9, <1>11 DEF Next

(* So they hold in every state.                                              *)
LEMMA GoodHolds == Spec => []Good
<1>1. Init => Good
  <2> SUFFICES ASSUME Init PROVE Good
    OBVIOUS
  <2> USE Records, NilAssumption, MaxRequestsAssumption
  <2>1. TypeOK
    BY DEF Init, TypeOK, Kinds
  <2>2. Prepared /\ Taken
    BY DEF Init, Prepared, Taken, Idle, Request
  <2> QED BY <2>1, <2>2 DEF Good
<1> QED BY <1>1, GoodInductive, PTL DEF Spec

(* The variables keep their types.                                          *)
THEOREM TypeCorrect == Spec => []TypeOK
<1>1. Good => TypeOK
  BY DEF Good
<1> QED BY <1>1, GoodHolds, PTL

(* Steps of a request under way that leave the tables of handles alone.      *)
Works(c) == \/ CloseTest(c) \/ CloseLoad(c) \/ CloseRemove(c) \/ ReadPath(c)
            \/ IoctlStep(c) \/ RenameMove(c)
Quiet(c) ==
  /\ req[c].pc \notin Opening \cup {"idle", "mkdir", "made", "open", "close", "store"}
  /\ req'[c].pc \notin Opening \cup {"close"}
  /\ req'[c].h = req[c].h \/ (req'[c].pc = "idle" /\ req'[c].h = Nil)
  /\ \A d \in Conns \ {c} : req'[d] = req[d]
  /\ UNCHANGED <<fsOpen, opens, deleteAfterClose, readOnly>>
  /\ \A k \in Handles : fsh'[k].late = fsh[k].late
  /\ SameFiles /\ StillLeaked

(* What they change.                                                         *)
LEMMA WorkStep == ASSUME Good, NEW c \in Conns, Works(c) PROVE Quiet(c)
<1> USE DEF Opening, SameFiles, StillLeaked
<1>1. CASE CloseTest(c) \/ CloseLoad(c) \/ CloseRemove(c) \/ SymlinkRemove(c)
  <2>1. PICK l \in {"load", "path", "delete", "link"} : Goto(c, l)
    BY <1>1 DEF CloseTest, CloseLoad, CloseRemove, SymlinkRemove
  <2>2. l \in Pcs
    BY DEF Pcs
  <2>3. req'[c].pc = l /\ req'[c].h = req[c].h /\ \A d \in Conns \ {c} : req'[d] = req[d]
    BY <2>1, <2>2, GotoUpdate DEF Good, TypeOK
  <2>4. /\ req[c].pc \in {"test", "load", "remove", "unplace"}
        /\ UNCHANGED <<fsh, fsOpen, opens, deleteAfterClose, readOnly>>
    BY <1>1 DEF CloseTest, CloseLoad, CloseRemove, SymlinkRemove
  <2> QED BY <2>1, <2>3, <2>4 DEF Quiet
<1>2. CASE ReadPath(c)
  <2>1. /\ req[c].pc \in {"path", "reparse", "from"}
        /\ AfterPath[req[c].pc] \in {"remove", "unlink", "move"}
    BY <1>2 DEF ReadPath, AfterPath
  <2>2. req' = [req EXCEPT ![c].pc = AfterPath[req[c].pc], ![c].path = fsh[req[c].h].path]
    BY <1>2 DEF ReadPath
  <2>3. /\ req'[c].pc = AfterPath[req[c].pc] /\ req'[c].h = req[c].h
        /\ \A d \in Conns \ {c} : req'[d] = req[d]
    BY <2>2 DEF Good, TypeOK, ReqType
  <2>4. UNCHANGED <<fsh, fsOpen, opens, deleteAfterClose, readOnly>>
    BY <1>2 DEF ReadPath
  <2> QED BY <2>1, <2>3, <2>4 DEF Quiet
<1>3. CASE SymlinkPath(c)
  <2>1. /\ req[c].pc = "linkpath" /\ req[c].h \in Handles
        /\ UNCHANGED <<fsOpen, opens, deleteAfterClose, readOnly>>
        /\ fsh' = [fsh EXCEPT ![req[c].h].fd = FALSE]
    BY <1>3 DEF SymlinkPath, Good, Prepared
  <2>2. /\ req'[c].pc = "unplace" /\ req'[c].h = req[c].h
        /\ \A d \in Conns \ {c} : req'[d] = req[d]
    BY <1>3 DEF SymlinkPath, Good, TypeOK, ReqType
  <2>3. SameFiles /\ StillLeaked
    BY <2>1, FlagUpdate DEF Good
  <2>4. \A k \in Handles : fsh'[k].late = fsh[k].late
    BY <2>1 DEF Good, TypeOK, FileType
  <2> QED BY <2>1, <2>2, <2>3, <2>4 DEF Quiet
<1>4. CASE SymlinkMake(c) \/ ReparseRemove(c)
  <2>1. /\ req[c].pc \in {"link", "unlink"} /\ Finish(c)
        /\ UNCHANGED <<fsh, fsOpen, opens, deleteAfterClose, readOnly>>
    BY <1>4 DEF SymlinkMake, ReparseRemove
  <2> QED BY <2>1 DEF Quiet, Finish, Idle, Request, Good, TypeOK
<1>5. CASE RenameMove(c)
  <2>1. /\ req[c].pc = "move" /\ (Finish(c) \/ Goto(c, "store"))
        /\ UNCHANGED <<fsh, fsOpen, opens, deleteAfterClose, readOnly>>
    BY <1>5 DEF RenameMove
  <2>2. CASE Finish(c)
    BY <2>1, <2>2 DEF Quiet, Finish, Idle, Request, Good, TypeOK
  <2>3. CASE Goto(c, "store")
    <3>1. "store" \in Pcs
      BY DEF Pcs
    <3>2. /\ req'[c].pc = "store" /\ req'[c].h = req[c].h
          /\ \A d \in Conns \ {c} : req'[d] = req[d]
      BY <2>3, <3>1, GotoUpdate DEF Good, TypeOK
    <3> QED BY <2>1, <3>2 DEF Quiet
  <2> QED BY <2>1, <2>2, <2>3
<1> QED BY <1>1, <1>2, <1>3, <1>4, <1>5 DEF Works, IoctlStep

-----------------------------------------------------------------------------
(* A new disposition changes no file, path or leak.                         *)
LEMMA DispositionFiles ==
  ASSUME Good, NEW c \in Conns, NEW h \in Handles, \E b \in BOOLEAN : SetDisposition(c, h, b)
  PROVE  fsh' \in [Handles -> FileType] /\ SameFiles /\ StillLeaked
<1>1. PICK b \in BOOLEAN : SetDisposition(c, h, b)
  OBVIOUS
<1>2. fsh' = [fsh EXCEPT ![h].late = @ \/ (~b /\ \E d \in Conns : Deleting(d, h))]
  BY <1>1 DEF SetDisposition
<1>3. \E v \in BOOLEAN : fsh' = [fsh EXCEPT ![h].late = v]
  BY <1>2 DEF Good, TypeOK, FileType
<1> QED BY <1>3, FlagUpdate DEF Good

(* SET_INFO and WRITE change no name and, a rename apart, are done at once. *)
LEMMA HandleStep ==
  ASSUME Good, NEW c \in Conns, NEW h \in Handles, SetInfo(c, h) \/ Write(c, h)
  PROVE  /\ UNCHANGED <<names, fsOpen, opens, readOnly, moved>> /\ SameFiles /\ StillLeaked
         /\ \/ Start(c, Idle)
            \/ \E to \in Names, replace \in BOOLEAN : RenameCheck(c, h, to, replace)
<1>1. CASE \E b \in BOOLEAN : SetDisposition(c, h, b)
  BY <1>1, DispositionFiles DEF SetDisposition, share
<1>2. CASE SetAttr(c, h) \/ SetEndOfFile(c, h) \/ WriteFile(c, h)
  BY <1>2 DEF SetAttr, SetEndOfFile, WriteFile, SameFiles, StillLeaked
<1>3. CASE \E v \in {"none", "data"} : SetStream(c, h, v)
  BY <1>3 DEF SetStream, SameFiles, StillLeaked
<1>4. CASE \E to \in Names, replace \in BOOLEAN : RenameCheck(c, h, to, replace)
  BY <1>4 DEF RenameCheck, SameFiles, StillLeaked, share
<1> QED BY <1>1, <1>2, <1>3, <1>4, HandleWork

(* A handle being given out is known to nobody else and not in the table    *)
(* of opens; a handle about to be closed has left that table.               *)
Private ==
  /\ \A c \in Conns : req[c].pc \in Opening =>
       /\ req[c].h \in fsOpen \ opens
       /\ \A d \in Conns \ {c} : req[d].h # req[c].h
  /\ \A c \in Conns : req[c].pc = "close" => req[c].h \notin opens

(* The table of opens and the file system's change together.                *)
LEMMA TablesInductive ==
  Good /\ TablesAgree /\ Private /\ [Next]_vars => TablesAgree' /\ Private'
<1> SUFFICES ASSUME Good, TablesAgree, Private, [Next]_vars
             PROVE TablesAgree' /\ Private'
  OBVIOUS
<1> USE NilAssumption
<1> USE DEF TablesAgree, Private, Good, TypeOK, Prepared, Taken, ReqType, Request, Idle,
            Opening, StillLeaked
<1>0. ASSUME NEW c \in Conns, UNCHANGED <<fsOpen, opens>>, StillLeaked,
             req[c].pc \notin Opening \cup {"close"}, req'[c].pc \notin Opening \cup {"close"},
             \A d \in Conns \ {c} : req'[d] = req[d],
             \/ req'[c].h \in {Nil, req[c].h}
             \/ \A d \in Conns : req[d].pc \in Opening => req[d].h # req'[c].h
      PROVE TablesAgree' /\ Private'
  <2> HIDE DEF Opening
  <2>1. \A d \in Conns : req'[d].pc \in Opening \cup {"close"} =>
          d # c /\ req'[d] = req[d]
    BY <1>0
  <2>2. \A d \in Conns : req[d].pc \in Opening \cup {"close"} =>
          d # c /\ req'[d] = req[d]
    BY <1>0
  <2>3. TablesAgree'
    <3>1. ASSUME NEW h \in fsOpen \ opens, ~fsh'[h].leaked
          PROVE  \E d \in Conns : req'[d].h = h /\ req'[d].pc \in Opening \cup {"close"}
      <4>1. PICK d \in Conns : req[d].h = h /\ req[d].pc \in Opening \cup {"close"}
        BY <1>0, <3>1
      <4> QED BY <2>2, <4>1
    <3> QED BY <1>0, <3>1
  <2>4. ASSUME NEW d \in Conns, req'[d].pc \in Opening
        PROVE  /\ req'[d].h \in fsOpen' \ opens'
               /\ \A e \in Conns \ {d} : req'[e].h # req'[d].h
    <3>1. d # c /\ req'[d] = req[d] /\ req[d].h \in fsOpen \ opens
      BY <2>1, <2>4
    <3>2. \A e \in Conns \ {d} : req[e].h # req[d].h
      BY <2>4, <3>1
    <3>3. req'[c].h # req[d].h
      <4>1. CASE req'[c].h = Nil
        BY <3>1, <4>1
      <4>2. CASE req'[c].h = req[c].h
        BY <3>1, <3>2, <4>2
      <4>3. CASE \A e \in Conns : req[e].pc \in Opening => req[e].h # req'[c].h
        BY <2>4, <3>1, <4>3
      <4> QED BY <1>0, <4>1, <4>2, <4>3
    <3> QED BY <1>0, <3>1, <3>2, <3>3
  <2>5. ASSUME NEW d \in Conns, req'[d].pc = "close" PROVE req'[d].h \notin opens'
    BY <1>0, <2>1, <2>5
  <2> QED BY <2>3, <2>4, <2>5
<1>1. ASSUME NEW c \in Conns, CreateStep(c) PROVE TablesAgree' /\ Private'
  <2>1. CASE CreateMkdir(c)
    <3>1. req[c].pc = "mkdir" /\ UNCHANGED <<fsOpen, opens>> /\ StillLeaked
      BY <2>1 DEF CreateMkdir
    <3>2. \A d \in Conns \ {c} : req'[d] = req[d]
      BY <2>1 DEF CreateMkdir, Finish, Goto
    <3>3. \/ req'[c].pc = "made" /\ req'[c].h = req[c].h
          \/ req'[c].pc = "idle" /\ req'[c].h = Nil
      BY <2>1 DEF CreateMkdir, Finish, Goto
    <3>4. req'[c].pc \notin Opening \cup {"close"}
      BY <3>3
    <3>5. req[c].pc \notin Opening \cup {"close"}
      BY <3>1
    <3> HIDE DEF TablesAgree, Private, Opening, StillLeaked
    <3> QED BY <1>0, <3>1, <3>2, <3>3, <3>4, <3>5
  <2>2. CASE CreateMade(c)
    <3>1. req[c].pc = "made" /\ UNCHANGED <<fsOpen, opens>> /\ StillLeaked
      BY <2>2 DEF CreateMade
    <3>2. \A d \in Conns \ {c} : req'[d] = req[d]
      BY <2>2 DEF CreateMade, Finish
    <3>3. \/ req'[c].pc = "open" /\ req'[c].h = req[c].h
          \/ req'[c].pc = "idle" /\ req'[c].h = Nil
      BY <2>2 DEF CreateMade, Finish
    <3>4. req'[c].pc \notin Opening \cup {"close"}
      BY <3>3
    <3>5. req[c].pc \notin Opening \cup {"close"}
      BY <3>1
    <3> HIDE DEF TablesAgree, Private, Opening, StillLeaked
    <3> QED BY <1>0, <3>1, <3>2, <3>3, <3>4, <3>5
  <2>3. CASE CreateOpen(c)
    <3>1. ASSUME NEW h \in Handles, NEW o, StoreHandle(c, h, o), req[c].pc = "open",
                 UNCHANGED opens
          PROVE TablesAgree' /\ Private'
      <4>1. fsh[h].path = Nil
        BY <3>1 DEF StoreHandle, Unused
      <4>2. h \notin opens /\ \A d \in Conns : req[d].h # h
        BY <3>1, <4>1 DEF StoreHandle
      <4>3. req'[c].h = h /\ req'[c].pc = "attr"
              /\ \A d \in Conns \ {c} : req'[d] = req[d]
        BY <3>1 DEF StoreHandle
      <4>4. fsOpen' = fsOpen \cup {h} /\ \A k \in Handles \ {h} : fsh'[k] = fsh[k]
        BY <3>1 DEF StoreHandle
      <4> QED BY <3>1, <4>2, <4>3, <4>4
    <3>2. CASE Finish(c) /\ UNCHANGED <<share, fsh, fsOpen>>
      BY <2>3, <3>2 DEF CreateOpen, Finish
    <3> QED BY <2>3, <3>1, <3>2 DEF CreateOpen
  <2>4. CASE CreateEa(c)
    <3>1. CASE EaFails(req[c])
      <4>1. fsOpen' = fsOpen \ {req[c].h} /\ opens' = opens /\ fsh' = fsh
        BY <2>4, <3>1 DEF CreateEa
      <4>2. req'[c].pc = "idle" /\ req'[c].h = Nil
              /\ \A d \in Conns \ {c} : req'[d] = req[d]
        BY <2>4, <3>1 DEF CreateEa, Finish
      <4> QED BY <2>4, <4>1, <4>2 DEF CreateEa
    <3>2. CASE ~EaFails(req[c])
      <4>1. fsOpen' = fsOpen /\ opens' = opens /\ fsh' = fsh
        BY <2>4, <3>2 DEF CreateEa
      <4>2. req'[c].pc = "add" /\ req'[c].h = req[c].h
              /\ \A d \in Conns \ {c} : req'[d] = req[d]
        BY <2>4, <3>2 DEF CreateEa, Goto
      <4>3. req[c].pc = "ea"
        BY <2>4 DEF CreateEa
      <4>4. \A d \in Conns : req'[d].h = req[d].h
              /\ (req'[d].pc \in Opening <=> req[d].pc \in Opening)
              /\ (req'[d].pc = "close" <=> req[d].pc = "close")
        BY <4>2, <4>3
      <4>5. TablesAgree'
        BY <4>1, <4>4
      <4>6. Private'
        BY <4>1, <4>4
      <4> QED BY <4>5, <4>6
    <3> QED BY <3>1, <3>2
  <2>5. CASE CreateAfpInfo(c) BY <2>5 DEF CreateAfpInfo, Goto
  <2>6. CASE CreateAdd(c) BY <2>6 DEF CreateAdd, Finish
  <2>7. CASE CreateAttr(c)
    <3>1. req[c].pc = "attr" /\ req[c].h \in Handles /\ fsOpen' = fsOpen /\ opens' = opens
      BY <2>7 DEF CreateAttr
    <3>2. CASE Finish(c) /\ fsh' = [fsh EXCEPT ![req[c].h].leaked = TRUE]
      <4>1. fsh'[req[c].h].leaked /\ \A k \in Handles \ {req[c].h} : fsh'[k] = fsh[k]
        BY <3>1, <3>2 DEF FileType
      <4>2. req'[c].pc = "idle" /\ req'[c].h = Nil
              /\ \A d \in Conns \ {c} : req'[d] = req[d]
        BY <3>2 DEF Finish
      <4>3. \A d \in Conns \ {c} : req[d].h # req[c].h
        BY <3>1
      <4>4. TablesAgree'
        <5>1. ASSUME NEW h \in fsOpen \ opens, ~fsh'[h].leaked
              PROVE  \E d \in Conns : req'[d].h = h /\ req'[d].pc \in Opening \cup {"close"}
          <6>1. h # req[c].h /\ ~fsh[h].leaked
            BY <4>1, <5>1
          <6>2. PICK d \in Conns : req[d].h = h /\ req[d].pc \in Opening \cup {"close"}
            BY <5>1, <6>1
          <6> QED BY <4>2, <6>1, <6>2
        <5> QED BY <3>1, <5>1
      <4>5. Private'
        BY <3>1, <4>2
      <4> QED BY <4>4, <4>5
    <3>3. ASSUME NEW l \in {"ea", "add"}, Goto(c, l), fsh' = fsh PROVE TablesAgree' /\ Private'
      <4>1. req'[c].pc \in Opening /\ req'[c].h = req[c].h
              /\ \A d \in Conns \ {c} : req'[d] = req[d]
        BY <3>3 DEF Goto
      <4>2. \A d \in Conns : req'[d].h = req[d].h
              /\ (req'[d].pc \in Opening <=> req[d].pc \in Opening)
              /\ (req'[d].pc = "close" <=> req[d].pc = "close")
        BY <3>1, <3>3, <4>1
      <4>3. TablesAgree'
        BY <3>1, <3>3, <4>2
      <4>4. Private'
        BY <3>1, <4>2
      <4> QED BY <4>3, <4>4
    <3> QED BY <2>7, <3>2, <3>3 DEF CreateAttr
  <2> QED BY <1>1, <2>1, <2>2, <2>3, <2>4, <2>5, <2>6, <2>7 DEF CreateStep
<1>2. ASSUME NEW c \in Conns, CloseDelete(c) \/ CloseFile(c) PROVE TablesAgree' /\ Private'
  <2>2. CASE CloseDelete(c) BY <2>2 DEF CloseDelete, Goto
  <2>3. CASE CloseFile(c) BY <2>3 DEF CloseFile, Finish
  <2> QED BY <1>2, <2>2, <2>3
<1>9. ASSUME NEW c \in Conns, Works(c) PROVE TablesAgree' /\ Private'
  <2>1. Quiet(c)
    BY <1>9, WorkStep
  <2>2. req'[c].pc \notin Opening \cup {"close"} /\ req[c].pc \notin Opening \cup {"close"}
    BY <2>1 DEF Quiet
  <2>3. req'[c].h \in {Nil, req[c].h}
    BY <2>1 DEF Quiet
  <2>4. UNCHANGED <<fsOpen, opens>> /\ StillLeaked /\ \A d \in Conns \ {c} : req'[d] = req[d]
    BY <2>1 DEF Quiet
  <2> HIDE DEF TablesAgree, Private, Opening, StillLeaked
  <2> QED BY <1>0, <2>2, <2>3, <2>4
<1>3. ASSUME NEW c \in Conns, RenameStore(c) PROVE TablesAgree' /\ Private'
  <2>1. req[c].pc = "store" /\ req[c].h \in Handles /\ fsOpen' = fsOpen /\ opens' = opens
          /\ fsh' = [fsh EXCEPT ![req[c].h].path = req[c].name]
    BY <1>3 DEF RenameStore
  <2>2. \A k \in Handles : fsh'[k].leaked = fsh[k].leaked
    BY <2>1 DEF FileType
  <2>3. req'[c].pc = "idle" /\ req'[c].h = Nil /\ \A d \in Conns \ {c} : req'[d] = req[d]
    BY <1>3 DEF RenameStore, Finish
  <2>4. StillLeaked
    BY <2>2
  <2>5. req'[c].pc \notin Opening \cup {"close"} /\ req[c].pc \notin Opening \cup {"close"}
    BY <2>1, <2>3
  <2> HIDE DEF TablesAgree, Private, Opening, StillLeaked
  <2> QED BY <1>0, <2>1, <2>3, <2>4, <2>5
<1>4. ASSUME NEW c \in Conns, NEW n \in Names, NEW a \in Forms, Create(c, n, a)
      PROVE TablesAgree' /\ Private'
  BY <1>4 DEF Create, Start
<1>5. ASSUME NEW c \in Conns, NEW h \in Handles, Close(c, h)
      PROVE TablesAgree' /\ Private'
  BY <1>5 DEF Close, Start, Known
<1>6. ASSUME NEW c \in Conns, NEW h \in Handles, SetInfo(c, h) \/ Write(c, h)
      PROVE TablesAgree' /\ Private'
  <2>1. ASSUME Start(c, Idle), UNCHANGED <<fsOpen, opens>>, StillLeaked
        PROVE TablesAgree' /\ Private'
    <3>1. req[c].pc = "idle" /\ req'[c].pc = "idle" /\ req'[c].h = Nil
            /\ \A d \in Conns \ {c} : req'[d] = req[d]
      BY <2>1 DEF Start
    <3>2. req'[c].pc \notin Opening \cup {"close"} /\ req[c].pc \notin Opening \cup {"close"}
      BY <3>1
    <3> HIDE DEF TablesAgree, Private, Opening, StillLeaked
    <3> QED BY <1>0, <2>1, <3>1, <3>2
  <2>2. ASSUME NEW to \in Names, NEW replace \in BOOLEAN, RenameCheck(c, h, to, replace)
        PROVE TablesAgree' /\ Private'
    <3>1. \A d \in Conns : req[d].pc \in Opening => req[d].h # h
      BY <2>2 DEF RenameCheck, MaySetInfo
    <3>2. req[c].pc = "idle" /\ req'[c].pc = "from" /\ req'[c].h = h
            /\ \A d \in Conns \ {c} : req'[d] = req[d]
      BY <2>2 DEF RenameCheck, Start
    <3>3. req'[c].pc \notin Opening \cup {"close"} /\ req[c].pc \notin Opening \cup {"close"}
      BY <3>2
    <3>4. UNCHANGED <<fsOpen, opens>> /\ StillLeaked
      BY <2>2 DEF RenameCheck
    <3> HIDE DEF TablesAgree, Private, Opening, StillLeaked
    <3> QED BY <1>0, <3>1, <3>2, <3>3, <3>4
  <2>3. CASE ~\E to \in Names, replace \in BOOLEAN : RenameCheck(c, h, to, replace)
    <3> HIDE DEF Good, StillLeaked
    <3> QED BY <1>6, <2>1, <2>3, HandleStep
  <2> QED BY <2>2, <2>3
<1>7. ASSUME NEW c \in Conns, NEW h \in Handles, Ioctl(c, h)
      PROVE TablesAgree' /\ Private'
  <2>1. /\ Known(h) /\ UNCHANGED <<fsh, fsOpen, opens>>
        /\ \E l \in {"linkpath", "reparse"} : Start(c, Request(l, h))
    BY <1>7 DEF Ioctl, Symlink, DeleteReparse
  <2>2. /\ req[c].pc = "idle" /\ req'[c].pc \in {"linkpath", "reparse"} /\ req'[c].h = h
        /\ \A d \in Conns \ {c} : req'[d] = req[d]
    BY <2>1 DEF Start
  <2>3. req'[c].pc \notin Opening \cup {"close"} /\ req[c].pc \notin Opening \cup {"close"}
    BY <2>2
  <2>4. StillLeaked /\ \A d \in Conns : req[d].pc \in Opening => req[d].h # h
    BY <2>1 DEF Known
  <2> HIDE DEF TablesAgree, Private, Opening, StillLeaked
  <2> QED BY <1>0, <2>1, <2>2, <2>3, <2>4
<1>8. CASE UNCHANGED vars
  BY <1>8 DEF vars
<1> QED BY <1>1, <1>2, <1>3, <1>4, <1>5, <1>6, <1>7, <1>8, <1>9
        DEF Next, CloseStep, RenameStep, Works

(* The two tables of handles agree, however the requests of any number of   *)
(* connections interleave: no descriptor leaks but where GetAttr fails in a *)
(* CREATE, and a handle found in the server's table is open in the file     *)
(* system.                                                                  *)
THEOREM TablesAlwaysAgree == Spec => []TablesAgree
<1>1. Init => TablesAgree /\ Private
  BY DEF Init, TablesAgree, Private, Opening, Idle, Request
<1> QED BY <1>1, TablesInductive, GoodHolds, PTL DEF Spec

-----------------------------------------------------------------------------
(* A file somebody created exclusively exists, so that no later FILE_CREATE *)
(* makes the same object.                                                   *)
ExclusiveMade == \A h \in Handles :
  fsh[h].excl => fsh[h].obj \in Objects /\ obj[fsh[h].obj].kind # "none"

(* Only open(2) with O_CREAT and O_EXCL makes an exclusive handle, and the  *)
(* object is then new.                                                      *)
LEMMA ExclusiveInductive ==
  Good /\ ExclusiveCreate /\ ExclusiveMade /\ [Next]_vars
    => ExclusiveCreate' /\ ExclusiveMade'
<1> SUFFICES ASSUME Good, ExclusiveCreate, ExclusiveMade, [Next]_vars
             PROVE ExclusiveCreate' /\ ExclusiveMade'
  OBVIOUS
<1> USE DEF ExclusiveCreate, ExclusiveMade
<1>1. ASSUME \A h \in Handles : fsh'[h].excl = fsh[h].excl /\ fsh'[h].obj = fsh[h].obj,
             \A o \in Objects : obj[o].kind # "none" => obj'[o].kind # "none"
      PROVE ExclusiveCreate' /\ ExclusiveMade'
  BY <1>1
<1>2. ASSUME NEW c \in Conns, CreateOpen(c) PROVE ExclusiveCreate' /\ ExclusiveMade'
  <2> DEFINE r == req[c]
  <2>1. ASSUME NEW h \in Handles, NEW o \in Objects, StoreHandle(c, h, o)
        PROVE /\ fsh'[h].excl = OExcl(r) /\ fsh'[h].obj = o
              /\ \A k \in Handles \ {h} : fsh'[k] = fsh[k]
    BY <2>1 DEF StoreHandle, Good, TypeOK
  <2>2. ASSUME NEW h \in Handles, NEW o \in Objects, obj[o].kind = "none",
               obj' = [obj EXCEPT ![o] = Made("file")], StoreHandle(c, h, o)
        PROVE ExclusiveCreate' /\ ExclusiveMade'
    BY <2>1, <2>2 DEF Made, Good, TypeOK
  <2>3. ASSUME names[r.name] # Nil, MayOpen(r, KindAt(r.name)), NEW h \in Handles,
               obj' = IF OTrunc(r) THEN [obj EXCEPT ![names[r.name]].data = "empty"] ELSE obj,
               StoreHandle(c, h, names[r.name]), r.pc = "open"
        PROVE ExclusiveCreate' /\ ExclusiveMade'
    <3>1. names[r.name] \in Objects
      BY <2>3 DEF Good, Prepared, TypeOK
    <3>2. ~OExcl(r)
      BY <2>3 DEF MayOpen, OExcl, OCreate, OPath, Plain
    <3>3. \A o \in Objects : obj'[o].kind = obj[o].kind
      BY <2>3, <3>1 DEF Good, TypeOK, ObjectType
    <3> QED BY <2>1, <2>3, <3>1, <3>2, <3>3
  <2> QED BY <1>1, <1>2, <2>2, <2>3 DEF CreateOpen, share
<1>9. ASSUME SameFiles, \A o \in Objects : obj'[o].kind = obj[o].kind
      PROVE ExclusiveCreate' /\ ExclusiveMade'
  BY <1>1, <1>9 DEF SameFiles
<1>10. ASSUME NEW c \in Conns, CreateAttr(c) PROVE ExclusiveCreate' /\ ExclusiveMade'
  <2>1. req[c].h \in Handles /\ obj' = obj
    BY <1>10 DEF CreateAttr, Good, Prepared, share
  <2>2. SameFiles
    BY <1>10, <2>1, FlagUpdate DEF CreateAttr, Good
  <2> QED BY <1>9, <2>1, <2>2
<1>11. ASSUME NEW c \in Conns, Works(c), ~SymlinkMake(c)
       PROVE  ExclusiveCreate' /\ ExclusiveMade'
  <2>1. SameFiles
    BY <1>11, WorkStep DEF Quiet
  <2>2. obj' = obj
    BY <1>11 DEF Works, CloseTest, CloseLoad, CloseRemove, ReadPath, IoctlStep, SymlinkPath,
                 SymlinkRemove, ReparseRemove, RenameMove, share
  <2> QED BY <1>9, <2>1, <2>2
<1>3. ASSUME NEW c \in Conns, CreateMkdir(c) \/ SymlinkMake(c)
      PROVE ExclusiveCreate' /\ ExclusiveMade'
  BY <1>1, <1>3 DEF CreateMkdir, SymlinkMake, Made, share, Good, TypeOK
<1>4. ASSUME NEW c \in Conns, CreateEa(c) PROVE ExclusiveCreate' /\ ExclusiveMade'
  BY <1>1, <1>4 DEF CreateEa, Good, TypeOK, ObjectType
<1>5. ASSUME NEW c \in Conns, RenameStore(c) PROVE ExclusiveCreate' /\ ExclusiveMade'
  BY <1>1, <1>5 DEF RenameStore, share, Good, TypeOK, FileType
<1>6. ASSUME NEW c \in Conns, NEW h \in Handles, SetInfo(c, h) \/ Write(c, h)
      PROVE ExclusiveCreate' /\ ExclusiveMade'
  <2>1. \A o \in Objects : obj'[o].kind = obj[o].kind
    <3> USE DEF Good, TypeOK, ObjectType, share
    <3>1. ASSUME NEW b \in BOOLEAN, SetDisposition(c, h, b) PROVE obj' = obj
      BY <3>1 DEF SetDisposition
    <3>2. CASE SetAttr(c, h) BY <3>2 DEF SetAttr
    <3>3. CASE SetEndOfFile(c, h)
      <4> DEFINE o == IF fsh[h].fd THEN fsh[h].obj ELSE names[fsh[h].path]
      <4>1. obj' = [obj EXCEPT ![o].data = "empty"]
        BY <3>3 DEF SetEndOfFile
      <4> HIDE DEF o
      <4> QED BY <4>1
    <3>4. ASSUME NEW v \in {"none", "data"}, SetStream(c, h, v)
          PROVE \A o \in Objects : obj'[o].kind = obj[o].kind
      BY <3>4 DEF SetStream
    <3>5. ASSUME NEW to \in Names, NEW replace \in BOOLEAN, RenameCheck(c, h, to, replace)
          PROVE obj' = obj
      BY <3>5 DEF RenameCheck
    <3>6. CASE WriteFile(c, h) BY <3>6 DEF WriteFile
    <3> QED BY <1>6, <3>1, <3>2, <3>3, <3>4, <3>5, <3>6, HandleWork
  <2> QED BY <1>6, <1>9, <2>1, HandleStep
<1>7. ASSUME NEW c \in Conns, NEW h \in Handles, Ioctl(c, h)
      PROVE ExclusiveCreate' /\ ExclusiveMade'
  BY <1>1, <1>7 DEF Ioctl, Symlink, DeleteReparse, share
<1>8. ASSUME UNCHANGED <<obj, fsh>> PROVE ExclusiveCreate' /\ ExclusiveMade'
  BY <1>1, <1>8
<1>12. ASSUME NEW c \in Conns, CreateStep(c) PROVE ExclusiveCreate' /\ ExclusiveMade'
  <2>1. CASE CreateMade(c) \/ CreateAfpInfo(c) \/ CreateAdd(c)
    BY <1>8, <2>1 DEF CreateMade, CreateAfpInfo, CreateAdd, share
  <2> QED BY <1>2, <1>3, <1>4, <1>10, <1>12, <2>1 DEF CreateStep
<1>13. ASSUME NEW c \in Conns, CloseDelete(c) \/ CloseFile(c)
       PROVE  ExclusiveCreate' /\ ExclusiveMade'
  BY <1>8, <1>13 DEF CloseDelete, CloseFile, share
<1>14. ASSUME NEW c \in Conns, NEW n \in Names, NEW a \in Forms, Create(c, n, a)
       PROVE  ExclusiveCreate' /\ ExclusiveMade'
  BY <1>8, <1>14 DEF Create, share
<1>15. ASSUME NEW c \in Conns, NEW h \in Handles, Close(c, h)
       PROVE  ExclusiveCreate' /\ ExclusiveMade'
  BY <1>8, <1>15 DEF Close, share
<1>16. CASE UNCHANGED vars
  BY <1>8, <1>16 DEF vars
<1> QED BY <1>3, <1>5, <1>6, <1>7, <1>11, <1>12, <1>13, <1>14, <1>15, <1>16
        DEF Next, CloseStep, RenameStep, Works

(* No two successful FILE_CREATE requests give handles on one file, however *)
(* many connections race.                                                   *)
THEOREM CreateIsExclusive == Spec => []ExclusiveCreate
<1>1. Init => ExclusiveCreate /\ ExclusiveMade
  BY DEF Init, ExclusiveCreate, ExclusiveMade, Unused
<1> QED BY <1>1, ExclusiveInductive, GoodHolds, PTL DEF Spec

-----------------------------------------------------------------------------
(* On a read-only share no request is under way that makes or moves names.  *)
NoMaking == readOnly.share =>
  \A c \in Conns : req[c].pc \notin
    {"mkdir", "made", "path", "remove", "from", "move", "store", "linkpath", "unplace", "link",
     "reparse", "unlink"}

(* What is read-only stays so. *)
LEMMA ReadOnlyFixed == [Next]_vars => readOnly' = readOnly
<1> SUFFICES ASSUME [Next]_vars PROVE readOnly' = readOnly
  OBVIOUS
<1>1. ASSUME NEW c \in Conns, CreateStep(c) PROVE readOnly' = readOnly
  BY <1>1 DEF CreateStep, CreateMkdir, CreateMade, CreateOpen, CreateAttr, CreateEa,
              CreateAfpInfo, CreateAdd
<1>2. ASSUME NEW c \in Conns,
             CloseStep(c) \/ RenameStep(c) \/ IoctlStep(c) \/ ReadPath(c)
      PROVE readOnly' = readOnly
  BY <1>2 DEF CloseStep, CloseTest, CloseLoad, CloseRemove, CloseDelete, CloseFile, RenameStep,
              RenameMove, RenameStore, ReadPath, IoctlStep, SymlinkPath, SymlinkRemove,
              SymlinkMake, ReparseRemove
<1>3. ASSUME NEW c \in Conns, NEW n \in Names, NEW a \in Forms, Create(c, n, a)
      PROVE readOnly' = readOnly
  BY <1>3 DEF Create
<1>4. ASSUME NEW c \in Conns, NEW h \in Handles,
             Close(c, h) \/ SetInfo(c, h) \/ Write(c, h) \/ Ioctl(c, h)
      PROVE readOnly' = readOnly
  BY <1>4, HandleWork DEF Close, SetDisposition, SetAttr, SetEndOfFile, SetStream, RenameCheck,
              WriteFile, Ioctl, Symlink, DeleteReparse
<1>5. CASE UNCHANGED vars
  BY <1>5 DEF vars
<1> QED BY <1>1, <1>2, <1>3, <1>4, <1>5 DEF Next

(* Every handler that makes or moves names tests the share first.            *)
LEMMA NoMakingInductive == Good /\ NoMaking /\ [Next]_vars => NoMaking'
<1> SUFFICES ASSUME Good, NoMaking, [Next]_vars, readOnly.share PROVE NoMaking'
  BY ReadOnlyFixed DEF NoMaking
<1> USE DEF Good, TypeOK, NoMaking, ReqType, Idle, Request
<1>1. ASSUME NEW c \in Conns, CreateStep(c) PROVE NoMaking'
  <2>1. CASE CreateMkdir(c) \/ CreateMade(c)
    BY <2>1 DEF CreateMkdir, CreateMade, Goto, Finish
  <2>2. CASE CreateOpen(c)
    <3>1. ASSUME NEW h \in Handles, NEW o, StoreHandle(c, h, o) PROVE NoMaking'
      BY <3>1 DEF StoreHandle
    <3>2. ASSUME Finish(c) PROVE NoMaking'
      BY <3>2 DEF Finish
    <3> HIDE DEF NoMaking
    <3> QED BY <2>2, <3>1, <3>2 DEF CreateOpen
  <2>3. CASE CreateAttr(c) \/ CreateEa(c) \/ CreateAfpInfo(c) \/ CreateAdd(c)
    <3>1. \/ Finish(c)
          \/ \E l \in {"ea", "add"} : Goto(c, l)
      BY <2>3 DEF CreateAttr, CreateEa, CreateAfpInfo, CreateAdd
    <3> QED BY <3>1 DEF Goto, Finish
  <2> QED BY <1>1, <2>1, <2>2, <2>3 DEF CreateStep
<1>2. ASSUME NEW c \in Conns, CloseStep(c) PROVE NoMaking'
  <2>1. \/ Finish(c)
        \/ \E l \in {"load", "delete", "close"} : Goto(c, l)
    BY <1>2 DEF CloseStep, CloseTest, CloseLoad, MayUnlink, CloseRemove, CloseDelete, CloseFile
  <2> QED BY <2>1 DEF Goto, Finish
<1>7. ASSUME NEW c \in Conns, RenameStep(c) \/ IoctlStep(c) \/ ReadPath(c) PROVE FALSE
  <2>1. req[c].pc \in {"path", "from", "move", "store", "linkpath", "unplace", "link", "reparse",
                       "unlink"}
    BY <1>7 DEF RenameStep, RenameMove, RenameStore, ReadPath, AfterPath, IoctlStep, SymlinkPath,
                SymlinkRemove, SymlinkMake, ReparseRemove
  <2> QED BY <2>1
<1>3. ASSUME NEW c \in Conns, NEW n \in Names, NEW a \in Forms, Create(c, n, a) PROVE NoMaking'
  BY <1>3 DEF Create, Refused, ReadOnlyContext, Start
<1>4. ASSUME NEW c \in Conns, NEW h \in Handles, SetInfo(c, h) \/ Write(c, h)
      PROVE NoMaking'
  <2>1. ~\E to \in Names, replace \in BOOLEAN : RenameCheck(c, h, to, replace)
    BY DEF RenameCheck, MaySetInfo, ReadOnlyContext
  <2>2. Start(c, Idle)
    <3> HIDE DEF Good
    <3> QED BY <1>4, <2>1, HandleStep
  <2> QED BY <2>2 DEF Start
<1>5. ASSUME NEW c \in Conns, NEW h \in Handles, Close(c, h) \/ Ioctl(c, h)
      PROVE NoMaking'
  <2>1. \E l \in {"test", "delete"} : Start(c, Request(l, h))
    BY <1>5 DEF Close, Ioctl, Symlink, DeleteReparse, MayUnlink
  <2> QED BY <2>1 DEF Start
<1>6. CASE UNCHANGED vars
  BY <1>6 DEF vars
<1> QED BY <1>1, <1>2, <1>3, <1>4, <1>5, <1>6, <1>7 DEF Next

(* A step on a read-only share changes no name, content or attribute.       *)
LEMMA ReadOnlyStep ==
  Good /\ NoMaking /\ readOnly.share /\ [Next]_vars => UNCHANGED <<names, Files>>
<1> SUFFICES ASSUME Good, NoMaking, readOnly.share, [Next]_vars
             PROVE UNCHANGED <<names, Files>>
  OBVIOUS
<1>1. ASSUME NEW o, NEW v, obj' \in {obj, [obj EXCEPT ![o].ea = v]}, UNCHANGED names
      PROVE UNCHANGED <<names, Files>>
  BY <1>1 DEF Files, Good, TypeOK, ObjectType
<1>2. ASSUME NEW c \in Conns, CreateStep(c) PROVE UNCHANGED <<names, Files>>
  <2>1. CASE CreateOpen(c)
    <3>1. names' = names /\ obj' = obj
      BY <2>1 DEF CreateOpen, OCreate, OTrunc, Plain, share
    <3> QED BY <1>1, <3>1
  <2>2. CASE CreateEa(c)
    <3>1. PICK o : o = names[fsh[req[c].h].path]
      OBVIOUS
    <3>2. names' = names /\ obj' \in {obj, [obj EXCEPT ![o].ea = "empty"]}
      BY <2>2, <3>1 DEF CreateEa
    <3> QED BY <1>1, <3>2
  <2>3. CASE \/ CreateMkdir(c) \/ CreateMade(c) \/ CreateAttr(c) \/ CreateAfpInfo(c)
             \/ CreateAdd(c)
    <3>1. names' = names /\ obj' = obj
      BY <2>3 DEF CreateMkdir, CreateMade, CreateAttr, CreateAfpInfo, CreateAdd, NoMaking, share
    <3> QED BY <1>1, <3>1
  <2> QED BY <1>2, <2>1, <2>2, <2>3 DEF CreateStep
<1>3. ASSUME NEW c \in Conns, CloseStep(c) \/ RenameStep(c) \/ IoctlStep(c) \/ ReadPath(c)
      PROVE UNCHANGED <<names, Files>>
  <2>1. names' = names /\ obj' = obj
    BY <1>3 DEF CloseStep, CloseTest, CloseLoad, CloseRemove, CloseDelete, CloseFile, RenameStep,
                RenameMove, RenameStore, ReadPath, IoctlStep, SymlinkPath, SymlinkRemove,
                SymlinkMake, ReparseRemove, NoMaking, share
  <2> QED BY <1>1, <2>1
<1>4. ASSUME NEW c \in Conns, NEW n \in Names, NEW a \in Forms, Create(c, n, a)
      PROVE UNCHANGED <<names, Files>>
  <2>1. names' = names /\ obj' = obj
    BY <1>4 DEF Create, share
  <2> QED BY <1>1, <2>1
<1>5. ASSUME NEW c \in Conns, NEW h \in Handles, NEW v \in {"none", "data"},
             SetStream(c, h, v)
      PROVE UNCHANGED <<names, Files>>
  <2> DEFINE o == names[fsh[h].path]
  <2>1. names' = names /\ obj' = [obj EXCEPT ![o].ea = v]
    BY <1>5 DEF SetStream
  <2> HIDE DEF o
  <2> QED BY <2>1 DEF Files, Good, TypeOK, ObjectType
<1>6. ASSUME NEW c \in Conns, NEW h \in Handles,
             Close(c, h) \/ SetInfo(c, h) \/ Write(c, h) \/ Ioctl(c, h)
      PROVE UNCHANGED <<names, Files>>
  <2>1. CASE \E v \in {"none", "data"} : SetStream(c, h, v)
    BY <1>5, <2>1
  <2>2. CASE ~\E v \in {"none", "data"} : SetStream(c, h, v)
    <3>1. names' = names /\ obj' = obj
      BY <1>6, <2>2, HandleWork
         DEF Close, WriteFile, Ioctl, Symlink, DeleteReparse, MayUnlink, SetDisposition,
             SetAttr, SetEndOfFile, RenameCheck, MaySetInfo, ReadOnlyContext, share
    <3> QED BY <1>1, <3>1
  <2> QED BY <2>1, <2>2
<1>7. CASE UNCHANGED vars
  <2>1. names' = names /\ obj' = obj
    BY <1>7 DEF vars
  <2> QED BY <1>1, <2>1
<1> QED BY <1>2, <1>3, <1>4, <1>6, <1>7 DEF Next

(* No request, and no order of requests, changes a read-only share.         *)
THEOREM ReadOnlyShare == Spec => ReadOnlyUnchanged
<1>1. Init => NoMaking
  <2> SUFFICES ASSUME Init, NEW c \in Conns PROVE req[c].pc = "idle"
    BY DEF NoMaking
  <2> QED BY DEF Init, Idle, Request
<1>2. Good /\ NoMaking /\ [Next]_vars => [readOnly.share => UNCHANGED <<names, Files>>]_vars
  BY ReadOnlyStep
<1> QED BY <1>1, <1>2, NoMakingInductive, GoodHolds, PTL DEF Spec, ReadOnlyUnchanged

-----------------------------------------------------------------------------
(* Until a rename has stored the new path of its handle, that path names the *)
(* handle's file and no other rename of the handle is in that state.         *)
Settling == \A h \in fsOpen \ moved : \A c \in Conns : Storing(c, h) =>
  names[req[c].name] = fsh[h].obj /\ \A d \in Conns : Storing(d, h) => d = c

Follow == PathsFollow /\ Settling

(* Steps that open no handle and rename none: the names they take away are   *)
(* noted in the history of the handles that go by them.                      *)
LEMMA FollowStep ==
  ASSUME Good, Follow, fsOpen' \subseteq fsOpen, moved \subseteq moved',
         \A h \in Handles : fsh'[h].path = fsh[h].path /\ fsh'[h].obj = fsh[h].obj,
         \A d \in Conns : \/ req'[d] = req[d]
                          \/ req[d].pc # "store" /\ req'[d].pc # "store",
         \A n \in Names : names'[n] = names[n] \/ names[n] = Nil \/ GoingBy({n}) \subseteq moved'
  PROVE  Follow'
<1>1. \A h, d : d \in Conns =>
        (Storing(d, h)' <=> Storing(d, h)) /\ (Storing(d, h) => req'[d].name = req[d].name)
  BY DEF Storing
<1>2. ASSUME NEW h \in fsOpen', h \notin moved'
      PROVE  /\ h \in fsOpen \ moved /\ h \in Handles
             /\ fsh[h].path \in Names /\ fsh[h].obj \in Objects /\ fsh[h].obj # Nil
             /\ \A d \in Conns : Storing(d, h) => req[d].name \in Names
  BY <1>2, NilAssumption DEF Good, TypeOK, Taken, Prepared, Storing
<1>3. ASSUME NEW h \in fsOpen', h \notin moved', NEW n \in Names, names[n] = fsh[h].obj,
             n = fsh[h].path \/ \E d \in Conns : Storing(d, h) /\ req[d].name = n
      PROVE  names'[n] = fsh[h].obj
  <2>1. h \in fsOpen /\ fsh[h].obj # Nil
    BY <1>2, <1>3
  <2>2. h \in GoingBy({n})
    BY <1>3, <2>1 DEF GoingBy
  <2> QED BY <1>3, <2>1, <2>2
<1>4. ASSUME NEW h \in fsOpen', h \notin moved'
      PROVE  \/ names'[fsh'[h].path] = fsh'[h].obj
             \/ \E c \in Conns : Storing(c, h)' /\ names'[req'[c].name] = fsh'[h].obj
  <2>1. \/ names[fsh[h].path] = fsh[h].obj
        \/ \E c \in Conns : Storing(c, h) /\ names[req[c].name] = fsh[h].obj
    BY <1>2, <1>4 DEF Follow, PathsFollow
  <2>2. CASE names[fsh[h].path] = fsh[h].obj
    BY <1>2, <1>3, <1>4, <2>2
  <2>3. ASSUME NEW c \in Conns, Storing(c, h), names[req[c].name] = fsh[h].obj
        PROVE  Storing(c, h)' /\ names'[req'[c].name] = fsh'[h].obj
    BY <1>1, <1>2, <1>3, <1>4, <2>3
  <2> QED BY <2>1, <2>2, <2>3
<1>5. ASSUME NEW h \in fsOpen', h \notin moved', NEW c \in Conns, Storing(c, h)'
      PROVE  /\ names'[req'[c].name] = fsh'[h].obj
             /\ \A d \in Conns : Storing(d, h)' => d = c
  <2>1. Storing(c, h) /\ req'[c].name = req[c].name
    BY <1>1, <1>5
  <2>2. names[req[c].name] = fsh[h].obj /\ \A d \in Conns : Storing(d, h) => d = c
    BY <1>2, <1>5, <2>1 DEF Follow, Settling
  <2> QED BY <1>1, <1>2, <1>3, <1>5, <2>1, <2>2
<1> QED BY <1>4, <1>5 DEF Follow, PathsFollow, Settling

(* open(2) gives a handle on what the name stands for.                       *)
LEMMA FollowOpen ==
  ASSUME Good, Follow, NEW c \in Conns, NEW h \in Handles, NEW o \in Objects,
         req[c].pc = "open", StoreHandle(c, h, o), moved' = moved,
         \A n \in Names : names'[n] = names[n] \/ names[n] = Nil, names'[req[c].name] = o
  PROVE  Follow'
<1>1. /\ fsh'[h].path = req[c].name /\ fsh'[h].obj = o
      /\ \A k \in Handles \ {h} : fsh'[k] = fsh[k]
  BY DEF StoreHandle, Good, TypeOK
<1>2. req'[c].pc # "store" /\ \A d \in Conns \ {c} : req'[d] = req[d]
  BY DEF StoreHandle, Good, TypeOK
<1>3. fsOpen' = fsOpen \cup {h}
  BY DEF StoreHandle
<1>4. \A d \in Conns : req[d].h # h
  BY NilAssumption DEF StoreHandle, Unused, Good, Taken
<1>5. \A d \in Conns, k \in Handles : /\ Storing(d, k)' <=> Storing(d, k)
                                      /\ Storing(d, k) => req'[d].name = req[d].name /\ k # h
  BY <1>2, <1>4 DEF Storing
<1>6. ASSUME NEW k \in fsOpen \ moved, k # h
      PROVE  /\ k \in Handles /\ fsh'[k] = fsh[k] /\ fsh[k].path \in Names
             /\ \A n \in Names : names[n] = fsh[k].obj => names'[n] = fsh[k].obj
             /\ \A d \in Conns : Storing(d, k) => req[d].name \in Names
  BY <1>1, <1>6, NilAssumption DEF Good, TypeOK, Taken, Prepared, Storing
<1>7. ASSUME NEW k \in fsOpen' \ moved'
      PROVE  \/ names'[fsh'[k].path] = fsh'[k].obj
             \/ \E d \in Conns : Storing(d, k)' /\ names'[req'[d].name] = fsh'[k].obj
  <2>1. CASE k = h
    BY <1>1, <2>1
  <2>2. CASE k # h
    <3>1. k \in fsOpen \ moved
      BY <1>3, <1>7, <2>2
    <3>2. CASE names[fsh[k].path] = fsh[k].obj
      BY <1>6, <2>2, <3>1, <3>2
    <3>3. ASSUME NEW d \in Conns, Storing(d, k), names[req[d].name] = fsh[k].obj
          PROVE  Storing(d, k)' /\ names'[req'[d].name] = fsh'[k].obj
      BY <1>5, <1>6, <2>2, <3>1, <3>3
    <3> QED BY <3>1, <3>2, <3>3 DEF Follow, PathsFollow
  <2> QED BY <2>1, <2>2
<1>8. ASSUME NEW k \in fsOpen' \ moved', NEW d \in Conns, Storing(d, k)'
      PROVE  /\ names'[req'[d].name] = fsh'[k].obj
             /\ \A e \in Conns : Storing(e, k)' => e = d
  <2>1. k \in Handles
    BY <1>3, <1>8 DEF Good, TypeOK
  <2>2. k # h /\ Storing(d, k) /\ req'[d].name = req[d].name
    BY <1>5, <1>8, <2>1
  <2>3. k \in fsOpen \ moved
    BY <1>3, <1>8, <2>2
  <2>4. names[req[d].name] = fsh[k].obj /\ \A e \in Conns : Storing(e, k) => e = d
    BY <2>2, <2>3 DEF Follow, Settling
  <2> QED BY <1>5, <1>6, <2>1, <2>2, <2>3, <2>4
<1> QED BY <1>7, <1>8 DEF Follow, PathsFollow, Settling

(* os.Rename takes the handle's file to the new name.                        *)
LEMMA FollowMove ==
  ASSUME Good, Follow, NEW c \in Conns, RenameMove(c)
  PROVE  Follow'
<1>1. PICK h \in Handles : h = req[c].h
  BY DEF RenameMove, Good, Prepared
<1>2. PICK n \in Names, to \in Names : n = req[c].path /\ to = req[c].name
  BY <1>1 DEF RenameMove, Good, Prepared
<1>3. fsOpen' = fsOpen /\ fsh' = fsh /\ req[c].pc = "move"
  BY DEF RenameMove
<1>4. CASE ~MayMove(n, to)
  <2>1. Finish(c) /\ names' = names /\ moved' = moved
    BY <1>1, <1>2, <1>4 DEF RenameMove
  <2>2. req'[c].pc # "store" /\ \A d \in Conns \ {c} : req'[d] = req[d]
    BY <2>1 DEF Finish, Idle, Request, Good, TypeOK
  <2> QED BY <1>3, <2>1, <2>2, FollowStep
<1>5. CASE MayMove(n, to)
  <2>1. /\ names' = IF n = to THEN names ELSE [names EXCEPT ![n] = Nil, ![to] = names[n]]
        /\ moved' = moved \cup (IF n = to THEN {} ELSE GoingBy({n, to}) \ {h})
                          \cup {k \in {h} : fsh[h].obj # names[n] \/ fsh[h].path # n
                                             \/ \E d \in Conns : Storing(d, h)}
        /\ Goto(c, "store")
    BY <1>1, <1>2, <1>5 DEF RenameMove
  <2>2. /\ req'[c].pc = "store" /\ req'[c].h = h /\ req'[c].name = to
        /\ \A d \in Conns \ {c} : req'[d] = req[d]
    BY <1>1, <1>2, <2>1 DEF Goto, Good, TypeOK, ReqType
  <2>3. /\ names'[to] = names[n] /\ \A m \in Names \ {n, to} : names'[m] = names[m]
        /\ n = to => names' = names
    BY <2>1 DEF Good, TypeOK
  <2>4. ASSUME h \notin moved'
        PROVE  h \notin moved /\ fsh[h].obj = names[n] /\ \A d \in Conns : ~Storing(d, h)
    BY <2>1, <2>4
  <2>5. ASSUME NEW k \in fsOpen \ moved', k # h, n # to
        PROVE  k \notin GoingBy({n, to})
    BY <2>1, <2>5
  <2>6. ~Storing(c, h) /\ \A k : Storing(c, k)' <=> k = h
    BY <1>3, <2>2 DEF Storing
  <2>7. \A d \in Conns \ {c} : \A k :
          /\ Storing(d, k)' <=> Storing(d, k)
          /\ Storing(d, k) => req'[d].name = req[d].name /\ req[d].name \in Names
    BY <2>2 DEF Storing, Good, Prepared
  <2>8. ASSUME NEW k \in fsOpen \ moved', k # h
        PROVE  /\ k \in fsOpen \ moved /\ fsh[k].path \in Names
               /\ names'[fsh[k].path] = names[fsh[k].path]
               /\ \A d \in Conns : Storing(d, k) => names'[req[d].name] = names[req[d].name]
    <3>1. k \in fsOpen \ moved /\ fsh[k].path \in Names
      BY <2>1, <2>8 DEF Good, Taken
    <3>2. \A d \in Conns : Storing(d, k) => req[d].name \in Names
      BY DEF Storing, Good, Prepared
    <3>3. CASE n = to
      BY <2>3, <3>1, <3>3
    <3>4. CASE n # to
      <4>1. fsh[k].path \notin {n, to}
              /\ \A d \in Conns : Storing(d, k) => req[d].name \notin {n, to}
        BY <2>5, <2>8, <3>1, <3>4 DEF GoingBy
      <4> QED BY <2>3, <3>1, <3>2, <4>1
    <3> QED BY <3>3, <3>4
  <2>9. ASSUME NEW k \in fsOpen \ moved'
        PROVE  \/ names'[fsh[k].path] = fsh[k].obj
               \/ \E d \in Conns : Storing(d, k)' /\ names'[req'[d].name] = fsh[k].obj
    <3>1. CASE k = h
      BY <2>2, <2>3, <2>4, <2>6, <2>9, <3>1
    <3>2. CASE k # h
      <4>1. CASE names[fsh[k].path] = fsh[k].obj
        BY <2>8, <2>9, <3>2, <4>1
      <4>2. ASSUME NEW d \in Conns, Storing(d, k), names[req[d].name] = fsh[k].obj
            PROVE  Storing(d, k)' /\ names'[req'[d].name] = fsh[k].obj
        <5>1. d # c
          BY <1>3, <4>2 DEF Storing
        <5> QED BY <2>7, <2>8, <2>9, <3>2, <4>2, <5>1
      <4> QED BY <2>8, <2>9, <3>2, <4>1, <4>2 DEF Follow, PathsFollow
    <3> QED BY <3>1, <3>2
  <2>10. ASSUME NEW k \in fsOpen \ moved', NEW d \in Conns, Storing(d, k)'
         PROVE  names'[req'[d].name] = fsh[k].obj /\ \A e \in Conns : Storing(e, k)' => e = d
    <3>1. CASE k = h
      <4>1. d = c /\ \A e \in Conns : Storing(e, k)' => e = c
        BY <2>4, <2>7, <2>10, <3>1
      <4> QED BY <2>2, <2>3, <2>4, <2>10, <3>1, <4>1
    <3>2. CASE k # h
      <4>1. d # c /\ Storing(d, k) /\ req'[d].name = req[d].name
        BY <2>6, <2>7, <2>10, <3>2
      <4>2. names[req[d].name] = fsh[k].obj /\ \A e \in Conns : Storing(e, k) => e = d
        BY <2>8, <2>10, <3>2, <4>1 DEF Follow, Settling
      <4>3. \A e \in Conns : Storing(e, k)' => Storing(e, k)
        BY <2>6, <2>7, <3>2
      <4> QED BY <2>8, <2>10, <3>2, <4>1, <4>2, <4>3
    <3> QED BY <3>1, <3>2
  <2> QED BY <1>3, <2>9, <2>10 DEF Follow, PathsFollow, Settling
<1> QED BY <1>4, <1>5

(* The new path is stored: it is the handle's file that has it.              *)
LEMMA FollowStore ==
  ASSUME Good, Follow, NEW c \in Conns, RenameStore(c)
  PROVE  Follow'
<1>1. PICK h \in Handles : h = req[c].h
  BY DEF RenameStore, Good, Prepared
<1>2. /\ fsOpen' = fsOpen /\ names' = names /\ moved' = moved /\ req[c].pc = "store"
      /\ fsh' = [fsh EXCEPT ![h].path = req[c].name]
  BY <1>1 DEF RenameStore, share
<1>3. /\ fsh'[h].path = req[c].name /\ \A k \in Handles : fsh'[k].obj = fsh[k].obj
      /\ \A k \in Handles \ {h} : fsh'[k].path = fsh[k].path
  BY <1>2 DEF Good, TypeOK, FileType
<1>4. req'[c].pc # "store" /\ \A d \in Conns \ {c} : req'[d] = req[d]
  BY DEF RenameStore, Finish, Idle, Request, Good, TypeOK
<1>5. Storing(c, h) /\ (\A k : k # h => ~Storing(c, k)) /\ \A k : ~Storing(c, k)'
  BY <1>1, <1>2, <1>4 DEF Storing
<1>6. \A d \in Conns \ {c} : \A k :
        /\ Storing(d, k)' <=> Storing(d, k)
        /\ Storing(d, k) => req'[d].name = req[d].name
  BY <1>4 DEF Storing
<1>7. ASSUME NEW k \in fsOpen \ moved
      PROVE  \/ names[fsh'[k].path] = fsh'[k].obj
             \/ \E d \in Conns : Storing(d, k)' /\ names[req'[d].name] = fsh'[k].obj
  <2>1. k \in Handles
    BY <1>7 DEF Good, TypeOK
  <2>2. CASE k = h
    <3>1. names[req[c].name] = fsh[h].obj
      BY <1>5, <1>7, <2>2 DEF Follow, Settling
    <3> QED BY <1>3, <2>1, <2>2, <3>1
  <2>3. CASE k # h
    BY <1>3, <1>5, <1>6, <1>7, <2>1, <2>3 DEF Follow, PathsFollow
  <2> QED BY <2>2, <2>3
<1>8. ASSUME NEW k \in fsOpen \ moved, NEW d \in Conns, Storing(d, k)'
      PROVE  names[req'[d].name] = fsh'[k].obj /\ \A e \in Conns : Storing(e, k)' => e = d
  <2>1. k \in Handles
    BY <1>8 DEF Good, TypeOK
  <2>2. d # c /\ Storing(d, k) /\ req'[d].name = req[d].name
    BY <1>5, <1>6, <1>8
  <2>3. names[req[d].name] = fsh[k].obj /\ \A e \in Conns : Storing(e, k) => e = d
    BY <1>8, <2>2 DEF Follow, Settling
  <2>4. \A e \in Conns : Storing(e, k)' => Storing(e, k)
    BY <1>5, <1>6
  <2> QED BY <1>3, <2>1, <2>2, <2>3, <2>4
<1> QED BY <1>2, <1>7, <1>8 DEF Follow, PathsFollow, Settling

(* Every step.                                                               *)
LEMMA FollowInductive == Good /\ Follow /\ [Next]_vars => Follow'
<1> SUFFICES ASSUME Good, Follow, [Next]_vars PROVE Follow'
  OBVIOUS
<1>1. ASSUME NEW c \in Conns, NEW l, l # "store", req[c].pc # "store",
             req'[c].pc = l, \A d \in Conns \ {c} : req'[d] = req[d],
             fsOpen' \subseteq fsOpen, moved \subseteq moved', SameFiles,
             \A n \in Names : names'[n] = names[n] \/ names[n] = Nil
                              \/ GoingBy({n}) \subseteq moved'
      PROVE  Follow'
  <2>1. \A d \in Conns : req'[d] = req[d] \/ (req[d].pc # "store" /\ req'[d].pc # "store")
    BY <1>1
  <2> QED BY <1>1, <2>1, FollowStep DEF SameFiles
<1> USE DEF Good, TypeOK, ReqType, Request, Idle, share, SameFiles
<1>2. ASSUME NEW c \in Conns, CreateStep(c) PROVE Follow'
  <2>1. CASE CreateOpen(c)
    <3>1. PICK n \in Names : n = req[c].name /\ req[c].pc = "open"
      BY <2>1 DEF CreateOpen, Prepared
    <3>2. ASSUME names[n] = Nil, NEW o \in Objects, NEW h \in Handles,
                 names' = [names EXCEPT ![n] = o], StoreHandle(c, h, o)
          PROVE  Follow'
      BY <2>1, <3>1, <3>2, FollowOpen DEF CreateOpen
    <3>3. ASSUME names[n] # Nil, names' = names, NEW h \in Handles, StoreHandle(c, h, names[n])
          PROVE  Follow'
      <4>1. PICK o \in Objects : o = names[n]
        BY <3>3
      <4> QED BY <2>1, <3>1, <3>3, <4>1, FollowOpen DEF CreateOpen
    <3>4. CASE Finish(c) /\ UNCHANGED <<share, fsh, fsOpen>>
      <4>1. req'[c].pc = "idle" /\ \A d \in Conns \ {c} : req'[d] = req[d]
        BY <3>4 DEF Finish
      <4> QED BY <1>1, <2>1, <3>1, <3>4, <4>1 DEF CreateOpen
    <3> QED BY <2>1, <3>1, <3>2, <3>3, <3>4 DEF CreateOpen
  <2>2. CASE CreateMkdir(c) \/ CreateMade(c) \/ CreateEa(c) \/ CreateAfpInfo(c) \/ CreateAdd(c)
    <3>1. /\ fsh' = fsh /\ moved' = moved /\ fsOpen' \subseteq fsOpen
          /\ req[c].pc # "store" /\ \A n \in Names : names'[n] = names[n] \/ names[n] = Nil
      BY <2>2 DEF CreateMkdir, CreateMade, CreateEa, CreateAfpInfo, CreateAdd
    <3>2. req'[c].pc # "store" /\ \A d \in Conns \ {c} : req'[d] = req[d]
      <4>1. CASE CreateMkdir(c) BY <4>1 DEF CreateMkdir, Goto, Finish
      <4>2. CASE CreateMade(c) BY <4>2 DEF CreateMade, Finish
      <4>3. CASE CreateEa(c) \/ CreateAfpInfo(c) \/ CreateAdd(c)
        BY <4>3 DEF CreateEa, CreateAfpInfo, CreateAdd, Goto, Finish
      <4> QED BY <2>2, <4>1, <4>2, <4>3
    <3> QED BY <1>1, <3>1, <3>2
  <2>3. CASE CreateAttr(c)
    <3>1. /\ UNCHANGED <<names, fsOpen, moved>> /\ req[c].pc = "attr" /\ req[c].h \in Handles
          /\ fsh' = fsh \/ fsh' = [fsh EXCEPT ![req[c].h].leaked = TRUE]
      BY <2>3 DEF CreateAttr, Prepared
    <3>2. SameFiles
      BY <3>1, FlagUpdate
    <3>3. req'[c].pc # "store" /\ \A d \in Conns \ {c} : req'[d] = req[d]
      BY <2>3 DEF CreateAttr, Goto, Finish
    <3> QED BY <1>1, <3>1, <3>2, <3>3
  <2> QED BY <1>2, <2>1, <2>2, <2>3 DEF CreateStep
<1>3. ASSUME NEW n, Remove(n)
      PROVE  /\ moved \subseteq moved'
             /\ \A k \in Names : names'[k] = names[k] \/ GoingBy({k}) \subseteq moved'
  BY <1>3 DEF Remove
<1>4. ASSUME NEW c \in Conns, Works(c), ~RenameMove(c) PROVE Follow'
  <2>1. /\ req[c].pc # "store" /\ \A d \in Conns \ {c} : req'[d] = req[d]
        /\ fsOpen' = fsOpen /\ SameFiles
    BY <1>4, WorkStep DEF Quiet
  <2>2. req'[c].pc # "store"
    <3>1. CASE CloseTest(c) \/ CloseLoad(c) \/ CloseRemove(c) \/ SymlinkRemove(c)
      BY <3>1 DEF CloseTest, CloseLoad, CloseRemove, SymlinkRemove, Goto
    <3>2. CASE ReadPath(c)
      BY <3>2 DEF ReadPath, AfterPath
    <3>3. CASE SymlinkPath(c) \/ SymlinkMake(c) \/ ReparseRemove(c)
      BY <3>3 DEF SymlinkPath, SymlinkMake, ReparseRemove, Finish
    <3> QED BY <1>4, <3>1, <3>2, <3>3 DEF Works, IoctlStep
  <2>3. /\ moved \subseteq moved'
        /\ \A n \in Names : names'[n] = names[n] \/ names[n] = Nil \/ GoingBy({n}) \subseteq moved'
    <3>1. CASE CloseRemove(c) \/ SymlinkRemove(c) \/ ReparseRemove(c)
      BY <1>3, <3>1 DEF CloseRemove, SymlinkRemove, ReparseRemove
    <3>2. CASE CloseTest(c) \/ CloseLoad(c) \/ ReadPath(c) \/ SymlinkPath(c)
      BY <3>2 DEF CloseTest, CloseLoad, ReadPath, SymlinkPath
    <3>3. CASE SymlinkMake(c)
      BY <3>3 DEF SymlinkMake
    <3> QED BY <1>4, <3>1, <3>2, <3>3 DEF Works, IoctlStep
  <2> QED BY <1>1, <2>1, <2>2, <2>3
<1>9. ASSUME NEW c \in Conns, CloseDelete(c) \/ CloseFile(c) PROVE Follow'
  <2>1. /\ fsh' = fsh /\ moved' = moved /\ fsOpen' \subseteq fsOpen /\ names' = names
        /\ req[c].pc # "store"
    BY <1>9 DEF CloseDelete, CloseFile
  <2>2. req'[c].pc # "store" /\ \A d \in Conns \ {c} : req'[d] = req[d]
    BY <1>9 DEF CloseDelete, CloseFile, Goto, Finish
  <2> QED BY <1>1, <2>1, <2>2
<1>5. ASSUME NEW c \in Conns, NEW n \in Names, NEW a \in Forms, Create(c, n, a) PROVE Follow'
  <2>1. names' = names /\ fsh' = fsh /\ fsOpen' = fsOpen /\ moved' = moved
    BY <1>5 DEF Create
  <2>2. req[c].pc # "store" /\ req'[c].pc # "store" /\ \A d \in Conns \ {c} : req'[d] = req[d]
    BY <1>5 DEF Create, Start
  <2> QED BY <1>1, <2>1, <2>2
<1>6. ASSUME NEW c \in Conns, NEW h \in Handles, SetInfo(c, h) \/ Write(c, h) PROVE Follow'
  <2>1. /\ UNCHANGED <<names, fsOpen, moved>> /\ SameFiles
        /\ \/ Start(c, Idle)
           \/ \E to \in Names, replace \in BOOLEAN : RenameCheck(c, h, to, replace)
    <3> HIDE DEF Good, SameFiles
    <3> QED BY <1>6, HandleStep
  <2>2. req[c].pc # "store" /\ req'[c].pc # "store" /\ \A d \in Conns \ {c} : req'[d] = req[d]
    BY <2>1 DEF RenameCheck, Start
  <2> QED BY <1>1, <2>1, <2>2
<1>7. ASSUME NEW c \in Conns, NEW h \in Handles, Close(c, h) \/ Ioctl(c, h) PROVE Follow'
  <2>1. /\ UNCHANGED <<names, fsh, fsOpen, moved>>
        /\ \E l \in {"test", "delete", "linkpath", "reparse"} : Start(c, Request(l, h))
    BY <1>7 DEF Close, Ioctl, Symlink, DeleteReparse
  <2>2. req[c].pc # "store" /\ req'[c].pc # "store" /\ \A d \in Conns \ {c} : req'[d] = req[d]
    BY <2>1 DEF Start
  <2> QED BY <1>1, <2>1, <2>2
<1>8. CASE UNCHANGED vars
  <2>1. names' = names /\ fsh' = fsh /\ fsOpen' = fsOpen /\ moved' = moved /\ req' = req
    BY <1>8 DEF vars
  <2> QED BY <2>1, FollowStep
<1>10. Next => Follow'
  <2> HIDE DEF Good, TypeOK, Follow, SameFiles, share
  <2> QED BY <1>2, <1>4, <1>5, <1>6, <1>7, <1>9, FollowMove, FollowStore
          DEF Next, CloseStep, RenameStep, Works
<1> QED BY <1>8, <1>10

(* The invariant of the paths of open handles.                               *)
LEMMA FollowHolds == Spec => []Follow
<1>1. Init => Follow
  BY DEF Init, Follow, PathsFollow, Settling
<1> QED BY <1>1, FollowInductive, GoodHolds, PTL DEF Spec

(* The path stored with a handle names the file it was opened on, through    *)
(* renames made with it, until another request takes that name: what CLOSE   *)
(* deletes and SET_INFO changes by path is the handle's file.                *)
THEOREM PathsAlwaysFollow == Spec => []PathsFollow
<1>1. Follow => PathsFollow
  BY DEF Follow
<1> QED BY <1>1, FollowHolds, PTL

-----------------------------------------------------------------------------
(* A rename under way may replace its target or saw none.                    *)
MayReplace == \A c \in Conns :
  req[c].pc \in {"from", "move"} => req[c].form.flag \/ req[c].saw = "none"

(* Only the check at the start of a rename leads to it.                      *)
LEMMA MayReplaceInductive == Good /\ MayReplace /\ [Next]_vars => MayReplace'
<1> SUFFICES ASSUME Good, MayReplace, [Next]_vars PROVE MayReplace'
  OBVIOUS
<1>1. ASSUME NEW c \in Conns, req'[c].pc \notin {"from", "move"},
             \A d \in Conns \ {c} : req'[d] = req[d]
      PROVE  MayReplace'
  BY <1>1 DEF MayReplace
<1> USE DEF Good, TypeOK, ReqType, Request, Idle
<1>2. ASSUME NEW c \in Conns, CreateStep(c) PROVE MayReplace'
  <2>1. CASE CreateOpen(c)
    <3>1. ASSUME NEW h \in Handles, NEW o, StoreHandle(c, h, o) PROVE MayReplace'
      <4>1. req'[c].pc = "attr" /\ \A d \in Conns \ {c} : req'[d] = req[d]
        BY <3>1 DEF StoreHandle
      <4> QED BY <1>1, <4>1
    <3>2. ASSUME Finish(c) PROVE MayReplace'
      BY <1>1, <3>2 DEF Finish
    <3> QED BY <2>1, <3>1, <3>2 DEF CreateOpen
  <2>2. CASE CreateMkdir(c) BY <1>1, <2>2 DEF CreateMkdir, Goto, Finish
  <2>3. CASE CreateMade(c) BY <1>1, <2>3 DEF CreateMade, Finish
  <2>4. CASE CreateAttr(c) \/ CreateEa(c) \/ CreateAfpInfo(c) \/ CreateAdd(c)
    <3>1. \/ Finish(c)
          \/ \E l \in {"ea", "add"} : Goto(c, l)
      BY <2>4 DEF CreateAttr, CreateEa, CreateAfpInfo, CreateAdd
    <3> QED BY <1>1, <3>1 DEF Goto, Finish
  <2> QED BY <1>2, <2>1, <2>2, <2>3, <2>4 DEF CreateStep
<1>3. ASSUME NEW c \in Conns,
             CloseStep(c) \/ RenameStep(c) \/ IoctlStep(c) \/ (ReadPath(c) /\ req[c].pc # "from")
      PROVE  MayReplace'
  <2>1. req'[c].pc \notin {"from", "move"} /\ \A d \in Conns \ {c} : req'[d] = req[d]
    <3>1. CASE CloseStep(c) \/ RenameStep(c) \/ SymlinkRemove(c) \/ SymlinkMake(c)
               \/ ReparseRemove(c)
      <4>1. \/ Finish(c)
            \/ \E l \in {"load", "path", "delete", "close", "store", "link"} : Goto(c, l)
        BY <3>1 DEF CloseStep, CloseTest, CloseLoad, CloseRemove, CloseDelete, CloseFile,
                    RenameStep, RenameMove, RenameStore, SymlinkRemove, SymlinkMake, ReparseRemove
      <4> QED BY <4>1 DEF Goto, Finish
    <3>2. CASE ReadPath(c) /\ req[c].pc # "from"
      BY <3>2 DEF ReadPath, AfterPath
    <3>3. CASE SymlinkPath(c)
      BY <3>3 DEF SymlinkPath
    <3> QED BY <1>3, <3>1, <3>2, <3>3 DEF IoctlStep
  <2> QED BY <1>1, <2>1
<1>8. ASSUME NEW c \in Conns, ReadPath(c), req[c].pc = "from" PROVE MayReplace'
  <2>1. /\ req'[c].form = req[c].form /\ req'[c].saw = req[c].saw
        /\ \A d \in Conns \ {c} : req'[d] = req[d]
    BY <1>8 DEF ReadPath
  <2> QED BY <1>8, <2>1 DEF MayReplace
<1>4. ASSUME NEW c \in Conns, NEW n \in Names, NEW a \in Forms, Create(c, n, a) PROVE MayReplace'
  BY <1>1, <1>4 DEF Create, Start
<1>5. ASSUME NEW c \in Conns, NEW h \in Handles, SetInfo(c, h) \/ Write(c, h) PROVE MayReplace'
  <2>1. ASSUME NEW to \in Names, NEW replace \in BOOLEAN, RenameCheck(c, h, to, replace)
        PROVE  MayReplace'
    <3> DEFINE f == [NoForm EXCEPT !.flag = replace]
    <3>1. f.flag = replace
      BY DEF NoForm
    <3>2. replace \/ KindAt(to) = "none"
      BY <2>1 DEF RenameCheck, KindAt
    <3> HIDE DEF f
    <3>3. /\ req'[c].form = f /\ req'[c].saw = KindAt(to)
          /\ \A d \in Conns \ {c} : req'[d] = req[d]
      BY <2>1 DEF RenameCheck, Start, f
    <3> QED BY <3>1, <3>2, <3>3 DEF MayReplace
  <2>2. ASSUME Start(c, Idle) PROVE MayReplace'
    BY <1>1, <2>2 DEF Start
  <2> HIDE DEF Good, TypeOK, ReqType, Request, Idle
  <2> QED BY <1>5, <2>1, <2>2, HandleStep
<1>6. ASSUME NEW c \in Conns, NEW h \in Handles, Close(c, h) \/ Ioctl(c, h) PROVE MayReplace'
  <2>1. \E l \in {"test", "delete", "linkpath", "reparse"} : Start(c, Request(l, h))
    BY <1>6 DEF Close, Ioctl, Symlink, DeleteReparse
  <2> QED BY <1>1, <2>1 DEF Start
<1>7. CASE UNCHANGED vars
  BY <1>7 DEF vars, MayReplace
<1> QED BY <1>2, <1>3, <1>4, <1>5, <1>6, <1>7, <1>8 DEF Next

(* A CLOSE on its way to remove a file has seen the mark, which stands       *)
(* unless somebody withdrew it meanwhile.                                    *)
Mark(k) == deleteAfterClose[k] \/ fsh[k].late
StillMarked(k) == deleteAfterClose'[k] \/ fsh'[k].late
Removing == {"load", "path", "remove"}
Marked == \A c \in Conns : req[c].pc \in Removing => Mark(req[c].h)

(* Only CREATE and SET_INFO set the mark, and a handle CREATE gives out is   *)
(* in no CLOSE.                                                              *)
LEMMA MarkedInductive == Good /\ Private /\ Marked /\ [Next]_vars => Marked'
<1> SUFFICES ASSUME Good, Private, Marked, [Next]_vars PROVE Marked'
  OBVIOUS
<1>1. ASSUME NEW c \in Conns, \A d \in Conns \ {c} : req'[d] = req[d],
             \A d \in Conns \ {c} : req[d].pc \in Removing /\ Mark(req[d].h) => StillMarked(req[d].h),
             req'[c].pc \in Removing => StillMarked(req'[c].h)
      PROVE  Marked'
  <2>1. ASSUME NEW d \in Conns, req'[d].pc \in Removing PROVE StillMarked(req'[d].h)
    <3>1. CASE d = c
      BY <1>1, <2>1, <3>1
    <3>2. CASE d # c
      <4>1. req'[d] = req[d]
        BY <1>1, <3>2
      <4>2. req[d].pc \in Removing /\ Mark(req[d].h)
        BY <2>1, <4>1 DEF Marked
      <4>3. StillMarked(req[d].h)
        BY <1>1, <3>2, <4>2
      <4> QED BY <4>1, <4>3
    <3> QED BY <3>1, <3>2
  <2> QED BY <2>1 DEF Marked, Mark, StillMarked
<1>2. \A d \in Conns : req[d].pc \in Removing => req[d].h \in Handles
  BY DEF Good, Prepared, Removing
<1>3. ASSUME NEW c \in Conns, \A d \in Conns \ {c} : req'[d] = req[d],
             UNCHANGED deleteAfterClose, \A k \in Handles : fsh'[k].late = fsh[k].late,
             req'[c].pc \notin Removing
      PROVE  Marked'
  <2>1. \A d \in Conns \ {c} : req[d].pc \in Removing /\ Mark(req[d].h) => StillMarked(req[d].h)
    BY <1>2, <1>3 DEF Mark, StillMarked
  <2> QED BY <1>1, <1>3, <2>1
<1>4. ASSUME NEW c \in Conns, CreateStep(c) PROVE Marked'
  <2> USE DEF Good, TypeOK, ReqType, Idle, Request
  <2>1. CASE CreateOpen(c)
    <3>1. ASSUME NEW h \in Handles, NEW o, StoreHandle(c, h, o), UNCHANGED deleteAfterClose
          PROVE  Marked'
      <4>1. \A d \in Conns : req[d].h # h
        BY <3>1, NilAssumption DEF StoreHandle, Unused, Taken
      <4>2. \A k \in Handles \ {h} : fsh'[k] = fsh[k]
        BY <3>1 DEF StoreHandle
      <4>3. req'[c].pc = "attr" /\ \A d \in Conns \ {c} : req'[d] = req[d]
        BY <3>1 DEF StoreHandle
      <4>4. \A d \in Conns \ {c} : req[d].pc \in Removing /\ Mark(req[d].h) => StillMarked(req[d].h)
        BY <1>2, <3>1, <4>1, <4>2 DEF Mark, StillMarked
      <4>5. req'[c].pc \notin Removing
        BY <4>3 DEF Removing
      <4> QED BY <1>1, <4>3, <4>4, <4>5
    <3>2. CASE Finish(c) /\ UNCHANGED <<fsh, deleteAfterClose>>
      BY <1>3, <3>2 DEF Finish, Removing
    <3> QED BY <2>1, <3>1, <3>2 DEF CreateOpen
  <2>2. CASE CreateMkdir(c) \/ CreateMade(c) \/ CreateEa(c) \/ CreateAfpInfo(c)
    <3>1. UNCHANGED <<fsh, deleteAfterClose>>
      BY <2>2 DEF CreateMkdir, CreateMade, CreateEa, CreateAfpInfo
    <3>2. req'[c].pc \notin Removing /\ \A d \in Conns \ {c} : req'[d] = req[d]
      <4>1. CASE CreateMade(c)
        BY <4>1 DEF CreateMade, Finish, Removing
      <4>2. CASE ~CreateMade(c)
        <5>1. \/ Finish(c)
              \/ \E l \in {"made", "add"} : Goto(c, l)
          BY <2>2, <4>2 DEF CreateMkdir, CreateEa, CreateAfpInfo
        <5> QED BY <5>1 DEF Goto, Finish, Removing
      <4> QED BY <4>1, <4>2
    <3> QED BY <1>3, <3>1, <3>2
  <2>3. CASE CreateAttr(c)
    <3>1. UNCHANGED deleteAfterClose /\ \A k \in Handles : fsh'[k].late = fsh[k].late
      BY <2>3 DEF CreateAttr, FileType
    <3>2. req'[c].pc \notin Removing /\ \A d \in Conns \ {c} : req'[d] = req[d]
      BY <2>3 DEF CreateAttr, Goto, Finish, Removing
    <3> QED BY <1>3, <3>1, <3>2
  <2>4. CASE CreateAdd(c)
    <3>1. \A d \in Conns \ {c} : req[d].h # req[c].h
      BY <2>4 DEF CreateAdd, Private, Opening
    <3>2. fsh' = fsh /\ \A k \in Handles \ {req[c].h} : deleteAfterClose'[k] = deleteAfterClose[k]
      BY <2>4 DEF CreateAdd
    <3>3. req'[c].pc \notin Removing /\ \A d \in Conns \ {c} : req'[d] = req[d]
      BY <2>4 DEF CreateAdd, Finish, Removing
    <3>4. \A d \in Conns \ {c} : req[d].pc \in Removing /\ Mark(req[d].h) => StillMarked(req[d].h)
      BY <1>2, <3>1, <3>2 DEF Mark, StillMarked
    <3> QED BY <1>1, <3>3, <3>4
  <2> QED BY <1>4, <2>1, <2>2, <2>3, <2>4 DEF CreateStep
<1>5. ASSUME NEW c \in Conns, Works(c) PROVE Marked'
  <2>1. Quiet(c)
    BY <1>5, WorkStep
  <2>2. \A d \in Conns \ {c} : req[d].pc \in Removing /\ Mark(req[d].h) => StillMarked(req[d].h)
    BY <1>2, <2>1 DEF Quiet, Mark, StillMarked
  <2>3. ASSUME req'[c].pc \in Removing PROVE StillMarked(req'[c].h)
    <3>1. req'[c].h = req[c].h /\ req[c].h \in Handles
      <4>1. req[c].pc \notin {"idle", "mkdir", "made", "open"}
        BY <2>1 DEF Quiet
      <4> QED BY <2>1, <2>3, <4>1 DEF Quiet, Removing, Good, Prepared
    <3>2. Mark(req[c].h)
      <4>1. CASE CloseTest(c)
        <5>1. deleteAfterClose[req[c].h]
          BY <2>3, <4>1 DEF CloseTest, Goto, Removing, Good, TypeOK, ReqType
        <5> QED BY <5>1 DEF Mark, StillMarked
      <4>2. CASE CloseLoad(c)
        BY <4>2 DEF CloseLoad, Marked, Removing
      <4>3. CASE ReadPath(c)
        <5>1. req[c].pc = "path"
          BY <2>3, <4>3 DEF ReadPath, AfterPath, Removing, Good, TypeOK, ReqType
        <5> QED BY <5>1 DEF Marked, Removing
      <4>4. CASE CloseRemove(c) \/ IoctlStep(c) \/ RenameMove(c)
        <5>1. req'[c].pc \notin Removing
          <6>1. CASE SymlinkPath(c)
            BY <6>1 DEF SymlinkPath, Removing, Good, TypeOK, ReqType
          <6>2. CASE ~SymlinkPath(c)
            <7>1. \/ Finish(c)
                  \/ \E l \in {"delete", "store", "link"} : Goto(c, l)
              BY <4>4, <6>2 DEF CloseRemove, IoctlStep, RenameMove, SymlinkRemove, SymlinkMake,
                                ReparseRemove
            <7> QED BY <7>1 DEF Goto, Finish, Idle, Request, Removing, Good, TypeOK, ReqType
          <6> QED BY <6>1, <6>2
        <5> QED BY <2>3, <5>1
      <4> QED BY <1>5, <4>1, <4>2, <4>3, <4>4 DEF Works
    <3> QED BY <2>1, <3>1, <3>2 DEF Quiet, Mark, StillMarked
  <2>4. \A d \in Conns \ {c} : req'[d] = req[d]
    BY <2>1 DEF Quiet
  <2> QED BY <1>1, <2>2, <2>3, <2>4
<1>6. ASSUME NEW c \in Conns, CloseDelete(c) \/ CloseFile(c) PROVE Marked'
  <2>1. UNCHANGED <<fsh, deleteAfterClose>> /\ (Finish(c) \/ Goto(c, "close"))
    BY <1>6 DEF CloseDelete, CloseFile
  <2> QED BY <1>3, <2>1 DEF Finish, Goto, Idle, Request, Removing, Good, TypeOK, ReqType
<1>7. ASSUME NEW c \in Conns, RenameStore(c) PROVE Marked'
  <2>1. UNCHANGED deleteAfterClose /\ \A k \in Handles : fsh'[k].late = fsh[k].late
    BY <1>7 DEF RenameStore, Good, TypeOK, FileType
  <2>2. req'[c].pc \notin Removing /\ \A d \in Conns \ {c} : req'[d] = req[d]
    BY <1>7 DEF RenameStore, Finish, Idle, Request, Removing, Good, TypeOK, ReqType
  <2> QED BY <1>3, <2>1, <2>2
<1>8. ASSUME NEW c \in Conns, NEW n \in Names, NEW a \in Forms, Create(c, n, a) PROVE Marked'
  BY <1>3, <1>8 DEF Create, Start, Removing, Good, TypeOK, ReqType
<1>9. ASSUME NEW c \in Conns, NEW h \in Handles, Close(c, h) \/ Ioctl(c, h) PROVE Marked'
  <2>1. /\ UNCHANGED <<fsh, deleteAfterClose>>
        /\ \E l \in {"test", "delete", "linkpath", "reparse"} : Start(c, Request(l, h))
    BY <1>9 DEF Close, Ioctl, Symlink, DeleteReparse
  <2> QED BY <1>3, <2>1 DEF Start, Request, Removing, Good, TypeOK, ReqType
<1>10. ASSUME NEW c \in Conns, NEW h \in Handles, SetInfo(c, h) \/ Write(c, h) PROVE Marked'
  <2>1. req'[c].pc \notin Removing /\ \A d \in Conns \ {c} : req'[d] = req[d]
    <3>1. \/ Start(c, Idle)
          \/ \E to \in Names, replace \in BOOLEAN : RenameCheck(c, h, to, replace)
      BY <1>10, HandleStep
    <3> QED BY <3>1 DEF Start, RenameCheck, Idle, Request, Removing, Good, TypeOK, ReqType
  <2>2. CASE UNCHANGED <<fsh, deleteAfterClose>>
    BY <1>3, <2>1, <2>2
  <2>3. ASSUME NEW b \in BOOLEAN, SetDisposition(c, h, b) PROVE Marked'
    <3>1. /\ deleteAfterClose' = [deleteAfterClose EXCEPT ![h] = b]
          /\ fsh' = [fsh EXCEPT ![h].late = @ \/ (~b /\ \E d \in Conns : Deleting(d, h))]
      BY <2>3 DEF SetDisposition
    <3>2. ASSUME NEW d \in Conns \ {c}, req[d].pc \in Removing, Mark(req[d].h)
          PROVE  StillMarked(req[d].h)
      <4>1. CASE req[d].h # h
        <5>1. /\ deleteAfterClose'[req[d].h] = deleteAfterClose[req[d].h]
              /\ fsh'[req[d].h] = fsh[req[d].h]
          BY <1>2, <3>1, <3>2, <4>1 DEF Good, TypeOK
        <5> QED BY <3>2, <5>1 DEF Mark, StillMarked
      <4>2. CASE req[d].h = h
        <5>1. Deleting(d, h)
          BY <3>2, <4>2 DEF Deleting, Removing
        <5>2. b \/ fsh'[h].late
          BY <3>1, <5>1 DEF Good, TypeOK, FileType
        <5>3. deleteAfterClose'[h] = b
          BY <3>1 DEF Good, TypeOK
        <5> QED BY <4>2, <5>2, <5>3 DEF Mark, StillMarked
      <4> QED BY <4>1, <4>2
    <3> QED BY <1>1, <2>1, <3>2
  <2>4. UNCHANGED <<fsh, deleteAfterClose>> \/ \E b \in BOOLEAN : SetDisposition(c, h, b)
    BY <1>10, HandleWork DEF SetAttr, SetEndOfFile, SetStream, RenameCheck, WriteFile
  <2> QED BY <2>2, <2>3, <2>4
<1>11. CASE UNCHANGED vars
  BY <1>11 DEF vars, Marked, Mark
<1> QED BY <1>4, <1>5, <1>6, <1>7, <1>8, <1>9, <1>10, <1>11
        DEF Next, CloseStep, RenameStep, Works

(* The name a request has read aims at the file of its handle, unless        *)
(* another request was at work on that handle.                               *)
LEMMA NameAims ==
  ASSUME Follow, NEW c \in Conns, NEW o, names[req[c].path] = o
  PROVE  Aims(c, o)
BY DEF Follow, PathsFollow, Aims, Overtaken

(* What a file that leaves the share was removed by.                         *)
Asked(o) == \E c \in Conns :
  \/ CloseRemove(c) /\ Aims(c, o) /\ (deleteAfterClose[req[c].h] \/ fsh[req[c].h].late)
  \/ RenameMove(c) /\ names[req[c].name] = o /\ (req[c].form.flag \/ req[c].saw = "none")
  \/ (SymlinkRemove(c) \/ ReparseRemove(c)) /\ Aims(c, o)

(* Every step.                                                               *)
LEMMA NoLostFileStep ==
  ASSUME Good, Follow, MayReplace, Marked, Next, NEW o \in Objects, Gone(o)
  PROVE  Asked(o)
<1>1. PICK m \in Names : names[m] = o /\ names'[m] # o /\ \A n \in Names : names'[n] # o
  BY DEF Gone
<1>2. ASSUME \A n \in Names : names'[n] = names[n] \/ names[n] = Nil PROVE FALSE
  BY <1>1, <1>2, NilAssumption
<1> USE DEF share
<1>3. ASSUME NEW c \in Conns, CreateStep(c) PROVE FALSE
  <2>1. \A n \in Names : names'[n] = names[n] \/ names[n] = Nil
    BY <1>3 DEF CreateStep, CreateMkdir, CreateMade, CreateOpen, CreateAttr, CreateEa,
                CreateAfpInfo, CreateAdd, Good, TypeOK
  <2> QED BY <1>2, <2>1
<1>4. ASSUME NEW c \in Conns, Remove(req[c].path) PROVE Aims(c, o)
  <2>1. names' = [names EXCEPT ![req[c].path] = Nil]
    BY <1>1, <1>4 DEF Remove
  <2>2. m = req[c].path
    BY <1>1, <2>1 DEF Good, TypeOK
  <2> QED BY <1>1, <2>2, NameAims
<1>5. ASSUME NEW c \in Conns, CloseStep(c) PROVE Asked(o)
  <2>1. CASE CloseRemove(c)
    <3>1. req[c].pc \in Removing /\ Remove(req[c].path)
      BY <2>1 DEF CloseRemove, Removing
    <3>2. deleteAfterClose[req[c].h] \/ fsh[req[c].h].late
      BY <3>1 DEF Marked, Mark
    <3> QED BY <1>4, <2>1, <3>1, <3>2 DEF Asked
  <2>2. CASE CloseTest(c) \/ CloseLoad(c) \/ CloseDelete(c) \/ CloseFile(c)
    BY <1>1, <2>2 DEF CloseTest, CloseLoad, CloseDelete, CloseFile
  <2> QED BY <1>5, <2>1, <2>2 DEF CloseStep
<1>6. ASSUME NEW c \in Conns, RenameStep(c) PROVE Asked(o)
  <2>1. CASE RenameMove(c)
    <3>1. PICK n \in Names, to \in Names : n = req[c].path /\ to = req[c].name
      BY <2>1 DEF RenameMove, Good, Prepared
    <3>2. names' = names \/ names' = [names EXCEPT ![n] = Nil, ![to] = names[n]]
      BY <2>1, <3>1 DEF RenameMove
    <3>3. names'[to] = names[n] /\ \A k \in Names \ {n, to} : names'[k] = names[k]
      BY <1>1, <3>2 DEF Good, TypeOK
    <3>4. m = to
      BY <1>1, <3>3
    <3>5. req[c].form.flag \/ req[c].saw = "none"
      BY <2>1 DEF RenameMove, MayReplace
    <3> QED BY <1>1, <2>1, <3>1, <3>4, <3>5 DEF Asked
  <2>2. CASE RenameStore(c)
    BY <1>1, <2>2 DEF RenameStore
  <2> QED BY <1>6, <2>1, <2>2 DEF RenameStep
<1>7. ASSUME NEW c \in Conns, SymlinkMake(c) \/ SymlinkPath(c) \/ ReadPath(c) PROVE FALSE
  BY <1>2, <1>7 DEF SymlinkMake, SymlinkPath, ReadPath, Good, TypeOK
<1>8. ASSUME NEW c \in Conns, NEW n \in Names, NEW a \in Forms, Create(c, n, a) PROVE FALSE
  BY <1>1, <1>8 DEF Create
<1>9. ASSUME NEW c \in Conns, NEW h \in Handles,
             Close(c, h) \/ SetInfo(c, h) \/ Write(c, h) \/ Ioctl(c, h)
      PROVE  FALSE
  <2>1. names' = names
    BY <1>9, HandleStep DEF Close, Ioctl, Symlink, DeleteReparse
  <2> QED BY <1>1, <2>1
<1>10. ASSUME NEW c \in Conns, SymlinkRemove(c) \/ ReparseRemove(c) PROVE Asked(o)
  BY <1>4, <1>10 DEF SymlinkRemove, ReparseRemove, Asked
<1> QED BY <1>3, <1>5, <1>6, <1>7, <1>8, <1>9, <1>10 DEF Next, IoctlStep

(* A file leaves the share only when someone asked for that: by the CLOSE of *)
(* a handle on it that is marked, or was when the CLOSE looked, by a reparse *)
(* request on it, or by a rename that may replace it or saw no target; but a *)
(* name that another request took, or renamed, meanwhile may be another file.*)
THEOREM FilesNotLost == Spec => NoLostFile
<1>1. Init => MayReplace /\ Marked /\ TablesAgree /\ Private
  BY DEF Init, MayReplace, Marked, Removing, TablesAgree, Private, Opening, Idle, Request
<1>2. Good /\ Follow /\ MayReplace /\ Marked /\ [Next]_vars
        => [\A o \in Objects : Gone(o) => Asked(o)]_vars
  BY NoLostFileStep
<1>3. [][\A o \in Objects : Gone(o) => Asked(o)]_vars <=> NoLostFile
  BY DEF NoLostFile, Asked
<1> QED BY <1>1, <1>2, <1>3, MayReplaceInductive, MarkedInductive, TablesInductive, FollowHolds,
           GoodHolds, PTL DEF Spec
=============================================================================
