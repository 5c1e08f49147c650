--------------------------- MODULE HandleIOProofs ---------------------------
(* Proofs of the safety properties of HandleIO, for any set of goroutines   *)
(* and any set of handles.                                                  *)
EXTENDS HandleIO, TLAPS

(* The variables keep their types: every operation of fs.go stores a value  *)
(* of the field's type.                                                     *)
THEOREM TypeCorrect == Spec => []TypeOK
<1>1. Init => TypeOK
  BY DEF Init, TypeOK, IoPc, ClosePc
<1>2. TypeOK /\ [Next]_vars => TypeOK'
  <2> SUFFICES ASSUME TypeOK, [Next]_vars PROVE TypeOK'
    OBVIOUS
  <2> USE DEF TypeOK, IoPc, ClosePc, Goto
  <2>1. ASSUME NEW p \in Procs, Step(p) PROVE TypeOK'
    <3>1. CASE IoCheck(p) BY <3>1 DEF IoCheck
    <3>2. CASE IoAdd(p) BY <3>2 DEF IoAdd, AddMisuse
    <3>3. CASE IoRecheck(p) BY <3>3 DEF IoRecheck
    <3>4. CASE IoAccess(p) BY <3>4 DEF IoAccess
    <3>5. CASE IoDone(p) BY <3>5 DEF IoDone
    <3>6. CASE IoRelease(p) BY <3>6 DEF IoRelease
    <3>7. CASE CloseMark(p) BY <3>7 DEF CloseMark
    <3>8. CASE CloseWait(p) BY <3>8 DEF CloseWait
    <3>9. CASE CloseWake(p) BY <3>9 DEF CloseWake, WakeMisuse
    <3>10. CASE CloseFile(p) BY <3>10 DEF CloseFile
    <3>11. CASE CloseDelete(p) BY <3>11 DEF CloseDelete
    <3> QED BY <2>1, <3>1, <3>2, <3>3, <3>4, <3>5, <3>6, <3>7, <3>8, <3>9,
               <3>10, <3>11 DEF Step
  <2>2. ASSUME NEW p \in Procs, NEW h \in Handles, Call(p, h) PROVE TypeOK'
    BY <2>2 DEF Call, Open, IoLoad, CloseLoad, Load, Symlink
  <2>3. CASE UNCHANGED vars
    BY <2>3 DEF vars
  <2> QED BY <2>1, <2>2, <2>3 DEF Next
<1> QED BY <1>1, <1>2, PTL DEF Spec

(* The WaitGroup protocol of Read, Write and Close preserves IInv.          *)
LEMMA Inductive == TypeOK /\ IInv /\ [Next]_vars => IInv'
<1> SUFFICES ASSUME TypeOK, IInv, [Next]_vars PROVE IInv'
  OBVIOUS
<1> USE DEF TypeOK, IoPc, ClosePc, Goto
<1> USE DEF IInv, Counted, ClosersMark, WaitersWait, Released, ReleasedIsQuiet,
            ClosedIsQuiet, Quiet
<1>1. ASSUME NEW p \in Procs, Step(p) PROVE IInv'
  <2>1. CASE IoCheck(p) BY <2>1 DEF IoCheck
  <2>2. CASE IoAdd(p) BY <2>2 DEF IoAdd
  <2>3. CASE IoRecheck(p) BY <2>3 DEF IoRecheck
  <2>4. CASE IoAccess(p) BY <2>4 DEF IoAccess
  <2>5. CASE IoDone(p) BY <2>5 DEF IoDone
  <2>6. CASE IoRelease(p) BY <2>6 DEF IoRelease
  <2>7. CASE CloseMark(p) BY <2>7 DEF CloseMark
  <2>8. CASE CloseWait(p) BY <2>8 DEF CloseWait
  <2>9. CASE CloseWake(p) BY <2>9 DEF CloseWake
  <2>10. CASE CloseFile(p) BY <2>10 DEF CloseFile
  <2>11. CASE CloseDelete(p) BY <2>11 DEF CloseDelete
  <2> QED BY <1>1, <2>1, <2>2, <2>3, <2>4, <2>5, <2>6, <2>7, <2>8, <2>9,
             <2>10, <2>11 DEF Step
<1>2. ASSUME NEW p \in Procs, NEW h \in Handles, Call(p, h) PROVE IInv'
  <2>1. CASE Open(p, h) BY <2>1 DEF Open
  <2>2. CASE IoLoad(p, h) BY <2>2 DEF IoLoad, Load
  <2>3. CASE CloseLoad(p, h) BY <2>3 DEF CloseLoad, Load
  <2>4. CASE Symlink(p, h) BY <2>4 DEF Symlink
  <2> QED BY <1>2, <2>1, <2>2, <2>3, <2>4 DEF Call
<1>3. CASE UNCHANGED vars
  BY <1>3 DEF vars
<1> QED BY <1>1, <1>2, <1>3 DEF Next

(* The inductive invariant of the WaitGroup protocol.                       *)
THEOREM InvariantHolds == Spec => []IInv
<1>1. Init => IInv
  BY DEF Init, IInv, Counted, ClosersMark, WaitersWait, Released,
         ReleasedIsQuiet, ClosedIsQuiet, Quiet
<1> QED BY <1>1, Inductive, TypeCorrect, PTL DEF Spec

(* No descriptor is closed under a read or write in progress, however many  *)
(* goroutines read, write and close the handle.                             *)
THEOREM NoIoOnClosed == Spec => []NoIoOnClosedFile
<1>1. TypeOK /\ IInv => NoIoOnClosedFile
  BY DEF TypeOK, IInv, ClosedIsQuiet, Quiet, NoIoOnClosedFile
<1> QED BY <1>1, InvariantHolds, TypeCorrect, PTL

(* A goroutine at work holds a handle that was opened, and one about to     *)
(* delete the entry has released the descriptor.                            *)
Held == \A p \in Procs :
  /\ pc[p] # "idle" => file[hdl[p]] # "none"
  /\ pc[p] = "delete" => file[hdl[p]] \in {"closed", "nil"}

(* Every operation keeps the table and the descriptors together.            *)
LEMMA TableAndHeld == Spec => [](TableMatchesFiles /\ Held)
<1>1. Init => TableMatchesFiles /\ Held
  BY DEF Init, TableMatchesFiles, Held
<1>2. TypeOK /\ TableMatchesFiles /\ Held /\ [Next]_vars
        => TableMatchesFiles' /\ Held'
  <2> SUFFICES ASSUME TypeOK, TableMatchesFiles, Held, [Next]_vars
               PROVE TableMatchesFiles' /\ Held'
    OBVIOUS
  <2> USE DEF TypeOK, IoPc, ClosePc, Goto, TableMatchesFiles, Held
  <2>1. ASSUME NEW p \in Procs, Step(p) PROVE TableMatchesFiles' /\ Held'
    <3>1. CASE IoCheck(p) BY <3>1 DEF IoCheck
    <3>2. CASE IoAdd(p) BY <3>2 DEF IoAdd
    <3>3. CASE IoRecheck(p) BY <3>3 DEF IoRecheck
    <3>4. CASE IoAccess(p) BY <3>4 DEF IoAccess
    <3>5. CASE IoDone(p) BY <3>5 DEF IoDone
    <3>6. CASE IoRelease(p) BY <3>6 DEF IoRelease
    <3>7. CASE CloseMark(p) BY <3>7 DEF CloseMark
    <3>8. CASE CloseWait(p) BY <3>8 DEF CloseWait
    <3>9. CASE CloseWake(p) BY <3>9 DEF CloseWake
    <3>10. CASE CloseFile(p) BY <3>10 DEF CloseFile
    <3>11. CASE CloseDelete(p) BY <3>11 DEF CloseDelete
    <3> QED BY <2>1, <3>1, <3>2, <3>3, <3>4, <3>5, <3>6, <3>7, <3>8, <3>9,
               <3>10, <3>11 DEF Step
  <2>2. ASSUME NEW p \in Procs, NEW h \in Handles, Call(p, h)
        PROVE TableMatchesFiles' /\ Held'
    <3>1. CASE Open(p, h) BY <2>2, <3>1 DEF Open
    <3>2. CASE IoLoad(p, h) BY <2>2, <3>2 DEF IoLoad, Load
    <3>3. CASE CloseLoad(p, h) BY <2>2, <3>3 DEF CloseLoad, Load
    <3>4. CASE Symlink(p, h) BY <2>2, <3>4 DEF Symlink
    <3> QED BY <2>2, <3>1, <3>2, <3>3, <3>4 DEF Call
  <2>3. CASE UNCHANGED vars
    BY <2>3 DEF vars
  <2> QED BY <2>1, <2>2, <2>3 DEF Next
<1> QED BY <1>1, <1>2, TypeCorrect, PTL DEF Spec

(* No descriptor leaks and no table entry dangles.                          *)
THEOREM TableMatches == Spec => []TableMatchesFiles
BY TableAndHeld, PTL

(* A step of HandleIO is a step of FileLife or leaves its variables alone.  *)
LEMMA StepSimulation ==
  TypeOK /\ IInv /\ Held /\ TableMatchesFiles /\ [Next]_vars
    => [Life!Next]_(Life!lifeVars)
<1> SUFFICES ASSUME TypeOK, IInv, Held, TableMatchesFiles, [Next]_vars
             PROVE [Life!Next]_(Life!lifeVars)
  OBVIOUS
<1> USE DEF TypeOK, IoPc, ClosePc, Goto, Life!lifeVars
<1>1. ASSUME NEW p \in Procs, Step(p) PROVE [Life!Next]_(Life!lifeVars)
  <2> DEFINE h == hdl[p]
  <2>0. h \in Handles
    OBVIOUS
  <2>1. ASSUME pc[p] # "io", UNCHANGED <<file, hdl>>,
               pc' = [pc EXCEPT ![p] = pc'[p]], pc'[p] # "io"
        PROVE UNCHANGED Life!lifeVars
    BY <2>1 DEF Active
  <2>2. CASE IoRecheck(p) /\ ~closing[h]
    <3>1. file[h] \in {"open", "nil"}
      BY <2>0, <2>2 DEF IoRecheck, IInv, ClosedIsQuiet, Held
    <3>2. Active' = [Active EXCEPT ![h] = @ \cup {p}]
      <4>1. pc' = [pc EXCEPT ![p] = "io"] /\ hdl' = hdl
        BY <2>2 DEF IoRecheck
      <4>2. ASSUME NEW k \in Handles
            PROVE Active'[k] = IF k = h THEN Active[k] \cup {p} ELSE Active[k]
        BY <4>1 DEF Active
      <4> QED BY <2>0, <4>2 DEF Active
    <3> QED BY <2>0, <2>2, <3>1, <3>2 DEF IoRecheck, Life!Next, Life!Begin
  <2>3. CASE IoAccess(p)
    <3>1. p \in Active[h]
      BY <2>0, <2>3 DEF IoAccess, Active
    <3>2. Active' = [Active EXCEPT ![h] = @ \ {p}]
      BY <2>0, <2>3 DEF IoAccess, Active
    <3> QED BY <2>0, <2>3, <3>1, <3>2 DEF IoAccess, Life!Next, Life!End
  <2>4. CASE CloseFile(p)
    <3>1. Active' = Active
      BY <2>4 DEF CloseFile, Active
    <3>2. Active[h] = {}
      BY <2>0, <2>4 DEF CloseFile, Active, IInv, ReleasedIsQuiet, Released, Quiet
    <3>3. CASE file[h] = "open"
      BY <2>0, <2>4, <3>1, <3>2, <3>3 DEF CloseFile, Life!Next, Life!CloseFile
    <3>4. CASE file[h] # "open"
      <4>1. file[h] \in {"closed", "nil"}
        BY <2>0, <2>4, <3>4 DEF CloseFile, Held
      <4> QED BY <2>4, <3>1, <4>1 DEF CloseFile
    <3> QED BY <3>3, <3>4
  <2>5. CASE IoRecheck(p) /\ closing[h]
    BY <2>1, <2>5 DEF IoRecheck
  <2>6. CASE IoCheck(p) BY <2>1, <2>6 DEF IoCheck
  <2>7. CASE IoAdd(p) BY <2>1, <2>7 DEF IoAdd
  <2>8. CASE IoDone(p) BY <2>1, <2>8 DEF IoDone
  <2>9. CASE IoRelease(p) BY <2>1, <2>9 DEF IoRelease
  <2>10. CASE CloseMark(p) BY <2>1, <2>10 DEF CloseMark
  <2>11. CASE CloseWait(p) BY <2>1, <2>11 DEF CloseWait
  <2>12. CASE CloseWake(p) BY <2>1, <2>12 DEF CloseWake
  <2>13. CASE CloseDelete(p) BY <2>1, <2>13 DEF CloseDelete
  <2> QED BY <1>1, <2>2, <2>3, <2>4, <2>5, <2>6, <2>7, <2>8, <2>9, <2>10,
             <2>11, <2>12, <2>13 DEF Step
<1>2. ASSUME NEW p \in Procs, NEW h \in Handles, Call(p, h)
      PROVE [Life!Next]_(Life!lifeVars)
  <2>1. CASE Open(p, h)
    <3>1. Active' = Active
      BY <2>1 DEF Open, Active
    <3> QED BY <2>1, <3>1 DEF Open, Life!Next, Life!OpenFile
  <2>2. ASSUME NEW l \in {"check", "mark"}, Load(p, h, l)
        PROVE UNCHANGED Life!lifeVars
    BY <2>2 DEF Load, Active
  <2>3. CASE Symlink(p, h)
    <3>1. Active' = Active
      BY <2>3 DEF Symlink, Active
    <3>2. file[h] # "none"
      BY <2>3 DEF Symlink, TableMatchesFiles
    <3> QED BY <2>3, <3>1, <3>2 DEF Symlink, Life!Next, Life!Replace
  <2> QED BY <1>2, <2>1, <2>2, <2>3 DEF Call, IoLoad, CloseLoad
<1>3. CASE UNCHANGED vars
  BY <1>3 DEF vars, Active
<1> QED BY <1>1, <1>2, <1>3 DEF Next

(* Read, Write, Open, Close and Symlink implement the life of a descriptor, *)
(* for any number of goroutines and handles.                                *)
THEOREM Implementation == Spec => ImplementsFileLife
<1>1. Init => Life!Init
  BY DEF Init, Life!Init, Active
<1> QED BY <1>1, StepSimulation, TypeCorrect, InvariantHolds, TableAndHeld, PTL
        DEF Spec, ImplementsFileLife, Life!Spec
=============================================================================
