--------------------------- MODULE ConnPipeProofs ---------------------------
(***************************************************************************)
(* Proofs about ConnPipe, for any number of asynchronous requests, any     *)
(* queue capacity and any number of requests: type correctness, that with  *)
(* unique message ids no request is lost between the receiver and Run, and *)
(* that there is one result for each sendPacket that waits for one.        *)
(***************************************************************************)
EXTENDS ConnPipe, FiniteSetTheorems, TLAPS

(* Never more answered than received, and no message in hand without an id:  *)
(* what keeps `answered` and the map in their types.                         *)
Bounded ==
  /\ rcv \in {"set", "offer"} => cur # 0
  /\ answered <= nreq
  /\ pc[Run] # "done" => answered + Unhandled <= nreq

(* The first state of a connection.                                         *)
LEMMA InitType == Init => TypeOK /\ Bounded
<1> SUFFICES ASSUME Init PROVE TypeOK /\ Bounded
  OBVIOUS
<1>1. /\ pc[Run] = "pop"
      /\ pc \in [Callers -> {"pop", "lookup", "idle", "put", "await", "done"}]
  BY DEF Init, Callers
<1>2. write \in Seq(Callers) /\ Len(write) = 0 /\ werr \in Seq({"ok", "err"}) /\ Len(werr) = 0
  BY DEF Init
<1>3. /\ requests \subseteq Ids /\ held \in BOOLEAN /\ wdone \in BOOLEAN
      /\ rdone \in BOOLEAN /\ cancelled \in BOOLEAN /\ reused \in BOOLEAN
  BY DEF Init
<1>4. cur \in Ids \cup {0} /\ got \in Ids \cup {0} /\ pkt \in Callers
  BY DEF Init, Callers
<1>5. TypeOK
  BY <1>1, <1>2, <1>3, <1>4, WriteCapAssumption, MaxReqsAssumption DEF Init, TypeOK
<1>6. Unhandled = 0
  BY <1>1 DEF Init, Unhandled
<1>7. Bounded
  BY <1>6 DEF Init, Bounded
<1> QED BY <1>5, <1>7

(* Every step of receiver, Run, the handlers and the sender.                 *)
LEMMA StepType == TypeOK /\ Bounded /\ [Next]_vars => TypeOK' /\ Bounded'
<1> SUFFICES ASSUME TypeOK, Bounded, [Next]_vars PROVE TypeOK' /\ Bounded'
  OBVIOUS
<1> USE WriteCapAssumption, MaxReqsAssumption, RunAssumption
    DEF TypeOK, Bounded, Connected, Unhandled, Ids, pipe, Run, Callers
<1>1. CASE Read
  <2>1. reused' \in BOOLEAN
    BY <1>1 DEF Read
  <2> QED BY <1>1, <2>1 DEF Read
<1>2. CASE ReadSkipped BY <1>2 DEF ReadSkipped
<1>3. CASE SetRequest BY <1>3 DEF SetRequest
<1>4. CASE ReadFails BY <1>4 DEF ReadFails
<1>5. CASE ExitLock BY <1>5 DEF ExitLock
<1>6. CASE ReceiverExit BY <1>6 DEF ReceiverExit, Shutdown
<1>7. CASE PopReceive BY <1>7 DEF PopReceive
<1>8. CASE PopLookup BY <1>8 DEF PopLookup
<1>9. CASE PopCancelled BY <1>9 DEF PopCancelled, RunReturns
<1>10. CASE HandlerFails BY <1>10 DEF HandlerFails, RunReturns
<1>11. CASE HandlerDefers BY <1>11 DEF HandlerDefers
<1>12. ASSUME NEW c \in Callers, Encode(c) PROVE TypeOK' /\ Bounded'
  BY <1>12 DEF Encode
<1>13. ASSUME NEW c \in Callers, Put(c) PROVE TypeOK' /\ Bounded'
  BY <1>13 DEF Put
<1>14. ASSUME NEW c \in Callers, TakeResult(c) PROVE TypeOK' /\ Bounded'
  <2>1. werr' \in Seq({"ok", "err"}) /\ Len(werr') <= 1
    BY <1>14 DEF TakeResult
  <2> QED BY <1>14, <2>1 DEF TakeResult, Returned, RunReturns
<1>15. ASSUME NEW c \in Callers, SendCancelled(c) PROVE TypeOK' /\ Bounded'
  BY <1>15 DEF SendCancelled, Returned, RunReturns
<1>16. CASE SenderTake BY <1>16 DEF SenderTake
<1>17. CASE SenderWrite BY <1>17 DEF SenderWrite
<1>18. CASE SenderReport
  <2>1. werr' \in Seq({"ok", "err"}) /\ Len(werr') <= 1
    BY <1>18 DEF SenderReport
  <2> QED BY <1>18, <2>1 DEF SenderReport
<1>19. CASE SenderExit
  <2>1. wdone' \in BOOLEAN /\ snd' = "done"
    BY <1>19 DEF SenderExit
  <2> QED BY <1>19, <2>1 DEF SenderExit
<1>20. CASE ClientLeaves BY <1>20 DEF ClientLeaves
<1>21. CASE ServerShutdown BY <1>21 DEF ServerShutdown, Shutdown
<1>22. CASE ClientReading BY <1>22 DEF ClientReading
<1>23. CASE UNCHANGED vars BY <1>23 DEF vars
<1> QED
  BY <1>1, <1>2, <1>3, <1>4, <1>5, <1>6, <1>7, <1>8, <1>9, <1>10, <1>11, <1>12, <1>13,
     <1>14, <1>15, <1>16, <1>17, <1>18, <1>19, <1>20, <1>21, <1>22, <1>23
     DEF Next, Receiver, RunStep, Sender, SendPacket

(* The pipeline's variables keep their types, and conn.write its capacity,   *)
(* whatever the clients, handlers and goroutines do.                         *)
THEOREM TypeCorrect == Spec => []TypeOK
<1>1. TypeOK /\ Bounded /\ [Next]_vars => (TypeOK /\ Bounded)'
  BY StepType
<1> QED BY <1>1, InitType, PTL DEF Spec

-----------------------------------------------------------------------------
(* Nothing is outstanding at first.                                          *)
LEMMA InitKeys == Init => KeysInv /\ NoRequestLost
  BY RunAssumption DEF Init, KeysInv, NoRequestLost, Unhandled, Offered, Looked, Callers, Run

(* Every step keeps the ids and the table of requests together.              *)
LEMMA StepKeys ==
  ASSUME TypeOK, KeysInv, NoRequestLost, [Next]_vars
  PROVE  KeysInv' /\ NoRequestLost'
<1> USE MaxReqsAssumption, RunAssumption
    DEF TypeOK, KeysInv, NoRequestLost, Unhandled, Offered, Looked, Ids, pipe, Run, Callers
<1>1. CASE Read BY <1>1 DEF Read
<1>2. CASE ReadSkipped BY <1>2 DEF ReadSkipped
<1>3. CASE SetRequest BY <1>3 DEF SetRequest
<1>4. CASE ReadFails BY <1>4 DEF ReadFails
<1>5. CASE ExitLock BY <1>5 DEF ExitLock
<1>6. CASE ReceiverExit BY <1>6 DEF ReceiverExit, Shutdown
<1>7. CASE PopReceive BY <1>7 DEF PopReceive
<1>8. CASE PopLookup
  <2> SUFFICES ASSUME ~reused' PROVE KeysInv' /\ NoRequestLost'
    OBVIOUS
  <2>1. got \in requests /\ ~held'
    BY <1>8 DEF PopLookup
  <2>2. requests' = Offered
    BY <1>8 DEF PopLookup
  <2> QED BY <1>8, <2>1, <2>2 DEF PopLookup
<1>9. CASE PopCancelled BY <1>9 DEF PopCancelled, RunReturns
<1>10. CASE HandlerFails BY <1>10 DEF HandlerFails, RunReturns
<1>11. CASE HandlerDefers
  <2>1. pc'[Run] = "pop"
    BY <1>11 DEF HandlerDefers
  <2>2. KeysInv'
    BY <1>11, <2>1 DEF HandlerDefers
  <2>3. Unhandled = Unhandled' + 1
    BY <1>11, <2>1 DEF HandlerDefers
  <2> QED BY <1>11, <2>1, <2>2, <2>3 DEF HandlerDefers
<1>12. ASSUME NEW c \in Callers, Encode(c) PROVE KeysInv' /\ NoRequestLost'
  BY <1>12 DEF Encode
<1>13. ASSUME NEW c \in Callers, Put(c) PROVE KeysInv' /\ NoRequestLost'
  BY <1>13 DEF Put
<1>14. ASSUME NEW c \in Callers, TakeResult(c) PROVE KeysInv' /\ NoRequestLost'
  BY <1>14 DEF TakeResult, Returned, RunReturns
<1>15. ASSUME NEW c \in Callers, SendCancelled(c) PROVE KeysInv' /\ NoRequestLost'
  BY <1>15 DEF SendCancelled, Returned, RunReturns
<1>16. CASE Sender
  <2>1. UNCHANGED <<rcv, pipe, pc, nreq, answered, reused>>
    BY <1>16 DEF Sender, SenderTake, SenderWrite, SenderReport, SenderExit
  <2> QED BY <2>1
<1>17. CASE ClientLeaves \/ ClientReading BY <1>17 DEF ClientLeaves, ClientReading
<1>18. CASE ServerShutdown BY <1>18 DEF ServerShutdown, Shutdown
<1>19. CASE UNCHANGED vars BY <1>19 DEF vars
<1> QED
  BY <1>1, <1>2, <1>3, <1>4, <1>5, <1>6, <1>7, <1>8, <1>9, <1>10, <1>11, <1>12, <1>13,
     <1>14, <1>15, <1>16, <1>17, <1>18, <1>19
     DEF Next, Receiver, RunStep, SendPacket

(* As long as message ids are unique pop finds the request of every id it receives,    *)
(* and between receiver and Run no request is lost or handled twice.         *)
THEOREM RequestsKept == Spec => [](KeysInv /\ NoRequestLost)
<1>1. TypeOK /\ KeysInv /\ NoRequestLost /\ [Next]_vars => (KeysInv /\ NoRequestLost)'
  BY StepKeys
<1> QED BY <1>1, InitKeys, TypeCorrect, PTL DEF Spec

-----------------------------------------------------------------------------
(* runSender is only told to end by a shutdown that has cancelled. *)
SenderTold == wdone \/ snd = "done" => cancelled

Awaiting == {c \in Callers : pc[c] = "await"}

(* They can be counted.                                                      *)
LEMMA AwaitingFinite == IsFiniteSet(Awaiting)
<1>1. IsFiniteSet(Callers)
  BY AsyncsAssumption, FS_AddElement DEF Callers
<1> QED BY <1>1, FS_Subset DEF Awaiting

(* A step that leaves the channels and who waits alone, or cancels.          *)
LEMMA Unmoved ==
  ASSUME OneResultPerCaller, UNCHANGED <<write, werr, snd>>, Awaiting' = Awaiting,
         cancelled => cancelled'
  PROVE  OneResultPerCaller'
  BY DEF OneResultPerCaller, InFlight, Waiting, Awaiting

(* Every step keeps one result for each caller that waits.                   *)
LEMMA StepResults ==
  ASSUME TypeOK, SenderTold, OneResultPerCaller, [Next]_vars
  PROVE  SenderTold' /\ OneResultPerCaller'
<1>1. CASE Receiver \/ ClientLeaves \/ ClientReading \/ ServerShutdown \/ UNCHANGED vars
  <2>1. UNCHANGED <<write, werr, snd, pc>> /\ (cancelled => cancelled')
    BY <1>1 DEF Receiver, Read, ReadSkipped, SetRequest, ReadFails, ExitLock, ReceiverExit,
       Shutdown, ClientLeaves, ClientReading, ServerShutdown, vars
  <2>2. SenderTold'
    BY <1>1 DEF SenderTold, Receiver, Read, ReadSkipped, SetRequest, ReadFails, ExitLock,
       ReceiverExit, Shutdown, ClientLeaves, ClientReading, ServerShutdown, vars
  <2> QED BY <2>1, <2>2, Unmoved DEF Awaiting
<1>2. CASE RunStep
  <2>1. /\ UNCHANGED <<write, werr, snd, wdone, cancelled>>
        /\ pc[Run] # "await"
        /\ \E v \in {"pop", "lookup", "idle", "done"} : pc' = [pc EXCEPT ![Run] = v]
    BY <1>2 DEF RunStep, PopReceive, PopLookup, PopCancelled, HandlerFails, HandlerDefers, RunReturns
  <2>2. Awaiting' = Awaiting
    BY <2>1 DEF Awaiting, TypeOK
  <2> QED BY <2>1, <2>2, Unmoved DEF SenderTold
<1>3. ASSUME NEW c \in Callers, Encode(c) PROVE SenderTold' /\ OneResultPerCaller'
  <2>1. Awaiting' = Awaiting
    BY <1>3 DEF Encode, Awaiting, TypeOK
  <2> QED BY <1>3, <2>1, Unmoved DEF Encode, SenderTold
<1>4. ASSUME NEW c \in Callers, Put(c) PROVE SenderTold' /\ OneResultPerCaller'
  <2>1. Awaiting' = Awaiting \cup {c} /\ c \notin Awaiting
    BY <1>4 DEF Put, Awaiting, TypeOK
  <2>2. Cardinality(Awaiting') = Cardinality(Awaiting) + 1
    BY <2>1, AwaitingFinite, FS_AddElement
  <2>3. Len(write') = Len(write) + 1 /\ UNCHANGED <<werr, snd, wdone, cancelled>>
    BY <1>4 DEF Put, TypeOK
  <2> QED BY <2>2, <2>3 DEF OneResultPerCaller, InFlight, Waiting, Awaiting, SenderTold, TypeOK
<1>5. ASSUME NEW c \in Callers, TakeResult(c) PROVE SenderTold' /\ OneResultPerCaller'
  <2>1. \E v \in {"pop", "done"} : pc' = [pc EXCEPT ![c] = v]
    BY <1>5 DEF TakeResult, Returned, RunReturns
  <2>2. Awaiting' = Awaiting \ {c} /\ c \in Awaiting
    BY <1>5, <2>1 DEF TakeResult, Awaiting, TypeOK
  <2>3. Cardinality(Awaiting') = Cardinality(Awaiting) - 1
    BY <2>2, AwaitingFinite, FS_RemoveElement
  <2>4. Len(werr') = Len(werr) - 1 /\ UNCHANGED <<write, snd, wdone, cancelled>>
    BY <1>5 DEF TakeResult, TypeOK
  <2>5. Cardinality(Awaiting) \in Nat
    BY AwaitingFinite, FS_CardinalityType
  <2> QED BY <2>3, <2>4, <2>5 DEF OneResultPerCaller, InFlight, Waiting, Awaiting, SenderTold, TypeOK
<1>6. ASSUME NEW c \in Callers, SendCancelled(c) PROVE SenderTold' /\ OneResultPerCaller'
  BY <1>6 DEF SendCancelled, OneResultPerCaller, SenderTold
<1>7. CASE SenderTake
  <2>1. Len(write') = Len(write) - 1
    BY <1>7 DEF SenderTake, TypeOK
  <2> QED BY <1>7, <2>1 DEF SenderTake, OneResultPerCaller, InFlight, Waiting, SenderTold, TypeOK
<1>8. CASE SenderWrite
  BY <1>8 DEF SenderWrite, OneResultPerCaller, InFlight, Waiting, SenderTold
<1>9. CASE SenderReport
  <2>1. Len(werr') = 1 /\ Len(werr) = 0
    BY <1>9 DEF SenderReport
  <2> QED BY <1>9, <2>1 DEF SenderReport, OneResultPerCaller, InFlight, Waiting, SenderTold, TypeOK
<1>10. CASE SenderExit
  BY <1>10 DEF SenderExit, OneResultPerCaller, SenderTold
<1> QED
  BY <1>1, <1>2, <1>3, <1>4, <1>5, <1>6, <1>7, <1>8, <1>9, <1>10 DEF Next, SendPacket, Sender

(* Until a connection is shut down every sendPacket that waits for a result  *)
(* gets one and none is left over, for any number of senders.                *)
THEOREM ResultsMatch == Spec => []OneResultPerCaller
<1>1. Init => SenderTold /\ OneResultPerCaller
  <2> SUFFICES ASSUME Init PROVE SenderTold /\ OneResultPerCaller
    OBVIOUS
  <2>1. Awaiting = {}
    BY DEF Init, Awaiting
  <2>2. Cardinality(Awaiting) = 0
    BY <2>1, FS_EmptySet
  <2>3. Len(write) = 0 /\ Len(werr) = 0 /\ snd = "loop" /\ ~wdone
    BY DEF Init
  <2> QED BY <2>2, <2>3 DEF OneResultPerCaller, InFlight, Waiting, Awaiting, SenderTold
<1>2. TypeOK /\ SenderTold /\ OneResultPerCaller /\ [Next]_vars => (SenderTold /\ OneResultPerCaller)'
  BY StepResults
<1> QED BY <1>1, <1>2, TypeCorrect, PTL DEF Spec
=============================================================================
