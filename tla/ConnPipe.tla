------------------------------ MODULE ConnPipe ------------------------------
(***************************************************************************)
(* The goroutines of one connection (smb/server/conn.go): runReciever      *)
(* puts requests into the map of outstandingRequests, under their message  *)
(* ids, and hands the ids over an unbuffered channel to Run, which handles *)
(* one at a time; Run and the goroutines that complete asynchronous        *)
(* requests send responses with sendPacket, through the buffered channel   *)
(* write, to runSender, and wait on the shared channel werr for the        *)
(* result; shutdown ends them.                                             *)
(*                                                                         *)
(* What a request or response says is left out: a request is its message   *)
(* id, a response its sender.                                              *)
(***************************************************************************)
EXTENDS Naturals, Sequences, FiniteSets

CONSTANTS Asyncs,      \* goroutines that complete asynchronous requests
          WriteCap,    \* capacity of conn.write (10 in the code)
          MaxReqs      \* bound: requests the client sends

ASSUME WriteCapAssumption == WriteCap \in Nat \ {0}
ASSUME MaxReqsAssumption == MaxReqs \in Nat
ASSUME AsyncsAssumption == IsFiniteSet(Asyncs)

Run == "run"
ASSUME RunAssumption == Run \notin Asyncs

Callers == Asyncs \cup {Run}   \* who calls sendPacket

VARIABLES
  rcv,         \* runReciever: "read", "set", "offer", "exit", "exiting", "done"
  cur,         \* the message id runReciever has in hand
  requests,    \* the keys of outstandingRequests.requests
  held,        \* pop holds outstandingRequests.m while it waits
  got,         \* the message id pop received
  pc,          \* callers: "idle", "put", "await" or "done"; Run also "pop"
               \* and "lookup"
  snd,         \* runSender: "loop", "write", "report" or "done"
  pkt,         \* the response runSender has in hand, by its caller
  write, werr, \* the channels: callers, and results
  wdone, rdone,\* the signals of shutdown
  cancelled,   \* conn.ctx
  tcp,         \* "up", "stalled" (up, but the client does not read and the
               \* buffers towards it are full), "eof" (the client closed it)
               \* or "closed" (by this side)
  nreq,        \* requests received
  answered,    \* requests Run has answered
  reused       \* a message id came twice (history)

pipe == <<cur, requests, held, got>>
vars == <<rcv, pipe, pc, snd, pkt, write, werr, wdone, rdone, cancelled, tcp, nreq, answered, reused>>

Init ==
  /\ rcv = "read" /\ snd = "loop" /\ pkt = Run
  /\ cur = 0 /\ requests = {} /\ held = FALSE /\ got = 0
  /\ pc = [c \in Callers |-> IF c = Run THEN "pop" ELSE "idle"]
  /\ write = <<>> /\ werr = <<>>
  /\ wdone = FALSE /\ rdone = FALSE /\ cancelled = FALSE
  /\ tcp = "up" /\ nreq = 0 /\ answered = 0 /\ reused = FALSE

Connected == tcp \in {"up", "stalled"}

-----------------------------------------------------------------------------
(* runReciever. *)

(* A request arrives, with a message id of its own or, a CANCEL, with that  *)
(* of the request before it.                                                 *)
Read ==
  /\ rcv = "read" /\ Connected /\ nreq < MaxReqs
  /\ rcv' = "set" /\ nreq' = nreq + 1
  /\ \/ cur' = nreq + 1 /\ UNCHANGED reused
     \/ cur # 0 /\ UNCHANGED cur /\ reused' = TRUE
  /\ UNCHANGED <<requests, held, got, pc, snd, pkt, write, werr, wdone, rdone, cancelled, tcp, answered>>

(* outstandingRequests.set: the map under the mutex; the send is PopReceive. *)
SetRequest ==
  /\ rcv = "set" /\ ~held
  /\ requests' = requests \cup {cur}
  /\ rcv' = "offer"
  /\ UNCHANGED <<cur, held, got, pc, snd, pkt, write, werr, wdone, rdone, cancelled, tcp, nreq, answered, reused>>

(* A frame that is not decrypted, not valid or of an unknown session: skip.  *)
ReadSkipped ==
  /\ rcv = "read" /\ Connected /\ nreq < MaxReqs
  /\ nreq' = nreq + 1 /\ answered' = answered + 1
  /\ UNCHANGED <<rcv, pipe, pc, snd, pkt, write, werr, wdone, rdone, cancelled, tcp, reused>>

ReadFails ==
  /\ rcv = "read" /\ ~Connected
  /\ rcv' = "exit"
  /\ UNCHANGED <<pipe, pc, snd, pkt, write, werr, wdone, rdone, cancelled, tcp, nreq, answered, reused>>

(* shutdown: cancel, close the transport, signal both goroutines unless      *)
(* their channel is full.                                                    *)
Shutdown == cancelled' = TRUE /\ tcp' = "closed" /\ wdone' = TRUE /\ rdone' = TRUE

(* The receiver takes conn.m and keeps it until it ends. *)
ExitLock ==
  /\ rcv = "exit"
  /\ rcv' = "exiting"
  /\ UNCHANGED <<pipe, pc, snd, pkt, write, werr, wdone, rdone, cancelled, tcp, nreq, answered, reused>>

(* Faulty: the receiver only closes the transport. *)
ReceiverExitNoCancel ==
  /\ rcv = "exiting" /\ ~held
  /\ rcv' = "done" /\ tcp' = "closed"
  /\ UNCHANGED <<pipe, pc, snd, pkt, write, werr, wdone, rdone, cancelled, nreq, answered, reused>>

(* outstandingRequests.shutdown, for which it needs the map's mutex too, and *)
(* the connection's shutdown.                                                *)
ReceiverExit ==
  /\ rcv = "exiting" /\ ~held
  /\ rcv' = "done"
  /\ Shutdown
  /\ UNCHANGED <<pipe, pc, snd, pkt, write, werr, nreq, answered, reused>>

-----------------------------------------------------------------------------
(* Run. *)

(* outstandingRequests.pop: a message id is received, or the context ends.   *)
PopReceive ==
  /\ pc[Run] = "pop" /\ rcv = "offer"
  /\ rcv' = "read" /\ got' = cur
  /\ pc' = [pc EXCEPT ![Run] = "lookup"]
  /\ UNCHANGED <<cur, requests, held, snd, pkt, write, werr, wdone, rdone, cancelled, tcp, nreq, answered, reused>>

(* Faulty: the request is not taken out of the map under its own id. *)
PopLookupClears ==
  /\ pc[Run] = "lookup" /\ ~held
  /\ requests' = {}
  /\ pc' = [pc EXCEPT ![Run] = IF got \in requests THEN "idle" ELSE "pop"]
  /\ held' = (got \notin requests)
  /\ UNCHANGED <<rcv, cur, got, snd, pkt, write, werr, wdone, rdone, cancelled, tcp, nreq, answered, reused>>

(* The request of that id is taken out of the map.  If there is none pop     *)
(* goes back to its select, and only the return unlocks the mutex.           *)
PopLookup ==
  /\ pc[Run] = "lookup" /\ ~held
  /\ requests' = requests \ {got}
  /\ pc' = [pc EXCEPT ![Run] = IF got \in requests THEN "idle" ELSE "pop"]
  /\ held' = (got \notin requests)
  /\ UNCHANGED <<rcv, cur, got, snd, pkt, write, werr, wdone, rdone, cancelled, tcp, nreq, answered, reused>>

(* Run returns: serveListener closes the TCP connection, and nothing else.   *)
RunReturns ==
  /\ pc' = [pc EXCEPT ![Run] = "done"]
  /\ tcp' = "closed"

PopCancelled ==
  /\ pc[Run] = "pop" /\ cancelled
  /\ RunReturns
  /\ held' = FALSE
  /\ UNCHANGED <<rcv, cur, requests, got, snd, pkt, write, werr, wdone, rdone, cancelled, nreq, answered, reused>>

(* A handler rejects its request with an error, without a response. *)
HandlerFails ==
  /\ pc[Run] = "idle"
  /\ RunReturns
  /\ UNCHANGED <<rcv, pipe, snd, pkt, write, werr, wdone, rdone, cancelled, nreq, answered, reused>>

(* A handler whose response another goroutine sends, or that has none.       *)
HandlerDefers ==
  /\ pc[Run] = "idle"
  /\ pc' = [pc EXCEPT ![Run] = "pop"]
  /\ answered' = answered + 1
  /\ UNCHANGED <<rcv, pipe, snd, pkt, write, werr, wdone, rdone, cancelled, tcp, nreq, reused>>

-----------------------------------------------------------------------------
(* sendPacket, by Run or by the goroutine of an asynchronous request: the    *)
(* packet is built under conn.m.                                             *)
Encode(c) ==
  /\ pc[c] = "idle" /\ rcv # "exiting"
  /\ pc' = [pc EXCEPT ![c] = "put"]
  /\ UNCHANGED <<rcv, pipe, snd, pkt, write, werr, wdone, rdone, cancelled, tcp, nreq, answered, reused>>

(* conn.write <- pkt *)
Put(c) ==
  /\ pc[c] = "put" /\ Len(write) < WriteCap
  /\ write' = Append(write, c)
  /\ pc' = [pc EXCEPT ![c] = "await"]
  /\ UNCHANGED <<rcv, pipe, snd, pkt, werr, wdone, rdone, cancelled, tcp, nreq, answered, reused>>

(* What a caller does with the result: an asynchronous goroutine ends; Run   *)
(* goes on after a success, and after a failure unless its handler returns   *)
(* the error.                                                                *)
Returned(c, result) ==
  \/ /\ c = Run
     /\ pc' = [pc EXCEPT ![Run] = "pop"]
     /\ answered' = answered + 1
     /\ UNCHANGED tcp
  \/ /\ c = Run /\ result = "err"
     /\ RunReturns
     /\ UNCHANGED answered
  \/ /\ c # Run
     /\ pc' = [pc EXCEPT ![c] = "done"]
     /\ UNCHANGED <<tcp, answered>>

(* err = <-conn.werr *)
TakeResult(c) ==
  /\ pc[c] = "await" /\ werr # <<>>
  /\ werr' = Tail(werr)
  /\ Returned(c, Head(werr))
  /\ UNCHANGED <<rcv, pipe, snd, pkt, write, wdone, rdone, cancelled, nreq, reused>>

(* Faulty: a caller that waits for its result does not watch the context. *)
SendCancelledPut(c) ==
  /\ pc[c] = "put" /\ cancelled
  /\ Returned(c, "err")
  /\ UNCHANGED <<rcv, pipe, snd, pkt, write, werr, wdone, rdone, cancelled, nreq, reused>>

(* <-ctx.Done() in either select. *)
SendCancelled(c) ==
  /\ pc[c] \in {"put", "await"} /\ cancelled
  /\ Returned(c, "err")
  /\ UNCHANGED <<rcv, pipe, snd, pkt, write, werr, wdone, rdone, cancelled, nreq, reused>>

-----------------------------------------------------------------------------
(* runSender. *)
SenderTake ==
  /\ snd = "loop" /\ write # <<>>
  /\ pkt' = Head(write) /\ write' = Tail(write)
  /\ snd' = "write"
  /\ UNCHANGED <<rcv, pipe, pc, werr, wdone, rdone, cancelled, tcp, nreq, answered, reused>>

(* conn.t.Write returns: with an error after a close, maybe with one after   *)
(* the client left.  It has no deadline: it does not return while a client   *)
(* that stays connected leaves it no room.                                   *)
SenderWrite ==
  /\ snd = "write"
  /\ \/ tcp \in {"up", "eof"} /\ snd' = "reportOk"
     \/ ~Connected /\ snd' = "reportErr"
  /\ UNCHANGED <<rcv, pipe, pc, pkt, write, werr, wdone, rdone, cancelled, tcp, nreq, answered, reused>>

(* Faulty: only errors are reported. *)
SenderReportErrors ==
  /\ snd \in {"reportOk", "reportErr"} /\ werr = <<>>
  /\ werr' = IF snd = "reportErr" THEN <<"err">> ELSE werr
  /\ snd' = "loop"
  /\ UNCHANGED <<rcv, pipe, pc, pkt, write, wdone, rdone, cancelled, tcp, nreq, answered, reused>>

(* conn.werr <- err, a channel of capacity one. *)
SenderReport ==
  /\ snd \in {"reportOk", "reportErr"} /\ werr = <<>>
  /\ werr' = <<IF snd = "reportOk" THEN "ok" ELSE "err">>
  /\ snd' = "loop"
  /\ UNCHANGED <<rcv, pipe, pc, pkt, write, wdone, rdone, cancelled, tcp, nreq, answered, reused>>

SenderExit ==
  /\ snd = "loop" /\ wdone
  /\ snd' = "done" /\ wdone' = FALSE
  /\ UNCHANGED <<rcv, pipe, pc, pkt, write, werr, rdone, cancelled, tcp, nreq, answered, reused>>

-----------------------------------------------------------------------------
(* The client leaves; Server.Shutdown calls the connection's shutdown. *)
ClientLeaves ==
  /\ Connected
  /\ tcp' = "eof"
  /\ UNCHANGED <<rcv, pipe, pc, snd, pkt, write, werr, wdone, rdone, cancelled, nreq, answered, reused>>

(* The client stops reading until no more fits, or reads again. *)
ClientReading ==
  /\ Connected
  /\ tcp' = IF tcp = "up" THEN "stalled" ELSE "up"
  /\ UNCHANGED <<rcv, pipe, pc, snd, pkt, write, werr, wdone, rdone, cancelled, nreq, answered, reused>>

ServerShutdown ==
  /\ ~cancelled
  /\ Shutdown
  /\ UNCHANGED <<rcv, pipe, pc, snd, pkt, write, werr, nreq, answered, reused>>

Receiver == Read \/ ReadSkipped \/ SetRequest \/ ReadFails \/ ExitLock \/ ReceiverExit
RunStep == PopReceive \/ PopLookup \/ PopCancelled \/ HandlerFails \/ HandlerDefers
SendPacket(c) == Encode(c) \/ Put(c) \/ TakeResult(c) \/ SendCancelled(c)
Sender == SenderTake \/ SenderWrite \/ SenderReport \/ SenderExit

Next ==
  \/ Receiver \/ RunStep \/ Sender
  \/ \E c \in Callers : SendPacket(c)
  \/ ClientLeaves \/ ClientReading \/ ServerShutdown

Spec == Init /\ [][Next]_vars

(* Every goroutine that can run runs, and a select on ctx.Done that is ready *)
(* again and again is taken at some time.  The client owes nothing: Read is  *)
(* not fair, and it need not read again once it has stalled; if it does so   *)
(* again and again, the bytes of a Write are taken.  A handler finishes its  *)
(* request one way or another.                                               *)
Fairness ==
  /\ WF_vars(SetRequest \/ ReadFails \/ ExitLock \/ ReceiverExit) /\ WF_vars(Sender) /\ SF_vars(SenderWrite)
  /\ WF_vars(RunStep \/ SendPacket(Run)) /\ SF_vars(PopCancelled)
  /\ \A c \in Asyncs : WF_vars(Put(c) \/ TakeResult(c) \/ SendCancelled(c))

FairSpec == Spec /\ Fairness

-----------------------------------------------------------------------------
Ids == 1 .. MaxReqs

TypeOK ==
  /\ rcv \in {"read", "set", "offer", "exit", "exiting", "done"}
  /\ cur \in Ids \cup {0} /\ got \in Ids \cup {0} /\ requests \subseteq Ids /\ held \in BOOLEAN
  /\ pc \in [Callers -> {"pop", "lookup", "idle", "put", "await", "done"}]
  /\ snd \in {"loop", "write", "reportOk", "reportErr", "done"} /\ pkt \in Callers
  /\ write \in Seq(Callers) /\ Len(write) <= WriteCap
  /\ werr \in Seq({"ok", "err"}) /\ Len(werr) <= 1
  /\ wdone \in BOOLEAN /\ rdone \in BOOLEAN /\ cancelled \in BOOLEAN
  /\ tcp \in {"up", "stalled", "eof", "closed"}
  /\ nreq \in 0 .. MaxReqs /\ answered \in 0 .. MaxReqs /\ reused \in BOOLEAN

(* Until the connection is shut down there is one result for each caller     *)
(* that waits for one: none is lost, and none is left in werr for a later    *)
(* response to be judged by.                                                 *)
InFlight == Len(write) + (IF snd \in {"write", "reportOk", "reportErr"} THEN 1 ELSE 0) + Len(werr)
Waiting == Cardinality({c \in Callers : pc[c] = "await"})

OneResultPerCaller == ~cancelled => InFlight = Waiting

(* Run handles one request at a time and the receiver reads at most one      *)
(* ahead: between them, as long as message ids are unique, no request is     *)
(* lost or handled twice.                                                    *)
Unhandled == (IF rcv \in {"set", "offer"} THEN 1 ELSE 0)
             + (IF pc[Run] \in {"lookup", "idle", "put", "await"} THEN 1 ELSE 0)

NoRequestLost == ~reused /\ pc[Run] # "done" => nreq = answered + Unhandled

(* What makes it so, when message ids are unique: the map holds exactly the  *)
(* id being offered and the id pop has received but not looked up, and these *)
(* differ; the mutex is never kept.                                          *)
Offered == IF rcv = "offer" THEN {cur} ELSE {}
Looked  == IF pc[Run] = "lookup" THEN {got} ELSE {}

KeysInv == ~reused =>
  /\ ~held
  /\ pc[Run] # "done" => requests = Offered \cup Looked
  /\ cur <= nreq
  /\ pc[Run] = "lookup" => got <= nreq /\ (rcv \in {"set", "offer"} => got < cur)

(* pop takes the receive of an id that is not in the map for a "Cancel       *)
(* message" and tries again: whatever the ids, the next request gets through *)
(* (or the connection ends).                                                 *)
RequestsGetThrough == rcv = "set" ~> rcv # "set" \/ cancelled \/ pc[Run] = "done"

(* Every call of sendPacket returns, with a result or because of shutdown,   *)
(* whoever else waits and whenever the connection ends, unless the client    *)
(* stays connected and in the end reads nothing any more: then runSender     *)
(* stays in a Write without a deadline, and every caller behind it.          *)
SendReturns == \A c \in Callers :
  (pc[c] = "put" ~> pc[c] \in {"pop", "done", "idle"}) \/ <>[](tcp = "stalled")

(* Run returns when the client leaves or the server shuts down, wherever the *)
(* other goroutines are at that moment (but see RequestsGetThrough).          *)
RunEnds == ~Connected ~> pc[Run] = "done" \/ reused
=============================================================================
