-------------------------- MODULE XioServerProofs --------------------------
(***************************************************************************)
(* The types of the server and the places at which a thread has a request; *)
(* who has a request: the server hands it from the network thread to a     *)
(* worker, the engine, a completion thread and back, and it is always in   *)
(* one place, for any number of connections, requests and threads.  With   *)
(* that the counters of the server are exact and what they guard is safe:  *)
(* the requests of a connection, which decide when it is freed, and the    *)
(* threads of the work queue, of which one always remains.                 *)
(***************************************************************************)
EXTENDS XioServer, FiniteSetTheorems, TLAPS

\* The types, but that the two counters are only known to be integers.
BaseOK ==
  /\ conn \in [Conns -> {"none", "up", "disconnected", "freed"}]
  /\ refcnt \in [Conns -> Int]
  /\ doneReqs \in [Conns -> Seq(Requests)]
  /\ sent \in [Conns -> Nat]
  /\ hpc \in [Conns -> {"none", "deaf", "epoll", "status", "last", "exited"}]
  /\ hreq \in [Conns -> SUBSET Requests]
  /\ hstop \in [Conns -> BOOLEAN]
  /\ pipe \in [Conns -> Seq(Requests)]
  /\ io \in SUBSET Requests
  /\ inflight \in Seq(Requests)
  /\ finished \in Seq(Requests)
  /\ wpc \in [Workers -> WorkerLabels]
  /\ wreq \in [Workers -> SUBSET Requests]
  /\ nrThreads \in Int
  /\ nrQueued \in Nat
  /\ recent \in BOOLEAN
  /\ npc \in {"create", "created", "run", "schedule", "join", "drain", "exit", "reset",
             "destroy", "noContext", "exited"}
  /\ nreq \in SUBSET Requests
  /\ njoin \in SUBSET Conns
  /\ nback \in {"run", "drain"}
  /\ evfd \in BOOLEAN
  /\ stopLoop \in BOOLEAN
  /\ live \in [Requests -> BOOLEAN]
  /\ owner \in [Requests -> SUBSET Conns]
  /\ wqStopping \in BOOLEAN
  /\ stopping \in BOOLEAN
  /\ sdPc \in {"idle", "pool", "stop", "wait", "stopped"}

\* Every reply the transport has belongs to a request in ncd_done_reqs.
Owed == \A c \in Conns : sent[c] <= Len(doneReqs[c])

\* Steps go to Zenon unless they name SMT; the groups of variables.
USE Zenon
USE DEF connVars, hVars, qVars, poolVars, netVars, loopVars, reqVars, endVars

\* What taking from a queue and putting into it leave.
LEMMA QueueTypes ==
  ASSUME NEW q \in Seq(Requests)
  PROVE  /\ \A r \in Requests : Append(q, r) \in Seq(Requests)
         /\ q # <<>> => Tail(q) \in Seq(Requests) /\ Head(q) \in Requests
BY SMT

\* The server begins with its types.
LEMMA BaseInit == Init => BaseOK
<1> SUFFICES ASSUME Init PROVE BaseOK
  OBVIOUS
<1>1. <<>> \in Seq(Requests)
  BY SMT
<1>2. doneReqs \in [Conns -> Seq(Requests)] /\ pipe \in [Conns -> Seq(Requests)]
  BY <1>1 DEF Init
<1>3. inflight \in Seq(Requests) /\ finished \in Seq(Requests)
  BY <1>1 DEF Init
<1>4. /\ conn \in [Conns -> {"none", "up", "disconnected", "freed"}]
      /\ refcnt \in [Conns -> Int] /\ sent \in [Conns -> Nat]
      /\ hpc \in [Conns -> {"none", "deaf", "epoll", "status", "last", "exited"}]
      /\ hreq \in [Conns -> SUBSET Requests] /\ hstop \in [Conns -> BOOLEAN]
  BY SMT DEF Init
<1>5. /\ wpc \in [Workers -> WorkerLabels] /\ wreq \in [Workers -> SUBSET Requests]
      /\ live \in [Requests -> BOOLEAN] /\ owner \in [Requests -> SUBSET Conns]
  BY DEF Init, WorkerLabels
<1>6. /\ io \in SUBSET Requests /\ nrThreads \in Int /\ nrQueued \in Nat
      /\ npc = "create" /\ nreq \in SUBSET Requests /\ njoin \in SUBSET Conns /\ nback = "run"
      /\ sdPc = "idle"
  BY SMT DEF Init
<1>7. /\ recent \in BOOLEAN /\ evfd \in BOOLEAN /\ stopLoop \in BOOLEAN
      /\ wqStopping \in BOOLEAN /\ stopping \in BOOLEAN
  BY DEF Init
<1> QED BY <1>2, <1>3, <1>4, <1>5, <1>6, <1>7 DEF BaseOK

\* Taking a request from the inflight queue.
LEMMA TakeTypes ==
  ASSUME BaseOK, NEW w \in Workers, TakeOrWait(w)
  PROVE  /\ inflight' \in Seq(Requests)
         /\ wreq' \in [Workers -> SUBSET Requests]
         /\ wpc' \in [Workers -> WorkerLabels]
<1>1. CASE inflight = <<>>
  BY <1>1 DEF BaseOK, TakeOrWait, WorkerAt, WorkerLabels
<1>2. CASE inflight # <<>>
  <2>1. Tail(inflight) \in Seq(Requests) /\ {Head(inflight)} \in SUBSET Requests
    BY <1>2, QueueTypes DEF BaseOK
  <2> QED BY <1>2, <2>1 DEF BaseOK, TakeOrWait, WorkerAt, WorkerLabels
<1> QED BY <1>1, <1>2

\* Finishing a request.
LEMMA BottomHalfTypes ==
  ASSUME BaseOK, NEW r \in Requests, BottomHalf(r)
  PROVE  finished' \in Seq(Requests) /\ evfd' \in BOOLEAN /\ UNCHANGED <<inflight, stopLoop>>
BY QueueTypes DEF BaseOK, BottomHalf

\* Freeing a request.
LEMMA FreeTypes ==
  ASSUME BaseOK, NEW r \in Requests, NEW back \in {"run", "drain"}, FreeRequest(r, back)
  PROVE  /\ live' \in [Requests -> BOOLEAN]
         /\ refcnt' \in [Conns -> Int]
         /\ hstop' \in [Conns -> BOOLEAN]
         /\ njoin' \in SUBSET Conns
         /\ nback' \in {"run", "drain"}
         /\ npc' \in {"run", "drain", "join"}
<1>1. live' \in [Requests -> BOOLEAN] /\ refcnt' \in [Conns -> Int]
  BY SMT DEF BaseOK, FreeRequest
<1>2. owner[r] \subseteq Conns
  BY DEF BaseOK
<1> QED BY <1>1, <1>2 DEF BaseOK, FreeRequest, Destroy

\* The threads of the work queue.
LEMMA BaseWorker ==
  ASSUME BaseOK, NEW w \in Workers, Worker(w) \/ WorkerSpurious(w)
  PROVE  BaseOK'
<1>1. CASE WorkerTop(w)
  <2>1. TakeOrWait(w) => /\ inflight' \in Seq(Requests)
                         /\ wreq' \in [Workers -> SUBSET Requests]
                         /\ wpc' \in [Workers -> WorkerLabels]
    BY TakeTypes
  <2>2. ThreadEnds(w) => /\ UNCHANGED <<inflight, wreq, recent>> /\ nrThreads' \in Int
                         /\ wpc' \in [Workers -> WorkerLabels]
    BY SMT DEF BaseOK, ThreadEnds, WorkerAt, WorkerLabels
  <2>3. KeepThread => recent' \in BOOLEAN
    BY DEF KeepThread
  <2>4. /\ inflight' \in Seq(Requests) /\ wreq' \in [Workers -> SUBSET Requests]
        /\ wpc' \in [Workers -> WorkerLabels] /\ recent' \in BOOLEAN /\ nrThreads' \in Int
    BY <1>1, <2>1, <2>2, <2>3 DEF BaseOK, WorkerTop
  <2> QED BY SMT, <1>1, <2>4 DEF BaseOK, WorkerTop
<1>2. CASE WorkerWoken(w)
  <2>1. TakeOrWait(w) => /\ inflight' \in Seq(Requests)
                         /\ wreq' \in [Workers -> SUBSET Requests]
                         /\ wpc' \in [Workers -> WorkerLabels]
    BY TakeTypes
  <2>2. ThreadEnds(w) => /\ UNCHANGED <<inflight, wreq, recent>> /\ nrThreads' \in Int
                         /\ wpc' \in [Workers -> WorkerLabels]
    BY SMT DEF BaseOK, ThreadEnds, WorkerAt, WorkerLabels
  <2>3. /\ inflight' \in Seq(Requests) /\ wreq' \in [Workers -> SUBSET Requests]
        /\ wpc' \in [Workers -> WorkerLabels] /\ recent' \in BOOLEAN /\ nrThreads' \in Int
    BY <1>2, <2>1, <2>2 DEF BaseOK, WorkerWoken
  <2> QED BY SMT, <1>2, <2>3 DEF BaseOK, WorkerWoken
<1>3. CASE WorkerSpurious(w)
  BY SMT, <1>3 DEF BaseOK, WorkerSpurious, WorkerAt, WorkerLabels
<1>4. CASE ProcessRequest(w)
  BY SMT, <1>4 DEF BaseOK, ProcessRequest, WorkerAt, WorkerLabels
<1>5. CASE HandleRead(w)
  <2>1. io' \in SUBSET Requests
    BY SMT, <1>5 DEF BaseOK, HandleRead
  <2>2. wreq' \in [Workers -> SUBSET Requests]
    BY <1>5 DEF BaseOK, HandleRead
  <2>3. wpc' \in [Workers -> WorkerLabels]
    BY <1>5 DEF BaseOK, HandleRead, WorkerAt, WorkerLabels
  <2> QED BY SMT, <1>5, <2>1, <2>2, <2>3 DEF BaseOK, HandleRead
<1>6. CASE WorkerFinish(w)
  <2>1. PICK r \in Requests : BottomHalf(r)
    BY <1>6 DEF BaseOK, WorkerFinish
  <2>2. finished' \in Seq(Requests) /\ evfd' \in BOOLEAN /\ UNCHANGED <<inflight, stopLoop>>
    BY <2>1, BottomHalfTypes
  <2> QED BY SMT, <1>6, <2>2 DEF BaseOK, WorkerFinish, WorkerAt, WorkerLabels
<1> QED BY <1>1, <1>2, <1>3, <1>4, <1>5, <1>6 DEF Worker

\* on_msg_send_complete finds a request in ncd_done_reqs.
LEMMA AnsweredOnFile ==
  ASSUME BaseOK, Owed, NEW c \in Conns, OnMsgSendComplete(c)
  PROVE  doneReqs[c] # <<>>
<1>1. sent[c] > 0 /\ sent[c] \in Nat /\ doneReqs[c] \in Seq(Requests)
  BY DEF BaseOK, OnMsgSendComplete
<1> QED BY SMT, <1>1 DEF Owed

\* The handlers, the transport and the peers.
LEMMA BaseConn ==
  ASSUME BaseOK, Owed, NEW c \in Conns, Handler(c) \/ Transport(c) \/ Peer(c)
  PROVE  BaseOK'
<1>1. CASE HandlerEvents(c)
  <2>1. pipe[c] # <<>> => Tail(pipe[c]) \in Seq(Requests) /\ {Head(pipe[c])} \in SUBSET Requests
    BY QueueTypes DEF BaseOK
  <2>2. pipe' \in [Conns -> Seq(Requests)] /\ hreq' \in [Conns -> SUBSET Requests]
    <3>1. \/ /\ pipe[c] # <<>> /\ hreq' = [hreq EXCEPT ![c] = {Head(pipe[c])}]
             /\ pipe' = [pipe EXCEPT ![c] = Tail(pipe[c])]
          \/ UNCHANGED <<hreq, pipe>>
      BY <1>1 DEF HandlerEvents
    <3>2. pipe \in [Conns -> Seq(Requests)] /\ hreq \in [Conns -> SUBSET Requests]
      BY DEF BaseOK
    <3> QED BY <2>1, <3>1, <3>2
  <2>3. hpc' \in [Conns -> {"none", "deaf", "epoll", "status", "last", "exited"}]
    BY <1>1 DEF BaseOK, HandlerEvents, HandlerAt
  <2> QED BY SMT, <1>1, <2>2, <2>3 DEF BaseOK, HandlerEvents
<1>2. CASE HandlerFinish(c)
  <2>1. PICK r \in Requests : BottomHalf(r)
    BY <1>2 DEF BaseOK, HandlerFinish
  <2>2. finished' \in Seq(Requests) /\ evfd' \in BOOLEAN /\ UNCHANGED <<inflight, stopLoop>>
    BY <2>1, BottomHalfTypes
  <2> QED BY SMT, <1>2, <2>2 DEF BaseOK, HandlerFinish, HandlerAt
<1>3. CASE OnMsgSendComplete(c)
  <2>0. doneReqs[c] # <<>>
    BY <1>3, AnsweredOnFile
  <2>1. Tail(doneReqs[c]) \in Seq(Requests) /\ Head(doneReqs[c]) \in Requests
    BY <2>0, QueueTypes DEF BaseOK
  <2>2. doneReqs' \in [Conns -> Seq(Requests)]
    BY <1>3, <2>1 DEF BaseOK, OnMsgSendComplete
  <2>3. FreeRequest(Head(doneReqs[c]), "run")
    BY <1>3 DEF OnMsgSendComplete
  <2>4. sent' \in [Conns -> Nat]
    BY SMT, <1>3 DEF BaseOK, OnMsgSendComplete
  <2>5. /\ live' \in [Requests -> BOOLEAN] /\ refcnt' \in [Conns -> Int]
        /\ hstop' \in [Conns -> BOOLEAN] /\ njoin' \in SUBSET Conns
        /\ nback' \in {"run", "drain"} /\ npc' \in {"run", "drain", "join"}
    BY <2>1, <2>3, FreeTypes
  <2>6. UNCHANGED <<conn, hpc, hreq, pipe, io, qVars, poolVars, nreq, loopVars, owner, endVars>>
    BY <1>3 DEF OnMsgSendComplete
  <2> QED BY <2>2, <2>4, <2>5, <2>6 DEF BaseOK
<1>4. CASE CreateSessionConnection(c)
  BY SMT, <1>4 DEF BaseOK, CreateSessionConnection, HandlerAt, NewHandler
<1>5. CASE DestroySessionConnection(c)
  BY <1>5 DEF BaseOK, DestroySessionConnection, Destroy
<1>6. ASSUME NEW r \in Requests, OnRequest(c, r)
      PROVE  BaseOK'
  BY SMT, <1>6 DEF BaseOK, OnRequest, AllocateRequest
<1>7. CASE ReplyDropped(c)
  <2>1. sent' \in [Conns -> Nat]
    BY SMT, <1>7 DEF BaseOK, ReplyDropped
  <2> QED BY SMT, <1>7, <2>1 DEF BaseOK, ReplyDropped
<1> QED BY <1>1, <1>2, <1>3, <1>4, <1>5, <1>6, <1>7 DEF Handler, Transport, Peer

\* The network thread.
LEMMA BaseNetwork ==
  ASSUME BaseOK, NetworkThread
  PROVE  BaseOK'
<1>1. CASE CreateThread
  BY SMT, <1>1 DEF BaseOK, CreateThread, WorkerAt, WorkerLabels
<1>2. CASE CountThread
  BY SMT, <1>2 DEF BaseOK, CountThread
<1>3. CASE Started \/ Drained \/ ContextReset \/ ServiceDestroy \/ ServiceDestroyed
  BY SMT, <1>3 DEF BaseOK, Started, Drained, ContextReset, ServiceDestroy, ServiceDestroyed
<1>4. CASE WorkSchedule
  <2>1. inflight' \in Seq(Requests)
    BY SMT, <1>4, QueueTypes DEF BaseOK, WorkSchedule
  <2>2. PICK new \in SUBSET Workers :
          wpc' \in Notified([w \in Workers |-> IF w \in new THEN "top" ELSE wpc[w]])
    BY <1>4 DEF WorkSchedule
  <2>3. wpc' \in [Workers -> WorkerLabels]
    <3> DEFINE p == [w \in Workers |-> IF w \in new THEN "top" ELSE wpc[w]]
    <3>1. p \in [Workers -> WorkerLabels]
      BY DEF BaseOK, WorkerLabels
    <3>2. wpc' = p \/ \E w \in Workers : wpc' = [p EXCEPT ![w] = "woken"]
      BY <2>2 DEF Notified
    <3> HIDE DEF p
    <3> QED BY <3>1, <3>2 DEF WorkerLabels
  <2>4. nrThreads' \in Int
    BY SMT, <1>4 DEF BaseOK, WorkSchedule
  <2>5. recent' \in BOOLEAN
    BY <1>4 DEF WorkSchedule
  <2> QED BY SMT, <1>4, <2>1, <2>3, <2>4, <2>5 DEF BaseOK, WorkSchedule
<1>5. CASE JoinHandler
  BY SMT, <1>5 DEF BaseOK, JoinHandler
<1>6. CASE EvfdStopLoop \/ LoopReturns
  BY <1>6 DEF BaseOK, EvfdStopLoop, LoopReturns
<1>7. CASE SendReply
  <2>1. Tail(finished) \in Seq(Requests) /\ Head(finished) \in Requests
    BY <1>7, QueueTypes DEF BaseOK, SendReply
  <2>2. \A c \in Conns : Append(doneReqs[c], Head(finished)) \in Seq(Requests)
    BY <2>1, QueueTypes DEF BaseOK
  <2>3. doneReqs' \in [Conns -> Seq(Requests)]
    BY <1>7, <2>2 DEF BaseOK, SendReply
  <2>4. sent' \in [Conns -> Nat]
    BY SMT, <1>7 DEF BaseOK, SendReply
  <2> QED BY SMT, <1>7, <2>1, <2>3, <2>4 DEF BaseOK, SendReply
<1>8. CASE SendReplyFails
  <2>1. Tail(finished) \in Seq(Requests) /\ Head(finished) \in Requests
    BY <1>8, QueueTypes DEF BaseOK, SendReplyFails
  <2>2. FreeRequest(Head(finished), "drain")
    BY <1>8 DEF SendReplyFails
  <2> QED BY SMT, <1>8, <2>1, <2>2, FreeTypes DEF BaseOK, SendReplyFails
<1> QED BY <1>1, <1>2, <1>3, <1>4, <1>5, <1>6, <1>7, <1>8 DEF NetworkThread

\* A step that changes only the flags, and how far shutdown is.
LEMMA BaseFlags ==
  ASSUME BaseOK,
         UNCHANGED <<conn, refcnt, doneReqs, sent, hpc, hreq, hstop, pipe, io, inflight, finished, wpc,
                     wreq, nrThreads, nrQueued, npc, nreq, njoin, nback, live, owner>>,
         sdPc' \in {"idle", "pool", "stop", "wait", "stopped"}, recent' \in BOOLEAN,
         evfd' \in BOOLEAN, stopLoop' \in BOOLEAN, wqStopping' \in BOOLEAN, stopping' \in BOOLEAN
  PROVE  BaseOK'
BY DEF BaseOK

\* Every step keeps the types.
LEMMA BaseStep == BaseOK /\ Owed /\ [Next]_vars => BaseOK'
<1> SUFFICES ASSUME BaseOK, Owed, [Next]_vars PROVE BaseOK'
  OBVIOUS
<1>1. ASSUME NEW r \in Requests, EngineReports(r)
      PROVE  BaseOK'
  <2>1. \A c \in Conns : Append(pipe[c], r) \in Seq(Requests)
    BY QueueTypes DEF BaseOK
  <2>2. pipe' \in [Conns -> Seq(Requests)]
    BY <1>1, <2>1 DEF BaseOK, EngineReports
  <2> QED BY SMT, <1>1, <2>2 DEF BaseOK, EngineReports
<1>2. CASE TimePasses
  <2>1. UNCHANGED <<conn, refcnt, doneReqs, sent, hpc, hreq, hstop, pipe, io, inflight, finished, wpc,
                    wreq, nrThreads, nrQueued, npc, nreq, njoin, nback, live, owner, evfd, stopLoop,
                    wqStopping, stopping, sdPc>>
    BY <1>2 DEF TimePasses
  <2>2. recent' \in BOOLEAN
    BY <1>2 DEF TimePasses
  <2> QED BY <2>1, <2>2, BaseFlags DEF BaseOK
<1>3. CASE Shutdown
  BY SMT, <1>3 DEF BaseOK, Shutdown
<1>4. CASE ShuttingDown
  <2>1. CASE WakeWorkers
    <3>1. wpc' \in [Workers -> WorkerLabels]
      BY <2>1 DEF BaseOK, WakeWorkers, WorkerLabels
    <3> QED BY SMT, <2>1, <3>1 DEF BaseOK, WakeWorkers
  <2>2. CASE WorkersGone \/ ShutdownStop \/ ShutdownWait
    <3>1. UNCHANGED <<conn, refcnt, doneReqs, sent, hpc, hreq, hstop, pipe, io, inflight, finished, wpc,
                      wreq, nrThreads, nrQueued, npc, nreq, njoin, nback, live, owner, recent, evfd,
                      wqStopping>>
      BY <2>2 DEF WorkersGone, ShutdownStop, ShutdownWait
    <3>2. /\ sdPc' \in {"idle", "pool", "stop", "wait", "stopped"}
          /\ stopLoop' \in BOOLEAN /\ stopping' \in BOOLEAN
      BY <2>2 DEF BaseOK, WorkersGone, ShutdownStop, ShutdownWait
    <3> QED BY <3>1, <3>2, BaseFlags DEF BaseOK
  <2> QED BY <1>4, <2>1, <2>2 DEF ShuttingDown
<1>5. CASE UNCHANGED vars
  BY SMT, <1>5 DEF BaseOK, vars
<1>6. CASE EngineStuck
  BY SMT, <1>6 DEF BaseOK, EngineStuck
<1> QED BY <1>1, <1>2, <1>3, <1>4, <1>5, <1>6, BaseWorker, BaseConn, BaseNetwork
        DEF Next, Quiescent

\* No reply is out at first.
LEMMA OwedInit == Init => Owed
<1> SUFFICES ASSUME Init, NEW c \in Conns PROVE sent[c] <= Len(doneReqs[c])
  BY DEF Owed
<1>1. sent[c] = 0 /\ doneReqs[c] = <<>>
  BY DEF Init
<1> QED BY SMT, <1>1

\* Sending a reply records its request, and whichever reply the transport deals
\* with, no more than one request leaves.
LEMMA OwedStep == BaseOK /\ Owed /\ [Next]_vars => Owed'
<1> SUFFICES ASSUME BaseOK, Owed, [Next]_vars PROVE Owed'
  OBVIOUS
<1>1. CASE UNCHANGED <<sent, doneReqs>>
  BY <1>1 DEF Owed
<1>2. ASSUME NEW w \in Workers, Worker(w) \/ WorkerSpurious(w)
      PROVE  UNCHANGED <<sent, doneReqs>>
  BY <1>2 DEF Worker, WorkerTop, WorkerWoken, ProcessRequest, HandleRead, WorkerFinish,
              WorkerSpurious
<1>3. ASSUME NEW c \in Conns, Handler(c) \/ Peer(c)
      PROVE  UNCHANGED <<sent, doneReqs>>
  BY <1>3 DEF Handler, HandlerEvents, HandlerFinish, Peer, CreateSessionConnection,
              DestroySessionConnection, OnRequest
<1>4. ASSUME NEW c \in Conns, OnMsgSendComplete(c)
      PROVE  Owed'
  <2>1. /\ sent' = [sent EXCEPT ![c] = sent[c] - 1]
        /\ doneReqs' = [doneReqs EXCEPT ![c] = Tail(doneReqs[c])]
    BY <1>4 DEF OnMsgSendComplete
  <2>2. doneReqs[c] # <<>>
    BY <1>4, AnsweredOnFile
  <2>3. /\ sent \in [Conns -> Nat] /\ doneReqs \in [Conns -> Seq(Requests)]
    BY DEF BaseOK
  <2>4. Len(Tail(doneReqs[c])) = Len(doneReqs[c]) - 1
    BY SMT, <2>2, <2>3
  <2>5. sent'[c] <= Len(doneReqs'[c])
    <3>1. sent'[c] = sent[c] - 1 /\ doneReqs'[c] = Tail(doneReqs[c])
      BY <2>1, <2>3
    <3>2. sent[c] <= Len(doneReqs[c]) /\ sent[c] \in Nat /\ Len(doneReqs[c]) \in Nat
      BY SMT, <2>3 DEF Owed
    <3>3. sent'[c] <= Len(Tail(doneReqs[c]))
      BY SMT, <2>4, <3>1, <3>2
    <3> QED BY <3>1, <3>3
  <2>6. \A d \in Conns \ {c} : sent'[d] = sent[d] /\ doneReqs'[d] = doneReqs[d]
    BY <2>1, <2>3
  <2> QED BY <2>5, <2>6 DEF Owed
<1>5. ASSUME NEW c \in Conns, ReplyDropped(c)
      PROVE  Owed'
  <2>1. sent' = [sent EXCEPT ![c] = sent[c] - 1] /\ UNCHANGED doneReqs
    BY <1>5 DEF ReplyDropped
  <2>2. sent \in [Conns -> Nat] /\ doneReqs \in [Conns -> Seq(Requests)]
    BY DEF BaseOK
  <2> QED BY SMT, <2>1, <2>2 DEF Owed
<1>6. CASE SendReply
  <2>1. /\ doneReqs' = [c \in Conns |-> IF c \in owner[Head(finished)]
                                       THEN Append(doneReqs[c], Head(finished)) ELSE doneReqs[c]]
        /\ sent' = [c \in Conns |-> IF c \in owner[Head(finished)] THEN sent[c] + 1 ELSE sent[c]]
    BY <1>6 DEF SendReply
  <2>2. /\ sent \in [Conns -> Nat] /\ doneReqs \in [Conns -> Seq(Requests)]
        /\ Head(finished) \in Requests
    BY <1>6, QueueTypes DEF BaseOK, SendReply
  <2> QED BY SMT, <2>1, <2>2 DEF Owed
<1>7. CASE NetworkThread /\ ~SendReply
  BY <1>1, <1>7 DEF NetworkThread, CreateThread, CountThread, Started, WorkSchedule, JoinHandler,
                    EvfdStopLoop, LoopReturns, SendReplyFails, Drained, ContextReset,
                    ServiceDestroy, ServiceDestroyed
<1>8. CASE TimePasses \/ Shutdown \/ ShuttingDown \/ EngineStuck \/ UNCHANGED vars
  BY <1>1, <1>8 DEF TimePasses, Shutdown, ShuttingDown, WakeWorkers, WorkersGone, ShutdownStop,
                    ShutdownWait, EngineStuck, vars
<1>9. ASSUME NEW r \in Requests, EngineReports(r)
      PROVE  UNCHANGED <<sent, doneReqs>>
  BY <1>9 DEF EngineReports
<1> QED BY <1>1, <1>2, <1>3, <1>4, <1>5, <1>6, <1>7, <1>8, <1>9 DEF Next, Transport, Quiescent

-----------------------------------------------------------------------------
(***************************************************************************)
(* The threads have a request exactly where they work on one.              *)
(***************************************************************************)
Busy == {"process", "submit", "finish"}

One(S) == \E r \in S : S = {r}

Control ==
  /\ \A w \in Workers : IF wpc[w] \in Busy THEN One(wreq[w]) ELSE wreq[w] = {}
  /\ \A c \in Conns : IF hpc[c] \in {"status", "last"} THEN One(hreq[c]) ELSE hreq[c] = {}
  /\ IF npc = "schedule" THEN One(nreq) ELSE nreq = {}
  /\ IF npc = "join" THEN One(njoin) ELSE njoin = {}
  /\ \A c \in Conns : conn[c] = "none" => hpc[c] = "none"

\* At first no thread has one.
LEMMA ControlInit == Init => Control
BY DEF Init, Control, Busy

\* What the threads of the work queue leave alone.
LEMMA WorkerFrame ==
  ASSUME NEW w \in Workers, Worker(w) \/ WorkerSpurious(w)
  PROVE  /\ UNCHANGED <<conn, refcnt, hpc, hreq, npc, nreq, njoin, live, owner, wqStopping>>
         /\ wpc[w] # "none"
<1>1. CASE WorkerTop(w)
  BY <1>1 DEF WorkerTop
<1>2. CASE WorkerWoken(w)
  BY <1>2 DEF WorkerWoken
<1>3. CASE ProcessRequest(w)
  BY <1>3 DEF ProcessRequest
<1>4. CASE HandleRead(w)
  BY <1>4 DEF HandleRead
<1>5. CASE WorkerFinish(w)
  BY <1>5 DEF WorkerFinish
<1>6. CASE WorkerSpurious(w)
  BY <1>6 DEF WorkerSpurious
<1> QED BY <1>1, <1>2, <1>3, <1>4, <1>5, <1>6 DEF Worker

\* The workers.
LEMMA ControlWorker ==
  ASSUME BaseOK, Control, NEW w \in Workers, Worker(w) \/ WorkerSpurious(w)
  PROVE  Control'
<1>1. UNCHANGED <<conn, hpc, hreq, npc, nreq, njoin>>
  BY WorkerFrame
<1>2. \A v \in Workers \ {w} : wpc'[v] = wpc[v] /\ wreq'[v] = wreq[v]
  <2>1. /\ UNCHANGED wpc \/ \E l : wpc' = [wpc EXCEPT ![w] = l]
        /\ UNCHANGED wreq \/ \E x : wreq' = [wreq EXCEPT ![w] = x]
    <3>1. CASE WorkerTop(w)
      BY <3>1 DEF WorkerTop, TakeOrWait, ThreadEnds, WorkerAt
    <3>2. CASE WorkerWoken(w)
      BY <3>2 DEF WorkerWoken, TakeOrWait, ThreadEnds, WorkerAt
    <3>3. CASE ProcessRequest(w) \/ WorkerSpurious(w)
      BY <3>3 DEF ProcessRequest, WorkerSpurious, WorkerAt
    <3>4. CASE HandleRead(w)
      BY <3>4 DEF HandleRead, WorkerAt
    <3>5. CASE WorkerFinish(w)
      BY <3>5 DEF WorkerFinish, WorkerAt
    <3> QED BY <3>1, <3>2, <3>3, <3>4, <3>5 DEF Worker
  <2>2. wpc \in [Workers -> WorkerLabels] /\ wreq \in [Workers -> SUBSET Requests]
    BY DEF BaseOK
  <2> QED BY <2>1, <2>2
<1>3. IF wpc'[w] \in Busy THEN One(wreq'[w]) ELSE wreq'[w] = {}
  <2>1. CASE WorkerTop(w) \/ WorkerWoken(w)
    <3>1. wreq[w] = {}
      BY <2>1 DEF Control, WorkerTop, WorkerWoken, Busy
    <3> QED BY <2>1, <3>1 DEF BaseOK, WorkerTop, WorkerWoken, TakeOrWait, ThreadEnds, WorkerAt,
                              Busy, One
  <2>2. CASE ProcessRequest(w) \/ WorkerSpurious(w)
    BY SMT, <2>2 DEF BaseOK, Control, ProcessRequest, WorkerSpurious, WorkerAt, Busy
  <2>3. CASE HandleRead(w)
    BY <2>3 DEF BaseOK, Control, HandleRead, WorkerAt, Busy
  <2>4. CASE WorkerFinish(w)
    BY <2>4 DEF BaseOK, WorkerFinish, WorkerAt, Busy
  <2> QED BY <2>1, <2>2, <2>3, <2>4 DEF Worker
<1> QED BY <1>1, <1>2, <1>3 DEF Control

\* The handlers, the transport and the peers.
LEMMA ControlConn ==
  ASSUME BaseOK, Control, NEW c \in Conns, Handler(c) \/ Transport(c) \/ Peer(c)
  PROVE  Control'
<1>1. CASE HandlerEvents(c)
  <2>1. UNCHANGED <<conn, wpc, wreq, npc, nreq, njoin>> /\ hpc[c] = "epoll"
    BY <1>1 DEF HandlerEvents
  <2>2. \A d \in Conns \ {c} : hpc'[d] = hpc[d] /\ hreq'[d] = hreq[d]
    BY <1>1 DEF BaseOK, HandlerEvents, HandlerAt
  <2>3. IF hpc'[c] \in {"status", "last"} THEN One(hreq'[c]) ELSE hreq'[c] = {}
    <3>1. hpc \in [Conns -> {"none", "deaf", "epoll", "status", "last", "exited"}]
          /\ hreq \in [Conns -> SUBSET Requests] /\ hreq[c] = {}
      BY <2>1 DEF BaseOK, Control
    <3>2. \/ /\ hreq' = [hreq EXCEPT ![c] = {Head(pipe[c])}]
             /\ \E l \in {"last", "status"} : hpc' = [hpc EXCEPT ![c] = l]
          \/ UNCHANGED hreq /\ hpc' = [hpc EXCEPT ![c] = "exited"]
      BY <1>1 DEF HandlerEvents, HandlerAt
    <3> QED BY <3>1, <3>2 DEF One
  <2> QED BY <2>1, <2>2, <2>3 DEF Control
<1>2. CASE HandlerFinish(c)
  BY <1>2 DEF BaseOK, Control, HandlerFinish, HandlerAt
<1>3. CASE OnMsgSendComplete(c)
  BY <1>3 DEF BaseOK, Control, OnMsgSendComplete, FreeRequest, Destroy, One
<1>4. CASE CreateSessionConnection(c)
  BY SMT, <1>4 DEF BaseOK, Control, CreateSessionConnection, HandlerAt, NewHandler
<1>5. CASE DestroySessionConnection(c)
  BY <1>5 DEF BaseOK, Control, DestroySessionConnection, Destroy, One
<1>6. ASSUME NEW r \in Requests, OnRequest(c, r)
      PROVE  Control'
  BY <1>6 DEF BaseOK, Control, OnRequest, One
<1>7. CASE ReplyDropped(c)
  BY <1>7 DEF Control, ReplyDropped
<1> QED BY <1>1, <1>2, <1>3, <1>4, <1>5, <1>6, <1>7 DEF Handler, Transport, Peer

\* work_schedule creates threads, and wakes one that waits.
LEMMA ScheduleThreads ==
  ASSUME BaseOK, WorkSchedule
  PROVE  /\ \A w \in Workers : wpc'[w] \in Busy <=> wpc[w] \in Busy
         /\ \E new \in SUBSET {w \in Workers : wpc[w] = "none"} :
              /\ Cardinality(new) = IF NeedToGrow THEN nrThreads ELSE 0
              /\ \A w \in Workers : wpc'[w] # "none" <=> wpc[w] # "none" \/ w \in new
<1>1. PICK new \in SUBSET {w \in Workers : wpc[w] = "none"} :
        /\ Cardinality(new) = IF NeedToGrow THEN nrThreads ELSE 0
        /\ wpc' \in Notified([w \in Workers |-> IF w \in new THEN "top" ELSE wpc[w]])
  BY DEF WorkSchedule
<1> DEFINE p == [w \in Workers |-> IF w \in new THEN "top" ELSE wpc[w]]
<1>2. /\ \A w \in Workers : p[w] \in Busy <=> wpc[w] \in Busy
      /\ \A w \in Workers : p[w] # "none" <=> wpc[w] # "none" \/ w \in new
  BY DEF Busy
<1>3. wpc' = p \/ \E w \in Workers : p[w] = "wait" /\ wpc' = [p EXCEPT ![w] = "woken"]
  BY <1>1 DEF Notified
<1>4. p \in [Workers -> WorkerLabels]
  BY DEF BaseOK, WorkerLabels
<1> HIDE DEF p
<1>5. \A w \in Workers : /\ wpc'[w] \in Busy <=> p[w] \in Busy
                         /\ wpc'[w] # "none" <=> p[w] # "none"
  BY <1>3, <1>4 DEF Busy
<1> QED BY <1>1, <1>2, <1>5

\* The network thread.
LEMMA ControlNetwork ==
  ASSUME BaseOK, Control, NetworkThread
  PROVE  Control'
<1>1. CASE CreateThread
  BY <1>1 DEF BaseOK, Control, CreateThread, WorkerAt, Busy
<1>2. CASE WorkSchedule
  <2>1. \A w \in Workers : wpc'[w] \in Busy <=> wpc[w] \in Busy
    BY <1>2, ScheduleThreads
  <2>2. UNCHANGED <<conn, wreq, hpc, hreq, njoin>> /\ npc = "schedule" /\ npc' = "run" /\ nreq' = {}
    BY <1>2 DEF WorkSchedule
  <2> QED BY <2>1, <2>2 DEF Control
<1>3. CASE JoinHandler
  BY <1>3 DEF BaseOK, Control, JoinHandler
<1>4. CASE SendReplyFails
  BY <1>4 DEF BaseOK, Control, SendReplyFails, FreeRequest, Destroy, One
<1>5. CASE CountThread \/ Started \/ Drained \/ ContextReset \/ ServiceDestroy
           \/ ServiceDestroyed \/ EvfdStopLoop \/ LoopReturns \/ SendReply
  BY <1>5 DEF Control, CountThread, Started, Drained, ContextReset, ServiceDestroy, ServiceDestroyed,
              EvfdStopLoop, LoopReturns, SendReply
<1> QED BY <1>1, <1>2, <1>3, <1>4, <1>5 DEF NetworkThread

\* Every step.
LEMMA ControlStep == BaseOK /\ Control /\ [Next]_vars => Control'
<1> SUFFICES ASSUME BaseOK, Control, [Next]_vars PROVE Control'
  OBVIOUS
<1>1. CASE WakeWorkers
  <2>1. \A w \in Workers : wpc'[w] \in Busy <=> wpc[w] \in Busy
    BY <1>1 DEF BaseOK, WakeWorkers, Busy
  <2>2. UNCHANGED <<conn, wreq, hpc, hreq, npc, nreq, njoin>>
    BY <1>1 DEF WakeWorkers
  <2> QED BY <2>1, <2>2 DEF Control
<1>2. CASE TimePasses \/ Shutdown \/ WorkersGone \/ ShutdownStop \/ ShutdownWait \/ UNCHANGED vars
  BY <1>2 DEF Control, TimePasses, Shutdown, WorkersGone, ShutdownStop, ShutdownWait, vars
<1>3. ASSUME NEW r \in Requests, EngineReports(r)
      PROVE  Control'
  BY <1>3 DEF Control, EngineReports
<1>4. CASE EngineStuck
  BY <1>4 DEF Control, EngineStuck
<1> QED BY <1>1, <1>2, <1>3, <1>4, ControlWorker, ControlConn, ControlNetwork
        DEF Next, ShuttingDown, Quiescent

-----------------------------------------------------------------------------
(***************************************************************************)
(* Queues as sets.                                                         *)
(***************************************************************************)
Elems(q) == {q[i] : i \in 1..Len(q)}
Injective(q) == \A i, j \in 1..Len(q) : q[i] = q[j] => i = j

\* Putting a request that is not there into a queue.
LEMMA PutElems ==
  ASSUME NEW q \in Seq(Requests), NEW r \in Requests
  PROVE  /\ Elems(Append(q, r)) = Elems(q) \cup {r}
         /\ Injective(q) /\ r \notin Elems(q) => Injective(Append(q, r))
<1>1. /\ Len(Append(q, r)) = Len(q) + 1 /\ Len(q) \in Nat
      /\ \A i \in 1..(Len(q) + 1) : Append(q, r)[i] = IF i = Len(q) + 1 THEN r ELSE q[i]
  BY SMT
<1>2. Elems(Append(q, r)) = Elems(q) \cup {r}
  BY SMT, <1>1 DEF Elems
<1>3. Injective(q) /\ r \notin Elems(q) => Injective(Append(q, r))
  BY SMT, <1>1 DEF Elems, Injective
<1> QED BY <1>2, <1>3

\* Taking the first request of a queue.
LEMMA TakeElems ==
  ASSUME NEW q \in Seq(Requests), q # <<>>, Injective(q)
  PROVE  /\ Head(q) \in Elems(q) /\ Head(q) \in Requests /\ Tail(q) \in Seq(Requests)
         /\ Elems(Tail(q)) = Elems(q) \ {Head(q)}
         /\ Injective(Tail(q))
<1>1. /\ Len(q) \in Nat \ {0} /\ Head(q) = q[1] /\ Len(Tail(q)) = Len(q) - 1
      /\ \A i \in 1..(Len(q) - 1) : Tail(q)[i] = q[i + 1]
      /\ Head(q) \in Requests /\ Tail(q) \in Seq(Requests)
  BY SMT
<1>2. Head(q) \in Elems(q)
  BY SMT, <1>1 DEF Elems
<1>3. ASSUME NEW x \in Elems(q), x # Head(q) PROVE x \in Elems(Tail(q))
  <2>1. PICK i \in 1..Len(q) : q[i] = x
    BY DEF Elems
  <2>2. i - 1 \in 1..(Len(q) - 1) /\ Tail(q)[i - 1] = x
    BY SMT, <1>1, <1>3, <2>1
  <2> QED BY <1>1, <2>2 DEF Elems
<1>4. ASSUME NEW x \in Elems(Tail(q)) PROVE x \in Elems(q) /\ x # Head(q)
  <2>1. PICK i \in 1..(Len(q) - 1) : Tail(q)[i] = x
    BY <1>1 DEF Elems
  <2>2. i + 1 \in 1..Len(q) /\ q[i + 1] = x /\ i + 1 # 1
    BY SMT, <1>1, <2>1
  <2> QED BY SMT, <1>1, <2>2 DEF Elems, Injective
<1>5. Injective(Tail(q))
  BY SMT, <1>1 DEF Injective
<1> QED BY <1>1, <1>2, <1>3, <1>4, <1>5

-----------------------------------------------------------------------------
(***************************************************************************)
(* The places a request can be in.                                         *)
(***************************************************************************)
Place(r, k) ==
  \/ k = 1 /\ r \in nreq
  \/ k = 2 /\ r \in Elems(inflight)
  \/ k = 3 /\ \E w \in Workers : r \in wreq[w]
  \/ k = 4 /\ r \in io
  \/ k = 5 /\ \E c \in Conns : r \in Elems(pipe[c])
  \/ k = 6 /\ \E c \in Conns : r \in hreq[c]
  \/ k = 7 /\ r \in Elems(finished)
  \/ k = 8 /\ \E c \in Conns : r \in Elems(doneReqs[c])

\* No queue has a request twice.
NoDoubles ==
  /\ Injective(inflight) /\ Injective(finished)
  /\ \A c \in Conns : Injective(pipe[c]) /\ Injective(doneReqs[c])

\* No two workers have the same request.
OneWorker ==
  \A v, w \in Workers : \A r \in Requests : r \in wreq[v] /\ r \in wreq[w] => v = w

\* The pipe, the handler and the replies of a connection have only its own
\* requests.
OwnRequests ==
  \A c \in Conns : \A r \in Requests :
    r \in Elems(pipe[c]) \/ r \in hreq[c] \/ r \in Elems(doneReqs[c]) => owner[r] = {c}

Once == NoDoubles /\ OneWorker /\ OwnRequests

\* A request that is allocated is in one place and belongs to one connection.
Placed ==
  \A r \in Requests :
    /\ \A k, l \in 1..8 : Place(r, k) /\ Place(r, l) => k = l
    /\ live[r] <=> \E k \in 1..8 : Place(r, k)
    /\ live[r] => \E c \in Conns : owner[r] = {c}

Held == Once /\ Placed

\* A request goes from one place to another.
LEMMA Move ==
  ASSUME Placed, NEW r \in Requests, NEW a \in 1..8, NEW b \in 1..8, Place(r, a),
         UNCHANGED <<live, owner>>,
         \A s \in Requests \ {r} : \A k \in 1..8 : Place(s, k)' <=> Place(s, k),
         \A k \in 1..8 : Place(r, k)' <=> k = b
  PROVE  Placed'
<1> SUFFICES ASSUME NEW s \in Requests
             PROVE  /\ \A k, l \in 1..8 : Place(s, k)' /\ Place(s, l)' => k = l
                    /\ live[s] <=> \E k \in 1..8 : Place(s, k)'
                    /\ live[s] => \E c \in Conns : owner[s] = {c}
  BY DEF Placed
<1>1. CASE s = r
  BY <1>1 DEF Placed
<1>2. CASE s # r
  BY <1>2 DEF Placed
<1> QED BY <1>1, <1>2

\* Nothing is held at first.
LEMMA HeldInit == Init => Held
<1> SUFFICES ASSUME Init PROVE Held
  OBVIOUS
<1>1. Elems(<<>>) = {} /\ Injective(<<>>)
  BY SMT DEF Elems, Injective
<1>2. Once
  BY <1>1 DEF Init, Once, NoDoubles, OneWorker, OwnRequests
<1>3. Placed
  BY SMT, <1>1 DEF Init, Placed, Place
<1> QED BY <1>2, <1>3 DEF Held

\* A request is allocated.
LEMMA Enter ==
  ASSUME Placed, NEW r \in Requests, NEW b \in 1..8, NEW c \in Conns, ~live[r],
         live' = [live EXCEPT ![r] = TRUE], owner' = [owner EXCEPT ![r] = {c}], BaseOK,
         \A s \in Requests \ {r} : \A k \in 1..8 : Place(s, k)' <=> Place(s, k),
         \A k \in 1..8 : Place(r, k)' <=> k = b
  PROVE  Placed'
<1> SUFFICES ASSUME NEW s \in Requests
             PROVE  /\ \A k, l \in 1..8 : Place(s, k)' /\ Place(s, l)' => k = l
                    /\ live'[s] <=> \E k \in 1..8 : Place(s, k)'
                    /\ live'[s] => \E d \in Conns : owner'[s] = {d}
  BY DEF Placed
<1>1. CASE s = r
  BY <1>1 DEF BaseOK
<1>2. CASE s # r
  BY <1>2 DEF Placed, BaseOK
<1> QED BY <1>1, <1>2

\* A request is freed.
LEMMA Leave ==
  ASSUME Placed, NEW r \in Requests, live' = [live EXCEPT ![r] = FALSE], UNCHANGED owner, BaseOK,
         \A s \in Requests \ {r} : \A k \in 1..8 : Place(s, k)' <=> Place(s, k),
         \A k \in 1..8 : ~Place(r, k)'
  PROVE  Placed'
<1> SUFFICES ASSUME NEW s \in Requests
             PROVE  /\ \A k, l \in 1..8 : Place(s, k)' /\ Place(s, l)' => k = l
                    /\ live'[s] <=> \E k \in 1..8 : Place(s, k)'
                    /\ live'[s] => \E d \in Conns : owner[s] = {d}
  BY DEF Placed
<1>1. CASE s = r
  BY <1>1 DEF BaseOK
<1>2. CASE s # r
  BY <1>2 DEF Placed, BaseOK
<1> QED BY <1>1, <1>2

\* What each place is.
LEMMA PlaceIs ==
  ASSUME NEW r
  PROVE  /\ Place(r, 1) <=> r \in nreq
         /\ Place(r, 2) <=> r \in Elems(inflight)
         /\ Place(r, 3) <=> \E w \in Workers : r \in wreq[w]
         /\ Place(r, 4) <=> r \in io
         /\ Place(r, 5) <=> \E c \in Conns : r \in Elems(pipe[c])
         /\ Place(r, 6) <=> \E c \in Conns : r \in hreq[c]
         /\ Place(r, 7) <=> r \in Elems(finished)
         /\ Place(r, 8) <=> \E c \in Conns : r \in Elems(doneReqs[c])
<1>1. Place(r, 1) <=> r \in nreq
  BY SMT DEF Place
<1>2. Place(r, 2) <=> r \in Elems(inflight)
  BY SMT DEF Place
<1>3. Place(r, 3) <=> \E w \in Workers : r \in wreq[w]
  BY SMT DEF Place
<1>4. Place(r, 4) <=> r \in io
  BY SMT DEF Place
<1>5. Place(r, 5) <=> \E c \in Conns : r \in Elems(pipe[c])
  BY SMT DEF Place
<1>6. Place(r, 6) <=> \E c \in Conns : r \in hreq[c]
  BY SMT DEF Place
<1>7. Place(r, 7) <=> r \in Elems(finished)
  BY SMT DEF Place
<1>8. Place(r, 8) <=> \E c \in Conns : r \in Elems(doneReqs[c])
  BY SMT DEF Place
<1> QED BY <1>1, <1>2, <1>3, <1>4, <1>5, <1>6, <1>7, <1>8

\* A request that each place has if it had it.
LEMMA PlaceSame ==
  ASSUME NEW s,
         s \in nreq' <=> s \in nreq,
         s \in Elems(inflight') <=> s \in Elems(inflight),
         (\E w \in Workers : s \in wreq'[w]) <=> \E w \in Workers : s \in wreq[w],
         s \in io' <=> s \in io,
         (\E c \in Conns : s \in Elems(pipe'[c])) <=> \E c \in Conns : s \in Elems(pipe[c]),
         (\E c \in Conns : s \in hreq'[c]) <=> \E c \in Conns : s \in hreq[c],
         s \in Elems(finished') <=> s \in Elems(finished),
         (\E c \in Conns : s \in Elems(doneReqs'[c]))
           <=> \E c \in Conns : s \in Elems(doneReqs[c])
  PROVE  \A k : Place(s, k)' <=> Place(s, k)
<1>1. \A k : Place(s, k)' => Place(s, k)
  BY DEF Place
<1>2. \A k : Place(s, k) => Place(s, k)'
  BY DEF Place
<1> QED BY <1>1, <1>2

\* A request is in none of the places but a.
Apart(r, a) ==
  /\ a # 1 => r \notin nreq
  /\ a # 2 => r \notin Elems(inflight)
  /\ a # 3 => \A w \in Workers : r \notin wreq[w]
  /\ a # 4 => r \notin io
  /\ a # 5 => \A c \in Conns : r \notin Elems(pipe[c])
  /\ a # 6 => \A c \in Conns : r \notin hreq[c]
  /\ a # 7 => r \notin Elems(finished)
  /\ a # 8 => \A c \in Conns : r \notin Elems(doneReqs[c])

\* The requests of the place a are not in the others, and belong to someone.
LEMMA Elsewhere ==
  ASSUME Placed, NEW r \in Requests, NEW a \in 1..8, Place(r, a)
  PROVE  Apart(r, a) /\ \E c \in Conns : owner[r] = {c}
<1>1. \A k \in 1..8 : Place(r, k) => k = a
  BY DEF Placed
<1>2. \E c \in Conns : owner[r] = {c}
  BY DEF Placed
<1>3. Apart(r, a)
  BY SMT, <1>1, PlaceIs DEF Apart
<1> QED BY <1>2, <1>3

\* work_schedule puts the request into the inflight queue.
LEMMA HeldSchedule ==
  ASSUME BaseOK, Control, Held, WorkSchedule
  PROVE  Held'
<1>1. PICK r \in Requests : nreq = {r} /\ inflight' = Append(inflight, r)
  BY DEF BaseOK, Control, One, WorkSchedule
<1>2. nreq' = {} /\ UNCHANGED <<wreq, io, pipe, hreq, finished, doneReqs, live, owner>>
  BY DEF WorkSchedule
<1>3. Place(r, 1)
  BY <1>1 DEF Place
<1>4. /\ r \notin Elems(inflight) /\ \A w \in Workers : r \notin wreq[w]
      /\ r \notin io /\ \A c \in Conns : r \notin Elems(pipe[c])
      /\ \A c \in Conns : r \notin hreq[c] /\ r \notin Elems(doneReqs[c])
      /\ r \notin Elems(finished)
  <2>1. Apart(r, 1)
    <3>1. 1 \in 1..8 /\ Placed
      BY SMT DEF Held
    <3> QED BY <1>3, <3>1, Elsewhere
  <2> QED BY SMT, <2>1 DEF Apart
<1>5. Elems(inflight') = Elems(inflight) \cup {r} /\ Injective(inflight')
  BY <1>1, <1>4, PutElems DEF BaseOK, Held, Once, NoDoubles
<1>6. Placed'
  <2>1. \A s \in Requests \ {r} : \A k \in 1..8 : Place(s, k)' <=> Place(s, k)
    BY SMT, <1>1, <1>2, <1>5 DEF Place
  <2>2. \A k \in 1..8 : Place(r, k)' <=> k = 2
    BY <1>2, <1>4, <1>5 DEF Place
  <2> QED BY SMT, <1>2, <1>3, <2>1, <2>2, Move DEF Held
<1>7. Once'
  <2>1. NoDoubles'
    BY <1>2, <1>5 DEF Held, Once, NoDoubles
  <2>2. OneWorker'
    BY <1>2 DEF Held, Once, OneWorker
  <2>3. OwnRequests'
    BY <1>2 DEF Held, Once, OwnRequests
  <2> QED BY <2>1, <2>2, <2>3 DEF Once
<1> QED BY <1>6, <1>7 DEF Held

\* A worker takes the first request of the inflight queue.
LEMMA HeldTake ==
  ASSUME BaseOK, Control, Held, NEW w \in Workers, wreq[w] = {}, inflight # <<>>,
         inflight' = Tail(inflight), wreq' = [wreq EXCEPT ![w] = {Head(inflight)}],
         UNCHANGED <<nreq, io, pipe, hreq, finished, doneReqs, live, owner>>
  PROVE  Held'
<1>1. PICK r \in Requests :
        /\ r = Head(inflight) /\ r \in Elems(inflight)
        /\ Elems(inflight') = Elems(inflight) \ {r} /\ Injective(inflight')
  BY TakeElems DEF BaseOK, Held, Once, NoDoubles
<1>2. wreq'[w] = {r} /\ \A v \in Workers \ {w} : wreq'[v] = wreq[v]
  BY <1>1 DEF BaseOK
<1>3. Place(r, 2)
  BY <1>1 DEF Place
<1>4. /\ r \notin nreq /\ \A v \in Workers : r \notin wreq[v]
      /\ r \notin io /\ \A c \in Conns : r \notin Elems(pipe[c])
      /\ \A c \in Conns : r \notin hreq[c] /\ r \notin Elems(doneReqs[c])
      /\ r \notin Elems(finished)
  <2>1. Apart(r, 2)
    <3>1. 2 \in 1..8 /\ Placed
      BY SMT DEF Held
    <3> QED BY <1>1, <1>3, <3>1, Elsewhere
  <2> QED BY SMT, <2>1 DEF Apart
<1>5. Placed'
  <2>1. \A s \in Requests \ {r} : (\E v \in Workers : s \in wreq'[v])
                                   <=> \E v \in Workers : s \in wreq[v]
    BY <1>2
  <2>2. \A s \in Requests \ {r} : \A k \in 1..8 : Place(s, k)' <=> Place(s, k)
    BY SMT, <1>1, <2>1 DEF Place
  <2>3. \E v \in Workers : r \in wreq'[v]
    BY <1>2
  <2>4. \A k \in 1..8 : Place(r, k)' <=> k = 3
    BY <1>1, <1>4, <2>3 DEF Place
  <2>5. UNCHANGED <<live, owner>>
    OBVIOUS
  <2> QED BY SMT, <1>1, <1>3, <2>2, <2>4, <2>5, Move DEF Held
<1>6. Once'
  <2>1. NoDoubles'
    BY <1>1 DEF Held, Once, NoDoubles
  <2>2. OneWorker'
    BY SMT, <1>2, <1>4 DEF Held, Once, OneWorker
  <2>3. OwnRequests'
    BY DEF Held, Once, OwnRequests
  <2> QED BY <2>1, <2>2, <2>3 DEF Once
<1> QED BY <1>5, <1>6 DEF Held

\* The engine accepts a read, and has it from then on.
LEMMA HeldSubmit ==
  ASSUME BaseOK, Control, Held, NEW w \in Workers, NEW r \in Requests, wreq[w] = {r},
         io' = io \cup {r}, wreq' = [wreq EXCEPT ![w] = {}],
         UNCHANGED <<nreq, inflight, pipe, hreq, finished, doneReqs, live, owner>>
  PROVE  Held'
<1>1. wreq'[w] = {} /\ \A v \in Workers \ {w} : wreq'[v] = wreq[v]
  BY DEF BaseOK
<1>2. Place(r, 3)
  BY DEF Place
<1>3. /\ r \notin nreq /\ r \notin Elems(inflight)
      /\ r \notin io /\ \A c \in Conns : r \notin Elems(pipe[c])
      /\ \A c \in Conns : r \notin hreq[c] /\ r \notin Elems(doneReqs[c])
      /\ r \notin Elems(finished)
  <2>1. Apart(r, 3)
    <3>1. 3 \in 1..8 /\ Placed
      BY SMT DEF Held
    <3> QED BY <1>2, <3>1, Elsewhere
  <2> QED BY SMT, <2>1 DEF Apart
<1>4. Placed'
  <2>1. \A s \in Requests \ {r} : (\E v \in Workers : s \in wreq'[v])
                                   <=> \E v \in Workers : s \in wreq[v]
    BY <1>1
  <2>2. \A s \in Requests \ {r} : \A k \in 1..8 : Place(s, k)' <=> Place(s, k)
    BY SMT, <2>1 DEF Place
  <2>3. \A v \in Workers : r \notin wreq'[v]
    BY <1>1 DEF Held, Once, OneWorker
  <2>4. \A k \in 1..8 : Place(r, k)' <=> k = 4
    BY <1>3, <2>3 DEF Place
  <2>5. UNCHANGED <<live, owner>>
    OBVIOUS
  <2> QED BY SMT, <1>2, <2>2, <2>4, <2>5, Move DEF Held
<1>5. Once'
  <2>1. NoDoubles'
    BY DEF Held, Once, NoDoubles
  <2>2. OneWorker'
    BY <1>1 DEF Held, Once, OneWorker
  <2>3. OwnRequests'
    BY DEF Held, Once, OwnRequests
  <2> QED BY <2>1, <2>2, <2>3 DEF Once
<1> QED BY <1>4, <1>5 DEF Held

\* A worker finishes a request.
LEMMA HeldFinish ==
  ASSUME BaseOK, Control, Held, NEW w \in Workers, NEW r \in Requests, wreq[w] = {r},
         finished' = Append(finished, r), wreq' = [wreq EXCEPT ![w] = {}],
         UNCHANGED <<nreq, inflight, io, pipe, hreq, doneReqs, live, owner>>
  PROVE  Held'
<1>1. wreq'[w] = {} /\ \A v \in Workers \ {w} : wreq'[v] = wreq[v]
  BY DEF BaseOK
<1>2. Place(r, 3)
  BY DEF Place
<1>3. /\ r \notin nreq /\ r \notin Elems(inflight)
      /\ r \notin io /\ \A c \in Conns : r \notin Elems(pipe[c])
      /\ \A c \in Conns : r \notin hreq[c] /\ r \notin Elems(doneReqs[c])
      /\ r \notin Elems(finished)
  <2>1. Apart(r, 3)
    <3>1. 3 \in 1..8 /\ Placed
      BY SMT DEF Held
    <3> QED BY <1>2, <3>1, Elsewhere
  <2> QED BY SMT, <2>1 DEF Apart
<1>4. Elems(finished') = Elems(finished) \cup {r} /\ Injective(finished')
  BY <1>3, PutElems DEF BaseOK, Held, Once, NoDoubles
<1>5. Placed'
  <2>1. \A s \in Requests \ {r} : (\E v \in Workers : s \in wreq'[v])
                                   <=> \E v \in Workers : s \in wreq[v]
    BY <1>1
  <2>2. \A s \in Requests \ {r} : \A k \in 1..8 : Place(s, k)' <=> Place(s, k)
    BY SMT, <1>4, <2>1 DEF Place
  <2>3. \A v \in Workers : r \notin wreq'[v]
    BY <1>1 DEF Held, Once, OneWorker
  <2>4. \A k \in 1..8 : Place(r, k)' <=> k = 7
    BY <1>3, <1>4, <2>3 DEF Place
  <2>5. UNCHANGED <<live, owner>>
    OBVIOUS
  <2> QED BY SMT, <1>2, <2>2, <2>4, <2>5, Move DEF Held
<1>6. Once'
  <2>1. NoDoubles'
    BY <1>4 DEF Held, Once, NoDoubles
  <2>2. OneWorker'
    BY <1>1 DEF Held, Once, OneWorker
  <2>3. OwnRequests'
    BY DEF Held, Once, OwnRequests
  <2> QED BY <2>1, <2>2, <2>3 DEF Once
<1> QED BY <1>5, <1>6 DEF Held

\* The engine reports a read on the pipe of its connection.
LEMMA HeldReport ==
  ASSUME BaseOK, Held, NEW r \in Requests, EngineReports(r)
  PROVE  Held'
<1>1. /\ r \in io /\ io' = io \ {r}
      /\ UNCHANGED <<nreq, inflight, wreq, hreq, finished, doneReqs, live, owner>>
  BY DEF EngineReports
<1>2. Place(r, 4)
  BY <1>1 DEF Place
<1>3. /\ r \notin nreq /\ r \notin Elems(inflight)
      /\ \A w \in Workers : r \notin wreq[w]
      /\ \A c \in Conns : r \notin Elems(pipe[c])
      /\ \A c \in Conns : r \notin hreq[c] /\ r \notin Elems(doneReqs[c])
      /\ r \notin Elems(finished)
  <2>1. Apart(r, 4)
    <3>1. 4 \in 1..8 /\ Placed
      BY SMT DEF Held
    <3> QED BY <1>2, <3>1, Elsewhere
  <2> QED BY SMT, <2>1 DEF Apart
<1>4. PICK c \in Conns : owner[r] = {c}
  <2>1. 4 \in 1..8 /\ Placed
    BY SMT DEF Held
  <2> QED BY <1>2, <2>1, Elsewhere
<1>5. pipe'[c] = Append(pipe[c], r) /\ \A d \in Conns \ {c} : pipe'[d] = pipe[d]
  BY <1>4 DEF EngineReports
<1>6. Elems(pipe'[c]) = Elems(pipe[c]) \cup {r} /\ Injective(pipe'[c])
  BY SMT, <1>3, <1>5, PutElems DEF BaseOK, Held, Once, NoDoubles
<1>7. Placed'
  <2>1. \A s \in Requests \ {r} : (\E d \in Conns : s \in Elems(pipe'[d]))
                                   <=> \E d \in Conns : s \in Elems(pipe[d])
    BY <1>5, <1>6
  <2>2. \A s \in Requests \ {r} : \A k \in 1..8 : Place(s, k)' <=> Place(s, k)
    BY SMT, <1>1, <2>1 DEF Place
  <2>3. \E d \in Conns : r \in Elems(pipe'[d])
    BY <1>6
  <2>4. \A k \in 1..8 : Place(r, k)' <=> k = 5
    BY <1>1, <1>3, <2>3 DEF Place
  <2> QED BY SMT, <1>1, <1>2, <2>2, <2>4, Move DEF Held
<1>8. Once'
  <2>1. NoDoubles'
    BY <1>1, <1>5, <1>6 DEF Held, Once, NoDoubles
  <2>2. OneWorker'
    BY <1>1 DEF Held, Once, OneWorker
  <2>3. OwnRequests'
    BY <1>1, <1>4, <1>5, <1>6 DEF Held, Once, OwnRequests
  <2> QED BY <2>1, <2>2, <2>3 DEF Once
<1> QED BY <1>7, <1>8 DEF Held

\* The completion thread reads a status from its pipe.
LEMMA HeldStatus ==
  ASSUME BaseOK, Held, NEW c \in Conns, hreq[c] = {}, pipe[c] # <<>>,
         hreq' = [hreq EXCEPT ![c] = {Head(pipe[c])}], pipe' = [pipe EXCEPT ![c] = Tail(@)],
         UNCHANGED <<nreq, inflight, wreq, io, finished, doneReqs, live, owner>>
  PROVE  Held'
<1>1. PICK r \in Requests :
        /\ r = Head(pipe[c]) /\ r \in Elems(pipe[c])
        /\ Elems(Tail(pipe[c])) = Elems(pipe[c]) \ {r} /\ Injective(Tail(pipe[c]))
  BY TakeElems DEF BaseOK, Held, Once, NoDoubles
<1>2. /\ hreq'[c] = {r} /\ \A d \in Conns \ {c} : hreq'[d] = hreq[d]
      /\ pipe'[c] = Tail(pipe[c]) /\ \A d \in Conns \ {c} : pipe'[d] = pipe[d]
  BY <1>1 DEF BaseOK
<1>3. Elems(pipe'[c]) = Elems(pipe[c]) \ {r} /\ Injective(pipe'[c])
  BY <1>1, <1>2
<1>4. Place(r, 5) /\ owner[r] = {c}
  BY <1>1 DEF Place, Held, Once, OwnRequests
<1>5. /\ r \notin nreq /\ r \notin Elems(inflight)
      /\ \A w \in Workers : r \notin wreq[w]
      /\ r \notin io
      /\ \A d \in Conns : r \notin hreq[d] /\ r \notin Elems(doneReqs[d])
      /\ r \notin Elems(finished)
  <2>1. Apart(r, 5)
    <3>1. 5 \in 1..8 /\ Placed
      BY SMT DEF Held
    <3> QED BY <1>4, <3>1, Elsewhere
  <2> QED BY SMT, <2>1 DEF Apart
<1>6. Placed'
  <2>1. \A s \in Requests \ {r} :
          /\ (\E d \in Conns : s \in Elems(pipe'[d])) <=> \E d \in Conns : s \in Elems(pipe[d])
          /\ (\E d \in Conns : s \in hreq'[d]) <=> \E d \in Conns : s \in hreq[d]
    BY <1>2, <1>3
  <2>2. \A s \in Requests \ {r} : \A k \in 1..8 : Place(s, k)' <=> Place(s, k)
    BY SMT, <2>1 DEF Place
  <2>3. \A d \in Conns : r \notin Elems(pipe'[d])
    <3>1. \A d \in Conns : r \in Elems(pipe[d]) => owner[r] = {d}
      BY DEF Held, Once, OwnRequests
    <3> QED BY <1>2, <1>3, <1>4, <3>1
  <2>4. \E d \in Conns : r \in hreq'[d]
    BY <1>2
  <2>5. \A k \in 1..8 : Place(r, k)' <=> k = 6
    BY <1>5, <2>3, <2>4 DEF Place
  <2>6. UNCHANGED <<live, owner>>
    OBVIOUS
  <2> QED BY SMT, <1>4, <2>2, <2>5, <2>6, Move DEF Held
<1>7. Once'
  <2>1. NoDoubles'
    BY <1>2, <1>3 DEF Held, Once, NoDoubles
  <2>2. OneWorker'
    BY DEF Held, Once, OneWorker
  <2>3. OwnRequests'
    BY SMT, <1>2, <1>3, <1>4 DEF Held, Once, OwnRequests
  <2> QED BY <2>1, <2>2, <2>3 DEF Once
<1> QED BY <1>6, <1>7 DEF Held

-----------------------------------------------------------------------------
(***************************************************************************)
(* The places a request can be in: the network thread.                     *)
(***************************************************************************)
\* The completion thread finishes a read.
LEMMA HeldComplete ==
  ASSUME BaseOK, Held, NEW c \in Conns, NEW r \in Requests, hreq[c] = {r},
         finished' = Append(finished, r), hreq' = [hreq EXCEPT ![c] = {}],
         UNCHANGED <<nreq, inflight, wreq, io, pipe, doneReqs, live, owner>>
  PROVE  Held'
<1>1. hreq'[c] = {} /\ \A d \in Conns \ {c} : hreq'[d] = hreq[d]
  BY DEF BaseOK
<1>2. Place(r, 6) /\ owner[r] = {c}
  BY DEF Place, Held, Once, OwnRequests
<1>3. /\ r \notin nreq /\ r \notin Elems(inflight)
      /\ \A w \in Workers : r \notin wreq[w]
      /\ r \notin io
      /\ \A d \in Conns : r \notin Elems(pipe[d]) /\ r \notin Elems(doneReqs[d])
      /\ r \notin Elems(finished)
  <2>1. Apart(r, 6)
    <3>1. 6 \in 1..8 /\ Placed
      BY SMT DEF Held
    <3> QED BY <1>2, <3>1, Elsewhere
  <2> QED BY SMT, <2>1 DEF Apart
<1>4. Elems(finished') = Elems(finished) \cup {r} /\ Injective(finished')
  BY <1>3, PutElems DEF BaseOK, Held, Once, NoDoubles
<1>5. Placed'
  <2>1. \A s \in Requests \ {r} : (\E d \in Conns : s \in hreq'[d])
                                   <=> \E d \in Conns : s \in hreq[d]
    BY <1>1
  <2>2. \A s \in Requests \ {r} : \A k \in 1..8 : Place(s, k)' <=> Place(s, k)
    BY SMT, <1>4, <2>1 DEF Place
  <2>3. \A d \in Conns : r \notin hreq'[d]
    <3>1. \A d \in Conns : r \in hreq[d] => owner[r] = {d}
      BY DEF Held, Once, OwnRequests
    <3> QED BY <1>1, <1>2, <3>1
  <2>4. \A k \in 1..8 : Place(r, k)' <=> k = 7
    BY <1>3, <1>4, <2>3 DEF Place
  <2>5. UNCHANGED <<live, owner>>
    OBVIOUS
  <2> QED BY SMT, <1>2, <2>2, <2>4, <2>5, Move DEF Held
<1>6. Once'
  <2>1. NoDoubles'
    BY <1>4 DEF Held, Once, NoDoubles
  <2>2. OneWorker'
    BY DEF Held, Once, OneWorker
  <2>3. OwnRequests'
    BY <1>1 DEF Held, Once, OwnRequests
  <2> QED BY <2>1, <2>2, <2>3 DEF Once
<1> QED BY <1>5, <1>6 DEF Held

\* A reply is sent.
LEMMA HeldSend ==
  ASSUME BaseOK, Held, SendReply
  PROVE  Held'
<1>1. PICK r \in Requests :
        /\ r = Head(finished) /\ r \in Elems(finished)
        /\ Elems(finished') = Elems(finished) \ {r} /\ Injective(finished')
  BY TakeElems DEF BaseOK, Held, Once, NoDoubles, SendReply
<1>2. UNCHANGED <<nreq, inflight, wreq, io, pipe, hreq, live, owner>>
  BY DEF SendReply
<1>3. Place(r, 7)
  BY <1>1 DEF Place
<1>4. /\ r \notin nreq /\ r \notin Elems(inflight)
      /\ \A w \in Workers : r \notin wreq[w]
      /\ r \notin io
      /\ \A d \in Conns : r \notin Elems(pipe[d]) /\ r \notin hreq[d] /\ r \notin Elems(doneReqs[d])
  <2>1. Apart(r, 7)
    <3>1. 7 \in 1..8 /\ Placed
      BY SMT DEF Held
    <3> QED BY <1>3, <3>1, Elsewhere
  <2> QED BY SMT, <2>1 DEF Apart
<1>5. PICK c \in Conns : owner[r] = {c}
  <2>1. 7 \in 1..8 /\ Placed
    BY SMT DEF Held
  <2> QED BY <1>3, <2>1, Elsewhere
<1>6. doneReqs'[c] = Append(doneReqs[c], r) /\ \A d \in Conns \ {c} : doneReqs'[d] = doneReqs[d]
  BY <1>1, <1>5 DEF SendReply
<1>7. Elems(doneReqs'[c]) = Elems(doneReqs[c]) \cup {r} /\ Injective(doneReqs'[c])
  BY SMT, <1>4, <1>6, PutElems DEF BaseOK, Held, Once, NoDoubles
<1>8. Placed'
  <2>1. \A s \in Requests \ {r} : (\E d \in Conns : s \in Elems(doneReqs'[d]))
                                   <=> \E d \in Conns : s \in Elems(doneReqs[d])
    BY <1>6, <1>7
  <2>2. \A s \in Requests \ {r} : \A k \in 1..8 : Place(s, k)' <=> Place(s, k)
    <3> SUFFICES ASSUME NEW s \in Requests \ {r} PROVE \A k : Place(s, k)' <=> Place(s, k)
      OBVIOUS
    <3>1. s \in Elems(finished') <=> s \in Elems(finished)
      BY <1>1
    <3> QED BY <1>2, <2>1, <3>1, PlaceSame
  <2>3. \E d \in Conns : r \in Elems(doneReqs'[d])
    BY <1>7
  <2>4. \A k \in 1..8 : Place(r, k)' <=> k = 8
    BY <1>1, <1>2, <1>4, <2>3 DEF Place
  <2> QED BY SMT, <1>2, <1>3, <2>2, <2>4, Move DEF Held
<1>9. Once'
  <2>1. NoDoubles'
    BY <1>1, <1>2, <1>6, <1>7 DEF Held, Once, NoDoubles
  <2>2. OneWorker'
    BY <1>2 DEF Held, Once, OneWorker
  <2>3. OwnRequests'
    BY <1>2, <1>5, <1>6, <1>7 DEF Held, Once, OwnRequests
  <2> QED BY <2>1, <2>2, <2>3 DEF Once
<1> QED BY <1>8, <1>9 DEF Held

\* A request is received.
LEMMA HeldRequest ==
  ASSUME BaseOK, Control, Held, NEW c \in Conns, NEW r \in Requests, OnRequest(c, r)
  PROVE  Held'
<1>1. /\ nreq = {} /\ nreq' = {r}
      /\ UNCHANGED <<inflight, wreq, io, pipe, hreq, finished, doneReqs>>
      /\ live' = [live EXCEPT ![r] = TRUE] /\ owner' = [owner EXCEPT ![r] = {c}]
  BY DEF Control, OnRequest, AllocateRequest
<1>2. ~live[r]
  BY DEF OnRequest, Held, Placed
<1>3. \A k \in 1..8 : ~Place(r, k)
  BY <1>2 DEF Held, Placed
<1>4. /\ Place(r, 2) <=> r \in Elems(inflight)
      /\ Place(r, 3) <=> \E w \in Workers : r \in wreq[w]
      /\ Place(r, 4) <=> r \in io
      /\ Place(r, 5) <=> \E d \in Conns : r \in Elems(pipe[d])
      /\ Place(r, 6) <=> \E d \in Conns : r \in hreq[d]
      /\ Place(r, 7) <=> r \in Elems(finished)
      /\ Place(r, 8) <=> \E d \in Conns : r \in Elems(doneReqs[d])
  BY PlaceIs
<1>5. Placed'
  <2>1. \A s \in Requests \ {r} : \A k \in 1..8 : Place(s, k)' <=> Place(s, k)
    BY SMT, <1>1 DEF Place
  <2>2. \A k \in 1..8 : Place(r, k)' <=> k = 1
    BY <1>1, <1>3, <1>4 DEF Place
  <2>3. live' = [live EXCEPT ![r] = TRUE] /\ owner' = [owner EXCEPT ![r] = {c}]
    BY <1>1
  <2>4. Placed /\ 1 \in 1..8
    BY SMT DEF Held
  <2> QED BY <1>2, <2>1, <2>2, <2>3, <2>4, Enter
<1>6. Once'
  <2>1. \A d \in Conns : r \notin Elems(pipe[d]) /\ r \notin hreq[d] /\ r \notin Elems(doneReqs[d])
    BY SMT, <1>3, <1>4
  <2>2. \A s \in Requests \ {r} : owner'[s] = owner[s]
    BY <1>1 DEF BaseOK
  <2>3. NoDoubles'
    BY <1>1 DEF Held, Once, NoDoubles
  <2>4. OneWorker'
    BY <1>1 DEF Held, Once, OneWorker
  <2>5. OwnRequests'
    BY <1>1, <2>1, <2>2 DEF Held, Once, OwnRequests
  <2> QED BY <2>3, <2>4, <2>5 DEF Once
<1> QED BY <1>5, <1>6 DEF Held

\* The transport has completed a reply: its request is freed.
LEMMA HeldSent ==
  ASSUME BaseOK, Owed, Held, NEW c \in Conns, OnMsgSendComplete(c)
  PROVE  Held'
<1>1. PICK r \in Requests :
        /\ r = Head(doneReqs[c]) /\ r \in Elems(doneReqs[c])
        /\ Elems(Tail(doneReqs[c])) = Elems(doneReqs[c]) \ {r} /\ Injective(Tail(doneReqs[c]))
  BY TakeElems, AnsweredOnFile DEF BaseOK, Held, Once, NoDoubles
<1>2. /\ UNCHANGED <<nreq, inflight, wreq, io, pipe, hreq, finished, owner>>
      /\ live' = [live EXCEPT ![r] = FALSE]
  BY <1>1 DEF OnMsgSendComplete, FreeRequest
<1>3. doneReqs'[c] = Tail(doneReqs[c]) /\ \A d \in Conns \ {c} : doneReqs'[d] = doneReqs[d]
  BY DEF BaseOK, OnMsgSendComplete
<1>4. Elems(doneReqs'[c]) = Elems(doneReqs[c]) \ {r} /\ Injective(doneReqs'[c])
  BY <1>1, <1>3
<1>5. Place(r, 8) /\ owner[r] = {c}
  BY <1>1 DEF Place, Held, Once, OwnRequests
<1>6. /\ r \notin nreq /\ r \notin Elems(inflight)
      /\ \A w \in Workers : r \notin wreq[w]
      /\ r \notin io
      /\ \A d \in Conns : r \notin Elems(pipe[d]) /\ r \notin hreq[d]
      /\ r \notin Elems(finished)
  <2>1. Apart(r, 8)
    <3>1. 8 \in 1..8 /\ Placed
      BY SMT DEF Held
    <3> QED BY <1>5, <3>1, Elsewhere
  <2> QED BY SMT, <2>1 DEF Apart
<1>7. Placed'
  <2>1. \A s \in Requests \ {r} : (\E d \in Conns : s \in Elems(doneReqs'[d]))
                                   <=> \E d \in Conns : s \in Elems(doneReqs[d])
    BY <1>3, <1>4
  <2>2. \A s \in Requests \ {r} : \A k \in 1..8 : Place(s, k)' <=> Place(s, k)
    BY SMT, <1>2, <2>1 DEF Place
  <2>3. \A d \in Conns : r \notin Elems(doneReqs'[d])
    <3>1. \A d \in Conns : r \in Elems(doneReqs[d]) => owner[r] = {d}
      BY DEF Held, Once, OwnRequests
    <3> QED BY <1>3, <1>4, <1>5, <3>1
  <2>4. \A k \in 1..8 : ~Place(r, k)'
    BY <1>2, <1>6, <2>3 DEF Place
  <2> QED BY <1>2, <2>2, <2>4, Leave DEF Held
<1>8. Once'
  <2>1. NoDoubles'
    BY <1>2, <1>3, <1>4 DEF Held, Once, NoDoubles
  <2>2. OneWorker'
    BY <1>2 DEF Held, Once, OneWorker
  <2>3. OwnRequests'
    BY <1>2, <1>3, <1>4 DEF Held, Once, OwnRequests
  <2> QED BY <2>1, <2>2, <2>3 DEF Once
<1> QED BY <1>7, <1>8 DEF Held

\* A reply cannot be sent: its request is freed.
LEMMA HeldUnsent ==
  ASSUME BaseOK, Held, SendReplyFails
  PROVE  Held'
<1>1. PICK r \in Requests :
        /\ r = Head(finished) /\ r \in Elems(finished)
        /\ Elems(finished') = Elems(finished) \ {r} /\ Injective(finished')
  BY TakeElems DEF BaseOK, Held, Once, NoDoubles, SendReplyFails
<1>2. /\ UNCHANGED <<nreq, inflight, wreq, io, pipe, hreq, doneReqs, owner>>
      /\ live' = [live EXCEPT ![r] = FALSE]
  BY <1>1 DEF SendReplyFails, FreeRequest
<1>3. Place(r, 7)
  BY <1>1 DEF Place
<1>4. /\ r \notin nreq /\ r \notin Elems(inflight)
      /\ \A w \in Workers : r \notin wreq[w]
      /\ r \notin io
      /\ \A d \in Conns : r \notin Elems(pipe[d]) /\ r \notin hreq[d] /\ r \notin Elems(doneReqs[d])
  <2>1. Apart(r, 7)
    <3>1. 7 \in 1..8 /\ Placed
      BY SMT DEF Held
    <3> QED BY <1>3, <3>1, Elsewhere
  <2> QED BY SMT, <2>1 DEF Apart
<1>5. Placed'
  <2>1. \A s \in Requests \ {r} : \A k \in 1..8 : Place(s, k)' <=> Place(s, k)
    <3> SUFFICES ASSUME NEW s \in Requests \ {r} PROVE \A k : Place(s, k)' <=> Place(s, k)
      OBVIOUS
    <3>1. s \in Elems(finished') <=> s \in Elems(finished)
      BY <1>1
    <3> QED BY <1>2, <3>1, PlaceSame
  <2>2. \A k \in 1..8 : ~Place(r, k)'
    BY <1>1, <1>2, <1>4 DEF Place
  <2> QED BY <1>2, <2>1, <2>2, Leave DEF Held
<1>6. Once'
  <2>1. NoDoubles'
    BY <1>1, <1>2 DEF Held, Once, NoDoubles
  <2>2. OneWorker'
    BY <1>2 DEF Held, Once, OneWorker
  <2>3. OwnRequests'
    BY <1>2 DEF Held, Once, OwnRequests
  <2> QED BY <2>1, <2>2, <2>3 DEF Once
<1> QED BY <1>5, <1>6 DEF Held

\* The other steps move no request.
heldVars == <<nreq, inflight, wreq, io, pipe, hreq, finished, doneReqs, live, owner>>

\* Every step hands requests on without losing or doubling one.
LEMMA HeldStep == BaseOK /\ Owed /\ Control /\ Held /\ [Next]_vars => Held'
<1> SUFFICES ASSUME BaseOK, Owed, Control, Held, [Next]_vars PROVE Held'
  OBVIOUS
<1>1. CASE UNCHANGED heldVars
  <2>1. NoDoubles' /\ OneWorker' /\ OwnRequests'
    BY <1>1 DEF heldVars, Held, Once, NoDoubles, OneWorker, OwnRequests
  <2>2. \A s, k : Place(s, k)' <=> Place(s, k)
    BY SMT, <1>1 DEF heldVars, Place
  <2>3. Placed'
    BY <1>1, <2>2 DEF heldVars, Held, Placed
  <2> QED BY <2>1, <2>3 DEF Held, Once
<1>2. ASSUME NEW w \in Workers, Worker(w) \/ WorkerSpurious(w)
      PROVE  Held'
  <2>1. CASE WorkerTop(w) \/ WorkerWoken(w)
    <3>1. wreq[w] = {}
      BY <2>1 DEF Control, WorkerTop, WorkerWoken, Busy
    <3>2. CASE UNCHANGED <<inflight, wreq>>
      BY <1>1, <2>1, <3>2 DEF WorkerTop, WorkerWoken, heldVars
    <3>3. CASE /\ inflight # <<>> /\ inflight' = Tail(inflight)
               /\ wreq' = [wreq EXCEPT ![w] = {Head(inflight)}]
      <4>1. UNCHANGED <<nreq, io, pipe, hreq, finished, doneReqs, live, owner>>
        BY <2>1 DEF WorkerTop, WorkerWoken
      <4> QED BY <3>1, <3>3, <4>1, HeldTake
    <3> QED BY <2>1, <3>2, <3>3 DEF WorkerTop, WorkerWoken, ThreadEnds, TakeOrWait
  <2>2. CASE ProcessRequest(w) \/ WorkerSpurious(w)
    BY <1>1, <2>2 DEF ProcessRequest, WorkerSpurious, heldVars
  <2>3. CASE HandleRead(w)
    <3>1. PICK r \in Requests : wreq[w] = {r}
      BY <2>3 DEF BaseOK, Control, HandleRead, Busy, One
    <3>2. UNCHANGED <<nreq, inflight, pipe, hreq, finished, doneReqs, live, owner>>
      BY <2>3 DEF HandleRead
    <3>3. CASE io' = io \cup {r} /\ wreq' = [wreq EXCEPT ![w] = {}]
      BY <3>1, <3>2, <3>3, HeldSubmit
    <3>4. CASE UNCHANGED <<io, wreq>>
      BY <1>1, <3>2, <3>4 DEF heldVars
    <3> QED BY <2>3, <3>1, <3>3, <3>4 DEF HandleRead
  <2>4. CASE WorkerFinish(w)
    <3>1. PICK r \in Requests : wreq[w] = {r} /\ BottomHalf(r)
      BY <2>4 DEF BaseOK, Control, WorkerFinish, Busy, One
    <3>2. UNCHANGED <<nreq, inflight, io, pipe, hreq, doneReqs, live, owner>>
      BY <2>4, <3>1 DEF WorkerFinish, BottomHalf
    <3> QED BY <2>4, <3>1, <3>2, HeldFinish DEF WorkerFinish, BottomHalf
  <2> QED BY <1>2, <2>1, <2>2, <2>3, <2>4 DEF Worker
<1>3. ASSUME NEW c \in Conns, Handler(c) \/ Transport(c) \/ Peer(c)
      PROVE  Held'
  <2>1. CASE HandlerEvents(c)
    <3>1. hreq[c] = {}
      BY <2>1 DEF Control, HandlerEvents
    <3>2. UNCHANGED <<nreq, inflight, wreq, io, finished, doneReqs, live, owner>>
      BY <2>1 DEF HandlerEvents
    <3>3. CASE UNCHANGED <<hreq, pipe>>
      BY <1>1, <3>2, <3>3 DEF heldVars
    <3>4. CASE ~UNCHANGED <<hreq, pipe>>
      BY <2>1, <3>1, <3>2, <3>4, HeldStatus DEF HandlerEvents
    <3> QED BY <3>3, <3>4
  <2>2. CASE HandlerFinish(c)
    <3>1. PICK r \in Requests : hreq[c] = {r} /\ BottomHalf(r)
      BY <2>2 DEF BaseOK, Control, HandlerFinish, One
    <3>2. UNCHANGED <<nreq, inflight, wreq, io, pipe, doneReqs, live, owner>>
      BY <2>2, <3>1 DEF HandlerFinish, BottomHalf
    <3> QED BY <2>2, <3>1, <3>2, HeldComplete DEF HandlerFinish, BottomHalf
  <2>3. CASE CreateSessionConnection(c) \/ DestroySessionConnection(c)
    BY <1>1, <2>3 DEF CreateSessionConnection, DestroySessionConnection, heldVars
  <2>4. CASE ReplyDropped(c)
    BY <1>1, <2>4 DEF ReplyDropped, heldVars
  <2> QED BY <1>3, <2>1, <2>2, <2>3, <2>4, HeldSent, HeldRequest DEF Handler, Transport, Peer
<1>4. CASE NetworkThread
  <2>1. CASE CreateThread \/ CountThread \/ Started \/ JoinHandler \/ EvfdStopLoop
             \/ LoopReturns \/ Drained \/ ContextReset \/ ServiceDestroy \/ ServiceDestroyed
    BY <1>1, <2>1 DEF CreateThread, CountThread, Started, JoinHandler, EvfdStopLoop, LoopReturns,
                      Drained, ContextReset, ServiceDestroy, ServiceDestroyed, heldVars
  <2> QED BY <1>4, <2>1, HeldSchedule, HeldSend, HeldUnsent DEF NetworkThread
<1>5. CASE TimePasses \/ Shutdown \/ ShuttingDown \/ EngineStuck \/ UNCHANGED vars
  BY <1>1, <1>5 DEF TimePasses, Shutdown, ShuttingDown, WakeWorkers, WorkersGone, ShutdownStop,
                    ShutdownWait, EngineStuck, vars, heldVars
<1> QED BY <1>2, <1>3, <1>4, <1>5, HeldReport DEF Next, Quiescent

\* The invariant of the handing on.
LEMMA HeldInvariant == Spec => [](BaseOK /\ Owed /\ Control /\ Held)
BY BaseInit, OwedInit, ControlInit, HeldInit, BaseStep, OwedStep, ControlStep, HeldStep, PTL DEF Spec

-----------------------------------------------------------------------------
(***************************************************************************)
(* From the places to their number.                                        *)
(***************************************************************************)
\* A queue without doubles has a request at one position.
LEMMA OnePosition ==
  ASSUME NEW q \in Seq(Requests), Injective(q), NEW r
  PROVE  /\ r \notin Elems(q) => Positions(q, r) = {}
         /\ r \in Elems(q) => \E i : Positions(q, r) = {i}
<1>1. DOMAIN q = 1..Len(q)
  BY SMT
<1>2. ASSUME r \notin Elems(q) PROVE Positions(q, r) = {}
  BY <1>1, <1>2 DEF Elems, Positions
<1>3. ASSUME r \in Elems(q) PROVE \E i : Positions(q, r) = {i}
  <2>1. PICK i \in 1..Len(q) : q[i] = r
    BY <1>3 DEF Elems
  <2>2. Positions(q, r) = {i}
    BY <1>1, <2>1 DEF Positions, Injective
  <2> QED BY <2>2
<1> QED BY <1>2, <1>3

\* The sets Holders is made of, for a request that is not there and for one
\* that is.
LEMMA HolderSets ==
  ASSUME BaseOK, Once, NEW r \in Requests
  PROVE  /\ r \notin Elems(inflight) => Positions(inflight, r) = {}
         /\ r \in Elems(inflight) => \E i : Positions(inflight, r) = {i}
         /\ (\A w \in Workers : r \notin wreq[w]) => {w \in Workers : r \in wreq[w]} = {}
         /\ (\E w \in Workers : r \in wreq[w]) => \E w : {v \in Workers : r \in wreq[v]} = {w}
         /\ r \notin Elems(finished) => Positions(finished, r) = {}
         /\ r \in Elems(finished) => \E i : Positions(finished, r) = {i}
<1>1. /\ r \notin Elems(inflight) => Positions(inflight, r) = {}
      /\ r \in Elems(inflight) => \E i : Positions(inflight, r) = {i}
  BY OnePosition DEF BaseOK, Once, NoDoubles
<1>2. /\ r \notin Elems(finished) => Positions(finished, r) = {}
      /\ r \in Elems(finished) => \E i : Positions(finished, r) = {i}
  BY OnePosition DEF BaseOK, Once, NoDoubles
<1>3. (\E w \in Workers : r \in wreq[w]) => \E w : {v \in Workers : r \in wreq[v]} = {w}
  <2> SUFFICES ASSUME NEW w \in Workers, r \in wreq[w]
               PROVE  {v \in Workers : r \in wreq[v]} = {w}
    OBVIOUS
  <2> QED BY DEF Once, OneWorker
<1> QED BY <1>1, <1>2, <1>3

\* Likewise for what each connection has.
LEMMA ConnSets ==
  ASSUME BaseOK, Once, NEW r \in Requests
  PROVE  /\ (\A c \in Conns : r \notin Elems(pipe[c]))
              => UNION {{c} \X Positions(pipe[c], r) : c \in Conns} = {}
         /\ (\E c \in Conns : r \in Elems(pipe[c]))
              => \E x : UNION {{c} \X Positions(pipe[c], r) : c \in Conns} = {x}
         /\ (\A c \in Conns : r \notin hreq[c]) => {c \in Conns : r \in hreq[c]} = {}
         /\ (\E c \in Conns : r \in hreq[c]) => \E x : {c \in Conns : r \in hreq[c]} = {x}
         /\ (\A c \in Conns : r \notin Elems(doneReqs[c]))
              => UNION {{c} \X Positions(doneReqs[c], r) : c \in Conns} = {}
         /\ (\E c \in Conns : r \in Elems(doneReqs[c]))
              => \E x : UNION {{c} \X Positions(doneReqs[c], r) : c \in Conns} = {x}
<1>1. \A c \in Conns : /\ r \notin Elems(pipe[c]) => Positions(pipe[c], r) = {}
                       /\ r \in Elems(pipe[c]) => \E i : Positions(pipe[c], r) = {i}
  BY OnePosition DEF BaseOK, Once, NoDoubles
<1>2. \A c \in Conns : /\ r \notin Elems(doneReqs[c]) => Positions(doneReqs[c], r) = {}
                       /\ r \in Elems(doneReqs[c]) => \E i : Positions(doneReqs[c], r) = {i}
  BY OnePosition DEF BaseOK, Once, NoDoubles
<1>3. ASSUME NEW c \in Conns, r \in Elems(pipe[c])
      PROVE  \E x : UNION {{d} \X Positions(pipe[d], r) : d \in Conns} = {x}
  <2>1. PICK i : Positions(pipe[c], r) = {i}
    BY <1>1, <1>3
  <2>2. \A d \in Conns \ {c} : Positions(pipe[d], r) = {}
    BY SMT, <1>1, <1>3 DEF Once, OwnRequests
  <2>3. UNION {{d} \X Positions(pipe[d], r) : d \in Conns} = {<<c, i>>}
    BY SMT, <2>1, <2>2
  <2> QED BY <2>3
<1>4. ASSUME NEW c \in Conns, r \in Elems(doneReqs[c])
      PROVE  \E x : UNION {{d} \X Positions(doneReqs[d], r) : d \in Conns} = {x}
  <2>1. PICK i : Positions(doneReqs[c], r) = {i}
    BY <1>2, <1>4
  <2>2. \A d \in Conns \ {c} : Positions(doneReqs[d], r) = {}
    BY SMT, <1>2, <1>4 DEF Once, OwnRequests
  <2>3. UNION {{d} \X Positions(doneReqs[d], r) : d \in Conns} = {<<c, i>>}
    BY SMT, <2>1, <2>2
  <2> QED BY <2>3
<1>5. ASSUME NEW c \in Conns, r \in hreq[c]
      PROVE  {d \in Conns : r \in hreq[d]} = {c}
  BY SMT, <1>5 DEF Once, OwnRequests
<1>6. (\A c \in Conns : r \notin Elems(pipe[c]))
        => UNION {{c} \X Positions(pipe[c], r) : c \in Conns} = {}
  BY <1>1
<1>7. (\A c \in Conns : r \notin Elems(doneReqs[c]))
        => UNION {{c} \X Positions(doneReqs[c], r) : c \in Conns} = {}
  BY <1>2
<1> QED BY <1>3, <1>4, <1>5, <1>6, <1>7

\* The holders of one kind.
LEMMA Tagged ==
  ASSUME NEW t, NEW X
  PROVE  /\ X = {} => {t} \X X = {}
         /\ (\E x : X = {x}) => \E y : {t} \X X = {y}
<1>1. X = {} => {t} \X X = {}
  OBVIOUS
<1>2. ASSUME NEW x, X = {x} PROVE {t} \X X = {<<t, x>>}
  BY SMT, <1>2
<1> QED BY <1>1, <1>2

\* A request that is allocated has one holder, another one none.
LEMMA HoldersCounted == BaseOK /\ Held => OwnedOnce
<1> SUFFICES ASSUME BaseOK, Held, NEW r \in Requests
             PROVE  Cardinality(Holders(r)) = IF live[r] THEN 1 ELSE 0
  BY DEF OwnedOnce
<1> DEFINE I == Positions(inflight, r)
           W == {w \in Workers : r \in wreq[w]}
           P == UNION {{c} \X Positions(pipe[c], r) : c \in Conns}
           H == {c \in Conns : r \in hreq[c]}
           F == Positions(finished, r)
           D == UNION {{c} \X Positions(doneReqs[c], r) : c \in Conns}
           N == {r} \cap nreq
           E == {r} \cap io
<1>1. Holders(r) = ({"schedule"} \X N) \cup ({"inflight"} \X I) \cup ({"worker"} \X W)
                     \cup ({"engine"} \X E) \cup ({"pipe"} \X P) \cup ({"handler"} \X H)
                     \cup ({"finished"} \X F) \cup ({"done"} \X D)
  <2>1. (({"schedule"} \X {r}) \cap ({"schedule"} \X nreq)) = {"schedule"} \X N
    OBVIOUS
  <2> QED BY <2>1 DEF Holders
<1>2. /\ Place(r, 1) => \E x : N = {x}
      /\ ~Place(r, 1) => N = {}
      /\ Place(r, 4) => \E x : E = {x}
      /\ ~Place(r, 4) => E = {}
  BY SMT DEF Place
<1>3. /\ Place(r, 2) => \E x : I = {x}
      /\ ~Place(r, 2) => I = {}
      /\ Place(r, 3) => \E x : W = {x}
      /\ ~Place(r, 3) => W = {}
      /\ Place(r, 7) => \E x : F = {x}
      /\ ~Place(r, 7) => F = {}
  <2>1. /\ Place(r, 2) <=> r \in Elems(inflight)
        /\ Place(r, 3) <=> \E w \in Workers : r \in wreq[w]
        /\ Place(r, 7) <=> r \in Elems(finished)
    BY PlaceIs
  <2> QED BY <2>1, HolderSets DEF Held
<1>4. /\ Place(r, 5) => \E x : P = {x}
      /\ ~Place(r, 5) => P = {}
      /\ Place(r, 6) => \E x : H = {x}
      /\ ~Place(r, 6) => H = {}
      /\ Place(r, 8) => \E x : D = {x}
      /\ ~Place(r, 8) => D = {}
  <2>1. /\ Place(r, 5) <=> \E c \in Conns : r \in Elems(pipe[c])
        /\ Place(r, 6) <=> \E c \in Conns : r \in hreq[c]
        /\ Place(r, 8) <=> \E c \in Conns : r \in Elems(doneReqs[c])
    BY PlaceIs
  <2> QED BY <2>1, ConnSets DEF Held
<1> HIDE DEF I, W, P, H, F, D, N, E
<1> DEFINE X == <<N, I, W, E, P, H, F, D>>
           T == <<"schedule", "inflight", "worker", "engine", "pipe", "handler", "finished",
                  "done">>
<1>5. \A k \in 1..8 : (Place(r, k) => \E x : X[k] = {x}) /\ (~Place(r, k) => X[k] = {})
  <2>1. /\ X[1] = N /\ X[2] = I /\ X[3] = W /\ X[4] = E
        /\ X[5] = P /\ X[6] = H /\ X[7] = F /\ X[8] = D
    OBVIOUS
  <2> HIDE DEF X
  <2>2. SUFFICES ASSUME NEW k \in 1..8
                 PROVE  (Place(r, k) => \E x : X[k] = {x}) /\ (~Place(r, k) => X[k] = {})
    OBVIOUS
  <2>3. CASE k = 1 \/ k = 4
    BY <1>2, <2>1, <2>3
  <2>4. CASE k = 2 \/ k = 3 \/ k = 7
    BY <1>3, <2>1, <2>4
  <2>5. CASE k = 5 \/ k = 6 \/ k = 8
    BY <1>4, <2>1, <2>5
  <2>6. (k = 1 \/ k = 4) \/ (k = 2 \/ k = 3 \/ k = 7) \/ (k = 5 \/ k = 6 \/ k = 8)
    BY SMT
  <2> QED BY <2>3, <2>4, <2>5, <2>6
<1>6. Holders(r) = UNION {{T[k]} \X X[k] : k \in 1..8}
  <2>1. /\ {T[1]} \X X[1] = {"schedule"} \X N /\ {T[2]} \X X[2] = {"inflight"} \X I
        /\ {T[3]} \X X[3] = {"worker"} \X W /\ {T[4]} \X X[4] = {"engine"} \X E
        /\ {T[5]} \X X[5] = {"pipe"} \X P /\ {T[6]} \X X[6] = {"handler"} \X H
        /\ {T[7]} \X X[7] = {"finished"} \X F /\ {T[8]} \X X[8] = {"done"} \X D
    OBVIOUS
  <2> DEFINE A(k) == {T[k]} \X X[k]
  <2> HIDE DEF A, X, T
  <2>2. UNION {A(k) : k \in 1..8} = A(1) \cup A(2) \cup A(3) \cup A(4)
                                       \cup A(5) \cup A(6) \cup A(7) \cup A(8)
    <3>1. 1..8 = {1, 2, 3, 4, 5, 6, 7, 8}
      BY SMT
    <3> QED BY <3>1
  <2> QED BY <1>1, <2>1, <2>2 DEF A
<1> HIDE DEF X, T
<1>7. CASE ~live[r]
  <2>1. \A k \in 1..8 : ~Place(r, k)
    BY <1>7 DEF Held, Placed
  <2>2. Holders(r) = {}
    <3>1. \A k \in 1..8 : {T[k]} \X X[k] = {}
      BY <1>5, <2>1, Tagged
    <3> QED BY <1>6, <3>1
  <2> QED BY <1>7, <2>2, FS_EmptySet
<1>8. CASE live[r]
  <2>1. PICK k \in 1..8 : Place(r, k) /\ \A l \in 1..8 \ {k} : ~Place(r, l)
    BY <1>8 DEF Held, Placed
  <2>2. PICK y : {T[k]} \X X[k] = {y}
    BY <1>5, <2>1, Tagged
  <2>3. \A l \in 1..8 \ {k} : {T[l]} \X X[l] = {}
    BY <1>5, <2>1, Tagged
  <2>4. Holders(r) = {y}
    BY SMT, <1>6, <2>2, <2>3
  <2>5. Cardinality(Holders(r)) = 1
    BY <2>4, FS_Singleton
  <2> QED BY <1>8, <2>5
<1> QED BY <1>7, <1>8

\* A NetworkXioRequest is always with exactly one thread, queue or the engine
\* while it is allocated, and with none when it is not.
THEOREM RequestsOwnedOnce == Spec => []OwnedOnce
BY HeldInvariant, HoldersCounted, PTL

-----------------------------------------------------------------------------
(***************************************************************************)
(* The requests of a connection.                                           *)
(***************************************************************************)
LiveOf(c) == {r \in Requests : live[r] /\ c \in owner[r]}

\* The connections no request refers to, and the one being deleted.
Kept ==
  /\ \A c \in Conns : conn[c] \in {"none", "freed"} => refcnt[c] = 0
  /\ \A c \in Conns : c \in njoin => conn[c] = "disconnected" /\ refcnt[c] = 0
  /\ \A c \in Conns : conn[c] = "freed" => hpc[c] \notin {"epoll", "status", "last"}

Counted == RefcountExact /\ Kept

\* The number of requests is a number.
LEMMA LiveFinite ==
  ASSUME NEW c
  PROVE  IsFiniteSet(LiveOf(c)) /\ Cardinality(LiveOf(c)) \in Nat
<1>1. LiveOf(c) \subseteq Requests
  BY DEF LiveOf
<1> QED BY <1>1, ServerAssumption, FS_Subset, FS_CardinalityType

\* No connection, no request.
LEMMA CountedInit == Init => Counted
<1> SUFFICES ASSUME Init PROVE Counted
  OBVIOUS
<1>1. \A c \in Conns : LiveOf(c) = {}
  BY DEF Init, LiveOf
<1>2. RefcountExact
  BY <1>1, FS_EmptySet DEF Init, RefcountExact, LiveOf
<1> QED BY <1>2 DEF Init, Counted, Kept

\* allocate_request counts the request.
LEMMA CountedRequest ==
  ASSUME BaseOK, Control, Held, Counted, NEW c \in Conns, NEW r \in Requests, OnRequest(c, r)
  PROVE  Counted'
<1>1. /\ live' = [live EXCEPT ![r] = TRUE] /\ owner' = [owner EXCEPT ![r] = {c}]
      /\ refcnt' = [refcnt EXCEPT ![c] = @ + 1]
      /\ UNCHANGED <<conn, hpc, njoin>> /\ conn[c] = "up" /\ owner[r] = {}
  BY DEF OnRequest, AllocateRequest
<1>2. ~live[r]
  BY <1>1 DEF Held, Placed
<1>3. LiveOf(c)' = LiveOf(c) \cup {r} /\ r \notin LiveOf(c)
  BY <1>1, <1>2 DEF BaseOK, LiveOf
<1>4. \A d \in Conns \ {c} : LiveOf(d)' = LiveOf(d)
  BY <1>1, <1>2 DEF BaseOK, LiveOf
<1>5. Cardinality(LiveOf(c)') = Cardinality(LiveOf(c)) + 1
  BY <1>3, LiveFinite, FS_AddElement
<1>6. RefcountExact'
  <2>1. refcnt'[c] = refcnt[c] + 1 /\ \A d \in Conns \ {c} : refcnt'[d] = refcnt[d]
    BY <1>1 DEF BaseOK
  <2>2. \A d \in Conns : refcnt[d] = Cardinality(LiveOf(d))
    BY DEF Counted, RefcountExact, LiveOf
  <2>3. \A d \in Conns : refcnt'[d] = Cardinality(LiveOf(d)')
    BY <1>4, <1>5, <2>1, <2>2
  <2> QED BY <2>3 DEF RefcountExact, LiveOf
<1>7. Kept'
  BY <1>1 DEF BaseOK, Control, Counted, Kept, OnRequest
<1> QED BY <1>6, <1>7 DEF Counted

\* free_request takes it off, and deletes the connection with the last one.
LEMMA CountedFree ==
  ASSUME BaseOK, Held, Counted, njoin = {}, NEW r \in Requests, live[r], NEW back,
         FreeRequest(r, back), UNCHANGED <<conn, hpc, owner>>
  PROVE  Counted'
<1>1. PICK c \in Conns : owner[r] = {c}
  BY DEF Held, Placed
<1>2. LiveOf(c)' = LiveOf(c) \ {r} /\ r \in LiveOf(c)
  BY <1>1 DEF BaseOK, LiveOf, FreeRequest
<1>3. \A d \in Conns \ {c} : LiveOf(d)' = LiveOf(d)
  BY <1>1 DEF BaseOK, LiveOf, FreeRequest
<1>4. Cardinality(LiveOf(c)') = Cardinality(LiveOf(c)) - 1
  BY <1>2, LiveFinite, FS_RemoveElement
<1>5. refcnt'[c] = refcnt[c] - 1 /\ \A d \in Conns \ {c} : refcnt'[d] = refcnt[d]
  BY <1>1 DEF BaseOK, FreeRequest
<1>6. \A d \in Conns : refcnt[d] = Cardinality(LiveOf(d))
  BY DEF Counted, RefcountExact, LiveOf
<1>7. RefcountExact'
  <2>1. \A d \in Conns : refcnt'[d] = Cardinality(LiveOf(d)')
    BY <1>3, <1>4, <1>5, <1>6
  <2> QED BY <2>1 DEF RefcountExact, LiveOf
<1>8. refcnt[c] # 0
  BY <1>2, <1>6, LiveFinite, FS_EmptySet
<1>9. Kept'
  <2>1. \A d \in Conns : conn'[d] \in {"none", "freed"} => refcnt'[d] = 0
    BY <1>5, <1>8 DEF Counted, Kept
  <2>2. njoin' = {} \/ (njoin' = {c} /\ conn[c] = "disconnected" /\ refcnt[c] = 1)
    BY <1>1 DEF FreeRequest, Destroy
  <2>3. \A d \in Conns : d \in njoin' => conn'[d] = "disconnected" /\ refcnt'[d] = 0
    BY SMT, <1>5, <2>2
  <2> QED BY <2>1, <2>3 DEF Counted, Kept
<1> QED BY <1>7, <1>9 DEF Counted

countedVars == <<conn, refcnt, hpc, njoin, live, owner>>

\* Every step counts.
LEMMA CountedStep == BaseOK /\ Owed /\ Control /\ Held /\ Counted /\ [Next]_vars => Counted'
<1> SUFFICES ASSUME BaseOK, Owed, Control, Held, Counted, [Next]_vars PROVE Counted'
  OBVIOUS
<1>1. CASE UNCHANGED countedVars
  BY <1>1 DEF countedVars, Counted, RefcountExact, Kept
<1>2. ASSUME NEW w \in Workers, Worker(w) \/ WorkerSpurious(w)
      PROVE  Counted'
  BY <1>1, <1>2, WorkerFrame DEF countedVars
<1>3. ASSUME NEW c \in Conns, Handler(c)
      PROVE  Counted'
  <2>1. /\ hpc[c] \in {"epoll", "status", "last"} /\ \A d \in Conns \ {c} : hpc'[d] = hpc[d]
        /\ UNCHANGED <<conn, refcnt, njoin, live, owner>>
    BY <1>3 DEF BaseOK, Handler, HandlerEvents, HandlerFinish, HandlerAt
  <2>2. RefcountExact'
    BY <2>1 DEF Counted, RefcountExact
  <2> QED BY <2>1, <2>2 DEF Counted, Kept
<1>4. ASSUME NEW c \in Conns, OnMsgSendComplete(c)
      PROVE  Counted'
  <2>1. /\ njoin = {} /\ UNCHANGED <<conn, hpc, owner>>
        /\ FreeRequest(Head(doneReqs[c]), "run")
    BY <1>4 DEF Control, OnMsgSendComplete
  <2>2. Head(doneReqs[c]) \in Requests /\ Head(doneReqs[c]) \in Elems(doneReqs[c])
    BY <1>4, TakeElems, AnsweredOnFile DEF BaseOK, Held, Once, NoDoubles
  <2>3. PICK r \in Requests : r = Head(doneReqs[c])
    BY <2>2
  <2>4. Place(r, 8)
    BY <2>2, <2>3 DEF Place
  <2>5. live[r]
    BY SMT, <2>4 DEF Held, Placed
  <2> QED BY <2>1, <2>3, <2>5, CountedFree
<1>5. ASSUME NEW c \in Conns, CreateSessionConnection(c)
      PROVE  Counted'
  <2>1. /\ conn[c] = "none" /\ conn' = [conn EXCEPT ![c] = "up"] /\ njoin = {}
        /\ \A d \in Conns \ {c} : hpc'[d] = hpc[d]
        /\ UNCHANGED <<refcnt, njoin, live, owner>>
    BY <1>5 DEF BaseOK, Control, CreateSessionConnection, HandlerAt
  <2>2. RefcountExact'
    BY <2>1 DEF Counted, RefcountExact
  <2> QED BY <2>1, <2>2 DEF BaseOK, Counted, Kept
<1>6. ASSUME NEW c \in Conns, DestroySessionConnection(c)
      PROVE  Counted'
  <2>1. /\ conn[c] = "up" /\ conn' = [conn EXCEPT ![c] = "disconnected"] /\ njoin = {}
        /\ njoin' = {} \/ (njoin' = {c} /\ refcnt[c] = 0)
        /\ UNCHANGED <<refcnt, hpc, live, owner>>
    BY <1>6 DEF Control, DestroySessionConnection, Destroy
  <2>2. RefcountExact'
    BY <2>1 DEF Counted, RefcountExact
  <2> QED BY <2>1, <2>2 DEF BaseOK, Counted, Kept
<1>7. CASE JoinHandler
  <2>1. /\ \A c \in njoin : hpc[c] \in {"exited", "none", "deaf"}
        /\ conn' = [c \in Conns |-> IF c \in njoin THEN "freed" ELSE conn[c]]
        /\ njoin' = {} /\ UNCHANGED <<refcnt, hpc, live, owner>>
    BY <1>7 DEF JoinHandler
  <2>2. RefcountExact'
    BY <2>1 DEF Counted, RefcountExact
  <2> QED BY <2>1, <2>2 DEF Counted, Kept
<1>8. CASE SendReplyFails
  <2>1. /\ njoin = {} /\ UNCHANGED <<conn, hpc, owner>>
        /\ FreeRequest(Head(finished), "drain")
    BY <1>8 DEF Control, SendReplyFails
  <2>2. Head(finished) \in Requests /\ Head(finished) \in Elems(finished)
    BY <1>8, TakeElems DEF BaseOK, Held, Once, NoDoubles, SendReplyFails
  <2>3. PICK r \in Requests : r = Head(finished)
    BY <2>2
  <2>4. Place(r, 7)
    BY <2>2, <2>3 DEF Place
  <2>5. live[r]
    BY SMT, <2>4 DEF Held, Placed
  <2> QED BY <2>1, <2>3, <2>5, CountedFree
<1>9. CASE CreateThread \/ CountThread \/ Started \/ WorkSchedule \/ EvfdStopLoop
           \/ LoopReturns \/ SendReply \/ Drained \/ ContextReset \/ ServiceDestroy
           \/ ServiceDestroyed
  <2>1. CASE CreateThread \/ CountThread \/ Started
    BY <1>1, <2>1 DEF CreateThread, CountThread, Started, countedVars
  <2>2. CASE WorkSchedule \/ EvfdStopLoop \/ LoopReturns \/ SendReply
    BY <1>1, <2>2 DEF WorkSchedule, EvfdStopLoop, LoopReturns, SendReply, countedVars
  <2>3. CASE Drained \/ ContextReset \/ ServiceDestroy \/ ServiceDestroyed
    BY <1>1, <2>3 DEF Drained, ContextReset, ServiceDestroy, ServiceDestroyed, countedVars
  <2> QED BY <1>9, <2>1, <2>2, <2>3
<1>10. CASE TimePasses \/ Shutdown \/ ShuttingDown \/ UNCHANGED vars
  <2>1. CASE TimePasses \/ Shutdown \/ UNCHANGED vars
    BY <1>1, <2>1 DEF TimePasses, Shutdown, vars, countedVars
  <2>2. CASE ShuttingDown
    BY <1>1, <2>2 DEF ShuttingDown, WakeWorkers, WorkersGone, ShutdownStop, ShutdownWait,
                             countedVars
  <2> QED BY <1>10, <2>1, <2>2
<1>11. ASSUME NEW r \in Requests, EngineReports(r)
       PROVE  Counted'
  BY <1>1, <1>11 DEF EngineReports, countedVars
<1>12. ASSUME NEW c \in Conns, ReplyDropped(c)
       PROVE  Counted'
  BY <1>1, <1>12 DEF ReplyDropped, countedVars
<1>13. CASE EngineStuck
  BY <1>1, <1>13 DEF EngineStuck, countedVars
<1> QED BY <1>2, <1>3, <1>4, <1>5, <1>6, <1>7, <1>8, <1>9, <1>10, <1>11, <1>12, <1>13,
           CountedRequest
        DEF Next, Transport, Peer, NetworkThread, Quiescent

-----------------------------------------------------------------------------
(***************************************************************************)
(* The threads of the work queue.                                          *)
(***************************************************************************)
Threads == {w \in Workers : wpc[w] # "none"}

\* The threads are finitely many.
LEMMA ThreadsFinite == IsFiniteSet(Threads) /\ Cardinality(Threads) \in Nat
<1>1. Threads \subseteq Workers
  BY DEF Threads
<1> QED BY <1>1, ServerAssumption, FS_Subset, FS_CardinalityType

\* What PoolExact says, with the set of the threads named.
LEMMA PoolNamed ==
  PoolExact <=> /\ nrThreads + (IF npc = "created" THEN 1 ELSE 0) = Cardinality(Threads)
                /\ ~wqStopping /\ npc \notin {"create", "created"} => nrThreads > 0
BY DEF PoolExact, Threads

\* There is no thread at first.
LEMMA PoolInit == Init => PoolExact
<1> SUFFICES ASSUME Init PROVE PoolExact
  OBVIOUS
<1>1. Threads = {}
  BY DEF Init, Threads
<1>2. Cardinality(Threads) = 0
  BY <1>1, FS_EmptySet
<1> QED BY SMT, <1>2, PoolNamed DEF Init

\* A thread ends: because there are too many, or because the queue stops.
LEMMA PoolEnds ==
  ASSUME BaseOK, PoolExact, NEW w \in Workers, wpc[w] # "none", ThreadEnds(w),
         NeedToShrink \/ wqStopping, UNCHANGED <<npc, wqStopping>>
  PROVE  PoolExact'
<1>1. Threads' = Threads \ {w} /\ w \in Threads
  BY DEF BaseOK, Threads, ThreadEnds, WorkerAt
<1>2. Cardinality(Threads') = Cardinality(Threads) - 1
  BY <1>1, ThreadsFinite, FS_RemoveElement
<1>3. nrThreads' = nrThreads - 1 /\ nrThreads \in Int /\ nrQueued \in Nat
  BY DEF BaseOK, ThreadEnds
<1>4. NeedToShrink => nrThreads > 1
  BY SMT, <1>3 DEF NeedToShrink
<1>5. nrThreads' + (IF npc' = "created" THEN 1 ELSE 0) = Cardinality(Threads')
  BY SMT, <1>2, <1>3, PoolNamed, ThreadsFinite
<1>6. ~wqStopping' => nrThreads' > 0
  BY SMT, <1>3, <1>4
<1> QED BY <1>5, <1>6 DEF PoolExact, Threads

\* The threads and their number are what they were.
LEMMA PoolSame ==
  ASSUME BaseOK, PoolExact, nrThreads' = nrThreads,
         \A w \in Workers : wpc'[w] # "none" <=> wpc[w] # "none",
         npc \in {"create", "created"} <=> npc' \in {"create", "created"},
         npc = "created" <=> npc' = "created",
         wqStopping => wqStopping'
  PROVE  PoolExact'
<1>1. Threads' = Threads
  BY DEF Threads
<1>2. nrThreads' + (IF npc' = "created" THEN 1 ELSE 0) = Cardinality(Threads')
  BY <1>1, PoolNamed
<1>3. ~wqStopping' /\ npc' \notin {"create", "created"} => nrThreads' > 0
  BY DEF PoolExact
<1> QED BY <1>2, <1>3 DEF PoolExact, Threads

\* The workers.
LEMMA PoolWorker ==
  ASSUME BaseOK, PoolExact, NEW w \in Workers, Worker(w) \/ WorkerSpurious(w)
  PROVE  PoolExact'
<1>1. UNCHANGED <<npc, wqStopping>> /\ wpc[w] # "none"
  BY WorkerFrame
<1>2. CASE UNCHANGED nrThreads /\ wpc'[w] # "none" /\ \A v \in Workers \ {w} : wpc'[v] = wpc[v]
  BY <1>1, <1>2, PoolSame
<1>3. CASE TakeOrWait(w) /\ UNCHANGED nrThreads
  BY <1>2, <1>3 DEF BaseOK, TakeOrWait, WorkerAt
<1>4. CASE ThreadEnds(w) /\ (NeedToShrink \/ wqStopping)
  BY <1>1, <1>4, PoolEnds
<1>5. CASE ProcessRequest(w) \/ HandleRead(w) \/ WorkerFinish(w) \/ WorkerSpurious(w)
  BY <1>2, <1>5 DEF BaseOK, ProcessRequest, HandleRead, WorkerFinish, WorkerSpurious, WorkerAt
<1>6. CASE WorkerTop(w) \/ WorkerWoken(w)
  <2>1. \/ TakeOrWait(w) /\ UNCHANGED nrThreads
        \/ ThreadEnds(w) /\ (NeedToShrink \/ wqStopping)
    BY <1>6 DEF WorkerTop, WorkerWoken
  <2> QED BY <1>3, <1>4, <2>1
<1> QED BY <1>5, <1>6 DEF Worker

\* Every step.
LEMMA PoolStep == BaseOK /\ PoolExact /\ [Next]_vars => PoolExact'
<1> SUFFICES ASSUME BaseOK, PoolExact, [Next]_vars PROVE PoolExact'
  OBVIOUS
<1>1. CASE CreateThread
  <2>1. PICK w \in Workers : wpc[w] = "none" /\ wpc' = [wpc EXCEPT ![w] = "top"]
    BY <1>1 DEF CreateThread, WorkerAt
  <2>2. Threads' = Threads \cup {w} /\ w \notin Threads
    BY <2>1 DEF BaseOK, Threads
  <2>3. Cardinality(Threads') = Cardinality(Threads) + 1
    BY <2>2, ThreadsFinite, FS_AddElement
  <2>4. npc = "create" /\ npc' = "created" /\ nrThreads' = nrThreads
    BY <1>1 DEF CreateThread
  <2>5. nrThreads' + 1 = Cardinality(Threads')
    BY SMT, <2>3, <2>4, PoolNamed, ThreadsFinite DEF BaseOK
  <2> QED BY <2>4, <2>5 DEF PoolExact, Threads
<1>2. CASE CountThread
  <2>1. npc = "created" /\ npc' = "create" /\ nrThreads' = nrThreads + 1 /\ UNCHANGED wpc
    BY <1>2 DEF CountThread
  <2>2. Threads' = Threads
    BY <2>1 DEF Threads
  <2>3. nrThreads' = Cardinality(Threads')
    BY <2>1, <2>2, PoolNamed, ThreadsFinite DEF BaseOK
  <2>4. nrThreads' + 0 = Cardinality(Threads')
    BY SMT, <2>1, <2>3 DEF BaseOK
  <2> QED BY <2>1, <2>4 DEF PoolExact, Threads
<1>3. CASE Started
  <2>1. npc = "create" /\ npc' = "run" /\ nrThreads >= NumCores /\ UNCHANGED <<wpc, nrThreads>>
    BY <1>3 DEF Started
  <2>2. nrThreads > 0
    BY SMT, <2>1, ServerAssumption DEF BaseOK
  <2> QED BY <2>1, <2>2 DEF PoolExact
<1>4. CASE WorkSchedule
  <2>1. PICK new \in SUBSET {w \in Workers : wpc[w] = "none"} :
          /\ Cardinality(new) = IF NeedToGrow THEN nrThreads ELSE 0
          /\ \A w \in Workers : wpc'[w] # "none" <=> wpc[w] # "none" \/ w \in new
    BY <1>4, ScheduleThreads
  <2>2. Threads' = Threads \cup new /\ Threads \cap new = {} /\ new \subseteq Workers
    BY <2>1 DEF Threads
  <2>3. IsFiniteSet(new) /\ IsFiniteSet(Threads)
    BY <2>2, ServerAssumption, FS_Subset, ThreadsFinite
  <2>4. Cardinality(Threads') = Cardinality(Threads) + Cardinality(new) - Cardinality({})
    BY SMT, <2>2, <2>3, FS_Union
  <2>5. /\ npc = "schedule" /\ npc' = "run" /\ UNCHANGED wqStopping
        /\ nrThreads' = nrThreads + (IF NeedToGrow THEN nrThreads ELSE 0)
    BY <1>4 DEF WorkSchedule
  <2>6. Cardinality({}) = 0 /\ nrThreads \in Int /\ Cardinality(Threads) \in Nat
        /\ nrThreads = Cardinality(Threads)
    BY SMT, <2>5, FS_EmptySet, ThreadsFinite, PoolNamed DEF BaseOK
  <2>7. nrThreads' + 0 = Cardinality(Threads')
    BY SMT, <2>1, <2>4, <2>5, <2>6
  <2>8. nrThreads > 0 => nrThreads' > 0
    BY SMT, <2>5, <2>6
  <2> QED BY <2>5, <2>7, <2>8 DEF PoolExact, Threads
<1>5. CASE WakeWorkers
  <2>1. \A w \in Workers : wpc'[w] # "none" <=> wpc[w] # "none"
    BY <1>5 DEF BaseOK, WakeWorkers
  <2> QED BY <1>5, <2>1, PoolSame DEF WakeWorkers
<1>6. CASE UNCHANGED <<wpc, nrThreads>> /\ (wqStopping => wqStopping')
           /\ npc \notin {"create", "created"} /\ npc' \notin {"create", "created"}
  BY <1>6, PoolSame
<1>7. CASE UNCHANGED <<wpc, nrThreads, npc>> /\ (wqStopping => wqStopping')
  BY <1>7, PoolSame
<1>8. ASSUME NEW c \in Conns, Handler(c) \/ Transport(c) \/ Peer(c)
      PROVE  PoolExact'
  <2>1. CASE Handler(c) \/ CreateSessionConnection(c) \/ ReplyDropped(c)
    BY <1>7, <2>1 DEF Handler, HandlerEvents, HandlerFinish, CreateSessionConnection, ReplyDropped
  <2>2. CASE OnMsgSendComplete(c) \/ DestroySessionConnection(c) \/ \E r \in Requests : OnRequest(c, r)
    BY <1>6, <2>2 DEF OnMsgSendComplete, DestroySessionConnection, OnRequest, FreeRequest, Destroy
  <2> QED BY <1>8, <2>1, <2>2 DEF Peer, Transport
<1>9. CASE JoinHandler \/ EvfdStopLoop \/ LoopReturns \/ SendReply \/ SendReplyFails
           \/ Drained \/ ContextReset \/ ServiceDestroy \/ ServiceDestroyed \/ EngineStuck
  <2>1. CASE EvfdStopLoop \/ SendReply
    BY <1>7, <2>1 DEF EvfdStopLoop, SendReply
  <2>2. CASE JoinHandler
    BY <1>6, <2>2 DEF BaseOK, JoinHandler
  <2>3. CASE LoopReturns \/ ContextReset \/ ServiceDestroy \/ ServiceDestroyed \/ EngineStuck
    BY <1>6, <2>3 DEF LoopReturns, ContextReset, ServiceDestroy, ServiceDestroyed, EngineStuck
  <2>4. CASE Drained
    BY <1>6, <2>4 DEF Drained
  <2>5. CASE SendReplyFails
    BY <1>6, <2>5 DEF SendReplyFails, FreeRequest, Destroy
  <2> QED BY <1>9, <2>1, <2>2, <2>3, <2>4, <2>5
<1>10. CASE TimePasses \/ Shutdown \/ WorkersGone \/ ShutdownStop \/ ShutdownWait \/ UNCHANGED vars
  <2>1. CASE Shutdown
    BY <1>7, <2>1 DEF Shutdown
  <2>2. CASE TimePasses \/ UNCHANGED vars
    <3>1. UNCHANGED <<wpc, nrThreads, npc, wqStopping>>
      BY <2>2 DEF TimePasses, vars
    <3> QED BY <1>7, <3>1
  <2>3. CASE WorkersGone \/ ShutdownStop \/ ShutdownWait
    BY <1>7, <2>3 DEF WorkersGone, ShutdownStop, ShutdownWait
  <2> QED BY <1>10, <2>1, <2>2, <2>3
<1>11. ASSUME NEW r \in Requests, EngineReports(r)
       PROVE  PoolExact'
  BY <1>7, <1>11 DEF EngineReports
<1> QED BY SMT, <1>1, <1>2, <1>3, <1>4, <1>5, <1>8, <1>9, <1>10, <1>11, PoolWorker
        DEF Next, NetworkThread, ShuttingDown, Quiescent

\* While the pool is being created it is not stopped, so it does not shrink
\* below zero either.
Starting == npc \in {"create", "created"} => ~wqStopping /\ nrThreads >= 0

\* It begins empty.
LEMMA StartingInit == Init => Starting
BY SMT DEF Init, Starting

\* Every step.
LEMMA StartingStep == BaseOK /\ Starting /\ [Next]_vars => Starting'
<1> SUFFICES ASSUME BaseOK, Starting, [Next]_vars PROVE Starting'
  OBVIOUS
<1>1. nrThreads \in Int /\ nrQueued \in Nat
  BY DEF BaseOK
<1>2. CASE UNCHANGED <<npc, nrThreads, wqStopping>>
  BY <1>2 DEF Starting
<1>3. CASE npc' \notin {"create", "created"}
  BY <1>3 DEF Starting
<1>4. ASSUME NEW w \in Workers, Worker(w) \/ WorkerSpurious(w)
      PROVE  Starting'
  <2>1. NeedToShrink => nrThreads > 1
    BY SMT, <1>1 DEF NeedToShrink
  <2>2. UNCHANGED <<npc, wqStopping>>
    BY <1>4, WorkerFrame
  <2>3. UNCHANGED nrThreads \/ ((NeedToShrink \/ wqStopping) /\ nrThreads' = nrThreads - 1)
    <3>1. CASE WorkerTop(w) \/ WorkerWoken(w)
      BY <3>1 DEF WorkerTop, WorkerWoken, ThreadEnds
    <3>2. CASE ProcessRequest(w) \/ HandleRead(w) \/ WorkerFinish(w) \/ WorkerSpurious(w)
      BY <3>2 DEF ProcessRequest, HandleRead, WorkerFinish, WorkerSpurious
    <3> QED BY <1>4, <3>1, <3>2 DEF Worker
  <2> QED BY SMT, <1>1, <2>1, <2>2, <2>3 DEF Starting
<1>5. ASSUME NEW c \in Conns, Handler(c) \/ Transport(c) \/ Peer(c)
      PROVE  Starting'
  <2>1. CASE HandlerEvents(c) \/ HandlerFinish(c) \/ CreateSessionConnection(c) \/ ReplyDropped(c)
    BY <1>2, <2>1 DEF HandlerEvents, HandlerFinish, CreateSessionConnection, ReplyDropped
  <2>2. CASE OnMsgSendComplete(c)
    BY <1>3, <2>2 DEF OnMsgSendComplete, FreeRequest, Destroy
  <2>3. CASE DestroySessionConnection(c)
    BY <1>3, <2>3 DEF DestroySessionConnection, Destroy
  <2>4. ASSUME NEW r \in Requests, OnRequest(c, r) PROVE Starting'
    BY <1>3, <2>4 DEF OnRequest
  <2> QED BY <1>5, <2>1, <2>2, <2>3, <2>4 DEF Handler, Transport, Peer
<1>6. ASSUME NEW r \in Requests, EngineReports(r)
      PROVE  Starting'
  BY <1>2, <1>6 DEF EngineReports
<1>7. CASE NetworkThread
  <2>1. CASE CreateThread \/ CountThread
    BY SMT, <1>1, <2>1 DEF Starting, CreateThread, CountThread
  <2>2. CASE Started \/ WorkSchedule
    BY <1>3, <2>2 DEF Started, WorkSchedule
  <2>3. CASE EvfdStopLoop \/ SendReply
    BY <1>2, <2>3 DEF EvfdStopLoop, SendReply
  <2>4. CASE JoinHandler
    BY <1>3, <2>4 DEF BaseOK, JoinHandler
  <2>5. CASE LoopReturns \/ ContextReset \/ ServiceDestroy \/ ServiceDestroyed
    BY <1>3, <2>5 DEF LoopReturns, ContextReset, ServiceDestroy, ServiceDestroyed
  <2>6. CASE Drained
    BY <1>3, <2>6 DEF Drained
  <2>7. CASE SendReplyFails
    BY <1>3, <2>7 DEF SendReplyFails, FreeRequest, Destroy
  <2> QED BY <1>7, <2>1, <2>2, <2>3, <2>4, <2>5, <2>6, <2>7 DEF NetworkThread
<1>8. CASE Shutdown
  BY <1>3, <1>8 DEF Shutdown
<1>9. CASE TimePasses \/ ShuttingDown \/ UNCHANGED vars
  BY <1>2, <1>9 DEF TimePasses, ShuttingDown, WakeWorkers, WorkersGone, ShutdownStop,
                           ShutdownWait, vars
<1>10. CASE EngineStuck
  BY <1>3, <1>10 DEF EngineStuck
<1> QED BY <1>4, <1>5, <1>6, <1>7, <1>8, <1>9, <1>10 DEF Next, Quiescent

-----------------------------------------------------------------------------
(***************************************************************************)
(* The theorems.                                                           *)
(***************************************************************************)
\* Everything together.
LEMMA ServerInvariant ==
  Spec => [](BaseOK /\ Owed /\ Control /\ Held /\ Counted /\ PoolExact /\ Starting)
BY BaseInit, OwedInit, ControlInit, HeldInit, CountedInit, PoolInit, StartingInit,
   BaseStep, OwedStep, ControlStep, HeldStep, CountedStep, PoolStep, StartingStep, PTL DEF Spec

\* ncd_refcnt is the number of allocated requests of its connection.
THEOREM RefcountIsExact == Spec => []RefcountExact
<1>1. Counted => RefcountExact
  BY DEF Counted
<1> QED BY <1>1, ServerInvariant, PTL

\* A NetworkXioClientData and its handler are deleted only when no request of
\* the connection is left and the completion thread has ended.
THEOREM ConnectionOutlivesRequests == Spec => []ConnectionOutlives
<1>1. Counted => ConnectionOutlives
  <2> SUFFICES ASSUME Counted, NEW c \in Conns, conn[c] = "freed"
               PROVE  /\ hpc[c] \notin {"epoll", "status", "last"}
                      /\ \A r \in Requests : live[r] => c \notin owner[r]
    BY DEF ConnectionOutlives
  <2>1. hpc[c] \notin {"epoll", "status", "last"} /\ refcnt[c] = 0
    BY DEF Counted, Kept
  <2>2. Cardinality(LiveOf(c)) = 0
    BY <2>1 DEF Counted, RefcountExact, LiveOf
  <2>3. LiveOf(c) = {}
    BY <2>2, LiveFinite, FS_EmptySet
  <2> QED BY <2>1, <2>3 DEF LiveOf
<1> QED BY <1>1, ServerInvariant, PTL

\* nr_threads_ counts the threads of the pool, and until the work queue is
\* stopped need_to_shrink leaves one to serve it.
THEOREM PoolIsExact == Spec => []PoolExact
BY ServerInvariant, PTL

\* The types; in particular neither ncd_refcnt nor nr_threads_ goes below zero.
THEOREM ServerTypes == Spec => []TypeOK
<1>1. BaseOK /\ Counted /\ PoolExact /\ Starting => TypeOK
  <2> SUFFICES ASSUME BaseOK, Counted, PoolExact, Starting PROVE TypeOK
    OBVIOUS
  <2>1. \A c \in Conns : refcnt[c] \in Nat
    BY LiveFinite DEF Counted, RefcountExact, LiveOf
  <2>2. refcnt \in [Conns -> Nat]
    BY <2>1 DEF BaseOK
  <2>3. nrThreads \in Nat
    <3>1. nrThreads \in Int /\ Cardinality(Threads) \in Nat
      BY ThreadsFinite DEF BaseOK
    <3>2. CASE npc # "created"
      BY SMT, <3>1, <3>2, PoolNamed
    <3>3. CASE npc = "created"
      BY SMT, <3>1, <3>3 DEF Starting
    <3> QED BY <3>2, <3>3
  <2> QED BY <2>2, <2>3 DEF BaseOK, TypeOK
<1> QED BY <1>1, ServerInvariant, PTL
=============================================================================
