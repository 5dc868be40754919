----------------------------- MODULE XioServer -----------------------------
(***************************************************************************)
(* The network server: NetworkXioServer, its work queue and the I/O        *)
(* handler each connection has.                                            *)
(*                                                                         *)
(* The network thread runs the event loop: it accepts connections, puts    *)
(* requests into the work queue, sends the replies of the finished queue   *)
(* and frees requests and connections.  Worker threads process requests:   *)
(* a read is handed to the I/O engine, everything else is finished at      *)
(* once.  The completion thread of a connection's handler reads the status *)
(* of its reads from a pipe and finishes them.  One more thread calls      *)
(* shutdown().                                                             *)
(*                                                                         *)
(* External: the engine reports every read it has accepted (IOService),    *)
(* unless it is stopped while all its contexts are taken; the transport    *)
(* completes the replies of a connection in the order they were sent, or   *)
(* drops them without a word (on_msg_error is NULL); stop_loop makes the   *)
(* current or the next run of the loop return.                             *)
(***************************************************************************)
EXTENDS Integers, Sequences, FiniteSets

CONSTANTS
  Conns,       \* connections; each is made once
  Requests,    \* requests; each is received once
  Workers,     \* the threads the work queue may have at a time
  NumCores,    \* numCoresForIO: the threads it is created with
  MaxDepth,    \* get_max_wq_depth: the number of hardware threads
  EngineDepth, \* the contexts of an executor of the I/O engine
  Faults,      \* what may go wrong
  MayShutdown  \* whether shutdown() may be called

ASSUME ServerAssumption ==
  /\ IsFiniteSet(Conns)
  /\ IsFiniteSet(Requests)
  /\ IsFiniteSet(Workers)
  /\ NumCores \in Nat \ {0}
  /\ MaxDepth \in Nat
  /\ EngineDepth \in Nat \ {0}
  /\ NumCores <= Cardinality(Workers) /\ MaxDepth <= Cardinality(Workers)
  /\ Faults \subseteq {"sendFail", "dropReply", "deaf", "spurious"}
  /\ MayShutdown \in BOOLEAN

VARIABLES
  conn,        \* NetworkXioClientData: none, up, disconnected or freed
  refcnt,      \* ncd_refcnt
  doneReqs,    \* ncd_done_reqs
  sent,        \* the number of its replies the transport has yet to complete
  hpc,         \* where the completion thread of each handler is
  hreq,        \* the request it finishes, as a set of at most one
  hstop,       \* whether its shutdown notifier has been sent
  pipe,        \* the statuses in the event pipe of the handler
  io,          \* the reads the I/O engine has
  inflight,    \* inflight_queue
  finished,    \* finished
  wpc,         \* where each worker thread is; none if it does not exist
  wreq,        \* the request it has, as a set of at most one
  nrThreads,   \* nr_threads_
  nrQueued,    \* nr_queued_work
  recent,      \* whether thread_life_period_ is in the future
  npc,         \* where the network thread is
  nreq,        \* the request it handles, as a set of at most one
  njoin,       \* the connection whose handler it waits for, likewise
  nback,       \* and where it goes on after that
  evfd,        \* whether the eventfd is readable
  stopLoop,    \* whether the loop of the context has been told to stop
  live,        \* whether each NetworkXioRequest is allocated
  owner,       \* pClientData of each request, as a set of at most one
  wqStopping,  \* stopping of the work queue
  stopping,    \* stopping of the server
  sdPc         \* where the thread in shutdown() is

connVars == <<conn, refcnt, doneReqs, sent>>
hVars    == <<hpc, hreq, hstop, pipe>>
qVars    == <<inflight, finished>>
poolVars == <<wpc, wreq, nrThreads, nrQueued, recent>>
netVars  == <<npc, nreq, njoin, nback>>
loopVars == <<evfd, stopLoop>>
reqVars  == <<live, owner>>
endVars  == <<wqStopping, stopping, sdPc>>
vars     == <<connVars, hVars, io, qVars, poolVars, netVars, loopVars, reqVars, endVars>>

Init ==
  /\ conn = [c \in Conns |-> "none"]
  /\ refcnt = [c \in Conns |-> 0]
  /\ doneReqs = [c \in Conns |-> <<>>]
  /\ sent = [c \in Conns |-> 0]
  /\ hpc = [c \in Conns |-> "none"]
  /\ hreq = [c \in Conns |-> {}]
  /\ hstop = [c \in Conns |-> FALSE]
  /\ pipe = [c \in Conns |-> <<>>]
  /\ io = {}
  /\ inflight = <<>>
  /\ finished = <<>>
  /\ wpc = [w \in Workers |-> "none"]
  /\ wreq = [w \in Workers |-> {}]
  /\ nrThreads = 0
  /\ nrQueued = 0
  /\ recent = FALSE
  /\ npc = "create"
  /\ nreq = {}
  /\ njoin = {}
  /\ nback = "run"
  /\ evfd = FALSE
  /\ stopLoop = FALSE
  /\ live = [r \in Requests |-> FALSE]
  /\ owner = [r \in Requests |-> {}]
  /\ wqStopping = FALSE
  /\ stopping = FALSE
  /\ sdPc = "idle"

WorkerAt(w, label) == wpc' = [wpc EXCEPT ![w] = label]

-----------------------------------------------------------------------------
(***************************************************************************)
(* The work queue: its threads come and go.                                *)
(***************************************************************************)
\* create_workqueue_threads in the constructor, without the lock: the thread
\* runs before it is counted.
CreateThread ==
  /\ npc = "create"
  /\ nrThreads < NumCores
  /\ \E w \in Workers : wpc[w] = "none" /\ WorkerAt(w, "top")
  /\ npc' = "created"
  /\ UNCHANGED <<connVars, hVars, io, qVars, wreq, nrThreads, nrQueued, recent, nreq, njoin,
                 nback, loopVars, reqVars, endVars>>

CountThread ==
  /\ npc = "created"
  /\ nrThreads' = nrThreads + 1
  /\ npc' = "create"
  /\ UNCHANGED <<connVars, hVars, io, qVars, wpc, wreq, nrQueued, recent, nreq, njoin, nback,
                 loopVars, reqVars, endVars>>

\* The rest of run() up to the loop; gobjfs_xio_server_start returns.
Started ==
  /\ npc = "create"
  /\ nrThreads >= NumCores
  /\ npc' = "run"
  /\ UNCHANGED <<connVars, hVars, io, qVars, poolVars, nreq, njoin, nback, loopVars, reqVars,
                 endVars>>

\* Faulty variant of NeedToShrink: the last thread may go.
ShrinkToZero == nrQueued <= nrThreads \div 2 /\ ~recent

\* need_to_shrink, and what it does to thread_life_period_ when it says no.
NeedToShrink  == nrQueued < nrThreads \div 2 /\ ~recent
KeepThread    == recent' = (recent \/ ~(nrQueued < nrThreads \div 2))
TimePasses    ==
  /\ recent
  /\ recent' = FALSE
  /\ UNCHANGED <<connVars, hVars, io, qVars, wpc, wreq, nrThreads, nrQueued, netVars, loopVars,
                 reqVars, endVars>>

\* Pop a request, or wait for one.
TakeOrWait(w) ==
  \/ /\ inflight = <<>>
     /\ WorkerAt(w, "wait")
     /\ UNCHANGED <<inflight, wreq>>
  \/ /\ inflight # <<>>
     /\ inflight' = Tail(inflight)
     /\ wreq' = [wreq EXCEPT ![w] = {Head(inflight)}]
     /\ WorkerAt(w, "process")

ThreadEnds(w) ==
  /\ nrThreads' = nrThreads - 1
  /\ WorkerAt(w, "none")
  /\ UNCHANGED <<inflight, wreq, recent>>

\* The top of the loop of worker_routine, under inflight_lock.
WorkerTop(w) ==
  /\ wpc[w] = "top"
  /\ \/ NeedToShrink /\ ThreadEnds(w)
     \/ ~NeedToShrink /\ KeepThread /\ TakeOrWait(w) /\ UNCHANGED nrThreads
  /\ UNCHANGED <<connVars, hVars, io, finished, nrQueued, netVars, loopVars, reqVars, endVars>>

\* Faulty variant of WorkerWoken: it does not look at stopping.
WorkerWokenServes(w) ==
  /\ wpc[w] = "woken"
  /\ TakeOrWait(w)
  /\ UNCHANGED <<connVars, hVars, io, finished, nrThreads, nrQueued, recent, netVars, loopVars,
                 reqVars, endVars>>

\* The wait has returned: leave when stopping, else look at the queue again.
WorkerWoken(w) ==
  /\ wpc[w] = "woken"
  /\ \/ wqStopping /\ ThreadEnds(w)
     \/ ~wqStopping /\ TakeOrWait(w) /\ UNCHANGED <<nrThreads, recent>>
  /\ UNCHANGED <<connVars, hVars, io, finished, nrQueued, netVars, loopVars, reqVars, endVars>>

WorkerSpurious(w) ==
  /\ "spurious" \in Faults
  /\ wpc[w] = "wait"
  /\ WorkerAt(w, "woken")
  /\ UNCHANGED <<connVars, hVars, io, qVars, wreq, nrThreads, nrQueued, recent, netVars,
                 loopVars, reqVars, endVars>>

-----------------------------------------------------------------------------
(***************************************************************************)
(* Processing a request.                                                   *)
(***************************************************************************)
\* process_request: open, close, an unknown or unreadable message and a read
\* without memory are finished now; a read goes on to the engine.
ProcessRequest(w) ==
  /\ wpc[w] = "process"
  /\ \E next \in {"finish", "submit"} : WorkerAt(w, next)
  /\ UNCHANGED <<connVars, hVars, io, qVars, wreq, nrThreads, nrQueued, recent, netVars,
                 loopVars, reqVars, endVars>>

\* The handler has its event pipe.
HasPipe(c) == hpc[c] # "none"

\* Faulty variant of HandleRead: finished now although the engine has it.
HandleReadFinishes(w) ==
  /\ wpc[w] = "submit"
  /\ \E r \in wreq[w] : io' = io \cup {r}
  /\ WorkerAt(w, "finish")
  /\ UNCHANGED <<connVars, hVars, qVars, wreq, nrThreads, nrQueued, recent, netVars, loopVars,
                 reqVars, endVars>>

\* handle_read: IOExecFileRead.  If it returns 0 the request belongs to the
\* engine from that call on; if not it is finished now.
HandleRead(w) ==
  /\ wpc[w] = "submit"
  /\ \E r \in wreq[w] :
       \/ /\ \A c \in owner[r] : HasPipe(c)
          /\ io' = io \cup {r}
          /\ wreq' = [wreq EXCEPT ![w] = {}]
          /\ WorkerAt(w, "top")
       \/ /\ WorkerAt(w, "finish")
          /\ UNCHANGED <<io, wreq>>
  /\ UNCHANGED <<connVars, hVars, qVars, nrThreads, nrQueued, recent, netVars, loopVars,
                 reqVars, endVars>>

\* Put r into the finished queue and wake the network thread, under finished_lock.
BottomHalf(r) ==
  /\ finished' = Append(finished, r)
  /\ evfd' = TRUE
  /\ UNCHANGED <<inflight, stopLoop>>

WorkerFinish(w) ==
  /\ wpc[w] = "finish"
  /\ \E r \in wreq[w] : BottomHalf(r)
  /\ wreq' = [wreq EXCEPT ![w] = {}]
  /\ WorkerAt(w, "top")
  /\ UNCHANGED <<connVars, hVars, io, nrThreads, nrQueued, recent, netVars, reqVars, endVars>>

Worker(w) ==
  WorkerTop(w) \/ WorkerWoken(w) \/ ProcessRequest(w) \/ HandleRead(w) \/ WorkerFinish(w)

\* The engine reports a read on the pipe of its connection.
EngineReports(r) ==
  /\ r \in io
  /\ npc # "noContext"
  /\ io' = io \ {r}
  /\ pipe' = [c \in Conns |-> IF c \in owner[r] THEN Append(pipe[c], r) ELSE pipe[c]]
  /\ UNCHANGED <<connVars, hpc, hreq, hstop, qVars, poolVars, netVars, loopVars, reqVars,
                 endVars>>

-----------------------------------------------------------------------------
(***************************************************************************)
(* gxio_completion_handler, the completion thread of a handler.            *)
(***************************************************************************)
HandlerAt(c, label) == hpc' = [hpc EXCEPT ![c] = label]

\* epoll_wait returns: the shutdown event ends the loop, after one status has
\* been read if there is one.
HandlerEvents(c) ==
  /\ hpc[c] = "epoll"
  /\ \/ /\ pipe[c] # <<>>
        /\ hreq' = [hreq EXCEPT ![c] = {Head(pipe[c])}]
        /\ pipe' = [pipe EXCEPT ![c] = Tail(@)]
        /\ HandlerAt(c, IF hstop[c] THEN "last" ELSE "status")
     \/ /\ pipe[c] = <<>>
        /\ hstop[c]
        /\ HandlerAt(c, "exited")
        /\ UNCHANGED <<hreq, pipe>>
  /\ UNCHANGED <<connVars, hstop, io, qVars, poolVars, netVars, loopVars, reqVars, endVars>>

\* worker_bottom_half.
HandlerFinish(c) ==
  /\ hpc[c] \in {"status", "last"}
  /\ \E r \in hreq[c] : BottomHalf(r)
  /\ hreq' = [hreq EXCEPT ![c] = {}]
  /\ HandlerAt(c, IF hpc[c] = "last" THEN "exited" ELSE "epoll")
  /\ UNCHANGED <<connVars, hstop, pipe, io, poolVars, netVars, reqVars, endVars>>

Handler(c) == HandlerEvents(c) \/ HandlerFinish(c)

-----------------------------------------------------------------------------
(***************************************************************************)
(* The network thread: events of the loop.                                 *)
(***************************************************************************)
\* What the constructor of a handler leaves behind.  It swallows its errors:
\* there may be no pipe, or a pipe and no thread to read it.
NewHandler == {"epoll"} \cup (IF "deaf" \in Faults THEN {"none", "deaf"} ELSE {})

\* create_session_connection.
CreateSessionConnection(c) ==
  /\ npc = "run"
  /\ conn[c] = "none"
  /\ conn' = [conn EXCEPT ![c] = "up"]
  /\ \E h \in NewHandler : HandlerAt(c, h)
  /\ UNCHANGED <<refcnt, doneReqs, sent, hreq, hstop, pipe, io, qVars, poolVars, netVars, loopVars,
                 reqVars, endVars>>

\* Faulty variant of AllocateRequest: the request is not counted.
AllocateUncounted(c, r) ==
  /\ live' = [live EXCEPT ![r] = TRUE]
  /\ owner' = [owner EXCEPT ![r] = {c}]
  /\ refcnt' = refcnt

AllocateRequest(c, r) ==
  /\ live' = [live EXCEPT ![r] = TRUE]
  /\ owner' = [owner EXCEPT ![r] = {c}]
  /\ refcnt' = [refcnt EXCEPT ![c] = @ + 1]

\* on_request: allocate_request, and the first statement of work_schedule.  (A
\* request that cannot be allocated is cancelled and changes nothing.)
OnRequest(c, r) ==
  /\ npc = "run"
  /\ conn[c] = "up"
  /\ owner[r] = {}
  /\ AllocateRequest(c, r)
  /\ nrQueued' = nrQueued + 1
  /\ nreq' = {r}
  /\ npc' = "schedule"
  /\ UNCHANGED <<conn, doneReqs, sent, hVars, io, qVars, wpc, wreq, nrThreads, recent, njoin, nback,
                 loopVars, endVars>>

NeedToGrow == nrThreads < nrQueued /\ nrThreads * 2 <= MaxDepth

\* Faulty variant of Notified: the worker is not told.
NotNotified(p) == {p}

\* notify_one of inflight_cond, in the pool p.
Notified(p) ==
  IF \A w \in Workers : p[w] # "wait" THEN {p}
  ELSE {[p EXCEPT ![w] = "woken"] : w \in {v \in Workers : p[v] = "wait"}}

\* The rest of work_schedule, under inflight_lock.
WorkSchedule ==
  /\ npc = "schedule"
  /\ \E r \in nreq : inflight' = Append(inflight, r)
  /\ LET extra == IF NeedToGrow THEN nrThreads ELSE 0
     IN  /\ nrThreads' = nrThreads + extra
         /\ \E new \in SUBSET {w \in Workers : wpc[w] = "none"} :
              /\ Cardinality(new) = extra
              /\ wpc' \in Notified([w \in Workers |-> IF w \in new THEN "top" ELSE wpc[w]])
  /\ recent' = (recent \/ NeedToGrow)
  /\ nreq' = {}
  /\ npc' = "run"
  /\ UNCHANGED <<connVars, hVars, io, finished, wreq, nrQueued, njoin, nback, loopVars, reqVars,
                 endVars>>

\* Delete the connection c: its handler is told to stop and joined.
Destroy(c, back) ==
  /\ hstop' = [hstop EXCEPT ![c] = TRUE]
  /\ njoin' = {c}
  /\ nback' = back
  /\ npc' = "join"

\* Faulty variant of DestroySessionConnection: it does not look at ncd_refcnt.
DestroyAtOnce(c) ==
  /\ npc = "run"
  /\ conn[c] = "up"
  /\ conn' = [conn EXCEPT ![c] = "disconnected"]
  /\ Destroy(c, "run")
  /\ UNCHANGED <<refcnt, doneReqs, sent, hpc, hreq, pipe, io, qVars, poolVars, nreq, loopVars, reqVars,
                 endVars>>

\* destroy_session_connection, on XIO_SESSION_CONNECTION_TEARDOWN_EVENT.
DestroySessionConnection(c) ==
  /\ npc = "run"
  /\ conn[c] = "up"
  /\ conn' = [conn EXCEPT ![c] = "disconnected"]
  /\ \/ refcnt[c] = 0 /\ Destroy(c, "run")
     \/ refcnt[c] # 0 /\ UNCHANGED <<hstop, njoin, nback, npc>>
  /\ UNCHANGED <<refcnt, doneReqs, sent, hpc, hreq, pipe, io, qVars, poolVars, nreq, loopVars, reqVars,
                 endVars>>

\* The destructor of the handler returns; the connection is deleted.  A handler
\* without a thread is not waited for.
JoinHandler ==
  /\ npc = "join"
  /\ \A c \in njoin : hpc[c] \in {"exited", "none", "deaf"}
  /\ conn' = [c \in Conns |-> IF c \in njoin THEN "freed" ELSE conn[c]]
  /\ njoin' = {}
  /\ npc' = nback
  /\ UNCHANGED <<refcnt, doneReqs, sent, hVars, io, qVars, poolVars, nreq, nback, loopVars, reqVars,
                 endVars>>

\* Faulty variant of FreeRequest: whoever comes last forgets the connection.
FreeRequestOnly(r, back) ==
  /\ live' = [live EXCEPT ![r] = FALSE]
  /\ refcnt' = [c \in Conns |-> IF c \in owner[r] THEN refcnt[c] - 1 ELSE refcnt[c]]
  /\ npc' = back
  /\ UNCHANGED <<hstop, njoin, nback>>

\* deallocate_request and free_request.  The code deletes the last request of a
\* connection just after the connection; nothing uses it any more when the count
\* has been decremented, and from then on it counts as freed.
FreeRequest(r, back) ==
  /\ live' = [live EXCEPT ![r] = FALSE]
  /\ refcnt' = [c \in Conns |-> IF c \in owner[r] THEN refcnt[c] - 1 ELSE refcnt[c]]
  /\ \/ \E c \in owner[r] : conn[c] = "disconnected" /\ refcnt[c] = 1 /\ Destroy(c, back)
     \/ /\ \A c \in owner[r] : conn[c] # "disconnected" \/ refcnt[c] # 1
        /\ npc' = back
        /\ UNCHANGED <<hstop, njoin, nback>>

\* on_msg_send_complete frees the oldest request that was answered, whichever
\* reply the transport has completed.
OnMsgSendComplete(c) ==
  /\ npc = "run"
  /\ sent[c] > 0
  /\ sent' = [sent EXCEPT ![c] = @ - 1]
  /\ doneReqs' = [doneReqs EXCEPT ![c] = Tail(@)]
  /\ FreeRequest(Head(doneReqs[c]), "run")
  /\ UNCHANGED <<conn, hpc, hreq, pipe, io, qVars, poolVars, nreq, loopVars, owner, endVars>>

\* The transport gives up a reply it had taken, as it may when the connection is
\* torn down.  xio_s_ops.on_msg_error is NULL: nobody is told, and ncd_done_reqs
\* keeps a request too many from then on.
ReplyDropped(c) ==
  /\ "dropReply" \in Faults
  /\ npc = "run"
  /\ sent[c] > 0
  /\ sent' = [sent EXCEPT ![c] = @ - 1]
  /\ UNCHANGED <<conn, refcnt, doneReqs, hVars, io, qVars, poolVars, netVars, loopVars, reqVars,
                 endVars>>

\* evfd_stop_loop.  shutdown() removes the handler.
EvfdStopLoop ==
  /\ npc = "run"
  /\ evfd
  /\ sdPc \notin {"wait", "stopped"}
  /\ evfd' = FALSE
  /\ stopLoop' = TRUE
  /\ UNCHANGED <<connVars, hVars, io, qVars, poolVars, netVars, reqVars, endVars>>

\* xio_context_run_loop returns.
LoopReturns ==
  /\ npc = "run"
  /\ stopLoop
  /\ stopLoop' = FALSE
  /\ npc' = "drain"
  /\ UNCHANGED <<connVars, hVars, io, qVars, poolVars, nreq, njoin, nback, evfd, reqVars,
                 endVars>>

-----------------------------------------------------------------------------
(***************************************************************************)
(* The network thread: run() outside the loop.                             *)
(***************************************************************************)
\* xio_send_reply: the reply is on its way.
SendReply ==
  /\ npc = "drain"
  /\ finished # <<>>
  /\ finished' = Tail(finished)
  /\ doneReqs' = [c \in Conns |-> IF c \in owner[Head(finished)]
                                  THEN Append(doneReqs[c], Head(finished)) ELSE doneReqs[c]]
  /\ sent' = [c \in Conns |-> IF c \in owner[Head(finished)] THEN sent[c] + 1 ELSE sent[c]]
  /\ UNCHANGED <<conn, refcnt, hVars, io, inflight, poolVars, netVars, loopVars, reqVars,
                 endVars>>

\* xio_send_reply: xio_send_response fails, as it does on a connection that is gone.
SendReplyFails ==
  /\ npc = "drain"
  /\ finished # <<>>
  /\ "sendFail" \in Faults \/ \E c \in owner[Head(finished)] : conn[c] # "up"
  /\ finished' = Tail(finished)
  /\ FreeRequest(Head(finished), "drain")
  /\ UNCHANGED <<conn, doneReqs, sent, hpc, hreq, pipe, io, inflight, poolVars, nreq, loopVars, owner,
                 endVars>>

\* Back into the loop, or out of it when stopping.
Drained ==
  /\ npc = "drain"
  /\ finished = <<>>
  /\ npc' = IF stopping THEN "exit" ELSE "run"
  /\ UNCHANGED <<connVars, hVars, io, qVars, poolVars, nreq, njoin, nback, loopVars, reqVars,
                 endVars>>

\* run() has left its loop: server, ctx and xio_mpool are reset.
ContextReset ==
  /\ npc = "exit"
  /\ npc' = "reset"
  /\ UNCHANGED <<connVars, hVars, io, qVars, poolVars, nreq, njoin, nback, loopVars, reqVars,
                 endVars>>

\* The end of run(), under mutex_: stopped is set and IOExecFileServiceDestroy
\* stops the engine, with whatever reads it still has.
ServiceDestroy ==
  /\ npc = "reset"
  /\ npc' = "destroy"
  /\ UNCHANGED <<connVars, hVars, io, qVars, poolVars, nreq, njoin, nback, loopVars, reqVars,
                 endVars>>

\* The completion thread of an executor, told to shut down, first waits for a free
\* context, and it alone returns them: if the reads in flight have them all,
\* IOExecutor::stop() waits for it for ever, and so does whoever needs mutex_.
EngineStuck ==
  /\ npc = "destroy"
  /\ Cardinality(io) >= EngineDepth
  /\ npc' = "noContext"
  /\ UNCHANGED <<connVars, hVars, io, qVars, poolVars, nreq, njoin, nback, loopVars, reqVars,
                 endVars>>

\* The engine has reported everything and is gone; mutex_ is released.
ServiceDestroyed ==
  /\ npc = "destroy"
  /\ io = {}
  /\ npc' = "exited"
  /\ UNCHANGED <<connVars, hVars, io, qVars, poolVars, nreq, njoin, nback, loopVars, reqVars,
                 endVars>>

NetworkThread ==
  \/ CreateThread \/ CountThread \/ Started
  \/ WorkSchedule \/ JoinHandler \/ EvfdStopLoop \/ LoopReturns
  \/ SendReply \/ SendReplyFails \/ Drained \/ ContextReset \/ ServiceDestroy
  \/ ServiceDestroyed

-----------------------------------------------------------------------------
(***************************************************************************)
(* shutdown().                                                             *)
(***************************************************************************)
\* The first step of shutdown(), after gobjfs_xio_server_start has returned.
Shutdown ==
  /\ MayShutdown
  /\ sdPc = "idle"
  /\ npc \notin {"create", "created"}
  /\ wqStopping' = TRUE
  /\ sdPc' = "pool"
  /\ UNCHANGED <<connVars, hVars, io, qVars, poolVars, netVars, loopVars, reqVars, stopping>>

\* NetworkXioWorkQueue::shutdown: notify_all every 500 microseconds until the
\* threads are gone.
WakeWorkers ==
  /\ sdPc = "pool"
  /\ nrThreads # 0
  /\ wpc' = [w \in Workers |-> IF wpc[w] = "wait" THEN "woken" ELSE wpc[w]]
  /\ UNCHANGED <<connVars, hVars, io, qVars, wreq, nrThreads, nrQueued, recent, netVars,
                 loopVars, reqVars, endVars>>

\* The work queue has stopped.
WorkersGone ==
  /\ sdPc = "pool"
  /\ nrThreads = 0
  /\ stopping' = TRUE
  /\ sdPc' = "stop"
  /\ UNCHANGED <<connVars, hVars, io, qVars, poolVars, netVars, loopVars, reqVars, wqStopping>>

\* xio_context_del_ev_handler and xio_context_stop_loop, on the context.
ShutdownStop ==
  /\ sdPc = "stop"
  /\ stopLoop' = TRUE
  /\ sdPc' = "wait"
  /\ UNCHANGED <<connVars, hVars, io, qVars, poolVars, netVars, evfd, reqVars, wqStopping,
                 stopping>>

\* cv_.wait, and the future of run().
ShutdownWait ==
  /\ sdPc = "wait"
  /\ npc = "exited"
  /\ sdPc' = "stopped"
  /\ UNCHANGED <<connVars, hVars, io, qVars, poolVars, netVars, loopVars, reqVars, wqStopping,
                 stopping>>

ShuttingDown == WakeWorkers \/ WorkersGone \/ ShutdownStop \/ ShutdownWait

\* Nothing to do: the network thread sleeps, is gone or waits for the engine.
Quiescent ==
  /\ npc \in {"run", "exited", "noContext"}
  /\ UNCHANGED vars

-----------------------------------------------------------------------------
\* What the peers do.
Peer(c) ==
  \/ CreateSessionConnection(c)
  \/ DestroySessionConnection(c)
  \/ \E r \in Requests : OnRequest(c, r)

\* What becomes of the replies that have been sent.
Transport(c) == OnMsgSendComplete(c) \/ ReplyDropped(c)

Next ==
  \/ \E w \in Workers : Worker(w) \/ WorkerSpurious(w)
  \/ \E c \in Conns : Handler(c) \/ Transport(c) \/ Peer(c)
  \/ \E r \in Requests : EngineReports(r)
  \/ EngineStuck
  \/ NetworkThread
  \/ TimePasses
  \/ Shutdown
  \/ ShuttingDown
  \/ Quiescent

Spec == Init /\ [][Next]_vars

\* The threads keep running, the engine reports what it has accepted as long as it
\* is not stuck, and the transport completes or drops what was sent.
Fairness ==
  /\ \A w \in Workers : WF_vars(Worker(w))
  /\ \A c \in Conns : WF_vars(Handler(c)) /\ WF_vars(Transport(c))
  /\ \A r \in Requests : WF_vars(EngineReports(r))
  /\ WF_vars(NetworkThread)
  /\ WF_vars(ShuttingDown)

FairSpec == Spec /\ Fairness

-----------------------------------------------------------------------------
(***************************************************************************)
(* Types.                                                                  *)
(***************************************************************************)
WorkerLabels == {"none", "top", "wait", "woken", "process", "submit", "finish"}

\* Every variable has its type; nr_threads_ is unsigned and never wraps.
TypeOK ==
  /\ conn \in [Conns -> {"none", "up", "disconnected", "freed"}]
  /\ refcnt \in [Conns -> Nat]
  /\ doneReqs \in [Conns -> Seq(Requests)]
  /\ sent \in [Conns -> Nat]
  /\ hpc \in [Conns -> {"none", "deaf", "epoll", "status", "last", "exited"}]
  /\ hreq \in [Conns -> SUBSET Requests]
  /\ hstop \in [Conns -> BOOLEAN]
  /\ pipe \in [Conns -> Seq(Requests)]
  /\ io \in SUBSET Requests
  /\ inflight \in Seq(Requests)
  /\ finished \in Seq(Requests)
  /\ wpc \in [Workers -> WorkerLabels]
  /\ wreq \in [Workers -> SUBSET Requests]
  /\ nrThreads \in Nat
  /\ nrQueued \in Nat
  /\ recent \in BOOLEAN
  /\ npc \in {"create", "created", "run", "schedule", "join", "drain", "exit", "reset",
             "destroy", "noContext", "exited"}
  /\ nreq \in SUBSET Requests
  /\ njoin \in SUBSET Conns
  /\ nback \in {"run", "drain"}
  /\ evfd \in BOOLEAN
  /\ stopLoop \in BOOLEAN
  /\ live \in [Requests -> BOOLEAN]
  /\ owner \in [Requests -> SUBSET Conns]
  /\ wqStopping \in BOOLEAN
  /\ stopping \in BOOLEAN
  /\ sdPc \in {"idle", "pool", "stop", "wait", "stopped"}

-----------------------------------------------------------------------------
(***************************************************************************)
(* Properties.                                                             *)
(***************************************************************************)
Positions(q, r) == {i \in DOMAIN q : q[i] = r}

\* The places that hold the request r: each may write to it, or free it.
Holders(r) ==
  (({"schedule"} \X {r}) \cap ({"schedule"} \X nreq))
  \cup ({"inflight"} \X Positions(inflight, r))
  \cup ({"worker"} \X {w \in Workers : r \in wreq[w]})
  \cup ({"engine"} \X ({r} \cap io))
  \cup ({"pipe"} \X UNION {{c} \X Positions(pipe[c], r) : c \in Conns})
  \cup ({"handler"} \X {c \in Conns : r \in hreq[c]})
  \cup ({"finished"} \X Positions(finished, r))
  \cup ({"done"} \X UNION {{c} \X Positions(doneReqs[c], r) : c \in Conns})

\* A request that is allocated is with exactly one thread, queue or the engine,
\* and one that has been freed with none: network thread, workers, engine and
\* handlers hand it on without locks on the request itself, and nothing touches
\* it after it has been handed on ("CAUTION : only touch "req" after this if
\* ret is non-zero").
OwnedOnce == \A r \in Requests : Cardinality(Holders(r)) = IF live[r] THEN 1 ELSE 0

\* ncd_refcnt is the number of requests of the connection that are allocated,
\* wherever they are.
RefcountExact ==
  \A c \in Conns : refcnt[c] = Cardinality({r \in Requests : live[r] /\ c \in owner[r]})

\* The connection and its handler outlive every request of the connection, and
\* the handler's thread: all of them use it.
ConnectionOutlives ==
  \A c \in Conns : conn[c] = "freed" =>
    /\ hpc[c] \notin {"epoll", "status", "last"}
    /\ \A r \in Requests : live[r] => c \notin owner[r]

\* nr_threads_ counts the threads, but for the one being created; until the
\* queue is stopped at least one is left to serve it.
PoolExact ==
  /\ nrThreads + (IF npc = "created" THEN 1 ELSE 0) = Cardinality({w \in Workers : wpc[w] # "none"})
  /\ ~wqStopping /\ npc \notin {"create", "created"} => nrThreads > 0

\* The transport has dropped a reply of c: a request too many is in ncd_done_reqs.
Dropped(c) == Len(doneReqs[c]) > sent[c]

\* Every request the server has accepted is answered, or fails to be, and freed,
\* unless shutdown() is called or the transport drops a reply of its connection,
\* which run() has asked not to be told of (on_msg_error is NULL).
RequestsEnd ==
  \A r \in Requests :
    live[r] ~> (~live[r] \/ sdPc # "idle" \/ \E c \in owner[r] : Dropped(c))

\* A connection that is gone is freed with its last request, on the same two
\* conditions: after a dropped reply ncd_refcnt never reaches 0.
DisconnectedIsFreed ==
  \A c \in Conns :
    conn[c] = "disconnected" ~> (conn[c] = "freed" \/ sdPc # "idle" \/ Dropped(c))

\* The context is there when shutdown() uses it, between setting stopping and
\* stop_loop: run() destroys it on its way out.
ContextOutlives ==
  sdPc = "stop" => npc \notin {"reset", "destroy", "noContext", "exited"}

\* shutdown() returns, wherever the workers, the handlers and the network thread
\* are and whatever has been lost, unless run() stops the engine while every context
\* of an executor is taken: then the network thread never releases mutex_.
ShutdownReturns == sdPc = "pool" ~> (sdPc = "stopped" \/ npc = "noContext")
=============================================================================
