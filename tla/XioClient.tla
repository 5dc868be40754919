----------------------------- MODULE XioClient -----------------------------
(***************************************************************************)
(* The network client: class NetworkXioClient and the aio calls of         *)
(* gobjfs_client.cpp.                                                      *)
(*                                                                         *)
(* Application threads make read, aio_readv and aio_readcb calls.  A call  *)
(* takes a slot of the request queue for each of its requests, pushes the  *)
(* message and wakes the network thread through an eventfd; then it waits, *)
(* on the notifier its requests share or on the completion, and frees the  *)
(* request.  The network thread runs xio_run_loop_worker: it sends what is *)
(* queued and, inside xio_context_run_loop, completes what is answered.    *)
(* The destructor of the client runs shutdown().                           *)
(*                                                                         *)
(* The transport (Accelio) is external: a message that was sent is         *)
(* answered, reported in error or, if its reply cannot be unpacked,        *)
(* dropped; stop_loop makes the current or the next run of the loop        *)
(* return.                                                                 *)
(***************************************************************************)
EXTENDS Integers, Sequences, FiniteSets

CONSTANTS
  Threads,     \* application threads
  Requests,    \* aio_requests; each is used once
  QD,          \* slots of the request queue (256 in ctx_init)
  Calls,       \* the calls the threads make: read, readv, readcb
  VecLen,      \* requests of one aio_readv
  Timed,       \* whether the waits may be given a timeout: a subset of BOOLEAN
  Faults,      \* what may go wrong
  MayShutdown  \* whether the client is ever destroyed

ASSUME ClientAssumption ==
  /\ IsFiniteSet(Threads)
  /\ IsFiniteSet(Requests)
  /\ QD \in Nat \ {0}
  /\ Calls \subseteq {"read", "readv", "readcb"}
  /\ VecLen \in Nat \ {0}
  /\ Timed \subseteq BOOLEAN
  /\ Faults \subseteq {"sendFail", "msgError", "badReply", "slotTimeout", "spurious",
                       "disconnect"}
  /\ MayShutdown \in BOOLEAN

VARIABLES
  pc,          \* where each application thread is
  call,        \* the requests of its current call
  kind,        \* and what call that is
  todo,        \* the requests of it that are still to be submitted
  cur,         \* the request it is submitting, as a set of at most one
  timed,       \* whether it waits with a timeout
  err,         \* whether a submission of the call has failed
  nrReqQueue,  \* nr_req_queue
  inflight,    \* inflight_reqs
  evfd,        \* whether the eventfd is readable
  stopLoop,    \* whether the loop of the context has been told to stop
  npc,         \* where the network thread is
  nback,       \* what it handles a message for: run, bye or send
  nreq,        \* the message it handles, as a set of at most one
  nres,        \* and the result it has for it
  msg,         \* where the xio_msg_s of each request is
  mem,         \* whether each aio_request is allocated
  group,       \* the requests that share the notifier of each request
  count,       \* _count of that notifier
  result,      \* _rv and _errno of each request, none until it is _completed
  cmem,        \* whether the completion of each request is allocated
  onWait,      \* its _on_wait
  signaled,    \* its _signaled
  stopping,    \* stopping
  sdPc,        \* where the thread in shutdown() is
  connection   \* up, down (disconnected) or torn (the session is gone too)

callVars == <<call, kind, todo, cur, timed, err>>
netVars  == <<nback, nreq, nres>>
memVars  == <<mem, group, count, result>>
cVars    == <<cmem, onWait, signaled>>
endVars  == <<stopping, sdPc, connection>>
rest     == <<callVars, nrReqQueue, inflight, evfd, stopLoop, npc, netVars, msg, memVars,
              cVars, endVars>>
vars     == <<pc, rest>>

Init ==
  /\ pc = [t \in Threads |-> "idle"]
  /\ call = [t \in Threads |-> {}]
  /\ kind = [t \in Threads |-> "read"]
  /\ todo = [t \in Threads |-> {}]
  /\ cur = [t \in Threads |-> {}]
  /\ timed = [t \in Threads |-> FALSE]
  /\ err = [t \in Threads |-> FALSE]
  /\ nrReqQueue = QD
  /\ inflight = <<>>
  /\ evfd = FALSE
  /\ stopLoop = FALSE
  /\ npc = "run"
  /\ nback = "run"
  /\ nreq = {}
  /\ nres = "none"
  /\ msg = [r \in Requests |-> "none"]
  /\ mem = [r \in Requests |-> "none"]
  /\ group = [r \in Requests |-> {}]
  /\ count = [r \in Requests |-> 0]
  /\ result = [r \in Requests |-> "none"]
  /\ cmem = [r \in Requests |-> "none"]
  /\ onWait = [r \in Requests |-> FALSE]
  /\ signaled = [r \in Requests |-> FALSE]
  /\ stopping = FALSE
  /\ sdPc = "idle"
  /\ connection = "up"

Goto(t, label) == pc' = [pc EXCEPT ![t] = label]

\* f with the value v on S.
SetAll(f, S, v) == [r \in Requests |-> IF r \in S THEN v ELSE f[r]]

-----------------------------------------------------------------------------
(***************************************************************************)
(* Submitting.                                                             *)
(***************************************************************************)
\* Faulty variant of NotifierCount: the default argument is used.
NotifierOne(R) == 1

\* The initial count of the notifier a call makes for its requests R.
NotifierCount(R) == Cardinality(R)

\* aio_read, aio_readv or aio_readcb: make the notifier (the caller has made
\* the completion).
StartCall(t, k, R, tm) ==
  /\ pc[t] = "idle"
  /\ sdPc = "idle"
  /\ \A r \in R : group[r] = {}
  /\ Cardinality(R) = IF k = "readv" THEN VecLen ELSE 1
  /\ call' = [call EXCEPT ![t] = R]
  /\ kind' = [kind EXCEPT ![t] = k]
  /\ todo' = [todo EXCEPT ![t] = R]
  /\ timed' = [timed EXCEPT ![t] = tm]
  /\ err' = [err EXCEPT ![t] = FALSE]
  /\ group' = SetAll(group, R, R)
  /\ count' = SetAll(count, R, NotifierCount(R))
  /\ cmem' = IF k = "readcb" THEN SetAll(cmem, R, "live") ELSE cmem
  /\ Goto(t, "next")
  /\ UNCHANGED <<cur, nrReqQueue, inflight, evfd, stopLoop, npc, netVars, msg, mem, result,
                 onWait, signaled, endVars>>

\* _submit_aio_request, up to the send: create_new_request.
SubmitAioRequest(t) ==
  /\ pc[t] = "next"
  /\ \E r \in todo[t] :
       /\ cur' = [cur EXCEPT ![t] = {r}]
       /\ todo' = [todo EXCEPT ![t] = @ \ {r}]
       /\ mem' = [mem EXCEPT ![r] = "live"]
  /\ Goto(t, "slot")
  /\ UNCHANGED <<call, kind, timed, err, nrReqQueue, inflight, evfd, stopLoop, npc, netVars,
                 msg, group, count, result, cVars, endVars>>

\* The call returns.  If a request could not be submitted it returns -1 and the
\* caller, who cannot know which, gives the whole call up.
Submitted(t) ==
  /\ pc[t] = "next"
  /\ todo[t] = {}
  /\ Goto(t, CASE err[t] -> "idle"
               [] ~err[t] /\ kind[t] = "readcb" -> "waitC"
               [] OTHER -> "suspend")
  /\ UNCHANGED rest

\* Faulty variant of SlotFree: off by one.
SlotFreeOffByOne(n) == n >= -1

\* The condition req_queue_wait_until waits for.
SlotFree(n) == n >= 0

\* req_queue_wait_until: take a slot, then wait until the count is not negative.
ReqQueueWaitUntil(t) ==
  /\ pc[t] = "slot"
  /\ nrReqQueue' = nrReqQueue - 1
  /\ Goto(t, IF SlotFree(nrReqQueue - 1) THEN "push" ELSE "slotWait")
  /\ UNCHANGED <<callVars, inflight, evfd, stopLoop, npc, netVars, msg, memVars, cVars,
                 endVars>>

\* wait_for reads the condition again when it is woken.
SlotWoken(t) ==
  /\ pc[t] = "slotWoken"
  /\ Goto(t, IF SlotFree(nrReqQueue) THEN "push" ELSE "slotWait")
  /\ UNCHANGED rest

SlotSpurious(t) ==
  /\ "spurious" \in Faults
  /\ pc[t] = "slotWait"
  /\ Goto(t, "slotWoken")
  /\ UNCHANGED rest

\* After 60 seconds it reads the condition a last time, and throws "request
\* queue is busy" if it is false.
SlotTimeout(t) ==
  /\ "slotTimeout" \in Faults
  /\ pc[t] \in {"slotWait", "slotWoken"}
  /\ Goto(t, IF SlotFree(nrReqQueue) THEN "push" ELSE "busy")
  /\ UNCHANGED rest

\* The exception leaves xio_send_read_request; the request is deleted.
Busy(t) ==
  /\ pc[t] = "busy"
  /\ mem' = SetAll(mem, cur[t], "freed")
  /\ err' = [err EXCEPT ![t] = TRUE]
  /\ Goto(t, "next")
  /\ UNCHANGED <<call, kind, todo, cur, timed, nrReqQueue, inflight, evfd, stopLoop, npc,
                 netVars, msg, group, count, result, cVars, endVars>>

PushRequest(t) ==
  /\ pc[t] = "push"
  /\ \E r \in cur[t] : inflight' = Append(inflight, r)
  /\ msg' = SetAll(msg, cur[t], "queued")
  /\ Goto(t, "wake")
  /\ UNCHANGED <<callVars, nrReqQueue, evfd, stopLoop, npc, netVars, memVars, cVars, endVars>>

\* Faulty variant of XstopLoop: the network thread is not woken.
NoXstopLoop(t) ==
  /\ pc[t] = "wake"
  /\ evfd' = evfd
  /\ Goto(t, "next")
  /\ UNCHANGED <<callVars, nrReqQueue, inflight, stopLoop, npc, netVars, msg, memVars, cVars,
                 endVars>>

XstopLoop(t) ==
  /\ pc[t] = "wake"
  /\ evfd' = TRUE
  /\ Goto(t, "next")
  /\ UNCHANGED <<callVars, nrReqQueue, inflight, stopLoop, npc, netVars, msg, memVars, cVars,
                 endVars>>

-----------------------------------------------------------------------------
(***************************************************************************)
(* Waiting for the requests of a call: aio_suspend and aio_suspendv.       *)
(***************************************************************************)
\* Faulty variant of SuspendUntimed: wait without looking at the count.
SuspendAtOnce(t) ==
  /\ pc[t] = "suspend"
  /\ ~timed[t]
  /\ Goto(t, "return")
  /\ UNCHANGED rest

\* notifier::wait returns when the count is zero.
SuspendUntimed(t) ==
  /\ pc[t] = "suspend"
  /\ ~timed[t]
  /\ \A r \in call[t] : count[r] = 0
  /\ Goto(t, "return")
  /\ UNCHANGED rest

\* notifier::wait_for waits without looking at the count.
SuspendTimed(t) ==
  /\ pc[t] = "suspend"
  /\ timed[t]
  /\ Goto(t, "suspended")
  /\ UNCHANGED rest

SuspendSpurious(t) ==
  /\ "spurious" \in Faults
  /\ pc[t] = "suspended"
  /\ Goto(t, "return")
  /\ UNCHANGED rest

Failed(r) == result[r] \in {"error", "EIO"}

\* The timeout: EAGAIN, after which the caller waits again.  aio_suspendv
\* replaces that error by the one of a request that has failed.
SuspendTimeout(t) ==
  /\ pc[t] = "suspended"
  /\ Goto(t, IF kind[t] = "readv" /\ \E r \in call[t] : Failed(r) THEN "return" ELSE "suspend")
  /\ UNCHANGED rest

\* aio_return and aio_finish.
AioFinish(t) ==
  /\ pc[t] = "return"
  /\ mem' = SetAll(mem, call[t], "freed")
  /\ Goto(t, "idle")
  /\ UNCHANGED <<callVars, nrReqQueue, inflight, evfd, stopLoop, npc, netVars, msg, group,
                 count, result, cVars, endVars>>

-----------------------------------------------------------------------------
(***************************************************************************)
(* Waiting for a completion: aio_wait_completion.                          *)
(***************************************************************************)
\* The compare-and-swap of _on_wait; whoever comes second returns 0.
AioWaitCompletion(t) ==
  /\ pc[t] = "waitC"
  /\ \E r \in call[t] :
       /\ onWait' = [onWait EXCEPT ![r] = TRUE]
       /\ Goto(t, IF onWait[r] THEN "completed" ELSE "lockC")
  /\ UNCHANGED <<callVars, nrReqQueue, inflight, evfd, stopLoop, npc, netVars, msg, memVars,
                 cmem, signaled, endVars>>

\* Faulty variant of WaitSignaled: _signaled is not waited for.
WaitNothing(t) ==
  /\ pc[t] = "lockC"
  /\ Goto(t, "completed")
  /\ UNCHANGED rest

\* Under the completion's mutex: wait unless it is signaled.
WaitSignaled(t) ==
  /\ pc[t] = "lockC"
  /\ Goto(t, IF \E r \in call[t] : signaled[r] THEN "completed" ELSE "waitingC")
  /\ UNCHANGED rest

\* Only the wait with a timeout looks at _signaled when it is woken.
WaitSpurious(t) ==
  /\ "spurious" \in Faults
  /\ pc[t] = "waitingC"
  /\ ~timed[t]
  /\ Goto(t, "completed")
  /\ UNCHANGED rest

\* The timeout: EAGAIN, after which the caller waits again.
WaitTimeout(t) ==
  /\ pc[t] = "waitingC"
  /\ timed[t]
  /\ Goto(t, "waitC")
  /\ UNCHANGED rest

\* aio_release_completion and aio_finish.
ReleaseCompletion(t) ==
  /\ pc[t] = "completed"
  /\ cmem' = SetAll(cmem, call[t], "freed")
  /\ mem' = SetAll(mem, call[t], "freed")
  /\ Goto(t, "idle")
  /\ UNCHANGED <<callVars, nrReqQueue, inflight, evfd, stopLoop, npc, netVars, msg, group,
                 count, result, onWait, signaled, endVars>>

-----------------------------------------------------------------------------
(***************************************************************************)
(* The network thread: events of xio_context_run_loop.                     *)
(***************************************************************************)
InLoop == npc \in {"run", "bye"}

\* evfd_stop_loop.  shutdown() removes the handler.
EvfdStopLoop ==
  /\ InLoop
  /\ evfd
  /\ sdPc \in {"idle", "stop"}
  /\ evfd' = FALSE
  /\ stopLoop' = TRUE
  /\ UNCHANGED <<pc, callVars, nrReqQueue, inflight, npc, netVars, msg, memVars, cVars,
                 endVars>>

\* Start to handle the message r with the result res.
Handle(r, res) ==
  /\ nreq' = {r}
  /\ nres' = res
  /\ nback' = npc
  /\ msg' = [msg EXCEPT ![r] = "handling"]
  /\ npc' = "complete"
  /\ UNCHANGED <<pc, callVars, nrReqQueue, inflight, evfd, stopLoop, memVars, cVars, endVars>>

OnResponse(r) ==
  /\ InLoop
  /\ connection = "up"
  /\ msg[r] = "wire"
  /\ \E res \in {"data", "error"} : Handle(r, res)

\* A reply that cannot be unpacked is dropped, and with it the request and
\* its slot.
OnBadResponse(r) ==
  /\ "badReply" \in Faults
  /\ InLoop
  /\ connection = "up"
  /\ msg[r] = "wire"
  /\ msg' = [msg EXCEPT ![r] = "lost"]
  /\ UNCHANGED <<pc, callVars, nrReqQueue, inflight, evfd, stopLoop, npc, netVars, memVars,
                 cVars, endVars>>

OnMsgError(r) ==
  /\ "msgError" \in Faults \/ connection # "up"
  /\ InLoop
  /\ msg[r] = "wire"
  /\ Handle(r, "EIO")

\* on_session_event, XIO_SESSION_CONNECTION_TEARDOWN_EVENT, in loop label.
TeardownIn(label) ==
  /\ npc = label
  /\ connection = "up"
  /\ connection' = "down"
  /\ UNCHANGED <<pc, callVars, nrReqQueue, inflight, evfd, stopLoop, npc, netVars, msg,
                 memVars, cVars, stopping, sdPc>>

\* The peer is gone, or the client has called xio_disconnect.
PeerGone           == "disconnect" \in Faults /\ TeardownIn("run")
ConnectionTeardown == TeardownIn("bye")

\* XIO_SESSION_TEARDOWN_EVENT, after the messages of the connection are flushed.
SessionTeardown ==
  /\ InLoop
  /\ connection = "down"
  /\ \A r \in Requests : msg[r] # "wire"
  /\ connection' = "torn"
  /\ stopLoop' = TRUE
  /\ UNCHANGED <<pc, callVars, nrReqQueue, inflight, evfd, npc, netVars, msg, memVars, cVars,
                 stopping, sdPc>>

\* xio_context_run_loop returns.
LoopReturns ==
  /\ InLoop
  /\ stopLoop
  /\ stopLoop' = FALSE
  /\ npc' = IF npc = "run" THEN "drain" ELSE "exited"
  /\ UNCHANGED <<pc, callVars, nrReqQueue, inflight, evfd, netVars, msg, memVars, cVars,
                 endVars>>

-----------------------------------------------------------------------------
(***************************************************************************)
(* The network thread: completing a request.                               *)
(***************************************************************************)
WithCompletion(r) == cmem[r] # "none"

\* What follows the completion of a request: the slot of an answered message
\* goes back; the slot of one that could not be sent has gone back before.
AfterComplete == IF nback = "send" THEN "drain" ELSE "release"

\* Faulty variant of NotifierSignal: the waiting thread is woken by the first signal.
NotifierSignalFirst(r) ==
  /\ count' = [q \in Requests |-> IF q \in group[r] THEN 0 ELSE count[q]]
  /\ pc' = [t \in Threads |->
              IF pc[t] = "suspended" /\ r \in call[t] THEN "return" ELSE pc[t]]

\* notifier::signal: the last one wakes the thread that waits with a timeout
\* (the one that waits without reads the count).
NotifierSignal(r) ==
  /\ count' = [q \in Requests |-> IF q \in group[r] THEN count[q] - 1 ELSE count[q]]
  /\ pc' = [t \in Threads |->
              IF pc[t] = "suspended" /\ r \in call[t] /\ count[r] = 1 THEN "return" ELSE pc[t]]

\* update_stats and ovs_xio_aio_complete_request, up to the wake-up of the
\* thread in aio_suspend.
CompleteRequest ==
  /\ npc = "complete"
  /\ \E r \in nreq :
       /\ result' = [result EXCEPT ![r] = nres]
       /\ NotifierSignal(r)
       /\ npc' = IF WithCompletion(r) THEN "callback" ELSE AfterComplete
  /\ UNCHANGED <<callVars, nrReqQueue, inflight, evfd, stopLoop, netVars, msg, mem, group,
                 cVars, endVars>>

\* complete_cb, the application's callback.
Callback ==
  /\ npc = "callback"
  /\ npc' = "signal"
  /\ UNCHANGED <<pc, callVars, nrReqQueue, inflight, evfd, stopLoop, netVars, msg, memVars,
                 cVars, endVars>>

\* aio_signal_completion: the compare-and-swap of _on_wait.
AioSignalCompletion ==
  /\ npc = "signal"
  /\ \E r \in nreq :
       /\ onWait' = [onWait EXCEPT ![r] = TRUE]
       /\ npc' = IF onWait[r] THEN "notify" ELSE AfterComplete
  /\ UNCHANGED <<pc, callVars, nrReqQueue, inflight, evfd, stopLoop, netVars, msg, memVars,
                 cmem, signaled, endVars>>

\* The rest of it, when a thread waits.
NotifyCompletion ==
  /\ npc = "notify"
  /\ signaled' = SetAll(signaled, nreq, TRUE)
  /\ pc' = [t \in Threads |->
              IF pc[t] = "waitingC" /\ nreq \subseteq call[t] THEN "completed" ELSE pc[t]]
  /\ npc' = AfterComplete
  /\ UNCHANGED <<callVars, nrReqQueue, inflight, evfd, stopLoop, netVars, msg, memVars, cmem,
                 onWait, endVars>>

\* condition_variable::notify_one.
NotifyOne(from, to) ==
  \/ /\ \A t \in Threads : pc[t] # from
     /\ UNCHANGED pc
  \/ \E t \in Threads :
       /\ pc[t] = from
       /\ Goto(t, to)

\* Faulty variant of ReqQueueRelease: nobody is told.
ReleaseQuietly ==
  /\ npc = "release"
  /\ nrReqQueue' = nrReqQueue + 1
  /\ pc' = pc
  /\ msg' = SetAll(msg, nreq, "gone")
  /\ npc' = IF nback = "send" THEN "complete" ELSE nback
  /\ UNCHANGED <<callVars, inflight, evfd, stopLoop, netVars, memVars, cVars, endVars>>

\* Faulty variant of ReqQueueRelease: only an answer gives the slot back.
ReleaseAnswered ==
  /\ npc = "release"
  /\ nrReqQueue' = IF nback = "send" THEN nrReqQueue ELSE nrReqQueue + 1
  /\ NotifyOne("slotWait", "slotWoken")
  /\ msg' = SetAll(msg, nreq, "gone")
  /\ npc' = IF nback = "send" THEN "complete" ELSE nback
  /\ UNCHANGED <<callVars, inflight, evfd, stopLoop, netVars, memVars, cVars, endVars>>

\* req_queue_release; then the message is deleted.
ReqQueueRelease ==
  /\ npc = "release"
  /\ nrReqQueue' = nrReqQueue + 1
  /\ NotifyOne("slotWait", "slotWoken")
  /\ msg' = SetAll(msg, nreq, "gone")
  /\ npc' = IF nback = "send" THEN "complete" ELSE nback
  /\ UNCHANGED <<callVars, inflight, evfd, stopLoop, netVars, memVars, cVars, endVars>>

-----------------------------------------------------------------------------
(***************************************************************************)
(* The network thread: xio_run_loop_worker outside the event loop.         *)
(***************************************************************************)
SendOk ==
  /\ npc = "drain"
  /\ inflight # <<>>
  /\ connection = "up"
  /\ inflight' = Tail(inflight)
  /\ msg' = [msg EXCEPT ![Head(inflight)] = "wire"]
  /\ UNCHANGED <<pc, callVars, nrReqQueue, evfd, stopLoop, npc, netVars, memVars, cVars,
                 endVars>>

\* Faulty variant of SendFails: the message stays in the queue.
SendFailsKeeps ==
  /\ npc = "drain"
  /\ inflight # <<>>
  /\ "sendFail" \in Faults \/ connection # "up"
  /\ inflight' = inflight
  /\ msg' = [msg EXCEPT ![Head(inflight)] = "handling"]
  /\ nreq' = {Head(inflight)}
  /\ nres' = "EIO"
  /\ nback' = "send"
  /\ npc' = "release"
  /\ UNCHANGED <<pc, callVars, nrReqQueue, evfd, stopLoop, memVars, cVars, endVars>>

\* xio_send_request fails: the slot goes back first, then the request completes.
SendFails ==
  /\ npc = "drain"
  /\ inflight # <<>>
  /\ "sendFail" \in Faults \/ connection # "up"
  /\ inflight' = Tail(inflight)
  /\ msg' = [msg EXCEPT ![Head(inflight)] = "handling"]
  /\ nreq' = {Head(inflight)}
  /\ nres' = "EIO"
  /\ nback' = "send"
  /\ npc' = "release"
  /\ UNCHANGED <<pc, callVars, nrReqQueue, evfd, stopLoop, memVars, cVars, endVars>>

\* The queue is empty: back into the loop, or out of it when stopping.
Drained ==
  /\ npc = "drain"
  /\ inflight = <<>>
  /\ npc' = IF stopping THEN "disconnect" ELSE "run"
  /\ UNCHANGED <<pc, callVars, nrReqQueue, inflight, evfd, stopLoop, netVars, msg, memVars,
                 cVars, endVars>>

\* xio_disconnect, then run the loop until the session is torn down.
Disconnect ==
  /\ npc = "disconnect"
  /\ npc' = IF connection = "up" THEN "bye" ELSE "exited"
  /\ UNCHANGED <<pc, callVars, nrReqQueue, inflight, evfd, stopLoop, netVars, msg, memVars,
                 cVars, endVars>>

NetworkThread ==
  \/ EvfdStopLoop \/ ConnectionTeardown \/ SessionTeardown \/ LoopReturns
  \/ CompleteRequest \/ Callback \/ AioSignalCompletion \/ NotifyCompletion
  \/ ReqQueueRelease \/ SendOk \/ SendFails \/ Drained \/ Disconnect

-----------------------------------------------------------------------------
(***************************************************************************)
(* shutdown(), run by the last owner of the context: no call is under way. *)
(***************************************************************************)
Shutdown ==
  /\ MayShutdown
  /\ sdPc = "idle"
  /\ \A t \in Threads : pc[t] = "idle"
  /\ stopping' = TRUE
  /\ sdPc' = "stop"
  /\ UNCHANGED <<pc, callVars, nrReqQueue, inflight, evfd, stopLoop, npc, netVars, msg,
                 memVars, cVars, connection>>

\* Faulty variant of ShutdownStop: the loop is not told.
ShutdownNoStop ==
  /\ sdPc = "stop"
  /\ stopLoop' = stopLoop
  /\ sdPc' = "join"
  /\ UNCHANGED <<pc, callVars, nrReqQueue, inflight, evfd, npc, netVars, msg, memVars, cVars,
                 stopping, connection>>

ShutdownStop ==
  /\ sdPc = "stop"
  /\ stopLoop' = TRUE
  /\ sdPc' = "join"
  /\ UNCHANGED <<pc, callVars, nrReqQueue, inflight, evfd, npc, netVars, msg, memVars, cVars,
                 stopping, connection>>

\* After the join the messages left in the queue are deleted.
ShutdownJoin ==
  /\ sdPc = "join"
  /\ npc = "exited"
  /\ inflight' = <<>>
  /\ sdPc' = "stopped"
  /\ UNCHANGED <<pc, callVars, nrReqQueue, evfd, stopLoop, npc, netVars, msg, memVars, cVars,
                 stopping, connection>>

ShuttingDown == ShutdownStop \/ ShutdownJoin

\* Nothing to do: no call is under way and the network thread sleeps or is gone.
Quiescent ==
  /\ \A t \in Threads : pc[t] = "idle"
  /\ npc \in {"run", "exited"}
  /\ UNCHANGED vars

-----------------------------------------------------------------------------
\* What a thread does inside a call; the caller of a timed wait repeats it.
ThreadStep(t) ==
  \/ SubmitAioRequest(t) \/ Submitted(t) \/ ReqQueueWaitUntil(t) \/ SlotWoken(t)
  \/ Busy(t) \/ PushRequest(t) \/ XstopLoop(t)
  \/ SuspendUntimed(t) \/ SuspendTimed(t) \/ AioFinish(t)
  \/ AioWaitCompletion(t) \/ WaitSignaled(t) \/ ReleaseCompletion(t)

\* What time and the scheduler do to it.
ThreadDisturbed(t) ==
  \/ SlotSpurious(t) \/ SlotTimeout(t) \/ SuspendSpurious(t) \/ SuspendTimeout(t)
  \/ WaitSpurious(t) \/ WaitTimeout(t)

Answered(r) == OnResponse(r) \/ OnBadResponse(r) \/ OnMsgError(r)

Next ==
  \/ \E t \in Threads :
       \/ \E k \in Calls, R \in SUBSET Requests, tm \in Timed : StartCall(t, k, R, tm)
       \/ ThreadStep(t)
       \/ ThreadDisturbed(t)
  \/ \E r \in Requests : Answered(r)
  \/ NetworkThread
  \/ PeerGone
  \/ Shutdown
  \/ ShuttingDown
  \/ Quiescent

Spec == Init /\ [][Next]_vars

\* A thread inside a call, the network thread and shutdown() keep running, and
\* the peer or the transport deals with every message.
Fairness ==
  /\ \A t \in Threads : WF_vars(ThreadStep(t))
  /\ \A r \in Requests : WF_vars(Answered(r))
  /\ WF_vars(NetworkThread)
  /\ WF_vars(ShuttingDown)

FairSpec == Spec /\ Fairness

-----------------------------------------------------------------------------
(***************************************************************************)
(* Types.                                                                  *)
(***************************************************************************)
ThreadLabels ==
  {"idle", "next", "slot", "slotWait", "slotWoken", "busy", "push", "wake", "suspend",
   "suspended", "return", "waitC", "lockC", "waitingC", "completed"}

NetworkLabels ==
  {"run", "bye", "drain", "release", "complete", "callback", "signal", "notify",
   "disconnect", "exited"}

\* Every variable has its type.
TypeOK ==
  /\ pc \in [Threads -> ThreadLabels]
  /\ call \in [Threads -> SUBSET Requests]
  /\ kind \in [Threads -> {"read", "readv", "readcb"}]
  /\ todo \in [Threads -> SUBSET Requests]
  /\ cur \in [Threads -> SUBSET Requests]
  /\ timed \in [Threads -> BOOLEAN]
  /\ err \in [Threads -> BOOLEAN]
  /\ nrReqQueue \in Int
  /\ inflight \in Seq(Requests)
  /\ evfd \in BOOLEAN
  /\ stopLoop \in BOOLEAN
  /\ npc \in NetworkLabels
  /\ nback \in {"run", "bye", "send"}
  /\ nreq \in SUBSET Requests
  /\ nres \in {"none", "data", "error", "EIO"}
  /\ msg \in [Requests -> {"none", "queued", "wire", "lost", "handling", "gone"}]
  /\ mem \in [Requests -> {"none", "live", "freed"}]
  /\ group \in [Requests -> SUBSET Requests]
  /\ count \in [Requests -> Nat]
  /\ result \in [Requests -> {"none", "data", "error", "EIO"}]
  /\ cmem \in [Requests -> {"none", "live", "freed"}]
  /\ onWait \in [Requests -> BOOLEAN]
  /\ signaled \in [Requests -> BOOLEAN]
  /\ stopping \in BOOLEAN
  /\ sdPc \in {"idle", "stop", "join", "stopped"}
  /\ connection \in {"up", "down", "torn"}

-----------------------------------------------------------------------------
(***************************************************************************)
(* Properties.                                                             *)
(***************************************************************************)
\* Requests that have a slot and have not given it back.
InFlight ==
  {r \in Requests : msg[r] \in {"queued", "wire", "lost", "handling"}}
  \cup UNION {cur[t] : t \in {u \in Threads : pc[u] = "push"}}

Waiting == {t \in Threads : pc[t] \in {"slotWait", "slotWoken"}}

\* Requests whose thread gave up waiting for a slot.
GivenUp ==
  {r \in Requests : mem[r] = "freed" /\ msg[r] = "none"}
  \cup UNION {cur[t] : t \in {u \in Threads : pc[u] = "busy"}}

\* nr_req_queue counts down before the wait, so it is the depth less the slots
\* in use and less the threads that wait for one: whether a request is answered,
\* fails or cannot be sent its slot comes back once, and a slot is lost for each
\* thread that gave up and for no other reason.
SlotsExact ==
  nrReqQueue + Cardinality(InFlight) + Cardinality(Waiting) + Cardinality(GivenUp) = QD

\* The client never has more than QD requests in flight (the transport is
\* configured for twice as many messages), although a thread that is woken
\* passes on a count it decremented earlier.
InFlightBounded == Cardinality(InFlight) <= QD

\* The network thread writes to a request, through its message, only while the
\* request is allocated, and to a completion only while that is: the threads
\* free both as soon as they are told.
NoUseAfterFree ==
  /\ \A r \in Requests : msg[r] \in {"queued", "wire"} => mem[r] = "live"
  /\ \A r \in nreq : npc = "complete" \/ (npc = "release" /\ nback = "send") => mem[r] = "live"
  /\ \A r \in nreq : npc \in {"callback", "signal", "notify"} => cmem[r] = "live"

\* A request is completed once: the assert on _count of notifier::signal.
CompletesOnce ==
  \A r \in nreq : npc = "complete" => count[r] > 0 /\ result[r] = "none"

\* aio_suspend and aio_suspendv return, other than with EAGAIN, only when every
\* request of the call is complete.
SuspendTellsTruth ==
  \A t \in Threads : pc[t] = "return" => \A r \in call[t] : result[r] # "none"

\* aio_wait_completion returns 0 only when the request is complete and the
\* application's callback is over.
WaitTellsTruth ==
  \A t \in Threads : pc[t] = "completed" =>
    \A r \in call[t] : result[r] # "none" /\ (r \in nreq => npc # "callback")

\* What is pushed into the queue is sent and dealt with: no wake-up of the
\* network thread is lost between its eventfd and its queue.
QueuedIsAnswered == \A r \in Requests : msg[r] = "queued" ~> msg[r] = "gone"

\* A call returns.
CallsReturn == \A t \in Threads : pc[t] = "next" ~> pc[t] = "idle"

\* shutdown() returns.
ShutdownReturns == sdPc = "stop" ~> sdPc = "stopped"
=============================================================================
