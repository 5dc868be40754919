----------------------------- MODULE IOExecutor -----------------------------
(***************************************************************************)
(* The asynchronous I/O engine of gobjfs, class IOExecutor, in the mode    *)
(* every service runs it in (Config::noSubmitterThread_ = true).           *)
(*                                                                         *)
(* Threads.  Client threads (Submitters) call submitTask().  Reads and     *)
(* writes go through requestQueue_ and are handed to the kernel's aio      *)
(* context by ProcessRequestQueue(), which the client threads themselves   *)
(* run under submitterCond_.mutex_.  Deletes and unaligned writes go       *)
(* through fdQueue_, served by the fdQueue thread.  The completion thread  *)
(* sleeps in epoll_wait() on the aio eventfd, the shutdown eventfd and a   *)
(* periodic timer.  One more thread calls stop().                          *)
(*                                                                         *)
(* Contexts.  The aio context has Depth slots.  They are counted twice:    *)
(* by the integer ctx_.numAvailable_ and by the semaphore ctxCond_.        *)
(*                                                                         *)
(* Granularity.  A step is one access to state another thread can see.     *)
(* Accesses are merged where no other thread acts on the difference, for   *)
(* example consume_one() with decrementNumAvailable(): only the holder of  *)
(* the mutex tests either.                                                 *)
(***************************************************************************)
EXTENDS Integers, Sequences, FiniteSets

CONSTANTS
  Submitters,           \* client threads calling submitTask()
  Completer,            \* the completion thread
  Free,                 \* "nobody holds the mutex"
  NoJob,                \* "no job"
  Jobs,                 \* FilerJobs; each is submitted at most once
  FdJobs,               \* the jobs that take the fdQueue (Delete, NonAlignedWrite)
  UnalignedWrites,      \* the NonAlignedWrite jobs among them
  Depth,                \* ioQueueDepth_ = Config::queueDepth_
  MaxRequestQueueSize,  \* Config::maxRequestQueueSize_, the limit of both queues
  NumTries,             \* rounds of io_submit (5 in the code)
  BlockingModes,        \* values of submitTask's second argument
  SubmitOutcomes,       \* what io_submit may do: all, retry, part, fatal
  IoResults,            \* io_event.res, or unlink/pwrite: full, short, neg
  MayStop,              \* whether stop() may be called
  StopRequires          \* what the caller of stop() waits for first

ASSUME ThreadAssumption ==
  /\ Completer \notin Submitters
  /\ Free \notin Submitters \cup {Completer}
  /\ NoJob \notin Jobs
  /\ FdJobs \subseteq Jobs
  /\ UnalignedWrites \subseteq FdJobs
  /\ IsFiniteSet(Submitters)
  /\ IsFiniteSet(Jobs)

ASSUME SizeAssumption ==
  /\ Depth \in Nat \ {0}
  /\ MaxRequestQueueSize \in Nat
  /\ NumTries \in Nat \ {0}

ASSUME EnvironmentAssumption ==
  /\ BlockingModes \subseteq BOOLEAN
  /\ SubmitOutcomes \subseteq {"all", "retry", "part", "fatal"}
  /\ IoResults \subseteq {"full", "short", "neg"}
  /\ MayStop \in BOOLEAN
  /\ StopRequires \subseteq {"noSubmitter", "fdIdle", "ctxFree"}

VARIABLES
  state,            \* Executor::state_
  pc,               \* where each client thread and the completion thread is
  fdPc,             \* where the fdQueue thread is
  stopPc,           \* where the thread in stop() is
  cur,              \* the job each client thread is submitting
  blocking,         \* submitTask's argument of each client thread
  mutex,            \* holder of submitterCond_.mutex_
  requestQueue,     \* requestQueue_
  requestQueueSize, \* requestQueueSize_
  fdQueue,          \* fdQueue_
  fdQueueSize,      \* fdQueueSize_
  fdQueueCond,      \* fdQueueCond_, a counting semaphore
  numAvailable,     \* ctx_.numAvailable_
  ctxCond,          \* ctxCond_, a counting semaphore
  batch,            \* the iocbs of post_iocb the kernel has not taken: numRemaining
  toFail,           \* what is left of a loop that fails the batch
  failing,          \* which of the two loops that is: abort or left
  numTries,         \* rounds of io_submit left
  numQueued,        \* stats_.numQueued_
  numCompleted,     \* stats_.numCompleted_
  shutdown,         \* completionThreadShutdown_, an eventfd counter
  events,           \* epoll events the completion thread has yet to handle
  loc,              \* where each job is
  res,              \* what the kernel did with each job
  status            \* the statuses written to the completion pipe, per job

qVars    == <<requestQueue, requestQueueSize>>
fdVars   == <<fdQueue, fdQueueSize, fdQueueCond>>
ctxVars  == <<numAvailable, ctxCond>>
prqVars  == <<batch, toFail, failing, numTries>>
callVars == <<cur, blocking>>
stopVars == <<state, stopPc, shutdown>>
jobVars  == <<loc, res, status>>
counts   == <<numQueued, numCompleted>>

\* What ProcessRequestQueue is about, and what it never touches.
requestSide == <<mutex, qVars, ctxVars, prqVars>>
outside     == <<stopVars, fdPc, callVars, fdVars, events>>

allButPc   == <<outside, requestSide, counts, jobVars>>
allButStop == <<pc, fdPc, callVars, fdVars, events, requestSide, counts, jobVars>>
vars       == <<pc, allButPc>>

Runners == Submitters \cup {Completer}

Init ==
  /\ state = "RUNNING"
  /\ pc = [r \in Runners |-> IF r = Completer THEN "loop" ELSE "idle"]
  /\ fdPc = "loop"
  /\ stopPc = "idle"
  /\ cur = [t \in Submitters |-> NoJob]
  /\ blocking = [t \in Submitters |-> FALSE]
  /\ mutex = Free
  /\ requestQueue = <<>>
  /\ requestQueueSize = 0
  /\ fdQueue = <<>>
  /\ fdQueueSize = 0
  /\ fdQueueCond = 0
  /\ numAvailable = Depth
  /\ ctxCond = Depth
  /\ batch = {}
  /\ toFail = {}
  /\ failing = "left"
  /\ numTries = 0
  /\ numQueued = 0
  /\ numCompleted = 0
  /\ shutdown = 0
  /\ events = {}
  /\ loc = [j \in Jobs |-> "new"]
  /\ res = [j \in Jobs |-> "none"]
  /\ status = [j \in Jobs |-> <<>>]

Goto(r, label) == pc' = [pc EXCEPT ![r] = label]

MoveTo(S, place) == loc' = [j \in Jobs |-> IF j \in S THEN place ELSE loc[j]]

At(place) == {j \in Jobs : loc[j] = place}

\* Faulty variant of isEmpty: always room for one more.
isEmptyNever == FALSE

\* FilerCtx::isEmpty, incrementNumAvailable, decrementNumAvailable.
isEmpty == numAvailable = 0
incrementNumAvailable(n) == numAvailable' = numAvailable + n
decrementNumAvailable(n) == numAvailable' = numAvailable - n

\* Faulty variant of ctxWakeup: the semaphore is not posted.
ctxNoWakeup(n) == ctxCond' = ctxCond

\* SemaphoreWrapper::wakeup and pause of ctxCond_ and fdQueueCond_.
ctxWakeup(n) == ctxCond' = ctxCond + n
ctxPause     == ctxCond > 0 /\ ctxCond' = ctxCond - 1

\* Faulty variant of fdWakeup: the semaphore is not posted.
fdNoWakeup == fdQueueCond' = fdQueueCond

fdWakeup == fdQueueCond' = fdQueueCond + 1
fdPause  == fdQueueCond > 0 /\ fdQueueCond' = fdQueueCond - 1

\* Faulty variant of doPostProcessingOfJob: a failed job gets no status.
ReportSuccessOnly(j, code) ==
  status' = IF code # "OK" THEN status ELSE [status EXCEPT ![j] = Append(@, code)]

(***************************************************************************)
(* doPostProcessingOfJob is two steps.  FilerJob::reset() writes the       *)
(* status to the completion pipe, where a client can see it; incrementOps  *)
(* then counts the job, which the completion thread tests for its exit.    *)
(* Last the fd is closed and the job deleted.  What a second call does to  *)
(* a deleted job is undefined; as long as the memory is not reused it      *)
(* repeats all of it, and that is what is modelled.                        *)
(***************************************************************************)
doPostProcessingOfJob(j, code) == status' = [status EXCEPT ![j] = Append(@, code)]

incrementOps == numCompleted' = numCompleted + 1

-----------------------------------------------------------------------------
(***************************************************************************)
(* submitTask: the part common to both queues.                             *)
(***************************************************************************)
submitTask(t, j, b) ==
  /\ pc[t] = "idle"
  /\ loc[j] = "new"
  /\ cur' = [cur EXCEPT ![t] = j]
  /\ blocking' = [blocking EXCEPT ![t] = b]
  /\ MoveTo({j}, "held")
  /\ Goto(t, "state")
  /\ UNCHANGED <<requestSide, stopVars, fdPc, fdVars, events, counts, res, status>>

\* submitTask returns -EAGAIN and the caller keeps the job.
Reject(t) ==
  /\ MoveTo({cur[t]}, "returned")
  /\ Goto(t, "idle")

\* An unaligned write becomes a NonAlignedWrite, and blocking.
CheckState(t) ==
  /\ pc[t] = "state"
  /\ \/ /\ state # "RUNNING"
        /\ Reject(t)
        /\ UNCHANGED blocking
     \/ /\ state = "RUNNING"
        /\ blocking' = [blocking EXCEPT ![t] = @ \/ cur[t] \in UnalignedWrites]
        /\ Goto(t, IF cur[t] \in FdJobs THEN "fdRoom" ELSE "rqRoom")
        /\ UNCHANGED loc
  /\ UNCHANGED <<requestSide, stopVars, fdPc, fdVars, events, counts, cur, res, status>>

\* The limit check of either queue, against the size as it is read now.
CheckRoom(t, room, pause, enter, size) ==
  /\ pc[t] = room
  /\ \/ /\ size > MaxRequestQueueSize
        /\ ~blocking[t]
        /\ Reject(t)
     \/ /\ size > MaxRequestQueueSize
        /\ blocking[t]
        /\ Goto(t, pause)
        /\ UNCHANGED loc
     \/ /\ size <= MaxRequestQueueSize
        /\ Goto(t, enter)
        /\ UNCHANGED loc
  /\ UNCHANGED <<outside, requestSide, counts, res, status>>

\* ConditionWrapper::pause: wait with no predicate.
Pause(t, pause, wait) ==
  /\ pc[t] = pause
  /\ Goto(t, wait)
  /\ UNCHANGED allButPc

\* A condition variable may return from wait without a notification.
SpuriousWakeup(t, wait, enter) ==
  /\ pc[t] = wait
  /\ Goto(t, enter)
  /\ UNCHANGED allButPc

\* ConditionWrapper::wakeup: notify_all.
NotifyAll(p, wait, enter) ==
  [r \in Runners |-> IF p[r] = wait THEN enter ELSE p[r]]

-----------------------------------------------------------------------------
(***************************************************************************)
(* submitTask: reads and aligned writes.                                   *)
(***************************************************************************)
RequestRoom(t)     == CheckRoom(t, "rqRoom", "rqPause", "rqSize", requestQueueSize)
RequestPause(t)    == Pause(t, "rqPause", "rqWait")
RequestSpurious(t) == SpuriousWakeup(t, "rqWait", "rqSize")

RequestSize(t) ==
  /\ pc[t] = "rqSize"
  /\ requestQueueSize' = requestQueueSize + 1
  /\ Goto(t, "rqCount")
  /\ UNCHANGED <<outside, mutex, ctxVars, prqVars, counts, jobVars, requestQueue>>

RequestCount(t) ==
  /\ pc[t] = "rqCount"
  /\ numQueued' = numQueued + 1
  /\ Goto(t, "rqPush")
  /\ UNCHANGED <<outside, requestSide, jobVars, numCompleted>>

RequestPush(t) ==
  /\ pc[t] = "rqPush"
  /\ requestQueue' = Append(requestQueue, cur[t])
  /\ MoveTo({cur[t]}, "queued")
  /\ Goto(t, "rqMin")
  /\ UNCHANGED <<outside, mutex, ctxVars, prqVars, counts, requestQueueSize, res, status>>

\* Faulty variant of MinSubmitSize: one request is not worth a submit.
MinSubmitTwo == 2

\* minSubmitSize_ is 1 in this mode: only execute() ever raises it.
MinSubmitSize == 1

RequestMin(t) ==
  /\ pc[t] = "rqMin"
  /\ Goto(t, IF requestQueueSize >= MinSubmitSize THEN "rqLock" ELSE "idle")
  /\ UNCHANGED allButPc

\* Take the mutex and read the size again.
RequestLock(t) ==
  /\ pc[t] = "rqLock"
  /\ mutex = Free
  /\ \/ /\ requestQueueSize >= MinSubmitSize
        /\ mutex' = t
        /\ Goto(t, "prqCtx")
     \/ /\ requestQueueSize < MinSubmitSize
        /\ Goto(t, "idle")
        /\ UNCHANGED mutex
  /\ UNCHANGED <<outside, qVars, ctxVars, prqVars, counts, jobVars>>

-----------------------------------------------------------------------------
(***************************************************************************)
(* submitTask: deletes and unaligned writes.                               *)
(***************************************************************************)
FdRoom(t)     == CheckRoom(t, "fdRoom", "fdPause", "fdCount", fdQueueSize)
FdPause(t)    == Pause(t, "fdPause", "fdWait")
FdSpurious(t) == SpuriousWakeup(t, "fdWait", "fdCount")

FdCount(t) ==
  /\ pc[t] = "fdCount"
  /\ numQueued' = numQueued + 1
  /\ Goto(t, "fdSize")
  /\ UNCHANGED <<outside, requestSide, jobVars, numCompleted>>

FdSize(t) ==
  /\ pc[t] = "fdSize"
  /\ fdQueueSize' = fdQueueSize + 1
  /\ Goto(t, "fdPush")
  /\ UNCHANGED <<requestSide, stopVars, fdPc, callVars, events, counts, jobVars, fdQueue,
                 fdQueueCond>>

FdPush(t) ==
  /\ pc[t] = "fdPush"
  /\ fdQueue' = Append(fdQueue, cur[t])
  /\ MoveTo({cur[t]}, "fdQueued")
  /\ Goto(t, "fdPost")
  /\ UNCHANGED <<requestSide, stopVars, fdPc, callVars, events, counts, fdQueueSize,
                 fdQueueCond, res, status>>

FdPost(t) ==
  /\ pc[t] = "fdPost"
  /\ fdWakeup
  /\ Goto(t, "idle")
  /\ UNCHANGED <<requestSide, stopVars, fdPc, callVars, events, counts, jobVars, fdQueue,
                 fdQueueSize>>

-----------------------------------------------------------------------------
(***************************************************************************)
(* ProcessRequestQueue, run by a client thread or by the completion thread *)
(* while it holds submitterCond_.mutex_.                                   *)
(***************************************************************************)

\* The unique_lock goes out of scope in the caller.
Unlock(r) ==
  /\ mutex' = Free
  /\ pc' = [pc EXCEPT ![r] = IF r = Completer THEN "event" ELSE "idle"]

\* ctxCond_.pause(); ctxCond_.wakeup(): wait until a context is free.  Only
\* the holder of the mutex waits, so the pair is one step.
PrqCtx(r) ==
  /\ pc[r] = "prqCtx"
  /\ ctxCond > 0
  /\ Goto(r, "prqTake")
  /\ UNCHANGED allButPc

\* One turn of the loop that fills post_iocb.
PrqTake(r) ==
  /\ pc[r] = "prqTake"
  /\ ~isEmpty
  /\ requestQueue # <<>>
  /\ requestQueue' = Tail(requestQueue)
  /\ batch' = batch \cup {Head(requestQueue)}
  /\ MoveTo({Head(requestQueue)}, "batch")
  /\ decrementNumAvailable(1)
  /\ Goto(r, "prqSem")
  /\ UNCHANGED <<outside, mutex, counts, requestQueueSize, ctxCond, toFail, failing,
                 numTries, res, status>>

\* Faulty variant of PrqSem: requestQueueSize_ is not decremented.
PrqSemForgetsSize(r) ==
  /\ pc[r] = "prqSem"
  /\ ctxPause
  /\ requestQueueSize' = requestQueueSize
  /\ Goto(r, "prqTake")
  /\ UNCHANGED <<outside, mutex, prqVars, counts, jobVars, requestQueue, numAvailable>>

PrqSem(r) ==
  /\ pc[r] = "prqSem"
  /\ ctxPause
  /\ requestQueueSize' = requestQueueSize - 1
  /\ Goto(r, "prqTake")
  /\ UNCHANGED <<outside, mutex, prqVars, counts, jobVars, requestQueue, numAvailable>>

\* The loop ends: no context or no job is left.
PrqTaken(r) ==
  /\ pc[r] = "prqTake"
  /\ isEmpty \/ requestQueue = <<>>
  /\ \/ /\ batch = {}
        /\ Unlock(r)
        /\ UNCHANGED numTries
     \/ /\ batch # {}
        /\ numTries' = NumTries
        /\ Goto(r, "prqSubmit")
        /\ UNCHANGED mutex
  /\ UNCHANGED <<outside, qVars, ctxVars, counts, jobVars, batch, toFail, failing>>

\* io_submit takes every iocb that is left.
PrqSubmitAll(r) ==
  /\ pc[r] = "prqSubmit"
  /\ numTries > 0
  /\ "all" \in SubmitOutcomes
  /\ MoveTo(batch, "kernel")
  /\ batch' = {}
  /\ Goto(r, "prqLeft")
  /\ UNCHANGED <<outside, mutex, qVars, ctxVars, counts, toFail, failing, numTries, res,
                 status>>

\* io_submit fails with -EINTR or -EAGAIN.
PrqSubmitRetry(r) ==
  /\ pc[r] = "prqSubmit"
  /\ numTries > 0
  /\ "retry" \in SubmitOutcomes
  /\ numTries' = numTries - 1
  /\ UNCHANGED <<outside, pc, mutex, qVars, ctxVars, counts, jobVars, batch, toFail, failing>>

\* io_submit takes some of the iocbs (which ones is abstracted); the code then
\* returns their contexts although the kernel still holds them.
PrqSubmitPart(r) ==
  /\ pc[r] = "prqSubmit"
  /\ numTries > 0
  /\ "part" \in SubmitOutcomes
  /\ \E S \in SUBSET batch :
       /\ S # {} /\ S # batch
       /\ MoveTo(S, "kernel")
       /\ batch' = batch \ S
       /\ incrementNumAvailable(Cardinality(S))
       /\ ctxWakeup(Cardinality(S))
  /\ numTries' = numTries - 1
  /\ UNCHANGED <<outside, pc, mutex, qVars, counts, toFail, failing, res, status>>

\* io_submit fails for good: abort every iocb that is left.
PrqSubmitFatal(r) ==
  /\ pc[r] = "prqSubmit"
  /\ numTries > 0
  /\ "fatal" \in SubmitOutcomes
  /\ toFail' = batch
  /\ failing' = "abort"
  /\ Goto(r, "prqFail")
  /\ UNCHANGED <<outside, mutex, qVars, ctxVars, counts, jobVars, batch, numTries>>

PrqSubmitGivesUp(r) ==
  /\ pc[r] = "prqSubmit"
  /\ numTries = 0
  /\ Goto(r, "prqLeft")
  /\ UNCHANGED allButPc

\* if (numRemaining): report what could not be submitted.
PrqLeft(r) ==
  /\ pc[r] = "prqLeft"
  /\ \/ /\ batch = {}
        /\ Goto(r, "prqSpace")
        /\ UNCHANGED <<toFail, failing>>
     \/ /\ batch # {}
        /\ toFail' = batch
        /\ failing' = "left"
        /\ Goto(r, "prqFail")
  /\ UNCHANGED <<outside, mutex, qVars, ctxVars, counts, jobVars, batch, numTries>>

\* One turn of either failing loop.
PrqFail(r) ==
  /\ pc[r] = "prqFail"
  /\ \E j \in toFail :
       /\ doPostProcessingOfJob(j, IF failing = "abort" THEN "errno" ELSE "EINVAL")
       /\ MoveTo({j}, "failed")
       /\ toFail' = toFail \ {j}
  /\ Goto(r, "prqCount")
  /\ UNCHANGED <<outside, mutex, qVars, ctxVars, batch, failing, numTries, counts, res>>

PrqFailCount(r) ==
  /\ pc[r] = "prqCount"
  /\ incrementOps
  /\ Goto(r, "prqFail")
  /\ UNCHANGED <<outside, requestSide, numQueued, jobVars>>

\* After the loop the contexts go back.  The abort leaves numRemaining as it is.
PrqGiveBack(r) ==
  /\ pc[r] = "prqFail"
  /\ toFail = {}
  /\ incrementNumAvailable(Cardinality(batch))
  /\ ctxWakeup(Cardinality(batch))
  /\ MoveTo(batch, "gone")
  /\ \/ /\ failing = "abort"
        /\ Goto(r, "prqLeft")
        /\ UNCHANGED batch
     \/ /\ failing = "left"
        /\ batch' = {}
        /\ Goto(r, "prqSpace")
  /\ UNCHANGED <<outside, mutex, qVars, counts, toFail, failing, numTries, res, status>>

\* Is there room to wake the threads waiting for it?
PrqSpace(r) ==
  /\ pc[r] = "prqSpace"
  /\ \/ /\ requestQueueSize < MaxRequestQueueSize
        /\ Goto(r, "prqNotify")
        /\ UNCHANGED mutex
     \/ /\ requestQueueSize >= MaxRequestQueueSize
        /\ Unlock(r)
  /\ UNCHANGED <<outside, qVars, ctxVars, prqVars, counts, jobVars>>

PrqNotify(r) ==
  /\ pc[r] = "prqNotify"
  /\ mutex' = Free
  /\ pc' = NotifyAll([pc EXCEPT ![r] = IF r = Completer THEN "event" ELSE "idle"],
                     "rqWait", "rqSize")
  /\ UNCHANGED <<outside, qVars, ctxVars, prqVars, counts, jobVars>>

ProcessRequestQueue(r) ==
  \/ PrqCtx(r) \/ PrqTake(r) \/ PrqSem(r) \/ PrqTaken(r)
  \/ PrqSubmitAll(r) \/ PrqSubmitRetry(r) \/ PrqSubmitPart(r)
  \/ PrqSubmitFatal(r) \/ PrqSubmitGivesUp(r)
  \/ PrqLeft(r) \/ PrqFail(r) \/ PrqFailCount(r) \/ PrqGiveBack(r)
  \/ PrqSpace(r) \/ PrqNotify(r)

-----------------------------------------------------------------------------
(***************************************************************************)
(* The kernel finishes an I/O it holds and adds one to the eventfd.        *)
(***************************************************************************)
KernelComplete(j) ==
  /\ loc[j] = "kernel"
  /\ \E r \in IoResults : res' = [res EXCEPT ![j] = r]
  /\ MoveTo({j}, "event")
  /\ UNCHANGED <<outside, requestSide, pc, counts, status>>

(***************************************************************************)
(* ProcessCompletions, the completion thread.                              *)
(***************************************************************************)
\* Faulty variant of AllDone: do not wait for what is queued.
AllDoneAtOnce == state = "FINAL_SHUTDOWN"

AllDone == state = "FINAL_SHUTDOWN" /\ numQueued = numCompleted

CompleterLoop ==
  /\ pc[Completer] = "loop"
  /\ Goto(Completer, IF AllDone THEN "exited" ELSE "epoll")
  /\ UNCHANGED allButPc

\* epoll_wait returns everything that is ready; the timer may have fired.
Ready == (IF shutdown > 0 THEN {"shutdown"} ELSE {})
         \cup (IF At("event") # {} THEN {"ctx"} ELSE {})

EpollWait ==
  /\ pc[Completer] = "epoll"
  /\ events' \in {Ready, Ready \cup {"timer"}} \ {{}}
  /\ Goto(Completer, "event")
  /\ UNCHANGED <<requestSide, stopVars, fdPc, callVars, fdVars, counts, jobVars>>

EventsHandled ==
  /\ pc[Completer] = "event"
  /\ events = {}
  /\ Goto(Completer, "loop")
  /\ UNCHANGED allButPc

\* The shutdown and timer handlers: drain the event, and in the final
\* shutdown process the jobs stuck in the request queue.
WakeupEvent(e) ==
  /\ pc[Completer] = "event"
  /\ e \in events
  /\ events' = events \ {e}
  /\ shutdown' = IF e = "shutdown" THEN shutdown - 1 ELSE shutdown
  /\ Goto(Completer, IF state = "FINAL_SHUTDOWN" THEN "lock" ELSE "event")
  /\ UNCHANGED <<requestSide, fdPc, callVars, fdVars, counts, jobVars, state, stopPc>>

CompleterLock ==
  /\ pc[Completer] = "lock"
  /\ mutex = Free
  /\ mutex' = Completer
  /\ Goto(Completer, "prqCtx")
  /\ UNCHANGED <<outside, qVars, ctxVars, prqVars, counts, jobVars>>

\* Read the eventfd and get that many events with io_getevents.
CtxEvent ==
  /\ pc[Completer] = "event"
  /\ "ctx" \in events
  /\ events' = events \ {"ctx"}
  /\ MoveTo(At("event"), "reaped")
  /\ Goto(Completer, "reap")
  /\ UNCHANGED <<requestSide, stopVars, fdPc, callVars, fdVars, counts, res, status>>

\* The status ProcessCallbacks reports for io_event.res.
Retcode(r) == CASE r = "full"  -> "OK"
                [] r = "short" -> "EIO"
                [] OTHER       -> "errno"

\* ProcessCallbacks, one event: post-process, then return the context.
Callback ==
  /\ pc[Completer] = "reap"
  /\ \E j \in At("reaped") :
       /\ doPostProcessingOfJob(j, Retcode(res[j]))
       /\ MoveTo({j}, "gone")
  /\ Goto(Completer, "count")
  /\ UNCHANGED <<outside, requestSide, counts, res>>

CallbackCount ==
  /\ pc[Completer] = "count"
  /\ incrementOps
  /\ Goto(Completer, "inc")
  /\ UNCHANGED <<outside, requestSide, numQueued, jobVars>>

CallbackInc ==
  /\ pc[Completer] = "inc"
  /\ incrementNumAvailable(1)
  /\ Goto(Completer, "post")
  /\ UNCHANGED <<outside, mutex, qVars, prqVars, counts, jobVars, ctxCond>>

CallbackPost ==
  /\ pc[Completer] = "post"
  /\ ctxWakeup(1)
  /\ Goto(Completer, "reap")
  /\ UNCHANGED <<outside, mutex, qVars, prqVars, counts, jobVars, numAvailable>>

CallbacksDone ==
  /\ pc[Completer] = "reap"
  /\ At("reaped") = {}
  /\ Goto(Completer, "event")
  /\ UNCHANGED allButPc

ProcessCompletions ==
  \/ CompleterLoop \/ EpollWait \/ EventsHandled \/ CompleterLock \/ CtxEvent
  \/ \E e \in {"shutdown", "timer"} : WakeupEvent(e)
  \/ Callback \/ CallbackCount \/ CallbackInc \/ CallbackPost \/ CallbacksDone
  \/ ProcessRequestQueue(Completer)

-----------------------------------------------------------------------------
(***************************************************************************)
(* ProcessFdQueue, the fdQueue thread.                                     *)
(***************************************************************************)
FdLoop ==
  /\ fdPc = "loop"
  /\ fdPc' = IF state = "NO_MORE_INTAKE" THEN "exited" ELSE "wait"
  /\ UNCHANGED <<requestSide, stopVars, pc, callVars, fdVars, events, counts, jobVars>>

FdWait ==
  /\ fdPc = "wait"
  /\ fdPause
  /\ fdPc' = "consume"
  /\ UNCHANGED <<requestSide, stopVars, pc, callVars, events, counts, jobVars, fdQueue,
                 fdQueueSize>>

\* unlink succeeds or fails; pwrite may also write less than it was asked to.
FdResults(j) == IoResults \ (IF j \in UnalignedWrites THEN {} ELSE {"short"})

\* The statuses a delete or unaligned write may report.  After a short pwrite
\* the code reports -errno although no call has failed: errno holds whatever
\* the thread's last failing call left there, 0 included.
FdRetcodes(r) == CASE r = "full"  -> {"OK"}
                   [] r = "short" -> {"OK", "errno"}
                   [] OTHER       -> {"errno"}

FdConsume ==
  /\ fdPc = "consume"
  /\ \/ /\ fdQueue = <<>>
        /\ fdPc' = "exited"
        /\ UNCHANGED <<jobVars, fdQueue>>
     \/ /\ fdQueue # <<>>
        /\ \E r \in FdResults(Head(fdQueue)) :
             /\ res' = [res EXCEPT ![Head(fdQueue)] = r]
             /\ \E code \in FdRetcodes(r) : doPostProcessingOfJob(Head(fdQueue), code)
        /\ MoveTo({Head(fdQueue)}, "gone")
        /\ fdQueue' = Tail(fdQueue)
        /\ fdPc' = "count"
  /\ UNCHANGED <<requestSide, stopVars, pc, callVars, events, fdQueueSize, fdQueueCond,
                 counts>>

\* Faulty variant of FdCounted: the jobs of the fdQueue are not counted.
FdUncounted ==
  /\ fdPc = "count"
  /\ fdPc' = "dec"
  /\ UNCHANGED <<requestSide, stopVars, pc, callVars, fdVars, events, counts, jobVars>>

FdCounted ==
  /\ fdPc = "count"
  /\ incrementOps
  /\ fdPc' = "dec"
  /\ UNCHANGED <<requestSide, stopVars, pc, callVars, fdVars, events, numQueued, jobVars>>

FdDec ==
  /\ fdPc = "dec"
  /\ fdQueueSize' = fdQueueSize - 1
  /\ fdPc' = "space"
  /\ UNCHANGED <<requestSide, stopVars, pc, callVars, events, counts, jobVars, fdQueue,
                 fdQueueCond>>

FdSpace ==
  /\ fdPc = "space"
  /\ fdPc' = IF fdQueueSize >= MaxRequestQueueSize THEN "notify" ELSE "loop"
  /\ UNCHANGED <<requestSide, stopVars, pc, callVars, fdVars, events, counts, jobVars>>

FdNotify ==
  /\ fdPc = "notify"
  /\ fdPc' = "loop"
  /\ pc' = NotifyAll(pc, "fdWait", "fdCount")
  /\ UNCHANGED <<requestSide, stopVars, callVars, fdVars, events, counts, jobVars>>

ProcessFdQueue == FdLoop \/ FdWait \/ FdConsume \/ FdCounted \/ FdDec \/ FdSpace \/ FdNotify

-----------------------------------------------------------------------------
(***************************************************************************)
(* stop().  StopRequires says what its caller waits for: no thread is in   *)
(* submitTask; the fdQueue thread has nothing left to do; some context is  *)
(* free.  The code asks for none of the three.                             *)
(***************************************************************************)
StopAllowed ==
  /\ "noSubmitter" \in StopRequires => \A t \in Submitters : pc[t] = "idle"
  /\ "fdIdle" \in StopRequires => fdQueue = <<>> /\ fdPc \in {"loop", "wait"}
  /\ "ctxFree" \in StopRequires => numAvailable > 0

stop ==
  /\ MayStop
  /\ stopPc = "idle"
  /\ StopAllowed
  /\ state' = "NO_MORE_INTAKE"
  /\ stopPc' = "fdWake"
  /\ UNCHANGED <<allButStop, shutdown>>

StopFdWake ==
  /\ stopPc = "fdWake"
  /\ fdWakeup
  /\ stopPc' = "fdJoin"
  /\ UNCHANGED <<requestSide, fdPc, pc, callVars, events, counts, jobVars, state, shutdown,
                 fdQueue, fdQueueSize>>

StopFdJoin ==
  /\ stopPc = "fdJoin"
  /\ fdPc = "exited"
  /\ state' = "FINAL_SHUTDOWN"
  /\ stopPc' = "send"
  /\ UNCHANGED <<allButStop, shutdown>>

StopSend ==
  /\ stopPc = "send"
  /\ shutdown' = shutdown + 1
  /\ stopPc' = "join"
  /\ UNCHANGED <<allButStop, state>>

StopJoin ==
  /\ stopPc = "join"
  /\ pc[Completer] = "exited"
  /\ state' = "TERMINATED"
  /\ stopPc' = "done"
  /\ UNCHANGED <<allButStop, shutdown>>

Stopping == StopFdWake \/ StopFdJoin \/ StopSend \/ StopJoin

\* Once stop() has returned every thread of the executor is gone.
Terminated == stopPc = "done" /\ UNCHANGED vars

-----------------------------------------------------------------------------
\* What a thread does once it is inside submitTask.
SubmitterStep(t) ==
  \/ CheckState(t)
  \/ RequestRoom(t) \/ RequestPause(t) \/ RequestSize(t) \/ RequestCount(t)
  \/ RequestPush(t) \/ RequestMin(t) \/ RequestLock(t)
  \/ FdRoom(t) \/ FdPause(t) \/ FdCount(t) \/ FdSize(t) \/ FdPush(t) \/ FdPost(t)
  \/ ProcessRequestQueue(t)

Next ==
  \/ \E t \in Submitters :
       \/ \E j \in Jobs, b \in BlockingModes : submitTask(t, j, b)
       \/ SubmitterStep(t)
       \/ RequestSpurious(t)
       \/ FdSpurious(t)
  \/ \E j \in Jobs : KernelComplete(j)
  \/ ProcessCompletions
  \/ ProcessFdQueue
  \/ stop
  \/ Stopping
  \/ Terminated

Spec == Init /\ [][Next]_vars

\* Every thread that is inside the executor keeps running and the kernel
\* finishes what it was given.  Whether a client submits another job or calls
\* stop() is its own business, and no condition variable has to wake by itself.
Fairness ==
  /\ \A t \in Submitters : WF_vars(SubmitterStep(t))
  /\ \A j \in Jobs : WF_vars(KernelComplete(j))
  /\ WF_vars(ProcessCompletions)
  /\ WF_vars(ProcessFdQueue)
  /\ WF_vars(Stopping)

FairSpec == Spec /\ Fairness

-----------------------------------------------------------------------------
(***************************************************************************)
(* Types.                                                                  *)
(***************************************************************************)
PrqLabels == {"prqCtx", "prqTake", "prqSem", "prqSubmit", "prqLeft", "prqFail", "prqCount",
              "prqSpace", "prqNotify"}

SubmitterLabels ==
  {"idle", "state", "rqRoom", "rqPause", "rqWait", "rqSize", "rqCount", "rqPush",
   "rqMin", "rqLock", "fdRoom", "fdPause", "fdWait", "fdCount", "fdSize", "fdPush",
   "fdPost"} \cup PrqLabels

CompleterLabels ==
  {"loop", "epoll", "event", "lock", "reap", "count", "inc", "post", "exited"} \cup PrqLabels

Places == {"new", "held", "returned", "queued", "fdQueued", "batch", "kernel", "event",
           "reaped", "failed", "gone"}

Codes == {"OK", "EIO", "errno", "EINVAL"}

\* Every variable has its type; the signed counters of the code are integers.
TypeOK ==
  /\ state \in {"RUNNING", "NO_MORE_INTAKE", "FINAL_SHUTDOWN", "TERMINATED"}
  /\ pc \in [Runners -> SubmitterLabels \cup CompleterLabels]
  /\ pc[Completer] \in CompleterLabels
  /\ \A t \in Submitters : pc[t] \in SubmitterLabels
  /\ fdPc \in {"loop", "wait", "consume", "count", "dec", "space", "notify", "exited"}
  /\ stopPc \in {"idle", "fdWake", "fdJoin", "send", "join", "done"}
  /\ cur \in [Submitters -> Jobs \cup {NoJob}]
  /\ blocking \in [Submitters -> BOOLEAN]
  /\ mutex \in Runners \cup {Free}
  /\ requestQueue \in Seq(Jobs)
  /\ requestQueueSize \in Int
  /\ fdQueue \in Seq(Jobs)
  /\ fdQueueSize \in Int
  /\ fdQueueCond \in Nat
  /\ numAvailable \in Int
  /\ ctxCond \in Nat
  /\ batch \in SUBSET Jobs
  /\ toFail \in SUBSET Jobs
  /\ failing \in {"abort", "left"}
  /\ numTries \in 0..NumTries
  /\ numQueued \in Nat
  /\ numCompleted \in Nat
  /\ shutdown \in Int
  /\ events \in SUBSET {"shutdown", "timer", "ctx"}
  /\ loc \in [Jobs -> Places]
  /\ res \in [Jobs -> IoResults \cup {"none"}]
  /\ status \in [Jobs -> Seq(Codes)]

-----------------------------------------------------------------------------
(***************************************************************************)
(* Properties.                                                             *)
(***************************************************************************)
One(b) == IF b THEN 1 ELSE 0

\* The jobs whose context has been taken and not yet returned.
Holding == At("batch") \cup At("kernel") \cup At("event") \cup At("reaped") \cup At("failed")

\* Two counters describe the free contexts, and neither ever loses or invents
\* one: numAvailable_ is Depth less the jobs that hold a context (and the one
\* the completion thread is about to return), and ctxCond_ differs from it only
\* by the half-done update of the mutex holder or of the completion thread.
\* It implies the asserts 0 <= numAvailable_ <= ioQueueDepth_ of FilerCtx.
CtxAccounting ==
  /\ numAvailable + Cardinality(Holding) + One(pc[Completer] \in {"count", "inc"}) = Depth
  /\ ctxCond = numAvailable + One(\E r \in Runners : pc[r] = "prqSem")
                            - One(pc[Completer] = "post")

\* The asserts of FilerCtx::incrementNumAvailable and decrementNumAvailable.
CtxBounds == numAvailable \in 0..Depth

\* post_iocb and cbVec are arrays of ioQueueDepth_ elements on the stack:
\* ProcessRequestQueue never collects more jobs than that, although the
\* completion thread returns contexts while the collecting loop runs.
BatchFits == Cardinality(batch) <= Depth

\* requestQueueSize_ and fdQueueSize_ are incremented before the push and
\* decremented after the pop, by different threads; they are exact up to the
\* threads between the two, so they are never negative and never below the
\* queues' lengths (on which the tests in submitTask rely).
SizesExact ==
  /\ requestQueueSize = Len(requestQueue)
       + Cardinality({t \in Submitters : pc[t] \in {"rqCount", "rqPush"}})
       + One(\E r \in Runners : pc[r] = "prqSem")
  /\ fdQueueSize = Len(fdQueue)
       + Cardinality({t \in Submitters : pc[t] = "fdPush"})
       + One(fdPc \in {"count", "dec"})

\* Threads that have pushed a request and have not yet had their turn at the
\* queue.
Committed ==
  {t \in Submitters : \/ pc[t] \in {"rqMin", "rqLock", "prqCtx"}
                      \/ pc[t] = "prqTake" /\ batch = {}}

\* There is no submitter thread, so a request left in the queue when the last
\* client thread returns from submitTask would stay there: for every queued
\* request there is a thread still bound to take one out, even when contexts
\* run out in the middle of a batch and the next thread finds other threads'
\* requests in front of its own.
NoStrandedRequest == Len(requestQueue) <= Cardinality(Committed)

\* A job is reported on its completion pipe at most once and exactly when the
\* executor has let go of it (it is then deleted), whichever of the kernel,
\* the retry limit and the fdQueue thread ended it.
ReportedOnce ==
  \A j \in Jobs :
    /\ Len(status[j]) <= 1
    /\ status[j] # <<>> <=> loc[j] \in {"failed", "gone"}

\* The jobs the executor has taken and not reported: a thread has counted the
\* job and is about to push it, or it is past the push.
InHand ==
  {j \in Jobs : \/ loc[j] \in {"queued", "fdQueued", "batch", "kernel", "event", "reaped"}
                \/ \E t \in Submitters : pc[t] \in {"rqPush", "fdSize", "fdPush"} /\ cur[t] = j}

\* The completion thread leaves its loop when numQueued_ = numCompleted_, and
\* any client thread, the fdQueue thread and the completion thread itself
\* count.  The two differ by exactly the jobs in the executor's hands and the
\* reports a thread has made and not yet counted: the test fails as long as one
\* of either is left, and nothing else can make it fail.
CountsExact ==
  numQueued = numCompleted + Cardinality(InHand)
    + One(\E r \in Runners : pc[r] = "prqCount")
    + One(pc[Completer] = "count") + One(fdPc = "count")

\* Jobs submitTask has accepted, or will, and that are not yet reported.
Outstanding ==
  {j \in Jobs : loc[j] \in {"queued", "fdQueued", "batch", "kernel", "event", "reaped"}}
  \cup {cur[t] : t \in {u \in Submitters :
          pc[u] \in {"rqSize", "rqCount", "rqPush", "fdCount", "fdSize", "fdPush"}}}

\* When the completion thread leaves its loop every accepted job has been
\* reported: "all outstanding IO done. now its safe to exit".
SafeExit == pc[Completer] = "exited" => Outstanding = {}

\* Every job submitTask has put in a queue is eventually reported.
QueuedIsReported ==
  \A j \in Jobs : loc[j] \in {"queued", "fdQueued"} ~> loc[j] = "gone"

\* A thread in submitTask eventually returns from it or sleeps in the wait for
\* room, whose condition variable has no predicate and which no line of the code
\* promises to end: the mutex, which another thread may hold while it waits for
\* a context, keeps no thread for ever.
SubmitReturns ==
  \A t \in Submitters : pc[t] # "idle" ~> pc[t] \in {"idle", "rqWait", "fdWait"}

\* A call of stop() eventually returns.
StopReturns == stopPc = "fdWake" ~> stopPc = "done"

-----------------------------------------------------------------------------
(***************************************************************************)
(* The executor implements IOService.                                      *)
(***************************************************************************)
\* Past its last check for refusal the thread t can only accept its job.
Accepting(t) == pc[t] \in {"rqPause", "rqWait", "rqSize", "rqCount", "rqPush",
                           "fdPause", "fdWait", "fdCount", "fdSize", "fdPush"}

PhaseOf(j) ==
  CASE loc[j] = "new"                -> "new"
    [] loc[j] = "returned"           -> "refused"
    [] loc[j] \in {"failed", "gone"} -> "reported"
    [] loc[j] = "held"               -> IF \E t \in Submitters : cur[t] = j /\ Accepting(t)
                                        THEN "accepted" ELSE "calling"
    [] OTHER                         -> "accepted"

Service == INSTANCE IOService WITH phase  <- [j \in Jobs |-> PhaseOf(j)],
                                   closed <- (pc[Completer] = "exited")

\* Every step of the threads, the kernel and stop() is a step IOService allows
\* or no step at all: whatever the interleaving, a client sees its job refused
\* or reported once, and the engine closed only after the last report.
ImplementsService == Service!SvcSpec
=============================================================================
