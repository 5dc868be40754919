------------------------------ MODULE FileApi ------------------------------
(***************************************************************************)
(* The file API of gIOExecFile.cpp over the I/O engine: handles of files   *)
(* and of the event pipe, batches of fragments, the jobs made of them, and *)
(* the descriptors all of them share.                                      *)
(*                                                                         *)
(* Application threads open, read, write, delete and close.  A fragment    *)
(* with data becomes a job that carries the NUMBER of a descriptor.  The   *)
(* engine is IOService, the abstract specification IOExecutor is shown to  *)
(* implement; here each of its executors also picks up the descriptor when *)
(* it submits a job to the kernel, writes the job's status to the event    *)
(* pipe and, for a read by name, closes the descriptor.                    *)
(*                                                                         *)
(* External: the kernel gives open() the lowest free number, a write to a  *)
(* full pipe waits.  The application (the tests, the benchmark and the     *)
(* network server) closes a file or the pipe only after it has read the    *)
(* status of every job on it, frees a batch only after it has read the     *)
(* status of every fragment, and destroys the service when no call runs    *)
(* and no delete or unaligned write is under way.  That, and a free        *)
(* context in each executor, is what IOExecutor needs to implement         *)
(* IOService (its StopRequires).                                           *)
(***************************************************************************)
EXTENDS Integers, Sequences, FiniteSets

CONSTANTS
  Threads,     \* application threads
  Handles,     \* IOExecFileInt objects; each is made once
  Batches,     \* gIOBatch objects; each is used in one call
  Fragments,   \* fragments with data, by their completionId
  Shape,       \* Shape[b]: the fragments of the batch b; Empty for one without data
  ByName,      \* the batches that are read by the name of the file
  Unaligned,   \* fragments that are written and whose size is not aligned
  Deletes,     \* completionIds of IOExecFileDelete
  Executors,   \* ioexecVec
  Slot,        \* Slot[h]: getSlot of the name of the file of h
  Slot0,       \* ioexecVec[0], the executor of deletes
  NumFds,      \* descriptors the process may have
  PipeSize,    \* statuses the event pipe holds
  Empty,       \* a fragment of size 0 or without a buffer
  Nothing      \* a descriptor that is closed; no job; no number

Jobs == Fragments \cup Deletes
Fds  == 0..(NumFds - 1)
FD_INVALID == -1

\* What the fdQueue thread of an executor serves; its completion thread serves the rest.
FdJobs  == Unaligned \cup Deletes
Posters == Executors \X {"completion", "fdQueue"}

ASSUME ApiAssumption ==
  /\ Shape \in [Batches -> Seq(Fragments \cup {Empty})]
  /\ \A b \in Batches : Len(Shape[b]) > 0
  /\ Slot \in [Handles -> Executors] /\ Slot0 \in Executors
  /\ ByName \subseteq Batches
  /\ Unaligned \subseteq Fragments
  /\ NumFds \in Nat /\ PipeSize \in Nat \ {0}
  /\ Empty \notin Fragments
  /\ Fragments \cap Deletes = {}
  /\ Nothing \notin Handles \cup Jobs \cup Int \cup {"pipe"}
  /\ "pipe" \notin Handles

\* Every fragment is in one place of one batch.
ASSUME FragmentAssumption ==
  \A b, c \in Batches : \A i \in DOMAIN Shape[b], k \in DOMAIN Shape[c] :
    Shape[b][i] = Shape[c][k] /\ Shape[b][i] # Empty => b = c /\ i = k

\* What is read by name is not written.
ASSUME ReadAssumption ==
  \A b \in ByName : \A i \in DOMAIN Shape[b] : Shape[b][i] \notin Unaligned

VARIABLES
  desc,      \* what each descriptor number stands for: a handle's file, the pipe or Nothing
  hfd,       \* IOExecFileInt::fd
  hstate,    \* none, open or deleted
  ev,        \* the event handle: none, open or deleted
  evfd,      \* its two descriptors
  bstate,    \* app (the application's), given (used in a call) or freed
  pc,        \* where each application thread is
  th, tb,    \* the handle and the batch of its call
  idx,       \* the fragment it is at
  retcode,   \* retcode of IOExecFileOp
  jfd,       \* FilerJob::fd_
  jh,        \* the handle it was taken from (history)
  jclose,    \* FilerJob::closeFileHandle_
  jstate,    \* where each job is in its executor
  post,      \* the job whose doPostProcessingOfJob runs in each thread of an executor
  pipe,      \* the statuses in the event pipe
  reaped,    \* the jobs whose status the application has read
  dpc,       \* IOExecFileServiceDestroy: idle, stopping or done
  phase, closed   \* IOService

fileVars == <<desc, hfd, hstate, ev, evfd>>
callVars == <<pc, th, tb, idx, retcode>>
jobVars  == <<jfd, jh, jclose, jstate>>
outVars  == <<post, pipe, reaped>>
svcVars  == <<phase, closed>>
vars     == <<fileVars, bstate, callVars, jobVars, outVars, dpc, svcVars>>

Engine == INSTANCE IOService

Init ==
  /\ desc = [n \in Fds |-> Nothing]
  /\ hfd = [h \in Handles |-> FD_INVALID]
  /\ hstate = [h \in Handles |-> "none"]
  /\ ev = "none" /\ evfd = <<Nothing, Nothing>>
  /\ bstate = [b \in Batches |-> "app"]
  /\ pc = [t \in Threads |-> "idle"]
  /\ th = [t \in Threads |-> Nothing]
  /\ tb = [t \in Threads |-> Nothing]
  /\ idx = [t \in Threads |-> 1]
  /\ retcode = [t \in Threads |-> "0"]
  /\ jfd = [j \in Jobs |-> Nothing]
  /\ jh = [j \in Jobs |-> Nothing]
  /\ jclose = [j \in Jobs |-> FALSE]
  /\ jstate = [j \in Jobs |-> "none"]
  /\ post = [e \in Posters |-> Nothing]
  /\ pipe = <<>> /\ reaped = {}
  /\ dpc = "idle"
  /\ Engine!SvcInit

-----------------------------------------------------------------------------
(***************************************************************************)
(* Descriptors.                                                            *)
(***************************************************************************)
\* External: the number open() or pipe() gives out in the table d.
LowestFree(d) == {n \in Fds : d[n] = Nothing /\ \A k \in 0..(n - 1) : d[k] # Nothing}

\* close(n) in the table d; EBADF changes nothing.
Closed(d, n) == [k \in Fds |-> IF k = n THEN Nothing ELSE d[k]]

\* The job's executor: IOExecFileOp takes that of the handle, IOExecFileDelete the first.
ExecutorOf(j, h) == IF j \in Deletes THEN Slot0 ELSE Slot[h]

\* The thread that calls doPostProcessingOfJob for j.
PosterOf(j) == <<ExecutorOf(j, jh[j]), IF j \in FdJobs THEN "fdQueue" ELSE "completion">>

\* The jobs the application has not seen the end of.
Unseen == {j \in Jobs : phase[j] \in {"calling", "accepted", "reported"}} \ reaped

InCall(t) == pc[t] # "idle"
Idle(t)   == pc[t] = "idle" /\ dpc = "idle"

\* The call is over, and with it its local variables.
Return(t) ==
  /\ pc' = [pc EXCEPT ![t] = "idle"]
  /\ th' = [th EXCEPT ![t] = Nothing]
  /\ tb' = [tb EXCEPT ![t] = Nothing]
  /\ idx' = [idx EXCEPT ![t] = 1]
  /\ retcode' = [retcode EXCEPT ![t] = "0"]

\* IOExecEventFdOpen.  pipe() is given two descriptors.
IOExecEventFdOpen(t) ==
  /\ Idle(t)
  /\ ev = "none"
  /\ \E r \in LowestFree(desc) :
       \E w \in LowestFree([desc EXCEPT ![r] = "pipe"]) :
         /\ desc' = [desc EXCEPT ![r] = "pipe", ![w] = "pipe"]
         /\ evfd' = <<r, w>>
  /\ ev' = "open"
  /\ UNCHANGED <<hfd, hstate, bstate, callVars, jobVars, outVars, dpc, svcVars>>

IOExecEventFdClose(t) ==
  /\ pc[t] = "idle"
  /\ ev = "open"
  /\ Unseen = {} /\ \A s \in Threads : ~InCall(s)
  /\ desc' = Closed(Closed(desc, evfd[1]), evfd[2])
  /\ ev' = "deleted"
  /\ UNCHANGED <<hfd, hstate, evfd, bstate, callVars, jobVars, outVars, dpc, svcVars>>

\* Faulty variant of NewHandle: the result of open() is not looked at.
NewHandleUnchecked(h) ==
  /\ hstate[h] = "none"
  /\ \/ \E n \in LowestFree(desc) :
          /\ desc' = [desc EXCEPT ![n] = h]
          /\ hfd' = [hfd EXCEPT ![h] = n]
     \/ UNCHANGED <<desc, hfd>>
  /\ hstate' = [hstate EXCEPT ![h] = "open"]

\* IOExecFileOpen: open() gives the descriptor n, the handle h is made.
NewHandle(h) ==
  /\ hstate[h] = "none"
  /\ \E n \in LowestFree(desc) :
       /\ desc' = [desc EXCEPT ![n] = h]
       /\ hfd' = [hfd EXCEPT ![h] = n]
  /\ hstate' = [hstate EXCEPT ![h] = "open"]

IOExecFileOpen(t, h) ==
  /\ Idle(t)
  /\ NewHandle(h)
  /\ UNCHANGED <<ev, evfd, bstate, callVars, jobVars, outVars, dpc, svcVars>>

\* ~IOExecFileInt.  (The number dies with the handle.)
DeleteHandle(h) ==
  /\ hstate' = [hstate EXCEPT ![h] = "deleted"]
  /\ desc' = IF hfd[h] # FD_INVALID THEN Closed(desc, hfd[h]) ELSE desc
  /\ hfd' = [hfd EXCEPT ![h] = FD_INVALID]

\* IOExecFileClose.
IOExecFileClose(t, h) ==
  /\ pc[t] = "idle"
  /\ hstate[h] = "open"
  /\ \A s \in Threads : InCall(s) => th[s] # h
  /\ \A j \in Unseen : jh[j] # h
  /\ DeleteHandle(h)
  /\ UNCHANGED <<ev, evfd, bstate, callVars, jobVars, outVars, dpc, svcVars>>

-----------------------------------------------------------------------------
(***************************************************************************)
(* Calls with a batch.                                                     *)
(***************************************************************************)
totalCount(t) == Len(Shape[tb[t]])

\* The start of IOExecFileOp: with no event handle it is rejected.
StartOp(t, h, b) ==
  /\ bstate[b] = "app"
  /\ bstate' = [bstate EXCEPT ![b] = "given"]
  /\ th' = [th EXCEPT ![t] = h]
  /\ tb' = [tb EXCEPT ![t] = b]
  /\ idx' = [idx EXCEPT ![t] = IF ev = "open" THEN 1 ELSE Len(Shape[b]) + 1]
  /\ retcode' = [retcode EXCEPT ![t] = IF ev = "open" THEN "0" ELSE "EINVAL"]
  /\ pc' = [pc EXCEPT ![t] = "loop"]

\* IOExecFileRead and IOExecFileWrite with a handle.
IOExecFileOp(t, h, b) ==
  /\ Idle(t)
  /\ b \notin ByName
  /\ hstate[h] = "open"
  /\ \A s \in Threads : InCall(s) => ~(th[s] = h /\ tb[s] \in ByName)
  /\ ev # "deleted"
  /\ StartOp(t, h, b)
  /\ UNCHANGED <<fileVars, jobVars, outVars, dpc, svcVars>>

\* IOExecFileRead by name opens the file first; the handle h is its own.  (If that
\* fails it returns -EIO and has changed nothing.)
IOExecFileReadByName(t, h, b) ==
  /\ Idle(t)
  /\ b \in ByName
  /\ ev # "deleted"
  /\ NewHandle(h)
  /\ StartOp(t, h, b)
  /\ UNCHANGED <<ev, evfd, jobVars, outVars, dpc, svcVars>>

\* The end of the loop's body.
Advance(t) ==
  /\ idx' = [idx EXCEPT ![t] = @ + 1]
  /\ pc' = [pc EXCEPT ![t] = "loop"]

\* Faulty variant of ReadsBatch: the loop tests batch->count.
ReadsCount(t) == pc[t] = "loop"

\* The thread is about to read the memory of its batch; it has a copy of batch->count.
ReadsBatch(t) == pc[t] = "loop" /\ idx[t] <= totalCount(t)

\* The loop is over.
LoopDone(t) == pc[t] = "loop" /\ idx[t] > totalCount(t)

\* A fragment without data is passed over.
SkipFragment(t) ==
  /\ pc[t] = "loop" /\ idx[t] <= totalCount(t)
  /\ Shape[tb[t]][idx[t]] = Empty
  /\ Advance(t)
  /\ UNCHANGED <<fileVars, bstate, th, tb, retcode, jobVars, outVars, dpc, svcVars>>

\* The job of the fragment the thread is at.
JobOf(t) == Shape[tb[t]][idx[t]]

\* new FilerJob: it gets the number of the descriptor, and closes it if the file was
\* opened by name.
NewJob(t, j) ==
  /\ jfd' = [jfd EXCEPT ![j] = hfd[th[t]]]
  /\ jh' = [jh EXCEPT ![j] = th[t]]
  /\ jclose' = [jclose EXCEPT ![j] = tb[t] \in ByName]

MakeJob(t) ==
  /\ pc[t] = "loop" /\ idx[t] <= totalCount(t)
  /\ JobOf(t) \in Fragments
  /\ NewJob(t, JobOf(t))
  /\ Engine!Call(JobOf(t))
  /\ pc' = [pc EXCEPT ![t] = "submit"]
  /\ UNCHANGED <<fileVars, bstate, th, tb, idx, retcode, jstate, outVars, dpc>>

\* submitTask takes the job: it may be over before submitTask returns.
SubmitTask(t) ==
  /\ pc[t] = "submit"
  /\ Engine!Accept(JobOf(t))
  /\ jstate' = [jstate EXCEPT ![JobOf(t)] = "queued"]
  /\ retcode' = [retcode EXCEPT ![t] = "0"]
  /\ Advance(t)
  /\ UNCHANGED <<fileVars, bstate, th, tb, jfd, jh, jclose, outVars, dpc>>

\* submitTask refuses the job, whose queue is full; it is deleted.  An unaligned write
\* waits for room instead.
RefuseTask(t) ==
  /\ pc[t] = "submit"
  /\ JobOf(t) \notin Unaligned
  /\ Engine!Refuse(JobOf(t))
  /\ retcode' = [retcode EXCEPT ![t] = "EAGAIN"]
  /\ Advance(t)
  /\ UNCHANGED <<fileVars, bstate, th, tb, jobVars, outVars, dpc>>

\* The call with a handle returns.
OpReturns(t) ==
  /\ LoopDone(t)
  /\ tb[t] \notin ByName
  /\ Return(t)
  /\ UNCHANGED <<fileVars, bstate, jobVars, outVars, dpc, svcVars>>

\* Faulty variant of ForgetFd: the handle keeps the descriptor.
KeepFd(t) ==
  /\ LoopDone(t)
  /\ tb[t] \in ByName
  /\ pc' = [pc EXCEPT ![t] = "delete"]
  /\ UNCHANGED <<fileVars, bstate, th, tb, idx, retcode, jobVars, outVars, dpc, svcVars>>

\* Faulty variant of ForgetFd: whatever submitTask has said.
ForgetAlways(t) ==
  /\ LoopDone(t)
  /\ tb[t] \in ByName
  /\ hfd' = [hfd EXCEPT ![th[t]] = FD_INVALID]
  /\ pc' = [pc EXCEPT ![t] = "delete"]
  /\ UNCHANGED <<desc, hstate, ev, evfd, bstate, th, tb, idx, retcode, jobVars, outVars, dpc,
                 svcVars>>

\* The read by name: if the request was submitted the job will close the descriptor,
\* so the handle forgets it; if not the handle closes it.
ForgetFd(t) ==
  /\ LoopDone(t)
  /\ tb[t] \in ByName
  /\ hfd' = IF retcode[t] = "0" THEN [hfd EXCEPT ![th[t]] = FD_INVALID] ELSE hfd
  /\ pc' = [pc EXCEPT ![t] = "delete"]
  /\ UNCHANGED <<desc, hstate, ev, evfd, bstate, th, tb, idx, retcode, jobVars, outVars, dpc,
                 svcVars>>

ReadByNameReturns(t) ==
  /\ pc[t] = "delete"
  /\ DeleteHandle(th[t])
  /\ Return(t)
  /\ UNCHANGED <<ev, evfd, bstate, jobVars, outVars, dpc, svcVars>>

-----------------------------------------------------------------------------
(***************************************************************************)
(* Deletes.                                                                *)
(***************************************************************************)
\* IOExecFileDelete.  (Rejected without an event handle or if the name cannot be
\* translated; that changes nothing.)
IOExecFileDelete(t, d) ==
  /\ Idle(t)
  /\ ev = "open"
  /\ Engine!Call(d)
  /\ tb' = [tb EXCEPT ![t] = d]
  /\ pc' = [pc EXCEPT ![t] = "delSubmit"]
  /\ UNCHANGED <<fileVars, bstate, th, idx, retcode, jobVars, outVars, dpc>>

\* Its submitTask waits for room instead of refusing.
SubmitDelete(t) ==
  /\ pc[t] = "delSubmit"
  /\ Engine!Accept(tb[t])
  /\ jstate' = [jstate EXCEPT ![tb[t]] = "queued"]
  /\ Return(t)
  /\ UNCHANGED <<fileVars, bstate, jfd, jh, jclose, outVars, dpc>>

InCallStep(t) ==
  \/ SkipFragment(t) \/ MakeJob(t) \/ SubmitTask(t) \/ RefuseTask(t)
  \/ OpReturns(t) \/ ForgetFd(t) \/ ReadByNameReturns(t) \/ SubmitDelete(t)

-----------------------------------------------------------------------------
(***************************************************************************)
(* The executors.                                                          *)
(***************************************************************************)
\* External: io_submit.  The kernel looks the descriptor up now and keeps the file
\* (or fails the job, if there is none); a delete is an unlink().
KernelTakes(j) ==
  /\ jstate[j] = "queued"
  /\ jstate' = [jstate EXCEPT ![j] = "kernel"]
  /\ UNCHANGED <<fileVars, bstate, callVars, jfd, jh, jclose, outVars, dpc, svcVars>>

\* Faulty variant of StartPost: the executor leaves at once when it is stopped.
StartPostWhileRunning(e, j) ==
  /\ dpc = "idle"
  /\ jstate[j] = "kernel"
  /\ post[e] = Nothing
  /\ PosterOf(j) = e
  /\ post' = [post EXCEPT ![e] = j]
  /\ UNCHANGED <<fileVars, bstate, callVars, jobVars, pipe, reaped, dpc, svcVars>>

\* The I/O is over: the job's thread in its executor enters doPostProcessingOfJob.
StartPost(e, j) ==
  /\ jstate[j] = "kernel"
  /\ post[e] = Nothing
  /\ PosterOf(j) = e
  /\ post' = [post EXCEPT ![e] = j]
  /\ UNCHANGED <<fileVars, bstate, callVars, jobVars, pipe, reaped, dpc, svcVars>>

\* The job is deleted; one that is to close its descriptor is not yet.
AfterReset(e) ==
  /\ jstate' = [jstate EXCEPT ![post[e]] = IF jclose[post[e]] THEN "close" ELSE "deleted"]
  /\ post' = IF jclose[post[e]] THEN post ELSE [post EXCEPT ![e] = Nothing]

\* Faulty variant of Reset: a status that does not fit is lost.
ResetDrops(e) ==
  /\ post[e] # Nothing
  /\ jstate[post[e]] = "kernel"
  /\ pipe' = IF Len(pipe) < PipeSize THEN Append(pipe, post[e]) ELSE pipe
  /\ Engine!Report(post[e])
  /\ AfterReset(e)
  /\ UNCHANGED <<fileVars, bstate, callVars, jfd, jh, jclose, reaped, dpc>>

\* FilerJob::reset writes the status to the pipe, and waits while it is full.
Reset(e) ==
  /\ post[e] # Nothing
  /\ jstate[post[e]] = "kernel"
  /\ Len(pipe) < PipeSize
  /\ pipe' = Append(pipe, post[e])
  /\ Engine!Report(post[e])
  /\ AfterReset(e)
  /\ UNCHANGED <<fileVars, bstate, callVars, jfd, jh, jclose, reaped, dpc>>

\* close(job->fd_), whatever that number stands for now, and the job is deleted.
CloseJobFd(e) ==
  /\ post[e] # Nothing
  /\ jstate[post[e]] = "close"
  /\ desc' = Closed(desc, jfd[post[e]])
  /\ jstate' = [jstate EXCEPT ![post[e]] = "deleted"]
  /\ post' = [post EXCEPT ![e] = Nothing]
  /\ UNCHANGED <<hfd, hstate, ev, evfd, bstate, callVars, jfd, jh, jclose, pipe, reaped, dpc,
                 svcVars>>

ExecutorStep(e) == (\E j \in Jobs : StartPost(e, j)) \/ Reset(e) \/ CloseJobFd(e)

-----------------------------------------------------------------------------
(***************************************************************************)
(* The application's other half, and the end.                              *)
(***************************************************************************)
\* External: the application reads a status.
Reap ==
  /\ pipe # <<>>
  /\ reaped' = reaped \cup {Head(pipe)}
  /\ pipe' = Tail(pipe)
  /\ UNCHANGED <<fileVars, bstate, callVars, jobVars, post, dpc, svcVars>>

DataOf(b) == {Shape[b][i] : i \in DOMAIN Shape[b]} \ {Empty}

\* gIOBatchFree, when the status of every fragment has been read.
gIOBatchFree(b) ==
  /\ bstate[b] = "given"
  /\ DataOf(b) \subseteq reaped
  /\ DataOf(b) # {}
  /\ bstate' = [bstate EXCEPT ![b] = "freed"]
  /\ UNCHANGED <<fileVars, callVars, jobVars, outVars, dpc, svcVars>>

\* IOExecFileServiceDestroy stops the executors and waits for each of them.
IOExecFileServiceDestroy ==
  /\ dpc = "idle"
  /\ \A t \in Threads : ~InCall(t)
  /\ \A j \in FdJobs : jstate[j] \in {"none", "deleted"}
  /\ dpc' = "stopping"
  /\ UNCHANGED <<fileVars, bstate, callVars, jobVars, outVars, svcVars>>

ServiceDestroyed ==
  /\ dpc = "stopping"
  /\ \A e \in Posters : post[e] = Nothing
  /\ Engine!Close
  /\ dpc' = "done"
  /\ UNCHANGED <<fileVars, bstate, callVars, jobVars, outVars>>

Terminated == dpc = "done" /\ UNCHANGED vars

Application(t) ==
  \/ IOExecEventFdOpen(t) \/ IOExecEventFdClose(t)
  \/ \E h \in Handles : IOExecFileOpen(t, h) \/ IOExecFileClose(t, h)
  \/ \E h \in Handles, b \in Batches : IOExecFileOp(t, h, b) \/ IOExecFileReadByName(t, h, b)
  \/ \E d \in Deletes : IOExecFileDelete(t, d)

Next ==
  \/ \E t \in Threads : Application(t) \/ InCallStep(t)
  \/ \E j \in Jobs : KernelTakes(j)
  \/ \E e \in Posters : ExecutorStep(e)
  \/ Reap
  \/ \E b \in Batches : gIOBatchFree(b)
  \/ IOExecFileServiceDestroy \/ ServiceDestroyed \/ Terminated

Spec == Init /\ [][Next]_vars

\* Calls that have begun go on, the kernel and the executors work, and the application
\* keeps reading the pipe.
Fairness ==
  /\ \A t \in Threads : WF_vars(InCallStep(t))
  /\ WF_vars(\E j \in Jobs : KernelTakes(j))
  /\ \A e \in Posters : WF_vars(ExecutorStep(e))
  /\ WF_vars(Reap)
  /\ WF_vars(ServiceDestroyed)

FairSpec == Spec /\ Fairness

-----------------------------------------------------------------------------
(***************************************************************************)
(* Properties.                                                             *)
(***************************************************************************)
\* Every variable has its type; a job is never made with FD_INVALID (the assertion of
\* its constructor).
TypeOK ==
  /\ desc \in [Fds -> Handles \cup {"pipe", Nothing}]
  /\ hfd \in [Handles -> Fds \cup {FD_INVALID}]
  /\ hstate \in [Handles -> {"none", "open", "deleted"}]
  /\ ev \in {"none", "open", "deleted"}
  /\ evfd \in (Fds \cup {Nothing}) \X (Fds \cup {Nothing})
  /\ bstate \in [Batches -> {"app", "given", "freed"}]
  /\ pc \in [Threads -> {"idle", "loop", "submit", "delete", "delSubmit"}]
  /\ th \in [Threads -> Handles \cup {Nothing}]
  /\ tb \in [Threads -> Batches \cup Deletes \cup {Nothing}]
  /\ idx \in [Threads -> Nat]
  /\ retcode \in [Threads -> {"0", "EAGAIN", "EINVAL"}]
  /\ jfd \in [Jobs -> Fds \cup {Nothing}]
  /\ jh \in [Jobs -> Handles \cup {Nothing}]
  /\ jclose \in [Jobs -> BOOLEAN]
  /\ jstate \in [Jobs -> {"none", "queued", "kernel", "close", "deleted"}]
  /\ post \in [Posters -> Jobs \cup {Nothing}]
  /\ pipe \in Seq(Jobs)
  /\ reaped \in SUBSET Jobs
  /\ dpc \in {"idle", "stopping", "done"}
  /\ phase \in [Jobs -> {"new", "calling", "refused", "accepted", "reported"}]
  /\ closed \in BOOLEAN

\* The jobs that still have to close their descriptor.
Closing == {j \in Jobs : jclose[j] /\ jstate[j] \in {"queued", "kernel", "close"}}

\* The handles that close theirs: not one whose job has taken that over, although it
\* forgets the number only after submitTask has returned.
Keeping ==
  {h \in Handles : /\ hstate[h] = "open"
                   /\ hfd[h] # FD_INVALID
                   /\ ~\E j \in Jobs : jh[j] = h /\ jclose[j] /\ jstate[j] # "none"}

\* Every batch that is read by name has one fragment with data, as the network
\* server's have: the job of the first would close the file that the second needs.
OneFragment ==
  \A b \in ByName : \E i \in DOMAIN Shape[b] :
    /\ Shape[b][i] # Empty
    /\ \A k \in DOMAIN Shape[b] : k # i => Shape[b][k] = Empty

\* The last fragment of every batch has data: the loop of IOExecFileOp reads no fragment
\* after its last submitTask, when the batch may be freed.
EndsWithData == \A b \in Batches : Shape[b][Len(Shape[b])] # Empty

\* Whoever uses a descriptor number finds the file it was opened for: a handle that is
\* open, a job before the kernel looks it up, a job that is about to close it, and the
\* event pipe that jobs write to.  Numbers are reused at once, by any thread.
DescriptorsHeld ==
  /\ \A h \in Keeping : desc[hfd[h]] = h
  /\ \A j \in Jobs : jstate[j] = "queued" /\ j \in Fragments => desc[jfd[j]] = jh[j]
  /\ \A j \in Closing : desc[jfd[j]] = jh[j]
  /\ ev = "open" => desc[evfd[1]] = "pipe" /\ desc[evfd[2]] = "pipe"
  /\ \A j \in Jobs : phase[j] = "accepted" => ev = "open"

\* Every descriptor of a file that is open is closed by exactly one party: its handle or
\* the job of a read by name.
ClosedByOne ==
  \A n \in Fds : desc[n] \in Handles =>
    Cardinality({h \in Keeping : hfd[h] = n}) + Cardinality({j \in Closing : jfd[j] = n}) = 1

\* The batch is not freed while IOExecFileOp still reads it or a job still has a buffer
\* of it ("the batch can be freed after submitTask").
BatchLive ==
  /\ \A t \in Threads : ReadsBatch(t) => bstate[tb[t]] = "given"
  /\ \A b \in Batches : \A j \in DataOf(b) :
       phase[j] \in {"calling", "accepted"} => bstate[b] = "given"

\* The status of every job submitTask has accepted reaches the application, although the
\* pipe is small and two threads of each executor write the statuses: again and again there
\* is a moment when nothing is owed to it.
AcceptedIsReaped == []<>(\A j \in Jobs : phase[j] \in {"accepted", "reported"} => j \in reaped)

\* IOExecFileServiceDestroy returns, with reads and writes queued, in the kernel or
\* waiting for room in the pipe when it is called.
DestroyReturns == dpc = "stopping" ~> dpc = "done"
=============================================================================
