--------------------------- MODULE FileApiProofs ---------------------------
(***************************************************************************)
(* The file API: types, who may free a batch, who closes a descriptor, and *)
(* that it asks of the I/O engine only what IOService grants, for any      *)
(* number of threads, handles, batches, executors and descriptors.         *)
(***************************************************************************)
EXTENDS FileApi, FiniteSetTheorems, TLAPS

-----------------------------------------------------------------------------
(***************************************************************************)
(* The invariants.                                                         *)
(***************************************************************************)
\* The thread is in IOExecFileOp, or in the end of a read by name.
InOp(t) == pc[t] \in {"loop", "submit", "delete"}

\* What the label of a thread says of its handle, its batch and its job.
CallOf(t) ==
  /\ InOp(t) => /\ th[t] \in Handles /\ hstate[th[t]] = "open"
                /\ tb[t] \in Batches /\ bstate[tb[t]] # "app"
                /\ idx[t] >= 1
  /\ pc[t] \in {"loop", "submit"} => hfd[th[t]] \in Fds
  /\ pc[t] = "loop" /\ idx[t] <= totalCount(t) => ev = "open"
  /\ pc[t] = "submit" => /\ idx[t] \in DOMAIN Shape[tb[t]]
                         /\ JobOf(t) \in Fragments
                         /\ phase[JobOf(t)] = "calling"
                         /\ jh[JobOf(t)] = th[t] /\ jfd[JobOf(t)] = hfd[th[t]]
  /\ pc[t] = "delete" => tb[t] \in ByName
  /\ pc[t] = "delSubmit" => tb[t] \in Deletes /\ phase[tb[t]] = "calling"

Calls == \A t \in Threads : CallOf(t)

\* A batch is used by one call, and so is the handle of a read by name.
Alone ==
  \A s, t \in Threads : s # t /\ InOp(s) /\ InOp(t) =>
    tb[s] # tb[t] /\ (tb[s] \in ByName => th[s] # th[t])

\* No two calls delete with the same completionId.
OneDelete ==
  \A s, t \in Threads : s # t /\ pc[s] = "delSubmit" /\ pc[t] = "delSubmit" => tb[s] # tb[t]

\* A handle without a descriptor is that of a read by name that is about to return.
Opened ==
  \A h \in Handles : hstate[h] = "open" /\ hfd[h] = FD_INVALID =>
    \E t \in Threads : pc[t] = "delete" /\ th[t] = h

\* The fragment i of its batch is in front of the thread.
InFront(t, i) == i > idx[t] \/ (pc[t] = "loop" /\ i = idx[t])

\* The fragments in front of a thread have not been submitted.
Ahead ==
  \A t \in Threads : pc[t] \in {"loop", "submit"} =>
    \A i \in DOMAIN Shape[tb[t]] :
      Shape[tb[t]][i] # Empty /\ InFront(t, i) => phase[Shape[tb[t]][i]] = "new"

\* Where a job is in the executor and what the application knows of it.
Stages ==
  /\ \A j \in Jobs :
       /\ jstate[j] = "none" <=> phase[j] \in {"new", "calling", "refused"}
       /\ jstate[j] \in {"queued", "kernel"} <=> phase[j] = "accepted"
       /\ jstate[j] = "close" => jclose[j]
       /\ j \in reaped => phase[j] = "reported"
       /\ phase[j] \in {"calling", "accepted"} => ev = "open"
  /\ \A i \in 1..Len(pipe) : phase[pipe[i]] = "reported"

\* What a job is made of.
Made ==
  /\ \A j \in Jobs : 
       /\ phase[j] = "new" \/ j \in Deletes => jh[j] = Nothing /\ ~jclose[j]
       /\ phase[j] # "new" /\ j \in Fragments =>
            jh[j] \in Handles /\ hstate[jh[j]] # "none" /\ jfd[j] \in Fds
  /\ \A b \in Batches : \A j \in DataOf(b) :
       phase[j] # "new" => bstate[b] # "app" /\ (jclose[j] <=> b \in ByName)
  /\ \A b \in Batches : bstate[b] = "freed" => DataOf(b) \subseteq reaped

Core == TypeOK /\ Calls /\ Alone /\ OneDelete /\ Opened /\ Ahead /\ Stages /\ Made

\* The thread reads by name.
ByNameCall(t) == InOp(t) /\ tb[t] \in ByName

\* A file read by name has one job, which is of the batch of the read.
ReadsByName ==
  /\ \A t \in Threads : ByNameCall(t) =>
       /\ \A j \in Jobs : jh[j] = th[t] => j \in DataOf(tb[t])
       /\ \A j \in DataOf(tb[t]) : phase[j] # "new" => jh[j] = th[t]
  /\ \A j \in Jobs : jclose[j] /\ hstate[jh[j]] = "open" =>
       \E t \in Threads : ByNameCall(t) /\ th[t] = jh[j]
  /\ \A j, k \in Jobs : jclose[j] /\ jh[j] = jh[k] => j = k

\* retcode tells a read by name whether its job has been accepted, hence whether
\* its handle still has the descriptor to close.
ToldOf(t) ==
  /\ pc[t] # "submit" => \A j \in DataOf(tb[t]) : phase[j] \in {"accepted", "reported"} => retcode[t] = "0"
  /\ pc[t] = "loop" /\ retcode[t] = "0" => \A i \in DOMAIN Shape[tb[t]] :
       i < idx[t] /\ Shape[tb[t]][i] # Empty => phase[Shape[tb[t]][i]] \in {"accepted", "reported"}
  /\ pc[t] = "delete" => (hfd[th[t]] = FD_INVALID <=> retcode[t] = "0")

Told == \A t \in Threads : ByNameCall(t) => ToldOf(t)

\* A job that does not close its descriptor uses that of its handle, which stays.
Shared ==
  \A j \in Unseen : j \in Fragments /\ ~jclose[j] => hstate[jh[j]] = "open" /\ hfd[jh[j]] = jfd[j]

\* The handle, or the job, has a descriptor to close.
Keeps(h) ==
  /\ hstate[h] = "open" /\ hfd[h] # FD_INVALID
  /\ ~\E j \in Jobs : jh[j] = h /\ jclose[j] /\ jstate[j] # "none"

Closes(j) == jclose[j] /\ jstate[j] \in {"queued", "kernel", "close"}

\* Who has a descriptor number finds its file, and every file has somebody to close it.
Owned ==
  /\ \A h \in Handles : Keeps(h) => desc[hfd[h]] = h
  /\ \A j \in Jobs : Closes(j) => desc[jfd[j]] = jh[j]
  /\ ev = "open" => evfd[1] \in Fds /\ evfd[2] \in Fds /\ desc[evfd[1]] = "pipe" /\ desc[evfd[2]] = "pipe"
  /\ \A n \in Fds : \A h \in Handles : desc[n] = h =>
       \/ Keeps(h) /\ hfd[h] = n
       \/ \E j \in Jobs : Closes(j) /\ jh[j] = h /\ jfd[j] = n

Ownership == ReadsByName /\ Told /\ Shared /\ Owned

-----------------------------------------------------------------------------
(***************************************************************************)
(* Types.                                                                  *)
(***************************************************************************)
\* Steps go to Zenon unless they name SMT; the groups of variables are expanded.
USE Zenon
USE DEF fileVars, callVars, jobVars, outVars, svcVars

\* What Head and Tail of a nonempty sequence are.
LEMMA HeadTail ==
  ASSUME NEW S, NEW q \in Seq(S), q # <<>>
  PROVE  /\ Head(q) = q[1] /\ Head(q) \in S /\ 1 \in 1..Len(q)
         /\ Tail(q) \in Seq(S)
         /\ \A i \in 1..Len(Tail(q)) : Tail(q)[i] = q[i + 1] /\ i + 1 \in 1..Len(q)
BY SMT

\* What Append does.
LEMMA AppendOne ==
  ASSUME NEW S, NEW q \in Seq(S), NEW x \in S
  PROVE  /\ Append(q, x) \in Seq(S)
         /\ \A i \in 1..Len(Append(q, x)) :
              \/ i \in 1..Len(q) /\ Append(q, x)[i] = q[i]
              \/ Append(q, x)[i] = x
BY SMT

\* The two groups of types: files and calls, jobs and the engine.
FileTypes ==
  /\ desc \in [Fds -> Handles \cup {"pipe", Nothing}]
  /\ hfd \in [Handles -> Fds \cup {FD_INVALID}]
  /\ hstate \in [Handles -> {"none", "open", "deleted"}]
  /\ ev \in {"none", "open", "deleted"}
  /\ evfd \in (Fds \cup {Nothing}) \X (Fds \cup {Nothing})

CallTypes ==
  /\ bstate \in [Batches -> {"app", "given", "freed"}]
  /\ pc \in [Threads -> {"idle", "loop", "submit", "delete", "delSubmit"}]
  /\ th \in [Threads -> Handles \cup {Nothing}]
  /\ tb \in [Threads -> Batches \cup Deletes \cup {Nothing}]
  /\ idx \in [Threads -> Nat]
  /\ retcode \in [Threads -> {"0", "EAGAIN", "EINVAL"}]

JobTypes ==
  /\ jfd \in [Jobs -> Fds \cup {Nothing}]
  /\ jh \in [Jobs -> Handles \cup {Nothing}]
  /\ jclose \in [Jobs -> BOOLEAN]
  /\ jstate \in [Jobs -> {"none", "queued", "kernel", "close", "deleted"}]
  /\ phase \in [Jobs -> {"new", "calling", "refused", "accepted", "reported"}]

OutTypes ==
  /\ post \in [Posters -> Jobs \cup {Nothing}]
  /\ pipe \in Seq(Jobs)
  /\ reaped \in SUBSET Jobs
  /\ dpc \in {"idle", "stopping", "done"}
  /\ closed \in BOOLEAN

Typed == FileTypes /\ CallTypes /\ JobTypes /\ OutTypes

\* TypeOK is these.
LEMMA TypeParts == TypeOK <=> Typed
BY DEF Typed, TypeOK, FileTypes, CallTypes, JobTypes, OutTypes

\* The same in the next state.
LEMMA NextTypeParts == TypeOK' <=> Typed'
BY DEF Typed, TypeOK, FileTypes, CallTypes, JobTypes, OutTypes

\* The number open() gives out is free.
LEMMA Lowest ==
  ASSUME NEW d, NEW n \in LowestFree(d)
  PROVE  n \in Fds /\ d[n] = Nothing
BY DEF LowestFree

\* A number of a descriptor is not FD_INVALID, nor is it Nothing.
LEMMA FdsApart == FD_INVALID \notin Fds /\ Nothing \notin Fds /\ Fds \subseteq Int
BY ApiAssumption, SMT DEF Fds, FD_INVALID

\* The descriptor of a new handle.
LEMMA NewHandleTypes ==
  ASSUME FileTypes, NEW h \in Handles, NewHandle(h), UNCHANGED <<ev, evfd>>
  PROVE  FileTypes'
<1>1. PICK n \in LowestFree(desc) : desc' = [desc EXCEPT ![n] = h] /\ hfd' = [hfd EXCEPT ![h] = n]
  BY DEF NewHandle
<1>2. n \in Fds
  BY Lowest
<1> QED BY <1>1, <1>2 DEF FileTypes, NewHandle

\* A descriptor that is closed.
LEMMA DeleteHandleTypes ==
  ASSUME FileTypes, NEW h \in Handles, DeleteHandle(h), UNCHANGED <<ev, evfd>>
  PROVE  FileTypes'
BY DEF FileTypes, DeleteHandle, Closed

\* The start of a call.
LEMMA StartOpTypes ==
  ASSUME CallTypes, NEW t \in Threads, NEW h \in Handles, NEW b \in Batches, StartOp(t, h, b)
  PROVE  CallTypes'
<1>1. Len(Shape[b]) + 1 \in Nat /\ 1 \in Nat
  BY SMT
<1> QED BY <1>1 DEF CallTypes, StartOp

\* The end of a call.
LEMMA ReturnTypes ==
  ASSUME CallTypes, NEW t \in Threads, Return(t), UNCHANGED bstate
  PROVE  CallTypes'
<1>1. 1 \in Nat
  BY SMT
<1> QED BY <1>1 DEF CallTypes, Return

\* The next fragment of a call.
LEMMA AdvanceTypes ==
  ASSUME CallTypes, NEW t \in Threads, NEW r \in {"0", "EAGAIN", "EINVAL"}, Advance(t),
         retcode' = [retcode EXCEPT ![t] = r] \/ UNCHANGED retcode, UNCHANGED <<bstate, th, tb>>
  PROVE  CallTypes'
<1>1. idx[t] + 1 \in Nat
  BY SMT DEF CallTypes
<1>2. retcode' \in [Threads -> {"0", "EAGAIN", "EINVAL"}]
  BY DEF CallTypes
<1> QED BY <1>1, <1>2 DEF CallTypes, Advance

\* A step of the engine.
LEMMA EngineTypes ==
  ASSUME JobTypes, NEW j \in Jobs,
         Engine!Call(j) \/ Engine!Refuse(j) \/ Engine!Accept(j) \/ Engine!Report(j)
  PROVE  /\ phase' \in [Jobs -> {"new", "calling", "refused", "accepted", "reported"}]
         /\ UNCHANGED closed
BY DEF JobTypes, Engine!Call, Engine!Refuse, Engine!Accept, Engine!Report, Engine!Move

\* The engine's variables, and those of the jobs, with one job's place changed.
LEMMA PlaceTypes ==
  ASSUME JobTypes, NEW j, NEW w \in {"none", "queued", "kernel", "close", "deleted"},
         jstate' = [jstate EXCEPT ![j] = w] \/ UNCHANGED jstate, UNCHANGED <<jfd, jh, jclose>>,
         phase' \in [Jobs -> {"new", "calling", "refused", "accepted", "reported"}]
  PROVE  JobTypes'
<1>1. jstate' \in [Jobs -> {"none", "queued", "kernel", "close", "deleted"}]
  BY DEF JobTypes
<1> QED BY <1>1 DEF JobTypes

\* The types that a step leaves alone.
LEMMA SameTypes ==
  /\ FileTypes /\ UNCHANGED fileVars => FileTypes'
  /\ CallTypes /\ UNCHANGED <<bstate, callVars>> => CallTypes'
  /\ JobTypes /\ UNCHANGED <<jobVars, phase>> => JobTypes'
  /\ OutTypes /\ UNCHANGED <<outVars, dpc, closed>> => OutTypes'
<1>1. FileTypes /\ UNCHANGED fileVars => FileTypes'
  BY DEF FileTypes
<1>2. CallTypes /\ UNCHANGED <<bstate, callVars>> => CallTypes'
  BY DEF CallTypes
<1>3. JobTypes /\ UNCHANGED <<jobVars, phase>> => JobTypes'
  BY DEF JobTypes
<1>4. OutTypes /\ UNCHANGED <<outVars, dpc, closed>> => OutTypes'
  BY DEF OutTypes
<1> QED BY <1>1, <1>2, <1>3, <1>4

\* The job of the fragment a thread is at.
LEMMA JobAt ==
  ASSUME Core, NEW t \in Threads
  PROVE  /\ pc[t] = "submit" => JobOf(t) \in Fragments /\ JobOf(t) \in Jobs
         /\ pc[t] = "delSubmit" => tb[t] \in Deletes /\ tb[t] \in Jobs
         /\ JobOf(t) \in Fragments => JobOf(t) \in Jobs
BY DEF Core, Calls, CallOf, Jobs

\* A step keeps the types.
LEMMA TypeStep == Core /\ [Next]_vars => TypeOK'
<1> SUFFICES ASSUME Core, [Next]_vars PROVE Typed'
  BY NextTypeParts
<1>0. FileTypes /\ CallTypes /\ JobTypes /\ OutTypes
  BY TypeParts DEF Core, Typed
<1> USE DEF Typed
<1>1. ASSUME NEW t \in Threads, IOExecEventFdOpen(t) PROVE Typed'
  <2>1. PICK r \in LowestFree(desc) : \E w \in LowestFree([desc EXCEPT ![r] = "pipe"]) :
          desc' = [desc EXCEPT ![r] = "pipe", ![w] = "pipe"] /\ evfd' = <<r, w>>
    BY <1>1 DEF IOExecEventFdOpen
  <2>2. PICK w \in LowestFree([desc EXCEPT ![r] = "pipe"]) :
          desc' = [desc EXCEPT ![r] = "pipe", ![w] = "pipe"] /\ evfd' = <<r, w>>
    BY <2>1
  <2>3. r \in Fds /\ w \in Fds
    BY Lowest
  <2>4. FileTypes'
    BY <1>0, <1>1, <2>2, <2>3, SMT DEF IOExecEventFdOpen, FileTypes
  <2> QED BY <1>0, <1>1, <2>4, SameTypes DEF IOExecEventFdOpen
<1>2. ASSUME NEW t \in Threads, IOExecEventFdClose(t) PROVE Typed'
  <2>1. FileTypes'
    BY <1>0, <1>2, SMT DEF IOExecEventFdClose, FileTypes, Closed
  <2> QED BY <1>0, <1>2, <2>1, SameTypes DEF IOExecEventFdClose
<1>3. ASSUME NEW t \in Threads, NEW h \in Handles, IOExecFileOpen(t, h) \/ IOExecFileClose(t, h)
      PROVE  Typed'
  BY <1>0, <1>3, NewHandleTypes, DeleteHandleTypes, SameTypes DEF IOExecFileOpen, IOExecFileClose
<1>4. ASSUME NEW t \in Threads, NEW h \in Handles, NEW b \in Batches,
             IOExecFileOp(t, h, b) \/ IOExecFileReadByName(t, h, b)
      PROVE  Typed'
  BY <1>0, <1>4, NewHandleTypes, StartOpTypes, SameTypes DEF IOExecFileOp, IOExecFileReadByName
<1>5. ASSUME NEW t \in Threads, NEW d \in Deletes, IOExecFileDelete(t, d)
      PROVE  Typed'
  <2>1. CallTypes'
    BY <1>0, <1>5 DEF IOExecFileDelete, CallTypes
  <2>2. phase' \in [Jobs -> {"new", "calling", "refused", "accepted", "reported"}] /\ UNCHANGED closed
    BY <1>0, <1>5, EngineTypes DEF IOExecFileDelete, Jobs
  <2>3. JobTypes'
    BY <1>0, <1>5, <2>2 DEF IOExecFileDelete, JobTypes
  <2> QED BY <1>0, <1>5, <2>1, <2>2, <2>3, SameTypes DEF IOExecFileDelete
<1>6. ASSUME NEW t \in Threads, SkipFragment(t) PROVE Typed'
  BY <1>0, <1>6, AdvanceTypes, SameTypes DEF SkipFragment
<1>7. ASSUME NEW t \in Threads, MakeJob(t) PROVE Typed'
  <2>1. CallTypes'
    BY <1>0, <1>7 DEF MakeJob, CallTypes
  <2>2. phase' \in [Jobs -> {"new", "calling", "refused", "accepted", "reported"}] /\ UNCHANGED closed
    BY <1>0, <1>7, EngineTypes, JobAt DEF MakeJob
  <2>3. hfd[th[t]] \in Fds /\ th[t] \in Handles
    BY <1>7 DEF MakeJob, Core, Calls, CallOf, InOp
  <2>4. (tb[t] \in ByName) \in BOOLEAN
    BY SMT
  <2>5. JobTypes'
    BY <1>0, <1>7, <2>2, <2>3, <2>4 DEF MakeJob, NewJob, JobTypes
  <2> QED BY <1>0, <1>7, <2>1, <2>2, <2>5, SameTypes DEF MakeJob
<1>8. ASSUME NEW t \in Threads, SubmitTask(t) \/ RefuseTask(t)
      PROVE  Typed'
  <2>1. phase' \in [Jobs -> {"new", "calling", "refused", "accepted", "reported"}] /\ UNCHANGED closed
    BY <1>0, <1>8, EngineTypes, JobAt DEF SubmitTask, RefuseTask
  <2>2. JobTypes'
    BY <1>0, <1>8, <2>1, PlaceTypes DEF SubmitTask, RefuseTask
  <2>3. CallTypes'
    BY <1>0, <1>8, AdvanceTypes DEF SubmitTask, RefuseTask
  <2> QED BY <1>0, <1>8, <2>1, <2>2, <2>3, SameTypes DEF SubmitTask, RefuseTask
<1>9. ASSUME NEW t \in Threads, OpReturns(t) PROVE Typed'
  BY <1>0, <1>9, ReturnTypes, SameTypes DEF OpReturns
<1>10. ASSUME NEW t \in Threads, ForgetFd(t) PROVE Typed'
  <2>1. CallTypes'
    BY <1>0, <1>10 DEF ForgetFd, CallTypes
  <2>2. hfd' \in [Handles -> Fds \cup {FD_INVALID}]
    BY <1>0, <1>10 DEF ForgetFd, FileTypes
  <2>3. FileTypes'
    BY <1>0, <1>10, <2>2 DEF ForgetFd, FileTypes
  <2> QED BY <1>0, <1>10, <2>1, <2>3, SameTypes DEF ForgetFd
<1>11. ASSUME NEW t \in Threads, ReadByNameReturns(t)
       PROVE  Typed'
  <2>1. th[t] \in Handles
    BY <1>11 DEF ReadByNameReturns, Core, Calls, CallOf, InOp
  <2> QED BY <1>0, <1>11, <2>1, ReturnTypes, DeleteHandleTypes, SameTypes DEF ReadByNameReturns
<1>12. ASSUME NEW t \in Threads, SubmitDelete(t) PROVE Typed'
  <2>1. phase' \in [Jobs -> {"new", "calling", "refused", "accepted", "reported"}] /\ UNCHANGED closed
    BY <1>0, <1>12, EngineTypes, JobAt DEF SubmitDelete
  <2>2. JobTypes'
    BY <1>0, <1>12, <2>1, PlaceTypes DEF SubmitDelete
  <2> QED BY <1>0, <1>12, <2>1, <2>2, ReturnTypes, SameTypes DEF SubmitDelete
<1>13. ASSUME NEW j \in Jobs, KernelTakes(j) PROVE Typed'
  <2>1. JobTypes'
    BY <1>0, <1>13 DEF KernelTakes, JobTypes
  <2> QED BY <1>0, <1>13, <2>1, SameTypes DEF KernelTakes
<1>14. ASSUME NEW e \in Posters, NEW j \in Jobs, StartPost(e, j)
       PROVE  Typed'
  <2>1. OutTypes'
    BY <1>0, <1>14 DEF StartPost, OutTypes
  <2> QED BY <1>0, <1>14, <2>1, SameTypes DEF StartPost
<1>15. ASSUME NEW e \in Posters, Reset(e) PROVE Typed'
  <2>1. post[e] \in Jobs
    BY <1>0, <1>15 DEF Reset, OutTypes
  <2>2. phase' \in [Jobs -> {"new", "calling", "refused", "accepted", "reported"}] /\ UNCHANGED closed
    BY <1>0, <1>15, <2>1, EngineTypes DEF Reset
  <2>3. JobTypes'
    BY <1>0, <1>15, <2>2, PlaceTypes DEF Reset, AfterReset
  <2>4. pipe' \in Seq(Jobs)
    BY <1>0, <1>15, <2>1, AppendOne DEF Reset, OutTypes
  <2>5. post' \in [Posters -> Jobs \cup {Nothing}]
    BY <1>0, <1>15 DEF Reset, AfterReset, OutTypes
  <2>6. OutTypes'
    BY <1>0, <1>15, <2>2, <2>4, <2>5 DEF Reset, OutTypes
  <2> QED BY <1>0, <1>15, <2>3, <2>6, SameTypes DEF Reset
<1>16. ASSUME NEW e \in Posters, CloseJobFd(e) PROVE Typed'
  <2>1. JobTypes'
    BY <1>0, <1>16, PlaceTypes DEF CloseJobFd, JobTypes
  <2>2. OutTypes'
    BY <1>0, <1>16 DEF CloseJobFd, OutTypes
  <2>3. FileTypes'
    BY <1>0, <1>16 DEF CloseJobFd, FileTypes, Closed
  <2> QED BY <1>0, <1>16, <2>1, <2>2, <2>3, SameTypes DEF CloseJobFd
<1>17. ASSUME Reap PROVE Typed'
  <2>1. Head(pipe) \in Jobs /\ Tail(pipe) \in Seq(Jobs)
    BY <1>0, <1>17, HeadTail DEF Reap, OutTypes
  <2>2. OutTypes'
    BY <1>0, <1>17, <2>1 DEF Reap, OutTypes
  <2> QED BY <1>0, <1>17, <2>2, SameTypes DEF Reap
<1>18. ASSUME NEW b \in Batches, gIOBatchFree(b) PROVE Typed'
  <2>1. CallTypes'
    BY <1>0, <1>18 DEF gIOBatchFree, CallTypes
  <2> QED BY <1>0, <1>18, <2>1, SameTypes DEF gIOBatchFree
<1>19. ASSUME IOExecFileServiceDestroy \/ ServiceDestroyed PROVE Typed'
  <2>1. OutTypes' /\ UNCHANGED phase
    BY <1>0, <1>19 DEF IOExecFileServiceDestroy, ServiceDestroyed, OutTypes, Engine!Close
  <2> QED BY <1>0, <1>19, <2>1, SameTypes DEF IOExecFileServiceDestroy, ServiceDestroyed
<1>20. ASSUME UNCHANGED vars PROVE Typed'
  BY <1>0, <1>20, SameTypes DEF vars
<1> QED
  BY <1>1, <1>2, <1>3, <1>4, <1>5, <1>6, <1>7, <1>8, <1>9, <1>10, <1>11, <1>12, <1>13, <1>14, <1>15,
     <1>16, <1>17, <1>18, <1>19, <1>20
  DEF Next, Application, InCallStep, ExecutorStep, Terminated

-----------------------------------------------------------------------------
(***************************************************************************)
(* What each step does, point by point.                                    *)
(***************************************************************************)
\* g is f, but for its value at x.
Now(g, f, S, x, v) == g[x] = v /\ \A y \in S : y # x => g[y] = f[y]

\* g is f, but for the point x, where it is Nothing: the table after close(x).
Shut(g, f, x) == \A n \in Fds : (n = x => g[n] = Nothing) /\ (n # x => g[n] = f[n])

\* The types as functions.
LEMMA Functions1 ==
  ASSUME Core
  PROVE  /\ hfd \in [Handles -> Fds \cup {FD_INVALID}]
         /\ hstate \in [Handles -> {"none", "open", "deleted"}]
         /\ desc \in [Fds -> Handles \cup {"pipe", Nothing}]
         /\ bstate \in [Batches -> {"app", "given", "freed"}]
         /\ pc \in [Threads -> {"idle", "loop", "submit", "delete", "delSubmit"}]
         /\ th \in [Threads -> Handles \cup {Nothing}]
         /\ tb \in [Threads -> Batches \cup Deletes \cup {Nothing}]
         /\ idx \in [Threads -> Nat]
         /\ retcode \in [Threads -> {"0", "EAGAIN", "EINVAL"}]
BY DEF Core, TypeOK

\* The types of the jobs and of the engine as functions.
LEMMA Functions2 ==
  ASSUME Core
  PROVE  /\ jfd \in [Jobs -> Fds \cup {Nothing}]
         /\ jh \in [Jobs -> Handles \cup {Nothing}]
         /\ jclose \in [Jobs -> BOOLEAN]
         /\ jstate \in [Jobs -> {"none", "queued", "kernel", "close", "deleted"}]
         /\ phase \in [Jobs -> {"new", "calling", "refused", "accepted", "reported"}]
         /\ post \in [Posters -> Jobs \cup {Nothing}]
         /\ pipe \in Seq(Jobs)
         /\ reaped \subseteq Jobs
BY DEF Core, TypeOK

\* IOExecEventFdOpen takes two free numbers.
LEMMA EvOpenEffect ==
  ASSUME Core, NEW t \in Threads, IOExecEventFdOpen(t)
  PROVE  \E r, w \in Fds :
           /\ desc[r] = Nothing /\ desc[w] = Nothing
           /\ desc'[r] = "pipe" /\ desc'[w] = "pipe"
           /\ \A n \in Fds : n # r /\ n # w => desc'[n] = desc[n]
           /\ evfd'[1] = r /\ evfd'[2] = w
<1>1. PICK r \in LowestFree(desc) : \E w \in LowestFree([desc EXCEPT ![r] = "pipe"]) :
        desc' = [desc EXCEPT ![r] = "pipe", ![w] = "pipe"] /\ evfd' = <<r, w>>
  BY DEF IOExecEventFdOpen
<1>2. PICK w \in LowestFree([desc EXCEPT ![r] = "pipe"]) :
        desc' = [desc EXCEPT ![r] = "pipe", ![w] = "pipe"] /\ evfd' = <<r, w>>
  BY <1>1
<1>3. r \in Fds /\ w \in Fds /\ desc[r] = Nothing /\ [desc EXCEPT ![r] = "pipe"][w] = Nothing
  BY Lowest
<1>4. w # r /\ desc[w] = Nothing
  BY <1>3, Functions1, ApiAssumption
<1> QED BY <1>2, <1>3, <1>4, Functions1, SMT

\* IOExecEventFdClose frees both.
LEMMA EvCloseEffect ==
  ASSUME Core, NEW t \in Threads, IOExecEventFdClose(t)
  PROVE  \A n \in Fds : /\ n = evfd[1] \/ n = evfd[2] => desc'[n] = Nothing
                        /\ n # evfd[1] /\ n # evfd[2] => desc'[n] = desc[n]
BY SMT DEF IOExecEventFdClose, Closed

\* A new handle has a number that was free.
LEMMA NewHandleEffect ==
  ASSUME Core, NEW h \in Handles, NewHandle(h)
  PROVE  /\ hstate[h] = "none" /\ Now(hstate', hstate, Handles, h, "open")
         /\ \E n \in Fds : /\ desc[n] = Nothing
                          /\ Now(desc', desc, Fds, n, h) /\ Now(hfd', hfd, Handles, h, n)
<1>1. PICK n \in LowestFree(desc) : desc' = [desc EXCEPT ![n] = h] /\ hfd' = [hfd EXCEPT ![h] = n]
  BY DEF NewHandle
<1>2. n \in Fds /\ desc[n] = Nothing
  BY Lowest
<1>3. Now(desc', desc, Fds, n, h) /\ Now(hfd', hfd, Handles, h, n)
  BY <1>1, <1>2, Functions1 DEF Now
<1>4. Now(hstate', hstate, Handles, h, "open") /\ hstate[h] = "none"
  BY Functions1 DEF Now, NewHandle
<1> QED BY <1>2, <1>3, <1>4

\* ~IOExecFileInt closes the number, if it has one.
LEMMA DeleteHandleEffect ==
  ASSUME Core, NEW h \in Handles, DeleteHandle(h)
  PROVE  /\ Now(hstate', hstate, Handles, h, "deleted")
         /\ Now(hfd', hfd, Handles, h, FD_INVALID)
         /\ Shut(desc', desc, hfd[h])
<1>1. Now(hstate', hstate, Handles, h, "deleted") /\ Now(hfd', hfd, Handles, h, FD_INVALID)
  BY Functions1 DEF DeleteHandle, Now
<1>2. Shut(desc', desc, hfd[h])
  <2>1. CASE hfd[h] = FD_INVALID
    BY <2>1, FdsApart DEF Shut, DeleteHandle
  <2>2. CASE hfd[h] # FD_INVALID
    BY <2>2 DEF Shut, DeleteHandle, Closed
  <2> QED BY <2>1, <2>2
<1> QED BY <1>1, <1>2

\* The start of a call.
LEMMA StartOpEffect ==
  ASSUME Core, NEW t \in Threads, NEW h \in Handles, NEW b \in Batches, StartOp(t, h, b)
  PROVE  /\ bstate[b] = "app" /\ Now(bstate', bstate, Batches, b, "given")
         /\ Now(th', th, Threads, t, h) /\ Now(tb', tb, Threads, t, b)
         /\ Now(pc', pc, Threads, t, "loop")
         /\ Now(idx', idx, Threads, t, IF ev = "open" THEN 1 ELSE Len(Shape[b]) + 1)
         /\ Now(retcode', retcode, Threads, t, IF ev = "open" THEN "0" ELSE "EINVAL")
         /\ \A s \in Threads : s # t => idx'[s] = idx[s] /\ retcode'[s] = retcode[s]
<1>1. bstate[b] = "app" /\ Now(bstate', bstate, Batches, b, "given")
  BY Functions1 DEF StartOp, Now
<1>2. Now(th', th, Threads, t, h) /\ Now(tb', tb, Threads, t, b) /\ Now(pc', pc, Threads, t, "loop")
  BY Functions1 DEF StartOp, Now
<1>3. Now(idx', idx, Threads, t, IF ev = "open" THEN 1 ELSE Len(Shape[b]) + 1)
  BY Functions1 DEF StartOp, Now
<1>4. Now(retcode', retcode, Threads, t, IF ev = "open" THEN "0" ELSE "EINVAL")
  BY Functions1 DEF StartOp, Now
<1>5. \A s \in Threads : s # t => idx'[s] = idx[s] /\ retcode'[s] = retcode[s]
  BY Functions1 DEF StartOp
<1> QED BY <1>1, <1>2, <1>3, <1>4, <1>5

\* The end of a call.
LEMMA ReturnEffect ==
  ASSUME Core, NEW t \in Threads, Return(t)
  PROVE  /\ Now(pc', pc, Threads, t, "idle") /\ Now(th', th, Threads, t, Nothing)
         /\ Now(tb', tb, Threads, t, Nothing) /\ Now(idx', idx, Threads, t, 1)
         /\ Now(retcode', retcode, Threads, t, "0")
BY Functions1 DEF Return, Now

\* The next fragment.
LEMMA AdvanceEffect ==
  ASSUME Core, NEW t \in Threads, Advance(t)
  PROVE  Now(pc', pc, Threads, t, "loop") /\ Now(idx', idx, Threads, t, idx[t] + 1)
BY Functions1 DEF Advance, Now

\* The job of a fragment, with the number its handle has.
LEMMA MakeJobEffect ==
  ASSUME Core, NEW t \in Threads, MakeJob(t)
  PROVE  \E j \in Fragments :
           /\ j \in Jobs /\ j = Shape[tb[t]][idx[t]] /\ idx[t] \in DOMAIN Shape[tb[t]]
           /\ pc[t] = "loop" /\ Now(pc', pc, Threads, t, "submit")
           /\ phase[j] = "new" /\ Now(phase', phase, Jobs, j, "calling")
           /\ Now(jfd', jfd, Jobs, j, hfd[th[t]]) /\ Now(jh', jh, Jobs, j, th[t])
           /\ Now(jclose', jclose, Jobs, j, tb[t] \in ByName)
           /\ tb[t] \in Batches /\ th[t] \in Handles /\ hfd[th[t]] \in Fds
           /\ hstate[th[t]] = "open" /\ bstate[tb[t]] # "app" /\ ev = "open"
<1>1. PICK j \in Fragments : j = JobOf(t)
  BY DEF MakeJob
<1>2. j \in Jobs /\ j = Shape[tb[t]][idx[t]]
  BY <1>1 DEF Jobs, JobOf
<1>3. /\ tb[t] \in Batches /\ th[t] \in Handles /\ hfd[th[t]] \in Fds /\ pc[t] = "loop" /\ ev = "open"
      /\ idx[t] >= 1 /\ idx[t] <= totalCount(t) /\ hstate[th[t]] = "open" /\ bstate[tb[t]] # "app"
  BY DEF MakeJob, Core, Calls, CallOf, InOp
<1>4. idx[t] \in DOMAIN Shape[tb[t]]
  <2>1. Shape[tb[t]] \in Seq(Fragments \cup {Empty}) /\ idx[t] \in Nat
    BY <1>3, Functions1, ApiAssumption
  <2> QED BY <1>3, <2>1, SMT DEF totalCount
<1>5. phase[j] = "new" /\ Now(phase', phase, Jobs, j, "calling")
  BY <1>1, <1>2, Functions2 DEF MakeJob, Engine!Call, Engine!Move, Now
<1>6. Now(jfd', jfd, Jobs, j, hfd[th[t]]) /\ Now(jh', jh, Jobs, j, th[t])
  BY <1>1, <1>2, Functions2 DEF MakeJob, NewJob, Now
<1>7. Now(jclose', jclose, Jobs, j, tb[t] \in ByName)
  BY <1>1, <1>2, Functions2 DEF MakeJob, NewJob, Now
<1>8. Now(pc', pc, Threads, t, "submit")
  BY Functions1 DEF MakeJob, Now
<1> QED BY <1>2, <1>3, <1>4, <1>5, <1>6, <1>7, <1>8

\* The answer of submitTask.
LEMMA SubmitEffect ==
  ASSUME Core, NEW t \in Threads, SubmitTask(t) \/ RefuseTask(t)
  PROVE  \E j \in Fragments :
           /\ j \in Jobs /\ j = Shape[tb[t]][idx[t]] /\ idx[t] \in DOMAIN Shape[tb[t]]
           /\ pc[t] = "submit" /\ Now(pc', pc, Threads, t, "loop")
           /\ Now(idx', idx, Threads, t, idx[t] + 1)
           /\ phase[j] = "calling" /\ jh[j] = th[t] /\ jfd[j] = hfd[th[t]]
           /\ tb[t] \in Batches /\ th[t] \in Handles /\ hfd[th[t]] \in Fds
           /\ \/ /\ Now(phase', phase, Jobs, j, "accepted") /\ Now(jstate', jstate, Jobs, j, "queued")
                 /\ Now(retcode', retcode, Threads, t, "0")
              \/ /\ Now(phase', phase, Jobs, j, "refused") /\ jstate' = jstate
                 /\ Now(retcode', retcode, Threads, t, "EAGAIN")
           /\ UNCHANGED <<fileVars, bstate, th, tb, jfd, jh, jclose, outVars, dpc>>
<1>1. PICK j \in Fragments : j = JobOf(t)
  BY JobAt DEF SubmitTask, RefuseTask
<1>2. j \in Jobs /\ j = Shape[tb[t]][idx[t]]
  BY <1>1 DEF Jobs, JobOf
<1>3. /\ tb[t] \in Batches /\ th[t] \in Handles /\ hfd[th[t]] \in Fds /\ pc[t] = "submit"
      /\ idx[t] \in DOMAIN Shape[tb[t]] /\ phase[j] = "calling" /\ jh[j] = th[t] /\ jfd[j] = hfd[th[t]]
  BY <1>1 DEF SubmitTask, RefuseTask, Core, Calls, CallOf, InOp
<1>4. Now(pc', pc, Threads, t, "loop") /\ Now(idx', idx, Threads, t, idx[t] + 1)
  BY AdvanceEffect DEF SubmitTask, RefuseTask
<1>5. CASE SubmitTask(t)
  <2>1. Now(phase', phase, Jobs, j, "accepted")
    BY <1>1, <1>2, <1>5, Functions2 DEF SubmitTask, Engine!Accept, Engine!Move, Now
  <2>2. Now(jstate', jstate, Jobs, j, "queued") /\ Now(retcode', retcode, Threads, t, "0")
    BY ZenonT(40), <1>1, <1>2, <1>5, Functions1, Functions2 DEF SubmitTask, Now
  <2> QED BY <1>2, <1>3, <1>4, <1>5, <2>1, <2>2 DEF SubmitTask
<1>6. CASE RefuseTask(t)
  <2>1. Now(phase', phase, Jobs, j, "refused")
    BY <1>1, <1>2, <1>6, Functions2 DEF RefuseTask, Engine!Refuse, Engine!Move, Now
  <2>2. jstate' = jstate /\ Now(retcode', retcode, Threads, t, "EAGAIN")
    BY <1>6, Functions1 DEF RefuseTask, Now
  <2> QED BY <1>2, <1>3, <1>4, <1>6, <2>1, <2>2 DEF RefuseTask
<1> QED BY <1>5, <1>6

\* IOExecFileDelete makes its job.
LEMMA DeleteEffect ==
  ASSUME Core, NEW t \in Threads, NEW d \in Deletes, IOExecFileDelete(t, d)
  PROVE  /\ d \in Jobs /\ d \notin Fragments /\ ev = "open"
         /\ phase[d] = "new" /\ Now(phase', phase, Jobs, d, "calling")
         /\ pc[t] = "idle" /\ Now(pc', pc, Threads, t, "delSubmit") /\ Now(tb', tb, Threads, t, d)
<1>1. d \in Jobs /\ d \notin Fragments
  BY ApiAssumption DEF Jobs
<1>2. phase[d] = "new" /\ Now(phase', phase, Jobs, d, "calling")
  BY <1>1, Functions2 DEF IOExecFileDelete, Engine!Call, Engine!Move, Now
<1> QED BY <1>1, <1>2, Functions1 DEF IOExecFileDelete, Idle, Now

\* Its submitTask.
LEMMA SubmitDeleteEffect ==
  ASSUME Core, NEW t \in Threads, SubmitDelete(t)
  PROVE  \E d \in Deletes :
           /\ d = tb[t] /\ d \in Jobs /\ d \notin Fragments
           /\ phase[d] = "calling" /\ Now(phase', phase, Jobs, d, "accepted")
           /\ Now(jstate', jstate, Jobs, d, "queued")
<1>1. PICK d \in Deletes : d = tb[t]
  BY JobAt DEF SubmitDelete
<1>2. d \in Jobs /\ d \notin Fragments
  BY ApiAssumption DEF Jobs
<1>3. phase[d] = "calling" /\ Now(phase', phase, Jobs, d, "accepted")
  BY <1>1, <1>2, Functions2 DEF SubmitDelete, Engine!Accept, Engine!Move, Now
<1>4. Now(jstate', jstate, Jobs, d, "queued")
  BY <1>1, <1>2, Functions2 DEF SubmitDelete, Now
<1> QED BY <1>1, <1>2, <1>3, <1>4

\* FilerJob::reset.
LEMMA ResetEffect ==
  ASSUME Core, NEW e \in Posters, Reset(e)
  PROVE  \E j \in Jobs :
           /\ j = post[e] /\ jstate[j] = "kernel" /\ pipe' = Append(pipe, j)
           /\ phase[j] = "accepted" /\ Now(phase', phase, Jobs, j, "reported")
           /\ \/ jclose[j] /\ Now(jstate', jstate, Jobs, j, "close")
              \/ ~jclose[j] /\ Now(jstate', jstate, Jobs, j, "deleted")
<1>1. PICK j \in Jobs : j = post[e]
  BY Functions2 DEF Reset
<1>2. phase[j] = "accepted" /\ Now(phase', phase, Jobs, j, "reported")
  BY <1>1, Functions2 DEF Reset, Engine!Report, Engine!Move, Now
<1>3. CASE jclose[j]
  <2>1. Now(jstate', jstate, Jobs, j, "close")
    BY <1>1, <1>3, Functions2 DEF Reset, AfterReset, Now
  <2> QED BY <1>1, <1>2, <1>3, <2>1 DEF Reset
<1>4. CASE ~jclose[j]
  <2>1. Now(jstate', jstate, Jobs, j, "deleted")
    BY <1>1, <1>4, Functions2 DEF Reset, AfterReset, Now
  <2> QED BY <1>1, <1>2, <1>4, <2>1 DEF Reset
<1> QED BY <1>3, <1>4

\* The executor closes the descriptor of a read by name.
LEMMA CloseJobEffect ==
  ASSUME Core, NEW e \in Posters, CloseJobFd(e)
  PROVE  \E j \in Jobs : /\ jstate[j] = "close" /\ Now(jstate', jstate, Jobs, j, "deleted")
                        /\ Shut(desc', desc, jfd[j])
<1>1. PICK j \in Jobs : j = post[e]
  BY Functions2 DEF CloseJobFd
<1>2. Now(jstate', jstate, Jobs, j, "deleted") /\ jstate[j] = "close"
  BY <1>1, Functions2 DEF CloseJobFd, Now
<1>3. Shut(desc', desc, jfd[j])
  BY <1>1 DEF CloseJobFd, Closed, Shut
<1> QED BY <1>2, <1>3

-----------------------------------------------------------------------------
(***************************************************************************)
(* Who is in a call.                                                       *)
(***************************************************************************)
\* Calls that go on, with their handle and batch, are as alone as they were.
LEMMA AloneStays ==
  ASSUME Core, \A s \in Threads : InOp(s)' => InOp(s) /\ th'[s] = th[s] /\ tb'[s] = tb[s]
  PROVE  Alone'
BY DEF Core, Alone

\* A call takes a batch that no other call has, and no handle of a read by name.
LEMMA AloneStart ==
  ASSUME Core, NEW t \in Threads, NEW h \in Handles, NEW b \in Batches,
         IOExecFileOp(t, h, b) \/ IOExecFileReadByName(t, h, b)
  PROVE  Alone'
<1>1. /\ bstate[b] = "app" /\ Now(th', th, Threads, t, h) /\ Now(tb', tb, Threads, t, b)
      /\ Now(pc', pc, Threads, t, "loop")
  BY StartOpEffect DEF IOExecFileOp, IOExecFileReadByName
<1>2. ASSUME NEW s \in Threads, s # t
      PROVE  /\ InOp(s)' <=> InOp(s)
             /\ th'[s] = th[s] /\ tb'[s] = tb[s] /\ th'[t] = h /\ tb'[t] = b
             /\ InOp(s) => tb[s] # b
             /\ InOp(s) /\ (b \in ByName \/ tb[s] \in ByName) => th[s] # h
  <2>1. (InOp(s)' <=> InOp(s)) /\ th'[s] = th[s] /\ tb'[s] = tb[s] /\ th'[t] = h /\ tb'[t] = b
    BY <1>1, <1>2 DEF Now, InOp
  <2>2. InOp(s) => tb[s] # b /\ hstate[th[s]] = "open"
    BY <1>1 DEF Core, Calls, CallOf
  <2>3. InOp(s) /\ tb[s] \in ByName => th[s] # h
    BY <2>2 DEF IOExecFileOp, IOExecFileReadByName, NewHandle, InOp, InCall
  <2>4. InOp(s) /\ b \in ByName => th[s] # h
    BY <2>2 DEF IOExecFileOp, IOExecFileReadByName, NewHandle
  <2> QED BY <2>1, <2>2, <2>3, <2>4
<1> SUFFICES ASSUME NEW r \in Threads, NEW s \in Threads, r # s, InOp(r)', InOp(s)'
             PROVE  tb'[r] # tb'[s] /\ (tb'[r] \in ByName => th'[r] # th'[s])
  BY DEF Alone
<1>3. CASE r = t
  BY <1>2, <1>3
<1>4. CASE s = t
  BY <1>2, <1>4
<1>5. CASE r # t /\ s # t
  BY <1>2, <1>5 DEF Core, Alone
<1> QED BY <1>3, <1>4, <1>5

\* Alone is kept.
LEMMA AloneStep == Core /\ [Next]_vars => Alone'
<1> SUFFICES ASSUME Core, [Next]_vars PROVE Alone'
  OBVIOUS
<1>1. ASSUME NEW t \in Threads, NEW h \in Handles, NEW b \in Batches,
             IOExecFileOp(t, h, b) \/ IOExecFileReadByName(t, h, b)
      PROVE  Alone'
  BY <1>1, AloneStart
<1>2. ASSUME UNCHANGED <<pc, th, tb>> PROVE Alone'
  BY <1>2, AloneStays DEF InOp
<1>3. ASSUME NEW t \in Threads, NEW d \in Deletes, IOExecFileDelete(t, d) PROVE Alone'
  <2>1. Now(pc', pc, Threads, t, "delSubmit") /\ Now(tb', tb, Threads, t, d) /\ th' = th
    BY <1>3, DeleteEffect DEF IOExecFileDelete
  <2> QED BY <2>1, AloneStays DEF InOp, Now
<1>4. ASSUME NEW t \in Threads, InOp(t), NEW v, Now(pc', pc, Threads, t, v), UNCHANGED <<th, tb>>
      PROVE  Alone'
  BY <1>4, AloneStays DEF InOp, Now
<1>5. ASSUME NEW t \in Threads, SkipFragment(t) PROVE Alone'
  BY <1>4, <1>5, AdvanceEffect DEF SkipFragment, InOp
<1>6. ASSUME NEW t \in Threads, MakeJob(t) PROVE Alone'
  BY <1>4, <1>6, MakeJobEffect DEF MakeJob, InOp
<1>7. ASSUME NEW t \in Threads, SubmitTask(t) \/ RefuseTask(t) PROVE Alone'
  BY <1>4, <1>7, SubmitEffect DEF InOp
<1>8. ASSUME NEW t \in Threads, ForgetFd(t) PROVE Alone'
  <2>1. Now(pc', pc, Threads, t, "delete")
    BY <1>8, Functions1 DEF ForgetFd, Now
  <2> QED BY <1>4, <1>8, <2>1 DEF ForgetFd, LoopDone, InOp
<1>9. ASSUME NEW t \in Threads, Return(t) PROVE Alone'
  BY <1>9, ReturnEffect, AloneStays DEF InOp, Now
<1> QED
  BY <1>1, <1>2, <1>3, <1>5, <1>6, <1>7, <1>8, <1>9
  DEF Next, Application, InCallStep, ExecutorStep, Terminated, vars, IOExecEventFdOpen, IOExecEventFdClose,
      IOExecFileOpen, IOExecFileClose, OpReturns, ReadByNameReturns, SubmitDelete, KernelTakes, StartPost,
      Reset, CloseJobFd, Reap, gIOBatchFree, IOExecFileServiceDestroy, ServiceDestroyed

-----------------------------------------------------------------------------
(***************************************************************************)
(* The fragments ahead of a call.                                          *)
(***************************************************************************)
\* A call that goes on has no more in front of it.
LEMMA AheadStays ==
  ASSUME Core,
         \A s \in Threads : pc'[s] \in {"loop", "submit"} =>
           /\ pc[s] \in {"loop", "submit"} /\ tb'[s] = tb[s]
           /\ \A i \in DOMAIN Shape[tb[s]] : InFront(s, i)' => InFront(s, i),
         \A s \in Threads : pc'[s] \in {"loop", "submit"} =>
           \A i \in DOMAIN Shape[tb[s]] : InFront(s, i)' /\ Shape[tb[s]][i] # Empty
               /\ phase[Shape[tb[s]][i]] = "new" => phase'[Shape[tb[s]][i]] = "new"
  PROVE  Ahead'
<1> SUFFICES ASSUME NEW s \in Threads, pc'[s] \in {"loop", "submit"}, NEW i \in DOMAIN Shape[tb'[s]],
                    Shape[tb'[s]][i] # Empty, InFront(s, i)'
             PROVE  phase'[Shape[tb'[s]][i]] = "new"
  BY DEF Ahead
<1> QED BY DEF Core, Ahead

\* The fragments of a batch are jobs.
LEMMA DataJobs ==
  ASSUME NEW b \in Batches
  PROVE  /\ \A i \in DOMAIN Shape[b] : Shape[b][i] # Empty =>
              Shape[b][i] \in Fragments /\ Shape[b][i] \in Jobs /\ Shape[b][i] \in DataOf(b)
         /\ \A j \in DataOf(b) : /\ j \in Fragments /\ j \in Jobs /\ j # Empty
                                  /\ \E i \in DOMAIN Shape[b] : j = Shape[b][i]
<1>1. \A i \in DOMAIN Shape[b] : Shape[b][i] # Empty => Shape[b][i] \in Fragments
  <2>1. Shape[b] \in Seq(Fragments \cup {Empty})
    BY ApiAssumption
  <2> QED BY <2>1, SMT
<1> QED BY <1>1 DEF DataOf, Jobs

\* A fragment is of one batch.
LEMMA OneBatch ==
  ASSUME NEW b \in Batches, NEW c \in Batches, NEW j \in DataOf(b), j \in DataOf(c)
  PROVE  b = c
<1>1. PICK i \in DOMAIN Shape[b] : j = Shape[b][i] /\ j # Empty
  BY DataJobs
<1>2. PICK k \in DOMAIN Shape[c] : j = Shape[c][k]
  BY DataJobs
<1> QED BY <1>1, <1>2, FragmentAssumption

\* Ahead is kept.
LEMMA AheadStep == Core /\ [Next]_vars => Ahead'
<1> SUFFICES ASSUME Core, [Next]_vars PROVE Ahead'
  OBVIOUS
<1>0. ASSUME NEW s \in Threads, pc[s] \in {"loop", "submit"}
      PROVE  tb[s] \in Batches /\ idx[s] \in Nat /\ InOp(s)
  BY <1>0, Functions1 DEF Core, Calls, CallOf, InOp
<1>1. ASSUME NEW t \in Threads, NEW h \in Handles, NEW b \in Batches,
             IOExecFileOp(t, h, b) \/ IOExecFileReadByName(t, h, b)
      PROVE  Ahead'
  <2>0. StartOp(t, h, b) /\ UNCHANGED phase
    BY <1>1 DEF IOExecFileOp, IOExecFileReadByName
  <2>a. /\ bstate[b] = "app" /\ Now(tb', tb, Threads, t, b) /\ Now(pc', pc, Threads, t, "loop")
        /\ \A s \in Threads : s # t => idx'[s] = idx[s]
    BY <2>0, StartOpEffect
  <2>1. /\ bstate[b] = "app" /\ tb'[t] = b /\ phase' = phase
        /\ \A s \in Threads : s # t => tb'[s] = tb[s] /\ pc'[s] = pc[s] /\ idx'[s] = idx[s]
    BY <2>0, <2>a DEF Now
  <2>2. \A j \in DataOf(b) : phase[j] = "new"
    BY <2>1 DEF Core, Made
  <2> SUFFICES ASSUME NEW s \in Threads, pc'[s] \in {"loop", "submit"}, NEW i \in DOMAIN Shape[tb'[s]],
                      Shape[tb'[s]][i] # Empty, InFront(s, i)'
               PROVE  phase'[Shape[tb'[s]][i]] = "new"
    BY DEF Ahead
  <2>3. CASE s = t
    BY <2>1, <2>2, <2>3, DataJobs
  <2>4. CASE s # t
    <3>1. tb'[s] = tb[s] /\ (InFront(s, i)' => InFront(s, i)) /\ pc[s] \in {"loop", "submit"}
      BY <2>1, <2>4 DEF InFront
    <3>2. \A k \in DOMAIN Shape[tb[s]] : Shape[tb[s]][k] # Empty /\ InFront(s, k) =>
            phase[Shape[tb[s]][k]] = "new"
      BY <3>1 DEF Core, Ahead
    <3> QED BY <2>1, <3>1, <3>2
  <2> QED BY <2>3, <2>4
<1>2. ASSUME UNCHANGED <<pc, tb, idx>>, \A j \in Jobs : phase[j] = "new" => phase'[j] = "new"
      PROVE  Ahead'
  <2>1. \A s \in Threads : pc'[s] \in {"loop", "submit"} =>
          /\ pc[s] \in {"loop", "submit"} /\ tb'[s] = tb[s] /\ tb[s] \in Batches
          /\ \A i \in DOMAIN Shape[tb[s]] : InFront(s, i)' => InFront(s, i)
    BY <1>0, <1>2 DEF InFront
  <2> QED BY <1>2, <2>1, AheadStays, DataJobs
<1>3. ASSUME NEW t \in Threads, NEW d \in Deletes, IOExecFileDelete(t, d) PROVE Ahead'
  <2>1. /\ Now(pc', pc, Threads, t, "delSubmit") /\ Now(tb', tb, Threads, t, d) /\ idx' = idx
        /\ Now(phase', phase, Jobs, d, "calling") /\ d \notin Fragments
    BY <1>3, DeleteEffect DEF IOExecFileDelete
  <2>2. \A s \in Threads : pc'[s] \in {"loop", "submit"} =>
          /\ pc[s] \in {"loop", "submit"} /\ tb'[s] = tb[s] /\ tb[s] \in Batches
          /\ \A i \in DOMAIN Shape[tb[s]] : InFront(s, i)' => InFront(s, i)
    BY <1>0, <2>1 DEF InFront, Now
  <2>3. \A j \in Fragments : phase'[j] = phase[j]
    BY <2>1 DEF Now, Jobs
  <2> QED BY <2>2, <2>3, AheadStays, DataJobs
<1>4. ASSUME NEW t \in Threads, pc[t] \in {"loop", "submit"}, UNCHANGED tb,
             Now(pc', pc, Threads, t, "loop"), Now(idx', idx, Threads, t, idx[t] + 1),
             \A j \in Jobs : phase[j] = "new" => phase'[j] = "new"
      PROVE  Ahead'
  <2>1. \A s \in Threads : pc'[s] \in {"loop", "submit"} =>
          pc[s] \in {"loop", "submit"} /\ tb'[s] = tb[s] /\ tb[s] \in Batches
    BY <1>0, <1>4 DEF Now
  <2>2. ASSUME NEW i \in DOMAIN Shape[tb[t]], InFront(t, i)' PROVE InFront(t, i)
    <3>1. Shape[tb[t]] \in Seq(Fragments \cup {Empty}) /\ idx[t] \in Nat
      BY <1>0, <1>4, ApiAssumption
    <3>2. idx'[t] = idx[t] + 1 /\ (i > idx'[t] \/ i = idx'[t])
      BY <1>4, <2>2 DEF InFront, Now
    <3> QED BY <3>1, <3>2, SMT DEF InFront
  <2>3. ASSUME NEW s \in Threads, s # t, NEW i \in DOMAIN Shape[tb[s]], InFront(s, i)' PROVE InFront(s, i)
    BY <1>4, <2>3 DEF InFront, Now
  <2> QED BY <1>4, <2>1, <2>2, <2>3, AheadStays, DataJobs
<1>5. ASSUME NEW t \in Threads, SkipFragment(t) PROVE Ahead'
  BY <1>4, <1>5, AdvanceEffect DEF SkipFragment
<1>6. ASSUME NEW t \in Threads, MakeJob(t) PROVE Ahead'
  <2>1. PICK j \in Fragments :
          /\ j = Shape[tb[t]][idx[t]] /\ idx[t] \in DOMAIN Shape[tb[t]]
          /\ pc[t] = "loop" /\ Now(pc', pc, Threads, t, "submit")
          /\ Now(phase', phase, Jobs, j, "calling") /\ tb[t] \in Batches
    BY <1>6, MakeJobEffect
  <2>2. UNCHANGED <<tb, idx>>
    BY <1>6 DEF MakeJob
  <2>3. \A s \in Threads : pc'[s] \in {"loop", "submit"} =>
          /\ pc[s] \in {"loop", "submit"} /\ tb'[s] = tb[s] /\ tb[s] \in Batches
          /\ \A i \in DOMAIN Shape[tb[s]] : InFront(s, i)' => InFront(s, i)
    BY <1>0, <2>1, <2>2 DEF InFront, Now
  <2>4. ASSUME NEW s \in Threads, pc'[s] \in {"loop", "submit"}, NEW i \in DOMAIN Shape[tb[s]],
               InFront(s, i)', Shape[tb[s]][i] # Empty
        PROVE  Shape[tb[s]][i] # j
    <3>1. CASE s = t
      <4>1. i > idx[t]
        BY <2>1, <2>2, <2>4, <3>1 DEF InFront, Now
      <4>2. idx[t] \in Nat
        BY <2>3, <2>4, <3>1, <1>0
      <4>3. i # idx[t]
        BY <4>1, <4>2, SMT
      <4> QED BY FragmentAssumption, <2>1, <2>4, <3>1, <4>3
    <3>2. CASE s # t
      <4>1. tb[s] # tb[t] /\ tb[s] \in Batches
        BY <1>0, <2>1, <2>3, <2>4, <3>2 DEF Core, Alone, InOp
      <4> QED BY FragmentAssumption, <2>1, <2>4, <4>1
    <3> QED BY <3>1, <3>2
  <2> QED BY <2>1, <2>3, <2>4, AheadStays, DataJobs DEF Now
<1>7. ASSUME NEW t \in Threads, SubmitTask(t) \/ RefuseTask(t) PROVE Ahead'
  <2>1. PICK j \in Fragments :
          /\ pc[t] = "submit" /\ Now(pc', pc, Threads, t, "loop")
          /\ Now(idx', idx, Threads, t, idx[t] + 1) /\ phase[j] = "calling" /\ UNCHANGED tb
          /\ \E v : Now(phase', phase, Jobs, j, v)
    BY <1>7, SubmitEffect
  <2>2. \A k \in Jobs : phase[k] = "new" => phase'[k] = "new"
    BY <2>1 DEF Now
  <2> QED BY <1>4, <2>1, <2>2
<1>8. ASSUME NEW t \in Threads, ForgetFd(t) PROVE Ahead'
  <2>1. Now(pc', pc, Threads, t, "delete") /\ UNCHANGED <<tb, idx, phase>>
    BY <1>8, Functions1 DEF ForgetFd, Now
  <2> QED BY <2>1, AheadStays DEF InFront, Now
<1>9. ASSUME NEW t \in Threads, Return(t), \A j \in Jobs : phase[j] = "new" => phase'[j] = "new"
      PROVE  Ahead'
  <2>1. Now(pc', pc, Threads, t, "idle") /\ Now(tb', tb, Threads, t, Nothing) /\ Now(idx', idx, Threads, t, 1)
    BY <1>9, ReturnEffect
  <2>2. \A s \in Threads : pc'[s] \in {"loop", "submit"} =>
          /\ pc[s] \in {"loop", "submit"} /\ tb'[s] = tb[s] /\ tb[s] \in Batches
          /\ \A i \in DOMAIN Shape[tb[s]] : InFront(s, i)' => InFront(s, i)
    BY <1>0, <2>1 DEF InFront, Now
  <2> QED BY <1>9, <2>2, AheadStays, DataJobs
<1>10. ASSUME NEW t \in Threads, SubmitDelete(t) PROVE Ahead'
  <2>1. \A j \in Jobs : phase[j] = "new" => phase'[j] = "new"
    BY <1>10, SubmitDeleteEffect DEF Now
  <2> QED BY <1>9, <1>10, <2>1 DEF SubmitDelete
<1>11. ASSUME NEW e \in Posters, Reset(e) PROVE Ahead'
  <2>1. \A j \in Jobs : phase[j] = "new" => phase'[j] = "new"
    BY <1>11, ResetEffect DEF Now
  <2> QED BY <1>2, <1>11, <2>1 DEF Reset
<1> QED
  BY <1>1, <1>2, <1>3, <1>5, <1>6, <1>7, <1>8, <1>9, <1>10, <1>11
  DEF Next, Application, InCallStep, ExecutorStep, Terminated, vars, IOExecEventFdOpen, IOExecEventFdClose,
      IOExecFileOpen, IOExecFileClose, OpReturns, ReadByNameReturns, KernelTakes, StartPost,
      CloseJobFd, Reap, gIOBatchFree, IOExecFileServiceDestroy, ServiceDestroyed, Engine!Close

-----------------------------------------------------------------------------
(***************************************************************************)
(* The stages of a job.                                                    *)
(***************************************************************************)
\* The part of Stages that is about one job.
JobStage(j) ==
  /\ jstate[j] = "none" <=> phase[j] \in {"new", "calling", "refused"}
  /\ jstate[j] \in {"queued", "kernel"} <=> phase[j] = "accepted"
  /\ jstate[j] = "close" => jclose[j]
  /\ j \in reaped => phase[j] = "reported"
  /\ phase[j] \in {"calling", "accepted"} => ev = "open"

\* A step that moves one job.
LEMMA StagesMove ==
  ASSUME Core, NEW j \in Jobs, JobStage(j)', UNCHANGED <<reaped, pipe>>, phase[j] # "reported",
         ev = "open" => ev' = "open",
         \A k \in Jobs : k # j => jstate'[k] = jstate[k] /\ phase'[k] = phase[k] /\ jclose'[k] = jclose[k]
  PROVE  Stages'
<1>1. \A k \in Jobs : k # j => JobStage(k)'
  <2>1. \A k \in Jobs : JobStage(k)
    BY DEF Core, Stages, JobStage
  <2> QED BY <2>1 DEF JobStage
<1>2. \A i \in 1..Len(pipe) : phase'[pipe[i]] = "reported"
  <2>1. \A i \in 1..Len(pipe) : pipe[i] \in Jobs /\ phase[pipe[i]] = "reported"
    BY Functions2, SMT DEF Core, Stages
  <2> QED BY <2>1
<1> QED BY <1>1, <1>2 DEF Stages, JobStage

\* Stages is kept.
LEMMA StagesStep == Core /\ [Next]_vars => Stages'
<1> SUFFICES ASSUME Core, [Next]_vars PROVE Stages'
  OBVIOUS
<1>0. \A j \in Jobs : JobStage(j)
  BY DEF Core, Stages, JobStage
<1>1. ASSUME UNCHANGED <<jstate, phase, jclose, reaped, pipe>>, ev = "open" => ev' = "open" PROVE Stages'
  BY <1>1 DEF Core, Stages
<1>2. ASSUME NEW t \in Threads, IOExecEventFdClose(t) PROVE Stages'
  <2>1. \A j \in Jobs : phase[j] \notin {"calling", "accepted"}
    BY <1>0, <1>2 DEF IOExecEventFdClose, Unseen, JobStage
  <2>2. UNCHANGED <<jstate, phase, jclose, reaped, pipe>>
    BY <1>2 DEF IOExecEventFdClose
  <2> QED BY <2>1, <2>2 DEF Core, Stages
<1>3. ASSUME NEW t \in Threads, NEW d \in Deletes, IOExecFileDelete(t, d) PROVE Stages'
  <2>1. /\ d \in Jobs /\ ev = "open" /\ phase[d] = "new" /\ Now(phase', phase, Jobs, d, "calling")
        /\ UNCHANGED <<jstate, jclose, reaped, pipe, ev>>
    BY <1>3, DeleteEffect DEF IOExecFileDelete
  <2>2. JobStage(d)'
    BY <1>0, <2>1 DEF JobStage, Now
  <2> QED BY <2>1, <2>2, StagesMove DEF Now
<1>4. ASSUME NEW t \in Threads, MakeJob(t) PROVE Stages'
  <2>1. PICK j \in Jobs :
          /\ phase[j] = "new" /\ Now(phase', phase, Jobs, j, "calling") /\ ev = "open"
          /\ Now(jclose', jclose, Jobs, j, tb[t] \in ByName)
    BY <1>4, MakeJobEffect
  <2>2. UNCHANGED <<jstate, reaped, pipe, ev>>
    BY <1>4 DEF MakeJob
  <2>3. JobStage(j)'
    BY <1>0, <2>1, <2>2 DEF JobStage, Now
  <2> QED BY <2>1, <2>2, <2>3, StagesMove DEF Now
<1>5. ASSUME NEW t \in Threads, SubmitTask(t) \/ RefuseTask(t) PROVE Stages'
  <2>1. PICK j \in Jobs :
          /\ phase[j] = "calling"
          /\ \/ Now(phase', phase, Jobs, j, "accepted") /\ Now(jstate', jstate, Jobs, j, "queued")
             \/ Now(phase', phase, Jobs, j, "refused") /\ jstate' = jstate
          /\ UNCHANGED <<jclose, reaped, pipe, ev>>
    BY <1>5, SubmitEffect
  <2>2. JobStage(j)'
    BY <1>0, <2>1 DEF JobStage, Now
  <2> QED BY <2>1, <2>2, StagesMove DEF Now
<1>6. ASSUME NEW t \in Threads, SubmitDelete(t) PROVE Stages'
  <2>1. PICK d \in Jobs :
           /\ phase[d] = "calling" /\ Now(phase', phase, Jobs, d, "accepted")
           /\ Now(jstate', jstate, Jobs, d, "queued")
    BY <1>6, SubmitDeleteEffect
  <2>2. UNCHANGED <<jclose, reaped, pipe, ev>>
    BY <1>6 DEF SubmitDelete
  <2>3. JobStage(d)'
    BY <1>0, <2>1, <2>2 DEF JobStage, Now
  <2> QED BY <2>1, <2>2, <2>3, StagesMove DEF Now
<1>7. ASSUME NEW j \in Jobs, KernelTakes(j) PROVE Stages'
  <2>1. /\ jstate[j] = "queued" /\ Now(jstate', jstate, Jobs, j, "kernel")
        /\ UNCHANGED <<jclose, reaped, pipe, ev, phase>>
    BY <1>7, Functions2 DEF KernelTakes, Now
  <2>2. JobStage(j)' /\ phase[j] # "reported"
    BY <1>0, <2>1 DEF JobStage, Now
  <2> QED BY <2>1, <2>2, StagesMove DEF Now
<1>8. ASSUME NEW e \in Posters, Reset(e) PROVE Stages'
  <2>1. PICK j \in Jobs :
           /\ pipe' = Append(pipe, j) /\ phase[j] = "accepted" /\ Now(phase', phase, Jobs, j, "reported")
           /\ \/ jclose[j] /\ Now(jstate', jstate, Jobs, j, "close")
              \/ ~jclose[j] /\ Now(jstate', jstate, Jobs, j, "deleted")
    BY <1>8, ResetEffect
  <2>2. UNCHANGED <<jclose, reaped, ev>>
    BY <1>8 DEF Reset
  <2>3. JobStage(j)'
    BY <1>0, <2>1, <2>2 DEF JobStage, Now
  <2>4. \A k \in Jobs : k # j => JobStage(k)'
    BY <1>0, <2>1, <2>2 DEF JobStage, Now
  <2>5. ASSUME NEW i \in 1..Len(pipe') PROVE phase'[pipe'[i]] = "reported"
    <3>1. pipe'[i] = j \/ (i \in 1..Len(pipe) /\ pipe'[i] = pipe[i])
      BY <2>1, <2>5, Functions2, SMT
    <3>2. i \in 1..Len(pipe) => pipe[i] \in Jobs /\ phase[pipe[i]] = "reported"
      BY Functions2, SMT DEF Core, Stages
    <3> QED BY <2>1, <3>1, <3>2 DEF Now
  <2> QED BY <2>3, <2>4, <2>5 DEF Stages, JobStage
<1>9. ASSUME NEW e \in Posters, CloseJobFd(e) PROVE Stages'
  <2>1. PICK j \in Jobs : jstate[j] = "close" /\ Now(jstate', jstate, Jobs, j, "deleted")
    BY <1>9, CloseJobEffect
  <2>2. UNCHANGED <<jclose, reaped, pipe, ev, phase>>
    BY <1>9 DEF CloseJobFd
  <2>3. \A k \in Jobs : JobStage(k)'
    BY <1>0, <2>1, <2>2 DEF JobStage, Now
  <2> QED BY <2>2, <2>3 DEF Core, Stages, JobStage
<1>10. ASSUME Reap PROVE Stages'
  <2>1. UNCHANGED <<jstate, jclose, ev, phase>> /\ reaped' = reaped \cup {Head(pipe)} /\ pipe' = Tail(pipe)
    BY <1>10 DEF Reap
  <2>2. /\ Head(pipe) = pipe[1] /\ 1 \in 1..Len(pipe)
        /\ \A i \in 1..Len(Tail(pipe)) : Tail(pipe)[i] = pipe[i + 1] /\ i + 1 \in 1..Len(pipe)
    BY <1>10, HeadTail, Functions2 DEF Reap
  <2>3. phase[Head(pipe)] = "reported" /\ \A i \in 1..Len(pipe') : phase[pipe'[i]] = "reported"
    <3>1. \A i \in 1..Len(pipe) : phase[pipe[i]] = "reported"
      BY DEF Core, Stages
    <3> QED BY <2>1, <2>2, <3>1
  <2> QED BY <2>1, <2>3 DEF Core, Stages
<1> QED
  BY <1>1, <1>2, <1>3, <1>4, <1>5, <1>6, <1>7, <1>8, <1>9, <1>10
  DEF Next, Application, InCallStep, ExecutorStep, Terminated, vars, IOExecEventFdOpen,
      IOExecFileOpen, IOExecFileClose, IOExecFileOp, IOExecFileReadByName, SkipFragment, OpReturns, ForgetFd,
      ReadByNameReturns, StartPost, gIOBatchFree, IOExecFileServiceDestroy, ServiceDestroyed, Engine!Close

-----------------------------------------------------------------------------
(***************************************************************************)
(* What jobs are made of.                                                  *)
(***************************************************************************)
\* Made for one job, and for the fragments of one batch.
JobMade(j) ==
  /\ phase[j] = "new" \/ j \in Deletes => jh[j] = Nothing /\ ~jclose[j]
  /\ phase[j] # "new" /\ j \in Fragments =>
       jh[j] \in Handles /\ hstate[jh[j]] # "none" /\ jfd[j] \in Fds

BatchMade(b) ==
  /\ \A j \in DataOf(b) : phase[j] # "new" => bstate[b] # "app" /\ (jclose[j] <=> b \in ByName)
  /\ bstate[b] = "freed" => DataOf(b) \subseteq reaped

\* A step that makes no job, opens or closes handles, and moves batches on.
LEMMA MadeStays ==
  ASSUME Core, UNCHANGED <<jh, jclose, jfd>>, reaped \subseteq reaped',
         \A j \in Jobs : phase'[j] = "new" <=> phase[j] = "new",
         \A h \in Handles : hstate[h] # "none" => hstate'[h] # "none",
         \A b \in Batches : bstate'[b] # bstate[b] => 
           bstate'[b] # "app" /\ (bstate'[b] = "freed" => DataOf(b) \subseteq reaped)
  PROVE  Made'
<1>1. \A j \in Jobs : JobMade(j)'
  BY DEF Core, Made, JobMade
<1>2. \A b \in Batches : BatchMade(b)'
  <2> SUFFICES ASSUME NEW b \in Batches PROVE BatchMade(b)'
    OBVIOUS
  <2>1. BatchMade(b)
    BY DEF Core, Made, BatchMade
  <2>2. \A j \in DataOf(b) : j \in Jobs
    BY DataJobs
  <2> QED BY <2>1, <2>2 DEF BatchMade, DataOf
<1> QED BY <1>1, <1>2 DEF Made, JobMade, BatchMade, DataOf

\* Made is kept.
LEMMA MadeStep == Core /\ [Next]_vars => Made'
<1> SUFFICES ASSUME Core, [Next]_vars PROVE Made'
  OBVIOUS
<1>0. /\ \A j \in Jobs : JobMade(j)
      /\ \A b \in Batches : BatchMade(b)
  BY DEF Core, Made, JobMade, BatchMade
<1>1. ASSUME UNCHANGED <<jh, jclose, jfd, reaped, phase, hstate, bstate>> PROVE Made'
  BY <1>1, MadeStays
<1>2. ASSUME NEW h \in Handles, NewHandle(h) \/ DeleteHandle(h),
             UNCHANGED <<jh, jclose, jfd, reaped, phase, bstate>> PROVE Made'
  <2>1. \A k \in Handles : hstate[k] # "none" => hstate'[k] # "none"
    BY <1>2, NewHandleEffect, DeleteHandleEffect DEF Now
  <2> QED BY <1>2, <2>1, MadeStays
<1>3. ASSUME NEW t \in Threads, NEW h \in Handles, NEW b \in Batches,
             IOExecFileOp(t, h, b) \/ IOExecFileReadByName(t, h, b)
      PROVE  Made'
  <2>0. StartOp(t, h, b) /\ UNCHANGED <<jh, jclose, jfd, reaped, phase>> /\ (NewHandle(h) \/ hstate' = hstate)
    BY <1>3 DEF IOExecFileOp, IOExecFileReadByName
  <2>1. Now(bstate', bstate, Batches, b, "given")
    BY <2>0, StartOpEffect
  <2>2. \A k \in Handles : hstate[k] # "none" => hstate'[k] # "none"
    BY <2>0, NewHandleEffect DEF Now
  <2>3. \A c \in Batches : bstate'[c] # bstate[c] => bstate'[c] = "given"
    BY <2>1 DEF Now
  <2> QED BY <2>0, <2>2, <2>3, MadeStays
<1>4. ASSUME NEW b \in Batches, gIOBatchFree(b) PROVE Made'
  <2>1. /\ Now(bstate', bstate, Batches, b, "freed") /\ DataOf(b) \subseteq reaped
        /\ UNCHANGED <<jh, jclose, jfd, reaped, phase, hstate>>
    BY <1>4, Functions1 DEF gIOBatchFree, Now
  <2>2. \A c \in Batches : bstate'[c] # bstate[c] => c = b /\ bstate'[c] = "freed"
    BY <2>1 DEF Now
  <2> QED BY <2>1, <2>2, MadeStays
<1>5. ASSUME Reap PROVE Made'
  <2>1. reaped \subseteq reaped' /\ UNCHANGED <<jh, jclose, jfd, phase, hstate, bstate>>
    BY <1>5 DEF Reap
  <2> QED BY <2>1, MadeStays
<1>6. ASSUME NEW j \in Jobs, phase[j] # "new", NEW v, v # "new", Now(phase', phase, Jobs, j, v),
             UNCHANGED <<jh, jclose, jfd, reaped, hstate, bstate>>
      PROVE  Made'
  <2>1. \A k \in Jobs : phase'[k] = "new" <=> phase[k] = "new"
    BY <1>6 DEF Now
  <2> QED BY <1>6, <2>1, MadeStays
<1>7. ASSUME NEW t \in Threads, SubmitTask(t) \/ RefuseTask(t) PROVE Made'
  <2>1. PICK j \in Jobs : 
          /\ phase[j] = "calling" 
          /\ Now(phase', phase, Jobs, j, "accepted") \/ Now(phase', phase, Jobs, j, "refused")
          /\ UNCHANGED <<jh, jclose, jfd, reaped, hstate, bstate>>
    BY <1>7, SubmitEffect
  <2> QED BY <1>6, <2>1
<1>8. ASSUME NEW t \in Threads, SubmitDelete(t) PROVE Made'
  BY <1>6, <1>8, SubmitDeleteEffect DEF SubmitDelete
<1>9. ASSUME NEW e \in Posters, Reset(e) PROVE Made'
  BY <1>6, <1>9, ResetEffect DEF Reset
<1>10. ASSUME NEW t \in Threads, NEW d \in Deletes, IOExecFileDelete(t, d) PROVE Made'
  <2>1. /\ d \in Jobs /\ d \notin Fragments /\ Now(phase', phase, Jobs, d, "calling")
        /\ UNCHANGED <<jh, jclose, jfd, reaped, hstate, bstate>>
    BY <1>10, DeleteEffect DEF IOExecFileDelete
  <2>2. \A k \in Jobs : JobMade(k)'
    BY <1>0, <2>1 DEF JobMade, Now
  <2>3. \A b \in Batches : BatchMade(b)'
    <3> SUFFICES ASSUME NEW b \in Batches PROVE BatchMade(b)'
      OBVIOUS
    <3>1. \A k \in DataOf(b) : phase'[k] = phase[k]
      BY <2>1, DataJobs DEF Now
    <3> QED BY <1>0, <2>1, <3>1 DEF BatchMade
  <2> QED BY <2>2, <2>3 DEF Made, JobMade, BatchMade
<1>11. ASSUME NEW t \in Threads, MakeJob(t) PROVE Made'
  <2>1. PICK j \in Fragments :
           /\ j \in Jobs /\ j = Shape[tb[t]][idx[t]] /\ idx[t] \in DOMAIN Shape[tb[t]]
           /\ Now(phase', phase, Jobs, j, "calling")
           /\ Now(jfd', jfd, Jobs, j, hfd[th[t]]) /\ Now(jh', jh, Jobs, j, th[t])
           /\ Now(jclose', jclose, Jobs, j, tb[t] \in ByName)
           /\ tb[t] \in Batches /\ th[t] \in Handles /\ hfd[th[t]] \in Fds
           /\ hstate[th[t]] = "open" /\ bstate[tb[t]] # "app"
    BY <1>11, MakeJobEffect
  <2>2. UNCHANGED <<reaped, hstate, bstate>> /\ j \notin Deletes
    BY <1>11, ApiAssumption DEF MakeJob
  <2>5. j # Empty /\ j \in DataOf(tb[t])
    BY <2>1, DataJobs, ApiAssumption
  <2>3. \A k \in Jobs : JobMade(k)'
    <3>1. JobMade(j)'
      BY <2>1, <2>2 DEF JobMade, Now
    <3>2. ASSUME NEW k \in Jobs, k # j PROVE JobMade(k)'
      <4>1. phase'[k] = phase[k] /\ jh'[k] = jh[k] /\ jclose'[k] = jclose[k] /\ jfd'[k] = jfd[k]
        BY <2>1, <3>2 DEF Now
      <4>2. JobMade(k)
        BY <1>0
      <4> QED BY <2>2, <4>1, <4>2 DEF JobMade
    <3> QED BY <3>1, <3>2
  <2>4. \A b \in Batches : BatchMade(b)'
    <3> SUFFICES ASSUME NEW b \in Batches PROVE BatchMade(b)'
      OBVIOUS
    <3>1. CASE b = tb[t]
      <4>1. \A k \in DataOf(b) : k \in Jobs /\ (phase'[k] # "new" => jclose'[k] <=> b \in ByName)
        <5>1. jclose'[j] <=> b \in ByName
          BY <2>1, <3>1 DEF Now
        <5>2. \A k \in Jobs : k # j => phase'[k] = phase[k] /\ jclose'[k] = jclose[k]
          BY <2>1 DEF Now
        <5>3. BatchMade(b) /\ \A k \in DataOf(b) : k \in Jobs
          BY <1>0, DataJobs
        <5> QED BY <5>1, <5>2, <5>3 DEF BatchMade
      <4>2. bstate'[b] # "app"
        BY <2>1, <2>2, <3>1
      <4>3. bstate'[b] = "freed" => DataOf(b) \subseteq reaped'
        BY <1>0, <2>2 DEF BatchMade
      <4> QED BY <4>1, <4>2, <4>3 DEF BatchMade, DataOf
    <3>2. CASE b # tb[t]
      <4>1. \A k \in DataOf(b) : k \in Jobs /\ k # j
        BY ZenonT(40), <2>1, <2>5, <3>2, DataJobs, OneBatch
      <4>2. \A k \in DataOf(b) : phase'[k] = phase[k] /\ jclose'[k] = jclose[k]
        BY <2>1, <4>1 DEF Now
      <4> QED BY <1>0, <2>2, <4>2 DEF BatchMade
    <3> QED BY <3>1, <3>2
  <2> QED BY <2>3, <2>4 DEF Made, JobMade, BatchMade
<1>12. ASSUME NEW t \in Threads, ReadByNameReturns(t) PROVE Made'
  <2>1. th[t] \in Handles
    BY <1>12 DEF ReadByNameReturns, Core, Calls, CallOf, InOp
  <2> QED BY <1>2, <1>12, <2>1 DEF ReadByNameReturns
<1> QED
  BY <1>1, <1>2, <1>3, <1>4, <1>5, <1>7, <1>8, <1>9, <1>10, <1>11, <1>12
  DEF Next, Application, InCallStep, ExecutorStep, Terminated, vars, IOExecEventFdOpen, IOExecEventFdClose,
      IOExecFileOpen, IOExecFileClose, SkipFragment, OpReturns, ForgetFd, KernelTakes,
      StartPost, CloseJobFd, IOExecFileServiceDestroy, ServiceDestroyed, Engine!Close

-----------------------------------------------------------------------------
(***************************************************************************)
(* The labels of the threads.                                              *)
(***************************************************************************)
\* A step leaves a thread, and what it relies on, alone.
LEMMA CallStays ==
  ASSUME Core, NEW s \in Threads,
         pc'[s] = pc[s], th'[s] = th[s], tb'[s] = tb[s], idx'[s] = idx[s],
         InOp(s) => /\ hstate'[th[s]] = hstate[th[s]] /\ hfd'[th[s]] = hfd[th[s]]
                    /\ bstate'[tb[s]] # "app",
         pc[s] = "loop" /\ ev = "open" => ev' = "open",
         pc[s] = "submit" => /\ phase'[JobOf(s)] = phase[JobOf(s)] /\ jh'[JobOf(s)] = jh[JobOf(s)]
                             /\ jfd'[JobOf(s)] = jfd[JobOf(s)],
         pc[s] = "delSubmit" => phase'[tb[s]] = phase[tb[s]]
  PROVE  CallOf(s)'
<1>1. CallOf(s)
  BY DEF Core, Calls
<1>2. JobOf(s)' = JobOf(s) /\ totalCount(s)' = totalCount(s) /\ (InOp(s)' <=> InOp(s))
  BY DEF JobOf, totalCount, InOp
<1>3. InOp(s) => /\ hstate'[th'[s]] = "open" /\ bstate'[tb'[s]] # "app" /\ hfd'[th'[s]] = hfd[th[s]]
                 /\ th'[s] \in Handles /\ tb'[s] \in Batches /\ idx'[s] >= 1
  BY <1>1 DEF CallOf
<1>4. pc[s] \in {"loop", "submit"} => InOp(s) /\ hfd'[th'[s]] \in Fds
  BY <1>1, <1>3 DEF CallOf, InOp
<1>5. pc[s] = "submit" => /\ idx'[s] \in DOMAIN Shape[tb'[s]]
                          /\ JobOf(s)' \in Fragments
                          /\ phase'[JobOf(s)'] = "calling"
                          /\ jh'[JobOf(s)'] = th'[s] /\ jfd'[JobOf(s)'] = hfd'[th'[s]]
  <2> SUFFICES ASSUME pc[s] = "submit"
               PROVE  /\ idx'[s] \in DOMAIN Shape[tb'[s]]
                      /\ JobOf(s)' \in Fragments
                      /\ phase'[JobOf(s)'] = "calling"
                      /\ jh'[JobOf(s)'] = th'[s] /\ jfd'[JobOf(s)'] = hfd'[th'[s]]
    OBVIOUS
  <2>1. /\ idx[s] \in DOMAIN Shape[tb[s]] /\ JobOf(s) \in Fragments /\ phase[JobOf(s)] = "calling"
        /\ jh[JobOf(s)] = th[s] /\ jfd[JobOf(s)] = hfd[th[s]]
    BY <1>1 DEF CallOf
  <2> QED BY <1>2, <1>3, <1>4, <2>1
<1>6. pc'[s] = "loop" /\ idx'[s] <= totalCount(s)' => ev' = "open"
  BY <1>1, <1>2 DEF CallOf
<1>7. /\ pc'[s] = "delete" => tb'[s] \in ByName
      /\ pc'[s] = "delSubmit" => tb'[s] \in Deletes /\ phase'[tb'[s]] = "calling"
  BY <1>1 DEF CallOf
<1> QED BY <1>2, <1>3, <1>4, <1>5, <1>6, <1>7 DEF CallOf

\* A thread that is not in a call.
LEMMA NoCall ==
  ASSUME NEW s \in Threads, pc'[s] = "idle"
  PROVE  CallOf(s)'
BY DEF CallOf, InOp

\* The job of a call, and that of another one.
LEMMA OtherJob ==
  ASSUME Core, NEW s \in Threads, NEW t \in Threads, s # t, pc[s] = "submit", InOp(t),
         NEW j \in DataOf(tb[t])
  PROVE  JobOf(s) # j
<1>1. tb[s] # tb[t] /\ tb[s] \in Batches /\ tb[t] \in Batches
  BY DEF Core, Alone, Calls, CallOf, InOp
<1>2. JobOf(s) \in DataOf(tb[s])
  <2>1. idx[s] \in DOMAIN Shape[tb[s]] /\ JobOf(s) \in Fragments
    BY DEF Core, Calls, CallOf
  <2> QED BY <1>1, <2>1, ApiAssumption, DataJobs DEF JobOf
<1> QED BY <1>1, <1>2, OneBatch

\* A call begins.
LEMMA CallsStart ==
  ASSUME Core, NEW t \in Threads, NEW h \in Handles, NEW b \in Batches,
         IOExecFileOp(t, h, b) \/ IOExecFileReadByName(t, h, b)
  PROVE  Calls'
<1>1. StartOp(t, h, b) /\ UNCHANGED <<phase, jh, jfd, ev>>
  BY DEF IOExecFileOp, IOExecFileReadByName
<1>2. /\ Now(bstate', bstate, Batches, b, "given")
      /\ Now(th', th, Threads, t, h) /\ Now(tb', tb, Threads, t, b) /\ Now(pc', pc, Threads, t, "loop")
      /\ idx'[t] = IF ev = "open" THEN 1 ELSE Len(Shape[b]) + 1
      /\ \A s \in Threads : s # t => idx'[s] = idx[s]
  <2>1. Now(idx', idx, Threads, t, IF ev = "open" THEN 1 ELSE Len(Shape[b]) + 1)
    BY <1>1, StartOpEffect
  <2>2. idx'[t] = IF ev = "open" THEN 1 ELSE Len(Shape[b]) + 1
    BY <2>1 DEF Now
  <2> QED BY <1>1, <2>2, StartOpEffect
<1>3. hstate'[h] = "open" /\ hfd'[h] \in Fds
  <2>1. CASE IOExecFileOp(t, h, b)
    <3>1. hstate[h] = "open" /\ UNCHANGED <<hstate, hfd>>
      BY <2>1 DEF IOExecFileOp
    <3>2. hfd[h] # FD_INVALID
      BY ZenonT(40), <2>1, <3>1 DEF Core, Opened, Calls, CallOf, IOExecFileOp, InCall
    <3> QED BY <3>1, <3>2, Functions1
  <2>2. CASE IOExecFileReadByName(t, h, b)
    BY <2>2, NewHandleEffect DEF IOExecFileReadByName, Now
  <2> QED BY <2>1, <2>2
<1>4. ASSUME NEW s \in Threads, s # t PROVE CallOf(s)'
  <2>1. pc'[s] = pc[s] /\ th'[s] = th[s] /\ tb'[s] = tb[s] /\ idx'[s] = idx[s]
    BY <1>2, <1>4 DEF Now
  <2>2. InOp(s) => /\ hstate'[th[s]] = hstate[th[s]] /\ hfd'[th[s]] = hfd[th[s]]
                   /\ bstate'[tb[s]] # "app"
    <3> SUFFICES ASSUME InOp(s)
                 PROVE  /\ hstate'[th[s]] = hstate[th[s]] /\ hfd'[th[s]] = hfd[th[s]]
                        /\ bstate'[tb[s]] # "app"
      OBVIOUS
    <3>1. th[s] \in Handles /\ hstate[th[s]] = "open" /\ tb[s] \in Batches /\ bstate[tb[s]] # "app"
      BY DEF Core, Calls, CallOf
    <3>2. bstate'[tb[s]] # "app"
      BY <1>2, <3>1 DEF Now
    <3>3. CASE IOExecFileOp(t, h, b)
      BY <3>2, <3>3 DEF IOExecFileOp
    <3>4. CASE IOExecFileReadByName(t, h, b)
      <4>1. hstate[h] = "none" /\ \A k \in Handles : k # h => hstate'[k] = hstate[k] /\ hfd'[k] = hfd[k]
        BY <3>4, NewHandleEffect DEF IOExecFileReadByName, Now
      <4> QED BY <3>1, <3>2, <4>1
    <3> QED BY <3>3, <3>4
  <2> QED BY <1>1, <2>1, <2>2, CallStays
<1>5. CallOf(t)'
  <2>1. pc'[t] = "loop" /\ th'[t] = h /\ tb'[t] = b /\ bstate'[b] = "given"
    BY <1>2 DEF Now
  <2>2. idx'[t] >= 1 /\ (idx'[t] <= Len(Shape[b]) => ev' = "open")
    <3>1. Len(Shape[b]) \in Nat
      BY ApiAssumption, SMT
    <3>2. CASE ev = "open"
      BY <1>1, <1>2, <3>2, SMT
    <3>3. CASE ev # "open"
      BY <1>1, <1>2, <3>1, <3>3, SMT
    <3> QED BY <3>2, <3>3
  <2> QED BY <1>3, <2>1, <2>2 DEF CallOf, InOp, totalCount
<1> QED BY <1>4, <1>5 DEF Calls

\* Calls is kept.
LEMMA CallsStep == Core /\ [Next]_vars => Calls'
<1> SUFFICES ASSUME Core, [Next]_vars PROVE Calls'
  OBVIOUS
<1>0. \A s \in Threads : CallOf(s)
  BY DEF Core, Calls
<1>1. ASSUME UNCHANGED <<pc, th, tb, idx, hstate, hfd, phase, jh, jfd>>, ev = "open" => ev' = "open",
             \A b \in Batches : bstate'[b] = "app" => bstate[b] = "app"
      PROVE  Calls'
  <2> SUFFICES ASSUME NEW s \in Threads PROVE CallOf(s)'
    BY DEF Calls
  <2>1. InOp(s) => bstate'[tb[s]] # "app"
    BY <1>0, <1>1 DEF CallOf
  <2> QED BY <1>1, <2>1, CallStays
<1>2. ASSUME NEW t \in Threads, IOExecEventFdClose(t) PROVE Calls'
  BY <1>2, NoCall DEF IOExecEventFdClose, InCall, Calls
<1>3. ASSUME NEW h \in Handles, UNCHANGED <<pc, th, tb, idx, phase, jh, jfd, ev, bstate>>,
             \A k \in Handles : k # h => hstate'[k] = hstate[k] /\ hfd'[k] = hfd[k],
             \A s \in Threads : InOp(s) => th[s] # h
      PROVE  Calls'
  <2> SUFFICES ASSUME NEW s \in Threads PROVE CallOf(s)'
    BY DEF Calls
  <2>1. InOp(s) => /\ hstate'[th[s]] = hstate[th[s]] /\ hfd'[th[s]] = hfd[th[s]]
                   /\ bstate'[tb[s]] # "app"
    BY <1>0, <1>3 DEF CallOf
  <2> QED BY <1>3, <2>1, CallStays
<1>4. ASSUME NEW t \in Threads, NEW h \in Handles, IOExecFileOpen(t, h) PROVE Calls'
  <2>1. /\ hstate[h] = "none" /\ \A k \in Handles : k # h => hstate'[k] = hstate[k] /\ hfd'[k] = hfd[k]
        /\ UNCHANGED <<pc, th, tb, idx, phase, jh, jfd, ev, bstate>>
    BY <1>4, NewHandleEffect DEF IOExecFileOpen, Now
  <2>2. \A s \in Threads : InOp(s) => th[s] # h
    BY <1>0, <2>1 DEF CallOf
  <2> QED BY <1>3, <2>1, <2>2
<1>5. ASSUME NEW t \in Threads, NEW h \in Handles, IOExecFileClose(t, h) PROVE Calls'
  <2>1. /\ \A k \in Handles : k # h => hstate'[k] = hstate[k] /\ hfd'[k] = hfd[k]
        /\ UNCHANGED <<pc, th, tb, idx, phase, jh, jfd, ev, bstate>>
    BY <1>5, DeleteHandleEffect DEF IOExecFileClose, Now
  <2>2. \A s \in Threads : InOp(s) => th[s] # h
    BY <1>5 DEF IOExecFileClose, InOp, InCall
  <2> QED BY <1>3, <2>1, <2>2
<1>6. ASSUME NEW t \in Threads, NEW h \in Handles, NEW b \in Batches,
             IOExecFileOp(t, h, b) \/ IOExecFileReadByName(t, h, b)
      PROVE  Calls'
  BY <1>6, CallsStart
<1>7. ASSUME NEW t \in Threads, CallOf(t)', UNCHANGED <<ev, bstate>>,
             \A s \in Threads : s # t => pc'[s] = pc[s] /\ th'[s] = th[s] /\ tb'[s] = tb[s] /\ idx'[s] = idx[s],
             \A s \in Threads : s # t /\ InOp(s) => hstate'[th[s]] = hstate[th[s]] /\ hfd'[th[s]] = hfd[th[s]],
             \A s \in Threads : s # t /\ pc[s] = "submit" =>
               phase'[JobOf(s)] = phase[JobOf(s)] /\ jh'[JobOf(s)] = jh[JobOf(s)] /\ jfd'[JobOf(s)] = jfd[JobOf(s)],
             \A s \in Threads : s # t /\ pc[s] = "delSubmit" => phase'[tb[s]] = phase[tb[s]]
      PROVE  Calls'
  <2> SUFFICES ASSUME NEW s \in Threads, s # t PROVE CallOf(s)'
    BY <1>7 DEF Calls
  <2>1. InOp(s) => bstate'[tb[s]] # "app"
    BY <1>0, <1>7 DEF CallOf
  <2> QED BY <1>7, <2>1, CallStays
<1>8. ASSUME NEW t \in Threads, SkipFragment(t) PROVE Calls'
  <2>1. /\ Now(pc', pc, Threads, t, "loop") /\ Now(idx', idx, Threads, t, idx[t] + 1)
        /\ UNCHANGED <<th, tb, hstate, hfd, phase, jh, jfd, ev, bstate>>
    BY <1>8, AdvanceEffect DEF SkipFragment
  <2>2. pc[t] = "loop" /\ idx[t] <= totalCount(t)
    BY <1>8 DEF SkipFragment
  <2>3. idx[t] \in Nat /\ idx[t] >= 1 /\ ev = "open" /\ tb[t] \in Batches /\ bstate[tb[t]] # "app"
        /\ th[t] \in Handles /\ hstate[th[t]] = "open" /\ hfd[th[t]] \in Fds
    BY <1>0, <2>2, Functions1 DEF CallOf, InOp
  <2>4. idx[t] + 1 >= 1
    BY <2>3, SMT
  <2>5. CallOf(t)'
    BY <2>1, <2>2, <2>3, <2>4 DEF CallOf, InOp, Now
  <2> QED BY <1>7, <2>1, <2>5 DEF Now
<1>9. ASSUME NEW t \in Threads, MakeJob(t) PROVE Calls'
  <2>1. PICK j \in Fragments :
          /\ j \in Jobs /\ j = Shape[tb[t]][idx[t]] /\ idx[t] \in DOMAIN Shape[tb[t]]
          /\ pc[t] = "loop" /\ Now(pc', pc, Threads, t, "submit")
          /\ phase[j] = "new" /\ Now(phase', phase, Jobs, j, "calling")
          /\ Now(jfd', jfd, Jobs, j, hfd[th[t]]) /\ Now(jh', jh, Jobs, j, th[t])
    BY <1>9, MakeJobEffect
  <2>2. UNCHANGED <<th, tb, idx, hstate, hfd, ev, bstate>>
    BY <1>9 DEF MakeJob
  <2>3. CallOf(t)'
    <3>1. JobOf(t)' = j
      BY <2>1, <2>2 DEF JobOf
    <3>2. pc'[t] = "submit" /\ phase'[j] = "calling" /\ jh'[j] = th[t] /\ jfd'[j] = hfd[th[t]]
      BY <2>1 DEF Now
    <3>3. /\ th[t] \in Handles /\ hstate[th[t]] = "open" /\ tb[t] \in Batches /\ bstate[tb[t]] # "app"
          /\ idx[t] >= 1 /\ hfd[th[t]] \in Fds
      BY <1>0, <2>1 DEF CallOf, InOp
    <3> QED BY <2>1, <2>2, <3>1, <3>2, <3>3 DEF CallOf, InOp
  <2>4. \A s \in Threads : s # t /\ pc[s] = "submit" => JobOf(s) \in Jobs /\ JobOf(s) # j
    BY <1>0, <2>1, JobAt DEF CallOf
  <2>5. \A s \in Threads : s # t /\ pc[s] = "delSubmit" => tb[s] \in Jobs /\ tb[s] # j
    BY <1>0, <2>1, JobAt DEF CallOf
  <2> QED BY <1>7, <2>1, <2>2, <2>3, <2>4, <2>5 DEF Now
<1>10. ASSUME NEW t \in Threads, SubmitTask(t) \/ RefuseTask(t) PROVE Calls'
  <2>1. PICK j \in Fragments :
           /\ j \in Jobs /\ j = Shape[tb[t]][idx[t]] /\ idx[t] \in DOMAIN Shape[tb[t]]
           /\ pc[t] = "submit" /\ Now(pc', pc, Threads, t, "loop")
           /\ Now(idx', idx, Threads, t, idx[t] + 1) /\ phase[j] = "calling"
           /\ Now(phase', phase, Jobs, j, "accepted") \/ Now(phase', phase, Jobs, j, "refused")
    BY <1>10, SubmitEffect
  <2>0. UNCHANGED <<ev, hstate, hfd, bstate, th, tb, jfd, jh>>
    BY <1>10 DEF SubmitTask, RefuseTask
  <2>2. /\ idx[t] \in Nat /\ idx[t] >= 1 /\ tb[t] \in Batches /\ bstate[tb[t]] # "app"
        /\ th[t] \in Handles /\ hstate[th[t]] = "open" /\ hfd[th[t]] \in Fds
    BY <1>0, <2>1, Functions1 DEF CallOf, InOp
  <2>3. idx[t] + 1 >= 1
    BY <2>2, SMT
  <2>4. ev = "open"
    BY <2>1 DEF Core, Stages
  <2>5. CallOf(t)'
    BY <2>0, <2>1, <2>2, <2>3, <2>4 DEF CallOf, InOp, Now
  <2>6. j \in DataOf(tb[t]) /\ j \notin Deletes
    BY <2>1, <2>2, DataJobs, ApiAssumption
  <2>7. \A s \in Threads : s # t /\ pc[s] = "submit" => JobOf(s) \in Jobs /\ JobOf(s) # j
    BY <2>1, <2>6, OtherJob, JobAt DEF InOp
  <2>8. \A s \in Threads : s # t /\ pc[s] = "delSubmit" => tb[s] \in Jobs /\ tb[s] # j
    BY <2>6, JobAt
  <2> QED BY <1>7, <2>0, <2>1, <2>5, <2>7, <2>8 DEF Now
<1>11. ASSUME NEW t \in Threads, OpReturns(t) PROVE Calls'
  <2>1. /\ Now(pc', pc, Threads, t, "idle") /\ Now(th', th, Threads, t, Nothing)
        /\ Now(tb', tb, Threads, t, Nothing) /\ Now(idx', idx, Threads, t, 1)
        /\ UNCHANGED <<hstate, hfd, phase, jh, jfd, ev, bstate>>
    BY <1>11, ReturnEffect DEF OpReturns
  <2> QED BY <1>7, <2>1, NoCall DEF Now
<1>12. ASSUME NEW t \in Threads, ForgetFd(t) PROVE Calls'
  <2>1. /\ Now(pc', pc, Threads, t, "delete") /\ pc[t] = "loop" /\ tb[t] \in ByName
        /\ UNCHANGED <<th, tb, idx, hstate, phase, jh, jfd, ev, bstate>>
    BY <1>12, Functions1 DEF ForgetFd, LoopDone, Now
  <2>2. /\ th[t] \in Handles /\ hstate[th[t]] = "open" /\ tb[t] \in Batches /\ bstate[tb[t]] # "app"
        /\ idx[t] >= 1
    BY <1>0, <2>1 DEF CallOf, InOp
  <2>3. CallOf(t)'
    BY <2>1, <2>2 DEF CallOf, InOp, Now
  <2>4. ASSUME NEW s \in Threads, s # t, InOp(s) PROVE hfd'[th[s]] = hfd[th[s]]
    <3>1. th[s] # th[t] /\ th[s] \in Handles
      BY <1>0, <2>1, <2>4 DEF Core, Alone, CallOf, InOp
    <3> QED BY <1>12, <2>2, <3>1, Functions1 DEF ForgetFd
  <2> QED BY <1>7, <2>1, <2>3, <2>4 DEF Now
<1>13. ASSUME NEW t \in Threads, ReadByNameReturns(t) PROVE Calls'
  <2>1. /\ Now(pc', pc, Threads, t, "idle") /\ Now(th', th, Threads, t, Nothing)
        /\ Now(tb', tb, Threads, t, Nothing) /\ Now(idx', idx, Threads, t, 1)
        /\ UNCHANGED <<phase, jh, jfd, ev, bstate>> /\ pc[t] = "delete"
    BY <1>13, ReturnEffect DEF ReadByNameReturns
  <2>2. th[t] \in Handles /\ tb[t] \in ByName
    BY <1>0, <2>1 DEF CallOf, InOp
  <2>3. \A k \in Handles : k # th[t] => hstate'[k] = hstate[k] /\ hfd'[k] = hfd[k]
    BY <1>13, <2>2, DeleteHandleEffect DEF ReadByNameReturns, Now
  <2>4. ASSUME NEW s \in Threads, s # t, InOp(s) PROVE th[s] # th[t] /\ th[s] \in Handles
    BY <1>0, <2>1, <2>2, <2>4 DEF Core, Alone, CallOf, InOp
  <2> QED BY <1>7, <2>1, <2>3, <2>4, NoCall DEF Now
<1>14. ASSUME NEW t \in Threads, NEW d \in Deletes, IOExecFileDelete(t, d) PROVE Calls'
  <2>1. /\ d \in Jobs /\ phase[d] = "new" /\ Now(phase', phase, Jobs, d, "calling")
        /\ Now(pc', pc, Threads, t, "delSubmit") /\ Now(tb', tb, Threads, t, d)
        /\ UNCHANGED <<th, idx, hstate, hfd, jh, jfd, ev, bstate>>
    BY <1>14, DeleteEffect DEF IOExecFileDelete
  <2>2. CallOf(t)'
    BY <2>1 DEF CallOf, InOp, Now
  <2>3. \A s \in Threads : s # t /\ pc[s] = "submit" => JobOf(s) \in Jobs /\ JobOf(s) # d
    BY <1>0, <2>1, JobAt DEF CallOf
  <2>4. \A s \in Threads : s # t /\ pc[s] = "delSubmit" => tb[s] \in Jobs /\ tb[s] # d
    BY <1>0, <2>1, JobAt DEF CallOf
  <2> QED BY <1>7, <2>1, <2>2, <2>3, <2>4 DEF Now
<1>15. ASSUME NEW t \in Threads, SubmitDelete(t) PROVE Calls'
  <2>1. PICK d \in Deletes :
           d = tb[t] /\ d \in Jobs /\ d \notin Fragments /\ Now(phase', phase, Jobs, d, "accepted")
    BY <1>15, SubmitDeleteEffect
  <2>2. /\ Now(pc', pc, Threads, t, "idle") /\ Now(th', th, Threads, t, Nothing)
        /\ Now(tb', tb, Threads, t, Nothing) /\ Now(idx', idx, Threads, t, 1)
        /\ UNCHANGED <<hstate, hfd, jh, jfd, ev, bstate>> /\ pc[t] = "delSubmit"
    BY <1>15, ReturnEffect DEF SubmitDelete
  <2>3. \A s \in Threads : s # t /\ pc[s] = "submit" => JobOf(s) \in Jobs /\ JobOf(s) # d
    BY <2>1, JobAt
  <2>4. \A s \in Threads : s # t /\ pc[s] = "delSubmit" => tb[s] \in Jobs /\ tb[s] # d
    BY <2>1, <2>2, JobAt DEF Core, OneDelete
  <2> QED BY <1>7, <2>1, <2>2, <2>3, <2>4, NoCall DEF Now
<1>16. ASSUME NEW e \in Posters, Reset(e) PROVE Calls'
  <2>1. PICK j \in Jobs : phase[j] = "accepted" /\ Now(phase', phase, Jobs, j, "reported")
    BY <1>16, ResetEffect
  <2>2. UNCHANGED <<pc, th, tb, idx, hstate, hfd, jh, jfd, ev, bstate>>
    BY <1>16 DEF Reset
  <2> SUFFICES ASSUME NEW s \in Threads PROVE CallOf(s)'
    BY DEF Calls
  <2>3. pc[s] = "submit" => JobOf(s) \in Jobs /\ JobOf(s) # j
    BY <1>0, <2>1, JobAt DEF CallOf
  <2>4. pc[s] = "delSubmit" => tb[s] \in Jobs /\ tb[s] # j
    BY <1>0, <2>1, JobAt DEF CallOf
  <2>5. InOp(s) => bstate'[tb[s]] # "app"
    BY <1>0, <2>2 DEF CallOf
  <2> QED BY <2>1, <2>2, <2>3, <2>4, <2>5, CallStays DEF Now
<1>17. ASSUME NEW b \in Batches, gIOBatchFree(b) PROVE Calls'
  <2>1. Now(bstate', bstate, Batches, b, "freed")
    BY <1>17, Functions1 DEF gIOBatchFree, Now
  <2> QED BY <1>1, <1>17, <2>1 DEF gIOBatchFree, Now
<1> QED
  BY <1>1, <1>2, <1>4, <1>5, <1>6, <1>8, <1>9, <1>10, <1>11, <1>12, <1>13, <1>14, <1>15, <1>16, <1>17
  DEF Next, Application, InCallStep, ExecutorStep, Terminated, vars, IOExecEventFdOpen,
      KernelTakes, StartPost, CloseJobFd, Reap, IOExecFileServiceDestroy, ServiceDestroyed, Engine!Close

\* OneDelete is kept.
LEMMA OneDeleteStep == Core /\ [Next]_vars => OneDelete'
<1> SUFFICES ASSUME Core, [Next]_vars PROVE OneDelete'
  OBVIOUS
<1>1. ASSUME \A s \in Threads : pc'[s] = "delSubmit" => pc[s] = "delSubmit" /\ tb'[s] = tb[s]
      PROVE  OneDelete'
  BY <1>1 DEF Core, OneDelete
<1>2. ASSUME NEW t \in Threads, NEW d \in Deletes, IOExecFileDelete(t, d) PROVE OneDelete'
  <2>1. /\ phase[d] = "new" /\ Now(pc', pc, Threads, t, "delSubmit") /\ Now(tb', tb, Threads, t, d)
    BY <1>2, DeleteEffect
  <2>2. \A s \in Threads : s # t /\ pc'[s] = "delSubmit" => pc[s] = "delSubmit" /\ tb'[s] = tb[s] /\ tb[s] # d
    BY ZenonT(40), <2>1 DEF Now, Core, Calls, CallOf
  <2>3. tb'[t] = d
    BY <2>1 DEF Now
  <2> QED BY <2>2, <2>3 DEF Core, OneDelete
<1>3. ASSUME NEW t \in Threads, NEW h \in Handles, NEW b \in Batches,
             IOExecFileOp(t, h, b) \/ IOExecFileReadByName(t, h, b)
      PROVE  OneDelete'
  <2>1. Now(tb', tb, Threads, t, b) /\ Now(pc', pc, Threads, t, "loop")
    BY <1>3, StartOpEffect DEF IOExecFileOp, IOExecFileReadByName
  <2> QED BY <1>1, <2>1 DEF Now
<1>4. ASSUME NEW t \in Threads, NEW v \in {"loop", "submit", "delete"}, Now(pc', pc, Threads, t, v), UNCHANGED tb
      PROVE  OneDelete'
  BY <1>1, <1>4 DEF Now
<1>5. ASSUME NEW t \in Threads, SkipFragment(t) PROVE OneDelete'
  BY <1>4, <1>5, AdvanceEffect DEF SkipFragment
<1>6. ASSUME NEW t \in Threads, MakeJob(t) PROVE OneDelete'
  BY <1>4, <1>6, MakeJobEffect DEF MakeJob
<1>7. ASSUME NEW t \in Threads, SubmitTask(t) \/ RefuseTask(t) PROVE OneDelete'
  BY <1>4, <1>7, SubmitEffect
<1>8. ASSUME NEW t \in Threads, ForgetFd(t) PROVE OneDelete'
  <2>1. Now(pc', pc, Threads, t, "delete")
    BY <1>8, Functions1 DEF ForgetFd, Now
  <2> QED BY <1>4, <1>8, <2>1 DEF ForgetFd
<1>9. ASSUME NEW t \in Threads, Return(t) PROVE OneDelete'
  BY <1>1, <1>9, ReturnEffect DEF Now
<1>10. ASSUME UNCHANGED <<pc, tb>> PROVE OneDelete'
  BY <1>1, <1>10
<1> QED
  BY <1>2, <1>3, <1>5, <1>6, <1>7, <1>8, <1>9, <1>10
  DEF Next, Application, InCallStep, ExecutorStep, Terminated, vars, IOExecEventFdOpen, IOExecEventFdClose,
      IOExecFileOpen, IOExecFileClose, OpReturns, ReadByNameReturns, SubmitDelete, KernelTakes, StartPost,
      Reset, CloseJobFd, Reap, gIOBatchFree, IOExecFileServiceDestroy, ServiceDestroyed

\* A handle that is made or deleted is not left open without a descriptor.
LEMMA HandleOpened ==
  ASSUME Core, NEW h \in Handles, NewHandle(h) \/ DeleteHandle(h)
  PROVE  \A k \in Handles : hstate'[k] = "open" /\ hfd'[k] = FD_INVALID =>
           hstate[k] = "open" /\ hfd[k] = FD_INVALID
<1>1. CASE NewHandle(h)
  <2>1. hfd'[h] \in Fds /\ \A k \in Handles : k # h => hfd'[k] = hfd[k] /\ hstate'[k] = hstate[k]
    BY ZenonT(40), <1>1, NewHandleEffect DEF Now
  <2> QED BY <2>1, FdsApart
<1>2. CASE DeleteHandle(h)
  BY <1>2, DeleteHandleEffect DEF Now
<1> QED BY <1>1, <1>2

\* Opened is kept.
LEMMA OpenedStep == Core /\ [Next]_vars => Opened'
<1> SUFFICES ASSUME Core, [Next]_vars PROVE Opened'
  OBVIOUS
<1>1. ASSUME \A h \in Handles : hstate'[h] = "open" /\ hfd'[h] = FD_INVALID =>
               hstate[h] = "open" /\ hfd[h] = FD_INVALID,
             \A s \in Threads : pc[s] = "delete" => pc'[s] = "delete" /\ th'[s] = th[s]
      PROVE  Opened'
  BY <1>1 DEF Core, Opened
<1>2. ASSUME UNCHANGED <<hstate, hfd>>,
             \A s \in Threads : pc[s] = "delete" => pc'[s] = "delete" /\ th'[s] = th[s]
      PROVE  Opened'
  BY <1>1, <1>2
<1>3. ASSUME UNCHANGED <<hstate, hfd>>, UNCHANGED <<pc, th>> PROVE Opened'
  BY <1>2, <1>3
<1>4. ASSUME NEW t \in Threads, NEW h \in Handles, IOExecFileOpen(t, h) \/ IOExecFileClose(t, h) PROVE Opened'
  <2>1. \A k \in Handles : hstate'[k] = "open" /\ hfd'[k] = FD_INVALID =>
          hstate[k] = "open" /\ hfd[k] = FD_INVALID
    BY <1>4, HandleOpened DEF IOExecFileOpen, IOExecFileClose
  <2>2. UNCHANGED <<pc, th>>
    BY <1>4 DEF IOExecFileOpen, IOExecFileClose
  <2> QED BY <1>1, <2>1, <2>2
<1>5. ASSUME NEW t \in Threads, NEW h \in Handles, NEW b \in Batches,
             IOExecFileOp(t, h, b) \/ IOExecFileReadByName(t, h, b)
      PROVE  Opened'
  <2>1. \A k \in Handles : hstate'[k] = "open" /\ hfd'[k] = FD_INVALID =>
          hstate[k] = "open" /\ hfd[k] = FD_INVALID
    BY <1>5, HandleOpened DEF IOExecFileOp, IOExecFileReadByName
  <2>2. Now(th', th, Threads, t, h) /\ Now(pc', pc, Threads, t, "loop")
    BY <1>5, StartOpEffect DEF IOExecFileOp, IOExecFileReadByName
  <2>3. pc[t] = "idle"
    BY <1>5 DEF IOExecFileOp, IOExecFileReadByName, Idle
  <2> QED BY <1>1, <2>1, <2>2, <2>3 DEF Now
<1>6. ASSUME NEW t \in Threads, pc[t] # "delete", NEW v, Now(pc', pc, Threads, t, v),
             UNCHANGED <<hstate, hfd>>, \A s \in Threads : s # t => th'[s] = th[s]
      PROVE  Opened'
  BY <1>2, <1>6 DEF Now
<1>7. ASSUME NEW t \in Threads, SkipFragment(t) PROVE Opened'
  BY <1>6, <1>7, AdvanceEffect DEF SkipFragment
<1>8. ASSUME NEW t \in Threads, MakeJob(t) PROVE Opened'
  BY <1>6, <1>8, MakeJobEffect DEF MakeJob
<1>9. ASSUME NEW t \in Threads, SubmitTask(t) \/ RefuseTask(t) PROVE Opened'
  BY <1>6, <1>9, SubmitEffect
<1>10. ASSUME NEW t \in Threads, NEW d \in Deletes, IOExecFileDelete(t, d) PROVE Opened'
  BY <1>6, <1>10, DeleteEffect DEF IOExecFileDelete
<1>11. ASSUME NEW t \in Threads, OpReturns(t) \/ SubmitDelete(t) PROVE Opened'
  <2>1. Now(pc', pc, Threads, t, "idle") /\ Now(th', th, Threads, t, Nothing)
    BY <1>11, ReturnEffect DEF OpReturns, SubmitDelete
  <2>2. pc[t] # "delete" /\ UNCHANGED <<hstate, hfd>>
    BY <1>11 DEF OpReturns, LoopDone, SubmitDelete
  <2> QED BY <1>6, <2>1, <2>2 DEF Now
<1>12. ASSUME NEW t \in Threads, ForgetFd(t) PROVE Opened'
  <2>1. Now(pc', pc, Threads, t, "delete") /\ UNCHANGED <<th, hstate>>
    BY <1>12, Functions1 DEF ForgetFd, Now
  <2>2. th[t] \in Handles
    BY <1>12 DEF ForgetFd, LoopDone, Core, Calls, CallOf, InOp
  <2>3. \A k \in Handles : k # th[t] => hfd'[k] = hfd[k]
    BY <1>12, <2>2, Functions1 DEF ForgetFd
  <2>4. pc'[t] = "delete" /\ \A s \in Threads : pc[s] = "delete" => pc'[s] = "delete"
    BY <2>1 DEF Now
  <2> QED BY <2>1, <2>3, <2>4 DEF Core, Opened
<1>13. ASSUME NEW t \in Threads, ReadByNameReturns(t) PROVE Opened'
  <2>1. Now(pc', pc, Threads, t, "idle") /\ Now(th', th, Threads, t, Nothing)
    BY <1>13, ReturnEffect DEF ReadByNameReturns
  <2>2. th[t] \in Handles
    BY <1>13 DEF ReadByNameReturns, Core, Calls, CallOf, InOp
  <2>3. hstate'[th[t]] = "deleted" /\ \A k \in Handles : k # th[t] => hstate'[k] = hstate[k] /\ hfd'[k] = hfd[k]
    BY <1>13, <2>2, DeleteHandleEffect DEF ReadByNameReturns, Now
  <2> SUFFICES ASSUME NEW h \in Handles, hstate'[h] = "open", hfd'[h] = FD_INVALID
               PROVE  \E s \in Threads : pc'[s] = "delete" /\ th'[s] = h
    BY DEF Opened
  <2>4. h # th[t]
    BY <2>3
  <2>5. PICK s \in Threads : pc[s] = "delete" /\ th[s] = h
    BY <2>3, <2>4 DEF Core, Opened
  <2> QED BY <2>1, <2>4, <2>5 DEF Now
<1> QED
  BY <1>3, <1>4, <1>5, <1>7, <1>8, <1>9, <1>10, <1>11, <1>12, <1>13
  DEF Next, Application, InCallStep, ExecutorStep, Terminated, vars, IOExecEventFdOpen, IOExecEventFdClose,
      KernelTakes, StartPost, Reset, CloseJobFd, Reap, gIOBatchFree, IOExecFileServiceDestroy, ServiceDestroyed

-----------------------------------------------------------------------------
(***************************************************************************)
(* Core always holds, and so do the types.                                 *)
(***************************************************************************)
\* It holds at first.
LEMMA InitCore == Init => Core
<1> SUFFICES ASSUME Init PROVE Core
  OBVIOUS
<1>1. FileTypes /\ JobTypes
  <2>1. evfd \in (Fds \cup {Nothing}) \X (Fds \cup {Nothing})
    BY SMT DEF Init
  <2> QED BY <2>1 DEF Init, FileTypes, JobTypes, Engine!SvcInit
<1>2. CallTypes /\ OutTypes
  <2>1. 1 \in Nat /\ <<>> \in Seq(Jobs)
    BY SMT
  <2> QED BY <2>1 DEF Init, CallTypes, OutTypes, Engine!SvcInit
<1>3. TypeOK
  BY <1>1, <1>2, TypeParts DEF Typed
<1>4. Calls /\ Alone /\ OneDelete /\ Opened /\ Ahead
  BY DEF Init, Calls, CallOf, InOp, Alone, OneDelete, Opened, Ahead
<1>5. \A j \in Jobs : phase[j] = "new" /\ jstate[j] = "none" /\ ~jclose[j] /\ jh[j] = Nothing /\ j \notin reaped
  BY DEF Init, Engine!SvcInit
<1>6. Stages
  <2>1. \A i \in 1..Len(pipe) : phase[pipe[i]] = "reported"
    BY SMT DEF Init
  <2> QED BY <1>5, <2>1 DEF Stages
<1>7. Made
  BY <1>5, DataJobs DEF Init, Made
<1> QED BY <1>3, <1>4, <1>6, <1>7 DEF Core

\* A step keeps it.
LEMMA CoreStep == Core /\ [Next]_vars => Core'
BY TypeStep, CallsStep, AloneStep, OneDeleteStep, OpenedStep, AheadStep, StagesStep, MadeStep DEF Core

\* What the labels of the threads, the stages of the jobs and the batches say of each
\* other holds in every reachable state.
THEOREM CoreAlways == Spec => []Core
BY InitCore, CoreStep, PTL DEF Spec

\* Every variable has its type.  In particular no job is ever made with FD_INVALID, the
\* assertion of FilerJob's constructor.
THEOREM TypesAlways == Spec => []TypeOK
<1>1. Core => TypeOK
  BY DEF Core
<1> QED BY <1>1, CoreAlways, PTL

\* A batch that a call still reads, or a job has a buffer of, is not freed.
LEMMA BatchLiveCore == ASSUME EndsWithData, Core PROVE BatchLive
<1>1. ASSUME NEW b \in Batches, NEW j \in DataOf(b), phase[j] # "new", phase[j] # "reported"
      PROVE  bstate[b] = "given"
  <2>1. bstate[b] # "app"
    BY <1>1 DEF Core, Made
  <2>2. j \in Jobs /\ j \notin reaped
    BY <1>1, DataJobs DEF Core, Stages
  <2>3. bstate[b] # "freed"
    BY <1>1, <2>2 DEF Core, Made
  <2> QED BY <2>1, <2>3, Functions1
<1>2. ASSUME NEW t \in Threads, ReadsBatch(t) PROVE bstate[tb[t]] = "given"
  <2>1. pc[t] = "loop" /\ idx[t] <= Len(Shape[tb[t]])
    BY <1>2 DEF ReadsBatch, totalCount
  <2>2. tb[t] \in Batches /\ bstate[tb[t]] # "app" /\ idx[t] \in Nat
    BY <2>1, Functions1 DEF Core, Calls, CallOf, InOp
  <2>3. PICK b \in Batches : b = tb[t]
    BY <2>2
  <2>4. PICK n \in Nat : n = Len(Shape[b]) /\ n \in DOMAIN Shape[b] /\ InFront(t, n)
    <3>1. Shape[b] \in Seq(Fragments \cup {Empty}) /\ Len(Shape[b]) > 0
      BY ApiAssumption
    <3> QED BY <2>1, <2>2, <2>3, <3>1, SMT DEF InFront
  <2>5. Shape[b][n] # Empty
    BY <2>4 DEF EndsWithData
  <2>6. phase[Shape[b][n]] = "new"
    BY <2>1, <2>3, <2>4, <2>5 DEF Core, Ahead
  <2>7. Shape[b][n] \in DataOf(b) /\ Shape[b][n] \in Jobs
    BY <2>4, <2>5, DataJobs
  <2>8. bstate[b] # "freed"
    BY <2>6, <2>7 DEF Core, Made, Stages
  <2> QED BY <2>2, <2>3, <2>8, Functions1
<1> QED BY <1>1, <1>2 DEF BatchLive

\* If the last fragment of every batch has data, IOExecFileOp never reads a batch that
\* the application has freed, although it may free it as soon as it has read the status
\* of the last fragment, before submitTask has returned; and no job has a buffer of one.
THEOREM BatchLiveAlways == ASSUME EndsWithData PROVE Spec => []BatchLive
<1>1. Core => BatchLive
  BY BatchLiveCore
<1> QED BY <1>1, CoreAlways, PTL

-----------------------------------------------------------------------------
(***************************************************************************)
(* The jobs of the reads by name.                                          *)
(***************************************************************************)
\* The fragment of a read by name.
LEMMA TheFragment ==
  ASSUME OneFragment, NEW b \in ByName
  PROVE  /\ b \in Batches
         /\ \E i \in DOMAIN Shape[b] : Shape[b][i] # Empty /\ Shape[b][i] \in DataOf(b)
         /\ \A j, k \in DataOf(b) : j = k
<1>1. b \in Batches
  BY ApiAssumption
<1>2. PICK i \in DOMAIN Shape[b] : Shape[b][i] # Empty /\ \A k \in DOMAIN Shape[b] : k # i => Shape[b][k] = Empty
  BY DEF OneFragment
<1>3. \A j \in DataOf(b) : j = Shape[b][i]
  BY <1>1, <1>2, DataJobs
<1> QED BY <1>1, <1>2, <1>3, DataJobs

\* A job with a handle has a handle that was made.
LEMMA JobHandle ==
  ASSUME Core, NEW j \in Jobs, jh[j] \in Handles \/ jclose[j]
  PROVE  /\ j \in Fragments /\ phase[j] # "new" /\ jh[j] \in Handles
         /\ hstate[jh[j]] # "none" /\ jfd[j] \in Fds
BY ApiAssumption DEF Core, Made, Jobs

\* A handle that is new has no jobs.
LEMMA NoJobs ==
  ASSUME Core, NEW h \in Handles, hstate[h] = "none"
  PROVE  \A j \in Jobs : jh[j] # h
BY JobHandle

\* The job of a read by name closes its descriptor.
LEMMA ByNameJob ==
  ASSUME Core, ReadsByName, NEW t \in Threads, ByNameCall(t)
  PROVE  /\ \A j \in Jobs : jh[j] = th[t] => j \in DataOf(tb[t]) /\ jclose[j] /\ phase[j] # "new"
         /\ \A j \in DataOf(tb[t]) : phase[j] # "new" => j \in Jobs /\ jh[j] = th[t] /\ jclose[j]
         /\ \A s \in Threads : s # t /\ InOp(s) => th[s] # th[t] /\ tb[s] # tb[t]
         /\ th[t] \in Handles /\ hstate[th[t]] = "open" /\ tb[t] \in Batches
<1>1. th[t] \in Handles /\ hstate[th[t]] = "open" /\ tb[t] \in Batches /\ tb[t] \in ByName
  BY DEF ByNameCall, Core, Calls, CallOf
<1>2. \A j \in DataOf(tb[t]) : phase[j] # "new" => j \in Jobs /\ jh[j] = th[t] /\ jclose[j]
  BY <1>1, DataJobs DEF ReadsByName, Core, Made
<1>3. \A j \in Jobs : jh[j] = th[t] => j \in DataOf(tb[t]) /\ phase[j] # "new"
  BY <1>1, JobHandle DEF ReadsByName
<1>4. \A s \in Threads : s # t /\ InOp(s) => th[s] # th[t] /\ tb[s] # tb[t]
  BY DEF ByNameCall, Core, Alone
<1> QED BY <1>1, <1>2, <1>3, <1>4

\* Steps that make no job and open no file.
LEMMA ReadsStay ==
  ASSUME Core, ReadsByName, UNCHANGED <<jh, jclose>>,
         \A j \in Jobs : phase'[j] = "new" <=> phase[j] = "new",
         \A s \in Threads : ByNameCall(s)' => ByNameCall(s) /\ th'[s] = th[s] /\ tb'[s] = tb[s],
         \A h \in Handles : hstate'[h] = "open" => 
           /\ hstate[h] = "open" \/ \A j \in Jobs : jh[j] # h
           /\ \A s \in Threads : ByNameCall(s) /\ th[s] = h => ByNameCall(s)' /\ th'[s] = h
  PROVE  ReadsByName'
<1>1. ASSUME NEW t \in Threads, ByNameCall(t)'
      PROVE  /\ \A j \in Jobs : jh'[j] = th'[t] => j \in DataOf(tb'[t])
             /\ \A j \in DataOf(tb'[t]) : phase'[j] # "new" => jh'[j] = th'[t]
  <2>1. /\ ByNameCall(t) /\ th'[t] = th[t] /\ tb'[t] = tb[t]
        /\ \A j \in Jobs : jh[j] = th[t] => j \in DataOf(tb[t])
        /\ \A j \in DataOf(tb[t]) : phase[j] # "new" => jh[j] = th[t]
    BY <1>1 DEF ReadsByName
  <2>2. \A j \in DataOf(tb[t]) : j \in Jobs
    BY <2>1, DataJobs DEF ByNameCall, Core, Calls, CallOf
  <2> QED BY <2>1, <2>2
<1>2. ASSUME NEW j \in Jobs, jclose'[j], hstate'[jh'[j]] = "open"
      PROVE  \E t \in Threads : ByNameCall(t)' /\ th'[t] = jh'[j]
  <2>1. jh[j] \in Handles
    BY <1>2, JobHandle
  <2>2. jclose[j] /\ hstate[jh[j]] = "open"
    BY <1>2, <2>1
  <2>3. PICK t \in Threads : ByNameCall(t) /\ th[t] = jh[j]
    BY <2>2 DEF ReadsByName
  <2> QED BY <1>2, <2>1, <2>3
<1>3. \A j, k \in Jobs : jclose'[j] /\ jh'[j] = jh'[k] => j = k
  BY DEF ReadsByName
<1> QED BY <1>1, <1>2, <1>3 DEF ReadsByName

\* A read by name begins with a handle that has no jobs and a batch that has none.
LEMMA ReadsStart ==
  ASSUME Core, ReadsByName, NEW t \in Threads, NEW h \in Handles, NEW b \in Batches,
         IOExecFileOp(t, h, b) \/ IOExecFileReadByName(t, h, b)
  PROVE  ReadsByName'
<1>1. StartOp(t, h, b) /\ UNCHANGED <<jh, jclose, phase>>
  BY DEF IOExecFileOp, IOExecFileReadByName
<1>2. /\ bstate[b] = "app" /\ Now(th', th, Threads, t, h) /\ Now(tb', tb, Threads, t, b)
      /\ Now(pc', pc, Threads, t, "loop") /\ ~InOp(t)
  BY <1>1, StartOpEffect DEF IOExecFileOp, IOExecFileReadByName, Idle, InOp
<1>3. ASSUME NEW s \in Threads, s # t PROVE (ByNameCall(s)' <=> ByNameCall(s)) /\ th'[s] = th[s] /\ tb'[s] = tb[s]
  BY <1>2, <1>3 DEF Now, ByNameCall, InOp
<1>4. th'[t] = h /\ tb'[t] = b
  BY <1>2 DEF Now
<1>5. ASSUME ByNameCall(t)' PROVE IOExecFileReadByName(t, h, b) /\ \A j \in Jobs : jh[j] # h
  <2>1. IOExecFileReadByName(t, h, b)
    BY <1>4, <1>5 DEF ByNameCall, IOExecFileOp
  <2> QED BY <2>1, NoJobs DEF IOExecFileReadByName, NewHandle
<1>6. ASSUME NEW s \in Threads, ByNameCall(s)'
      PROVE  /\ \A j \in Jobs : jh'[j] = th'[s] => j \in DataOf(tb'[s])
             /\ \A j \in DataOf(tb'[s]) : phase'[j] # "new" => jh'[j] = th'[s]
  <2>1. CASE s = t
    BY <1>1, <1>2, <1>4, <1>5, <1>6, <2>1 DEF Core, Made
  <2>2. CASE s # t
    BY <1>1, <1>3, <1>6, <2>2 DEF ReadsByName
  <2> QED BY <2>1, <2>2
<1>7. ASSUME NEW j \in Jobs, jclose'[j], hstate'[jh'[j]] = "open"
      PROVE  \E s \in Threads : ByNameCall(s)' /\ th'[s] = jh'[j]
  <2>1. jclose[j] /\ jh[j] \in Handles /\ hstate[jh[j]] # "none" /\ jh'[j] = jh[j]
    BY <1>1, <1>7, JobHandle
  <2>2. hstate[jh[j]] = "open"
    <3>1. CASE IOExecFileOp(t, h, b)
      BY <1>7, <2>1, <3>1 DEF IOExecFileOp
    <3>2. CASE IOExecFileReadByName(t, h, b)
      BY <1>7, <2>1, <3>2, NewHandleEffect DEF IOExecFileReadByName, Now
    <3> QED BY <3>1, <3>2
  <2>3. PICK s \in Threads : ByNameCall(s) /\ th[s] = jh[j]
    BY <2>1, <2>2 DEF ReadsByName
  <2>4. s # t
    BY <1>2, <2>3 DEF ByNameCall
  <2> QED BY <1>3, <2>1, <2>3, <2>4
<1>8. \A j, k \in Jobs : jclose'[j] /\ jh'[j] = jh'[k] => j = k
  BY <1>1 DEF ReadsByName
<1> QED BY <1>6, <1>7, <1>8 DEF ReadsByName

\* The job of a read by name is the only one of its handle.
LEMMA ReadsMake ==
  ASSUME OneFragment, Core, ReadsByName, NEW t \in Threads, MakeJob(t)
  PROVE  ReadsByName'
<1>1. PICK j \in Fragments :
        /\ j \in Jobs /\ j = Shape[tb[t]][idx[t]] /\ idx[t] \in DOMAIN Shape[tb[t]]
        /\ pc[t] = "loop" /\ Now(pc', pc, Threads, t, "submit")
        /\ phase[j] = "new" /\ Now(phase', phase, Jobs, j, "calling")
        /\ Now(jh', jh, Jobs, j, th[t]) /\ Now(jclose', jclose, Jobs, j, tb[t] \in ByName)
        /\ tb[t] \in Batches /\ th[t] \in Handles /\ hstate[th[t]] = "open"
  BY ZenonT(40), MakeJobEffect
<1>2. UNCHANGED <<th, tb, hstate>>
  BY DEF MakeJob
<1>3. InOp(t) /\ \A s \in Threads : ByNameCall(s)' <=> ByNameCall(s)
  BY <1>1, <1>2 DEF Now, ByNameCall, InOp
<1>4. j \in DataOf(tb[t])
  BY <1>1, DataJobs, ApiAssumption
<1>5. /\ jh'[j] = th[t] /\ (jclose'[j] <=> tb[t] \in ByName)
      /\ \A k \in Jobs : k # j => jh'[k] = jh[k] /\ jclose'[k] = jclose[k] /\ phase'[k] = phase[k]
  BY <1>1 DEF Now
<1>6. ASSUME NEW s \in Threads, ByNameCall(s)'
      PROVE  /\ \A k \in Jobs : jh'[k] = th'[s] => k \in DataOf(tb'[s])
             /\ \A k \in DataOf(tb'[s]) : phase'[k] # "new" => jh'[k] = th'[s]
  <2>1. ByNameCall(s) /\ th'[s] = th[s] /\ tb'[s] = tb[s]
    BY <1>2, <1>3, <1>6
  <2>2. /\ \A k \in Jobs : jh[k] = th[s] => k \in DataOf(tb[s])
        /\ \A k \in DataOf(tb[s]) : phase[k] # "new" => jh[k] = th[s]
        /\ \A k \in DataOf(tb[s]) : k \in Jobs
    BY <2>1, DataJobs DEF ReadsByName, ByNameCall, Core, Calls, CallOf
  <2>3. CASE s = t
    BY <1>4, <1>5, <2>1, <2>2, <2>3
  <2>4. CASE s # t
    <3>1. th[s] # th[t] /\ tb[s] # tb[t] /\ tb[s] \in Batches /\ tb[t] \in Batches
      BY <1>1, <1>3, <2>1, <2>4, ByNameJob
    <3>2. j \notin DataOf(tb[s])
      BY <1>4, <3>1, OneBatch
    <3> QED BY <1>5, <2>1, <2>2, <3>1, <3>2
  <2> QED BY <2>3, <2>4
<1>7. ASSUME NEW k \in Jobs, jclose'[k], hstate'[jh'[k]] = "open"
      PROVE  \E s \in Threads : ByNameCall(s)' /\ th'[s] = jh'[k]
  <2>1. CASE k = j
    <3>1. ByNameCall(t)
      BY <1>3, <1>5, <1>7, <2>1 DEF ByNameCall
    <3> QED BY <1>2, <1>3, <1>5, <2>1, <3>1
  <2>2. CASE k # j
    <3>1. jclose[k] /\ hstate[jh[k]] = "open" /\ jh'[k] = jh[k]
      BY <1>2, <1>5, <1>7, <2>2
    <3>2. PICK s \in Threads : ByNameCall(s) /\ th[s] = jh[k]
      BY <3>1 DEF ReadsByName
    <3> QED BY <1>2, <1>3, <3>1, <3>2
  <2> QED BY <2>1, <2>2
<1>8. ASSUME NEW k \in Jobs, k # j, jh[k] = th[t], tb[t] \in ByName \/ jclose[k] PROVE FALSE
  <2>1. ByNameCall(t)
    <3>1. CASE tb[t] \in ByName
      BY <1>3, <3>1 DEF ByNameCall
    <3>2. CASE jclose[k]
      <4>1. PICK s \in Threads : ByNameCall(s) /\ th[s] = th[t]
        <5>1. hstate[jh[k]] = "open"
          BY <1>1, <1>8
        <5>2. PICK s \in Threads : ByNameCall(s) /\ th[s] = jh[k]
          BY <3>2, <5>1 DEF ReadsByName
        <5> QED BY <1>8, <5>2
      <4>2. s = t
        BY <1>3, <4>1, ByNameJob
      <4> QED BY <4>1, <4>2
    <3> QED BY <1>8, <3>1, <3>2
  <2>2. k \in DataOf(tb[t])
    BY <1>8, <2>1, ByNameJob
  <2> QED BY <1>4, <1>8, <2>1, <2>2, TheFragment DEF ByNameCall
<1>9. ASSUME NEW k \in Jobs, NEW i \in Jobs, jclose'[k], jh'[k] = jh'[i], k # i PROVE FALSE
  <2>1. CASE k = j
    BY <1>5, <1>8, <1>9, <2>1
  <2>2. CASE i = j
    BY <1>5, <1>8, <1>9, <2>2
  <2>3. CASE k # j /\ i # j
    <3>1. jclose[k] /\ jh[k] = jh[i]
      BY <1>5, <1>9, <2>3
    <3> QED BY <1>9, <3>1 DEF ReadsByName
  <2> QED BY <2>1, <2>2, <2>3
<1> QED BY <1>6, <1>7, <1>9 DEF ReadsByName

\* ReadsByName is kept.
LEMMA ReadsStep == OneFragment /\ Core /\ ReadsByName /\ [Next]_vars => ReadsByName'
<1> SUFFICES ASSUME OneFragment, Core, ReadsByName, [Next]_vars PROVE ReadsByName'
  OBVIOUS
<1>1. ASSUME UNCHANGED <<jh, jclose, hstate, th, tb>>,
             \A j \in Jobs : phase'[j] = "new" <=> phase[j] = "new",
             \A s \in Threads : InOp(s)' <=> InOp(s)
      PROVE  ReadsByName'
  <2>1. \A s \in Threads : ByNameCall(s)' <=> ByNameCall(s)
    BY <1>1 DEF ByNameCall
  <2> QED BY <1>1, <2>1, ReadsStay
<1>2. ASSUME UNCHANGED <<jh, jclose, hstate, th, tb, phase, pc>> PROVE ReadsByName'
  BY <1>1, <1>2 DEF InOp
<1>3. ASSUME NEW t \in Threads, NEW h \in Handles, IOExecFileOpen(t, h) PROVE ReadsByName'
  <2>1. /\ \A j \in Jobs : jh[j] # h
        /\ \A k \in Handles : k # h => hstate'[k] = hstate[k]
        /\ UNCHANGED <<jh, jclose, th, tb, phase, pc>>
    BY <1>3, NoJobs, NewHandleEffect DEF IOExecFileOpen, Now
  <2>2. \A s \in Threads : ByNameCall(s)' <=> ByNameCall(s)
    BY <2>1 DEF ByNameCall, InOp
  <2> QED BY <2>1, <2>2, ReadsStay
<1>4. ASSUME NEW t \in Threads, NEW h \in Handles, IOExecFileClose(t, h) PROVE ReadsByName'
  <2>1. /\ hstate'[h] = "deleted" /\ \A k \in Handles : k # h => hstate'[k] = hstate[k]
        /\ UNCHANGED <<jh, jclose, th, tb, phase, pc>>
    BY <1>4, DeleteHandleEffect DEF IOExecFileClose, Now
  <2>2. \A s \in Threads : ByNameCall(s)' <=> ByNameCall(s)
    BY <2>1 DEF ByNameCall, InOp
  <2> QED BY <2>1, <2>2, ReadsStay
<1>5. ASSUME NEW t \in Threads, NEW h \in Handles, NEW b \in Batches,
             IOExecFileOp(t, h, b) \/ IOExecFileReadByName(t, h, b)
      PROVE  ReadsByName'
  BY <1>5, ReadsStart
<1>6. ASSUME NEW t \in Threads, MakeJob(t) PROVE ReadsByName'
  BY <1>6, ReadsMake
<1>7. ASSUME NEW t \in Threads, SkipFragment(t) PROVE ReadsByName'
  <2>1. Now(pc', pc, Threads, t, "loop") /\ pc[t] = "loop" /\ UNCHANGED <<jh, jclose, hstate, th, tb, phase>>
    BY <1>7, AdvanceEffect DEF SkipFragment
  <2>2. \A s \in Threads : InOp(s)' <=> InOp(s)
    BY <2>1 DEF InOp, Now
  <2> QED BY <1>1, <2>1, <2>2
<1>8. ASSUME NEW t \in Threads, SubmitTask(t) \/ RefuseTask(t) PROVE ReadsByName'
  <2>1. PICK j \in Fragments :
          /\ pc[t] = "submit" /\ Now(pc', pc, Threads, t, "loop") /\ phase[j] = "calling"
          /\ Now(phase', phase, Jobs, j, "accepted") \/ Now(phase', phase, Jobs, j, "refused")
    BY <1>8, SubmitEffect
  <2>2. UNCHANGED <<jh, jclose, hstate, th, tb>>
    BY <1>8 DEF SubmitTask, RefuseTask
  <2>3. \A s \in Threads : InOp(s)' <=> InOp(s)
    BY <2>1 DEF InOp, Now
  <2>4. \A k \in Jobs : phase'[k] = "new" <=> phase[k] = "new"
    BY <2>1 DEF Now
  <2> QED BY <1>1, <2>2, <2>3, <2>4
<1>9. ASSUME NEW t \in Threads, OpReturns(t) \/ SubmitDelete(t) PROVE ReadsByName'
  <2>1. /\ Now(pc', pc, Threads, t, "idle") /\ Now(th', th, Threads, t, Nothing)
        /\ Now(tb', tb, Threads, t, Nothing) /\ UNCHANGED <<jh, jclose, hstate>>
    BY <1>9, ReturnEffect DEF OpReturns, SubmitDelete
  <2>2. ~ByNameCall(t)
    BY <1>9 DEF OpReturns, SubmitDelete, ByNameCall, InOp
  <2>3. \A k \in Jobs : phase'[k] = "new" <=> phase[k] = "new"
    BY <1>9, SubmitDeleteEffect DEF OpReturns, Now
  <2>4. ~ByNameCall(t)' /\ \A s \in Threads : s # t => (ByNameCall(s)' <=> ByNameCall(s)) /\ th'[s] = th[s] /\ tb'[s] = tb[s]
    BY <2>1 DEF ByNameCall, InOp, Now
  <2> QED BY <2>1, <2>2, <2>3, <2>4, ReadsStay
<1>10. ASSUME NEW t \in Threads, ForgetFd(t) PROVE ReadsByName'
  <2>1. Now(pc', pc, Threads, t, "delete") /\ pc[t] = "loop" /\ UNCHANGED <<jh, jclose, hstate, th, tb, phase>>
    BY <1>10, Functions1 DEF ForgetFd, LoopDone, Now
  <2>2. \A s \in Threads : InOp(s)' <=> InOp(s)
    BY <2>1 DEF InOp, Now
  <2> QED BY <1>1, <2>1, <2>2
<1>11. ASSUME NEW t \in Threads, ReadByNameReturns(t) PROVE ReadsByName'
  <2>1. /\ Now(pc', pc, Threads, t, "idle") /\ Now(th', th, Threads, t, Nothing)
        /\ Now(tb', tb, Threads, t, Nothing) /\ UNCHANGED <<jh, jclose, phase>>
    BY <1>11, ReturnEffect DEF ReadByNameReturns
  <2>2. ByNameCall(t) /\ th[t] \in Handles
    BY <1>11 DEF ReadByNameReturns, Core, Calls, CallOf, ByNameCall, InOp
  <2>3. hstate'[th[t]] = "deleted" /\ \A k \in Handles : k # th[t] => hstate'[k] = hstate[k]
    BY <1>11, <2>2, DeleteHandleEffect DEF ReadByNameReturns, Now
  <2>4. ~ByNameCall(t)' /\ \A s \in Threads : s # t => (ByNameCall(s)' <=> ByNameCall(s)) /\ th'[s] = th[s] /\ tb'[s] = tb[s]
    BY <2>1 DEF ByNameCall, InOp, Now
  <2>5. \A h \in Handles : hstate'[h] = "open" =>
          hstate[h] = "open" /\ \A s \in Threads : ByNameCall(s) /\ th[s] = h => ByNameCall(s)' /\ th'[s] = h
    BY <2>3, <2>4
  <2> QED BY <2>1, <2>4, <2>5, ReadsStay
<1>12. ASSUME NEW t \in Threads, NEW d \in Deletes, IOExecFileDelete(t, d) PROVE ReadsByName'
  <2>1. /\ d \in Jobs /\ d \notin Fragments /\ Now(phase', phase, Jobs, d, "calling") /\ ~InOp(t)
        /\ Now(pc', pc, Threads, t, "delSubmit") /\ Now(tb', tb, Threads, t, d)
        /\ UNCHANGED <<jh, jclose, hstate, th>>
    BY <1>12, DeleteEffect DEF IOExecFileDelete, InOp
  <2>2. ~ByNameCall(t) /\ ~ByNameCall(t)' /\ \A s \in Threads : s # t => (ByNameCall(s)' <=> ByNameCall(s)) /\ tb'[s] = tb[s]
    BY <2>1 DEF ByNameCall, InOp, Now
  <2>3. ASSUME NEW s \in Threads, ByNameCall(s)'
        PROVE  /\ \A j \in Jobs : jh'[j] = th'[s] => j \in DataOf(tb'[s])
               /\ \A j \in DataOf(tb'[s]) : phase'[j] # "new" => jh'[j] = th'[s]
    <3>1. /\ ByNameCall(s) /\ tb'[s] = tb[s]
          /\ \A j \in Jobs : jh[j] = th[s] => j \in DataOf(tb[s])
          /\ \A j \in DataOf(tb[s]) : phase[j] # "new" => jh[j] = th[s]
      BY <2>2, <2>3 DEF ReadsByName
    <3>2. \A j \in DataOf(tb[s]) : phase'[j] = phase[j]
      BY ZenonT(40), <2>1, <3>1, DataJobs DEF ByNameCall, Core, Calls, CallOf, Now
    <3> QED BY <2>1, <3>1, <3>2
  <2>4. ASSUME NEW j \in Jobs, jclose'[j], hstate'[jh'[j]] = "open"
        PROVE  \E s \in Threads : ByNameCall(s)' /\ th'[s] = jh'[j]
    <3>1. PICK s \in Threads : ByNameCall(s) /\ th[s] = jh[j]
      BY <2>1, <2>4 DEF ReadsByName
    <3> QED BY <2>1, <2>2, <3>1
  <2>5. \A j, k \in Jobs : jclose'[j] /\ jh'[j] = jh'[k] => j = k
    BY <2>1 DEF ReadsByName
  <2> QED BY <2>3, <2>4, <2>5 DEF ReadsByName
<1>13. ASSUME NEW e \in Posters, Reset(e) PROVE ReadsByName'
  <2>1. \A k \in Jobs : phase'[k] = "new" <=> phase[k] = "new"
    BY <1>13, ResetEffect DEF Now
  <2>2. UNCHANGED <<jh, jclose, hstate, th, tb, pc>>
    BY <1>13 DEF Reset
  <2> QED BY <1>1, <2>1, <2>2 DEF InOp
<1> QED
  BY <1>2, <1>3, <1>4, <1>5, <1>6, <1>7, <1>8, <1>9, <1>10, <1>11, <1>12, <1>13
  DEF Next, Application, InCallStep, ExecutorStep, Terminated, vars, IOExecEventFdOpen, IOExecEventFdClose,
      KernelTakes, StartPost, CloseJobFd, Reap, gIOBatchFree, IOExecFileServiceDestroy, ServiceDestroyed,
      Engine!Close

-----------------------------------------------------------------------------
(***************************************************************************)
(* What a read by name is told.                                            *)
(***************************************************************************)
\* A step that leaves the read alone.
LEMMA ToldStays ==
  ASSUME Core, Told, NEW s \in Threads, ByNameCall(s),
         pc'[s] = pc[s], th'[s] = th[s], tb'[s] = tb[s], idx'[s] = idx[s], retcode'[s] = retcode[s],
         hfd'[th[s]] = hfd[th[s]],
         \A j \in DataOf(tb[s]) : phase'[j] \in {"accepted", "reported"} <=> phase[j] \in {"accepted", "reported"}
  PROVE  ToldOf(s)'
<1>1. ToldOf(s)
  BY DEF Told
<1>2. tb[s] \in Batches
  BY DEF ByNameCall, Core, Calls, CallOf
<1>3. pc'[s] # "submit" =>
        \A j \in DataOf(tb'[s]) : phase'[j] \in {"accepted", "reported"} => retcode'[s] = "0"
  BY <1>1 DEF ToldOf
<1>4. pc'[s] = "loop" /\ retcode'[s] = "0" => \A i \in DOMAIN Shape[tb'[s]] :
        i < idx'[s] /\ Shape[tb'[s]][i] # Empty => phase'[Shape[tb'[s]][i]] \in {"accepted", "reported"}
  BY <1>1, <1>2, DataJobs DEF ToldOf
<1>5. pc'[s] = "delete" => (hfd'[th'[s]] = FD_INVALID <=> retcode'[s] = "0")
  BY <1>1 DEF ToldOf
<1> QED BY <1>3, <1>4, <1>5 DEF ToldOf

\* A step of one thread leaves the others' reads alone.
LEMMA ToldOthers ==
  ASSUME Core, ReadsByName, Told, NEW t \in Threads, InOp(t),
         \A s \in Threads : s # t =>
           /\ pc'[s] = pc[s] /\ th'[s] = th[s] /\ tb'[s] = tb[s]
           /\ idx'[s] = idx[s] /\ retcode'[s] = retcode[s],
         \A h \in Handles : h # th[t] => hfd'[h] = hfd[h],
         \A j \in Jobs : j \notin DataOf(tb[t]) => phase'[j] = phase[j],
         ByNameCall(t)' => ToldOf(t)'
  PROVE  Told'
<1> SUFFICES ASSUME NEW s \in Threads, s # t, ByNameCall(s)' PROVE ToldOf(s)'
  BY DEF Told
<1>1. ByNameCall(s)
  BY DEF ByNameCall, InOp
<1>2. th[s] # th[t] /\ tb[s] # tb[t] /\ th[s] \in Handles /\ tb[s] \in Batches /\ tb[t] \in Batches
  <2>1. tb[t] \in Batches
    BY DEF Core, Calls, CallOf
  <2> QED BY <1>1, <2>1, ByNameJob
<1>3. \A j \in DataOf(tb[s]) : phase'[j] = phase[j]
  BY <1>2, DataJobs, OneBatch
<1> QED BY <1>1, <1>2, <1>3, ToldStays

\* Told is kept.
LEMMA ToldStep == OneFragment /\ Core /\ ReadsByName /\ Told /\ [Next]_vars => Told'
<1> SUFFICES ASSUME OneFragment, Core, ReadsByName, Told, [Next]_vars PROVE Told'
  OBVIOUS
<1>0. ASSUME NEW s \in Threads, ByNameCall(s)
      PROVE  /\ tb[s] \in Batches /\ tb[s] \in ByName /\ th[s] \in Handles /\ idx[s] \in Nat
             /\ hstate[th[s]] = "open" /\ ToldOf(s) /\ \A j \in DataOf(tb[s]) : j \in Jobs /\ j \in Fragments
  BY <1>0, Functions1, DataJobs DEF ByNameCall, Core, Calls, CallOf, Told
<1>1. ASSUME UNCHANGED <<pc, th, tb, idx, retcode>>,
             \A s \in Threads : ByNameCall(s) => hfd'[th[s]] = hfd[th[s]],
             \A j \in Fragments : phase'[j] \in {"accepted", "reported"} <=> phase[j] \in {"accepted", "reported"}
      PROVE  Told'
  <2> SUFFICES ASSUME NEW s \in Threads, ByNameCall(s)' PROVE ToldOf(s)'
    BY DEF Told
  <2>1. ByNameCall(s)
    BY <1>1 DEF ByNameCall, InOp
  <2> QED BY <1>0, <1>1, <2>1, ToldStays
<1>2. ASSUME UNCHANGED <<pc, th, tb, idx, retcode, hfd, phase>> PROVE Told'
  BY <1>1, <1>2
<1>3. ASSUME NEW t \in Threads, NEW h \in Handles, IOExecFileOpen(t, h) PROVE Told'
  <2>1. /\ hstate[h] = "none" /\ \A k \in Handles : k # h => hfd'[k] = hfd[k]
        /\ UNCHANGED <<pc, th, tb, idx, retcode, phase>>
    BY <1>3, NewHandleEffect DEF IOExecFileOpen, Now
  <2>2. \A s \in Threads : ByNameCall(s) => hfd'[th[s]] = hfd[th[s]]
    BY <1>0, <2>1
  <2> QED BY <1>1, <2>1, <2>2
<1>4. ASSUME NEW t \in Threads, NEW h \in Handles, IOExecFileClose(t, h) PROVE Told'
  <2>1. /\ \A k \in Handles : k # h => hfd'[k] = hfd[k]
        /\ UNCHANGED <<pc, th, tb, idx, retcode, phase>>
    BY <1>4, DeleteHandleEffect DEF IOExecFileClose, Now
  <2>2. \A s \in Threads : ByNameCall(s) => th[s] # h
    BY <1>4 DEF IOExecFileClose, ByNameCall, InOp, InCall
  <2> QED BY <1>0, <1>1, <2>1, <2>2
<1>5. ASSUME NEW t \in Threads, NEW h \in Handles, NEW b \in Batches,
             IOExecFileOp(t, h, b) \/ IOExecFileReadByName(t, h, b)
      PROVE  Told'
  <2>1. StartOp(t, h, b) /\ UNCHANGED phase
    BY <1>5 DEF IOExecFileOp, IOExecFileReadByName
  <2>2. /\ bstate[b] = "app" /\ Now(th', th, Threads, t, h) /\ Now(tb', tb, Threads, t, b)
        /\ Now(pc', pc, Threads, t, "loop")
        /\ \A s \in Threads : s # t => idx'[s] = idx[s] /\ retcode'[s] = retcode[s]
        /\ Now(idx', idx, Threads, t, IF ev = "open" THEN 1 ELSE Len(Shape[b]) + 1)
        /\ Now(retcode', retcode, Threads, t, IF ev = "open" THEN "0" ELSE "EINVAL")
    BY <2>1, StartOpEffect
  <2> SUFFICES ASSUME NEW s \in Threads, ByNameCall(s)' PROVE ToldOf(s)'
    BY DEF Told
  <2>3. CASE s = t
    <3>1. pc'[t] = "loop" /\ tb'[t] = b
      BY <2>2 DEF Now
    <3>2. retcode'[t] = "0" => idx'[t] = 1
      BY <2>2, SMT DEF Now
    <3>3. \A i \in DOMAIN Shape[b] : ~(i < 1)
      <4>1. Shape[b] \in Seq(Fragments \cup {Empty})
        BY ApiAssumption
      <4> QED BY <4>1, SMT
    <3>4. \A j \in DataOf(b) : phase'[j] = "new"
      BY <2>1, <2>2 DEF Core, Made
    <3> QED BY <2>3, <3>1, <3>2, <3>3, <3>4 DEF ToldOf
  <2>4. CASE s # t
    <3>1. /\ pc'[s] = pc[s] /\ th'[s] = th[s] /\ tb'[s] = tb[s] /\ idx'[s] = idx[s]
          /\ retcode'[s] = retcode[s]
      <4>1. pc'[s] = pc[s] /\ th'[s] = th[s] /\ tb'[s] = tb[s]
        BY <2>2, <2>4 DEF Now
      <4> QED BY <2>2, <2>4, <4>1
    <3>2. ByNameCall(s)
      BY <3>1 DEF ByNameCall, InOp
    <3>3. hfd'[th[s]] = hfd[th[s]]
      <4>1. CASE IOExecFileOp(t, h, b)
        BY <4>1 DEF IOExecFileOp
      <4>2. CASE IOExecFileReadByName(t, h, b)
        BY <1>0, <3>2, <4>2, NewHandleEffect DEF IOExecFileReadByName, Now
      <4> QED BY <1>5, <4>1, <4>2
    <3> QED BY <2>1, <3>1, <3>2, <3>3, ToldStays
  <2> QED BY <2>3, <2>4
<1>6. ASSUME NEW t \in Threads, SkipFragment(t) PROVE Told'
  <2>1. /\ pc[t] = "loop" /\ Now(pc', pc, Threads, t, "loop") /\ Now(idx', idx, Threads, t, idx[t] + 1)
        /\ UNCHANGED <<th, tb, retcode, hfd, phase>> /\ Shape[tb[t]][idx[t]] = Empty
    BY <1>6, AdvanceEffect DEF SkipFragment
  <2>2. ASSUME ByNameCall(t)' PROVE ToldOf(t)'
    <3>1. ByNameCall(t) /\ ToldOf(t) /\ tb[t] \in Batches /\ idx[t] \in Nat
      BY <1>0, <2>1, <2>2 DEF ByNameCall, InOp
    <3>2. pc'[t] = "loop" /\ idx'[t] = idx[t] + 1 /\ tb'[t] = tb[t]
      BY <2>1 DEF Now
    <3>3. \A i \in DOMAIN Shape[tb[t]] : i < idx[t] + 1 => i < idx[t] \/ i = idx[t]
      <4>1. Shape[tb[t]] \in Seq(Fragments \cup {Empty})
        BY <3>1, ApiAssumption
      <4> QED BY <3>1, <4>1, SMT
    <3> QED BY <2>1, <3>1, <3>2, <3>3 DEF ToldOf
  <2> QED BY <2>1, <2>2, ToldOthers DEF Now, InOp
<1>7. ASSUME NEW t \in Threads, MakeJob(t) PROVE Told'
  <2>1. PICK j \in Fragments :
          /\ j \in Jobs /\ j = Shape[tb[t]][idx[t]] /\ idx[t] \in DOMAIN Shape[tb[t]]
          /\ pc[t] = "loop" /\ Now(pc', pc, Threads, t, "submit")
          /\ Now(phase', phase, Jobs, j, "calling") /\ tb[t] \in Batches
    BY <1>7, MakeJobEffect
  <2>2. UNCHANGED <<th, tb, idx, retcode, hfd>>
    BY <1>7 DEF MakeJob
  <2>3. j \in DataOf(tb[t])
    BY <2>1, DataJobs, ApiAssumption
  <2>4. ToldOf(t)'
    BY <2>1 DEF ToldOf, Now
  <2> QED BY <2>1, <2>2, <2>3, <2>4, ToldOthers DEF Now, InOp
<1>8. ASSUME NEW t \in Threads, SubmitTask(t) \/ RefuseTask(t) PROVE Told'
  <2>1. PICK j \in Fragments :
           /\ j \in Jobs /\ j = Shape[tb[t]][idx[t]] /\ idx[t] \in DOMAIN Shape[tb[t]]
           /\ pc[t] = "submit" /\ Now(pc', pc, Threads, t, "loop")
           /\ Now(idx', idx, Threads, t, idx[t] + 1) /\ tb[t] \in Batches
           /\ \/ Now(phase', phase, Jobs, j, "accepted") /\ Now(retcode', retcode, Threads, t, "0")
              \/ Now(phase', phase, Jobs, j, "refused") /\ Now(retcode', retcode, Threads, t, "EAGAIN")
    BY <1>8, SubmitEffect
  <2>2. UNCHANGED <<th, tb, hfd>>
    BY <1>8 DEF SubmitTask, RefuseTask
  <2>3. j \in DataOf(tb[t])
    BY <2>1, DataJobs, ApiAssumption
  <2>4. ASSUME ByNameCall(t)' PROVE ToldOf(t)'
    <3>1. tb[t] \in ByName /\ pc'[t] = "loop" /\ tb'[t] = tb[t]
      BY <2>1, <2>2, <2>4 DEF ByNameCall, Now
    <3>2. \A k \in DataOf(tb[t]) : k = j
      BY <2>3, <3>1, TheFragment
    <3>3. \A i \in DOMAIN Shape[tb[t]] : Shape[tb[t]][i] # Empty => Shape[tb[t]][i] = j
      BY <2>1, <3>2, DataJobs
    <3>4. \/ phase'[j] = "accepted" /\ retcode'[t] = "0"
          \/ phase'[j] = "refused" /\ retcode'[t] = "EAGAIN"
      BY <2>1 DEF Now
    <3> QED BY <3>1, <3>2, <3>3, <3>4 DEF ToldOf
  <2> QED BY <2>1, <2>2, <2>3, <2>4, ToldOthers DEF Now, InOp
<1>9. ASSUME NEW t \in Threads, OpReturns(t) \/ ReadByNameReturns(t) PROVE Told'
  <2>1. /\ Now(pc', pc, Threads, t, "idle") /\ Now(th', th, Threads, t, Nothing)
        /\ Now(tb', tb, Threads, t, Nothing) /\ Now(idx', idx, Threads, t, 1)
        /\ Now(retcode', retcode, Threads, t, "0") /\ UNCHANGED phase
    BY <1>9, ReturnEffect DEF OpReturns, ReadByNameReturns
  <2>2. InOp(t) /\ th[t] \in Handles
    BY <1>9 DEF OpReturns, ReadByNameReturns, LoopDone, Core, Calls, CallOf, InOp
  <2>3. \A h \in Handles : h # th[t] => hfd'[h] = hfd[h]
    BY <1>9, <2>2, DeleteHandleEffect DEF OpReturns, ReadByNameReturns, Now
  <2>4. ~ByNameCall(t)'
    BY <2>1 DEF ByNameCall, InOp, Now
  <2> QED BY <2>1, <2>2, <2>3, <2>4, ToldOthers DEF Now
<1>10. ASSUME NEW t \in Threads, ForgetFd(t) PROVE Told'
  <2>1. /\ Now(pc', pc, Threads, t, "delete") /\ pc[t] = "loop" /\ tb[t] \in ByName
        /\ UNCHANGED <<th, tb, idx, retcode, phase>>
    BY <1>10, Functions1 DEF ForgetFd, LoopDone, Now
  <2>2. InOp(t) /\ ByNameCall(t) /\ th[t] \in Handles /\ hfd[th[t]] \in Fds /\ ToldOf(t)
    BY <1>0, <2>1 DEF ByNameCall, InOp, Core, Calls, CallOf
  <2>3. \A h \in Handles : h # th[t] => hfd'[h] = hfd[h]
    BY <1>10, <2>2, Functions1 DEF ForgetFd
  <2>4. hfd'[th[t]] = FD_INVALID <=> retcode[t] = "0"
    <3>1. CASE retcode[t] = "0"
      BY <1>10, <2>2, <3>1, Functions1 DEF ForgetFd
    <3>2. CASE retcode[t] # "0"
      BY <1>10, <2>2, <3>2, FdsApart DEF ForgetFd
    <3> QED BY <3>1, <3>2
  <2>5. ToldOf(t)'
    BY <2>1, <2>2, <2>4 DEF ToldOf, Now
  <2> QED BY <2>1, <2>2, <2>3, <2>5, ToldOthers DEF Now
<1>11. ASSUME NEW t \in Threads, ~InOp(t), ~InOp(t)',
              \A s \in Threads : s # t =>
                /\ pc'[s] = pc[s] /\ th'[s] = th[s] /\ tb'[s] = tb[s]
                /\ idx'[s] = idx[s] /\ retcode'[s] = retcode[s],
              UNCHANGED hfd, \A j \in Fragments : phase'[j] = phase[j]
       PROVE  Told'
  <2> SUFFICES ASSUME NEW s \in Threads, ByNameCall(s)' PROVE ToldOf(s)'
    BY DEF Told
  <2>1. s # t
    BY <1>11 DEF ByNameCall
  <2>2. ByNameCall(s)
    BY <1>11, <2>1 DEF ByNameCall, InOp
  <2> QED BY <1>0, <1>11, <2>1, <2>2, ToldStays
<1>12. ASSUME NEW t \in Threads, NEW d \in Deletes, IOExecFileDelete(t, d) PROVE Told'
  <2>1. /\ d \notin Fragments /\ Now(phase', phase, Jobs, d, "calling") /\ pc[t] = "idle"
        /\ Now(pc', pc, Threads, t, "delSubmit") /\ Now(tb', tb, Threads, t, d)
        /\ UNCHANGED <<th, idx, retcode, hfd>>
    BY <1>12, DeleteEffect DEF IOExecFileDelete
  <2> QED BY <1>11, <2>1 DEF Now, InOp, Jobs
<1>13. ASSUME NEW t \in Threads, SubmitDelete(t) PROVE Told'
  <2>1. /\ Now(pc', pc, Threads, t, "idle") /\ Now(th', th, Threads, t, Nothing)
        /\ Now(tb', tb, Threads, t, Nothing) /\ Now(idx', idx, Threads, t, 1)
        /\ Now(retcode', retcode, Threads, t, "0") /\ UNCHANGED hfd /\ pc[t] = "delSubmit"
    BY <1>13, ReturnEffect DEF SubmitDelete
  <2>2. \A j \in Fragments : phase'[j] = phase[j]
    BY <1>13, SubmitDeleteEffect DEF Now, Jobs
  <2> QED BY <1>11, <2>1, <2>2 DEF Now, InOp
<1>14. ASSUME NEW e \in Posters, Reset(e) PROVE Told'
  <2>1. \A j \in Fragments : phase'[j] \in {"accepted", "reported"} <=> phase[j] \in {"accepted", "reported"}
    BY <1>14, ResetEffect DEF Now, Jobs
  <2> QED BY <1>1, <1>14, <2>1 DEF Reset
<1> QED
  BY <1>2, <1>3, <1>4, <1>5, <1>6, <1>7, <1>8, <1>9, <1>10, <1>12, <1>13, <1>14
  DEF Next, Application, InCallStep, ExecutorStep, Terminated, vars, IOExecEventFdOpen, IOExecEventFdClose,
      KernelTakes, StartPost, CloseJobFd, Reap, gIOBatchFree, IOExecFileServiceDestroy, ServiceDestroyed,
      Engine!Close

-----------------------------------------------------------------------------
(***************************************************************************)
(* The jobs that use the descriptor of their handle.                       *)
(***************************************************************************)
\* A step that makes no job, and closes no file that a job uses.
LEMMA SharedStays ==
  ASSUME Core, Shared, UNCHANGED <<jh, jclose, jfd>>,
         \A j \in Fragments : j \in Unseen' => j \in Unseen,
         \A j \in Unseen : j \in Fragments /\ ~jclose[j] => hstate'[jh[j]] = hstate[jh[j]] /\ hfd'[jh[j]] = hfd[jh[j]]
  PROVE  Shared'
<1> SUFFICES ASSUME NEW j \in Unseen', j \in Fragments, ~jclose'[j]
             PROVE  hstate'[jh'[j]] = "open" /\ hfd'[jh'[j]] = jfd'[j]
  BY DEF Shared
<1> QED BY DEF Shared

\* Shared is kept.
LEMMA SharedStep == OneFragment /\ Core /\ ReadsByName /\ Shared /\ [Next]_vars => Shared'
<1> SUFFICES ASSUME OneFragment, Core, ReadsByName, Shared, [Next]_vars PROVE Shared'
  OBVIOUS
<1>0. ASSUME NEW j \in Unseen, j \in Fragments PROVE j \in Jobs /\ jh[j] \in Handles /\ hstate[jh[j]] # "none"
  BY <1>0 DEF Unseen, Core, Made
<1>1. ASSUME UNCHANGED <<jh, jclose, jfd, hstate, hfd>>, \A j \in Fragments : j \in Unseen' => j \in Unseen
      PROVE  Shared'
  BY <1>1, SharedStays
<1>2. ASSUME UNCHANGED <<jh, jclose, jfd, hstate, hfd, phase, reaped>> PROVE Shared'
  BY <1>1, <1>2 DEF Unseen
<1>3. ASSUME NEW h \in Handles, NewHandle(h), UNCHANGED <<jh, jclose, jfd, phase, reaped>> PROVE Shared'
  <2>1. hstate[h] = "none" /\ \A k \in Handles : k # h => hstate'[k] = hstate[k] /\ hfd'[k] = hfd[k]
    BY <1>3, NewHandleEffect DEF Now
  <2>2. Unseen' = Unseen
    BY <1>3 DEF Unseen
  <2> QED BY <1>0, <1>3, <2>1, <2>2, SharedStays
<1>4. ASSUME NEW h \in Handles, DeleteHandle(h), UNCHANGED <<jh, jclose, jfd, phase, reaped>>,
             \A j \in Unseen : j \in Fragments /\ ~jclose[j] => jh[j] # h
      PROVE  Shared'
  <2>1. \A k \in Handles : k # h => hstate'[k] = hstate[k] /\ hfd'[k] = hfd[k]
    BY <1>4, DeleteHandleEffect DEF Now
  <2>2. Unseen' = Unseen
    BY <1>4 DEF Unseen
  <2> QED BY <1>0, <1>4, <2>1, <2>2, SharedStays
<1>5. ASSUME NEW t \in Threads, NEW h \in Handles, IOExecFileClose(t, h) PROVE Shared'
  BY <1>4, <1>5 DEF IOExecFileClose
<1>6. ASSUME NEW t \in Threads, ByNameCall(t) PROVE \A j \in Unseen : j \in Fragments /\ ~jclose[j] => jh[j] # th[t]
  BY <1>0, <1>6, ByNameJob
<1>7. ASSUME NEW t \in Threads, ReadByNameReturns(t) PROVE Shared'
  <2>1. ByNameCall(t) /\ th[t] \in Handles
    BY <1>7 DEF ReadByNameReturns, Core, Calls, CallOf, ByNameCall, InOp
  <2> QED BY <1>4, <1>6, <1>7, <2>1 DEF ReadByNameReturns
<1>8. ASSUME NEW t \in Threads, ForgetFd(t) PROVE Shared'
  <2>1. ByNameCall(t) /\ th[t] \in Handles
    BY <1>8 DEF ForgetFd, LoopDone, Core, Calls, CallOf, ByNameCall, InOp
  <2>2. \A k \in Handles : k # th[t] => hfd'[k] = hfd[k]
    BY <1>8, <2>1, Functions1 DEF ForgetFd
  <2>3. UNCHANGED <<jh, jclose, jfd, phase, reaped, hstate>>
    BY <1>8 DEF ForgetFd
  <2>4. Unseen' = Unseen
    BY <2>3 DEF Unseen
  <2> QED BY <1>0, <1>6, <2>1, <2>2, <2>3, <2>4, SharedStays
<1>9. ASSUME NEW t \in Threads, NEW h \in Handles, NEW b \in Batches,
             IOExecFileOp(t, h, b) \/ IOExecFileReadByName(t, h, b)
      PROVE  Shared'
  BY <1>2, <1>3, <1>9 DEF IOExecFileOp, IOExecFileReadByName
<1>10. ASSUME NEW t \in Threads, MakeJob(t) PROVE Shared'
  <2>1. PICK j \in Fragments :
          /\ j \in Jobs /\ Now(phase', phase, Jobs, j, "calling")
          /\ Now(jfd', jfd, Jobs, j, hfd[th[t]]) /\ Now(jh', jh, Jobs, j, th[t])
          /\ Now(jclose', jclose, Jobs, j, tb[t] \in ByName)
          /\ hstate[th[t]] = "open"
    BY <1>10, MakeJobEffect
  <2>2. UNCHANGED <<reaped, hstate, hfd>>
    BY <1>10 DEF MakeJob
  <2> SUFFICES ASSUME NEW k \in Unseen', k \in Fragments, ~jclose'[k]
               PROVE  hstate'[jh'[k]] = "open" /\ hfd'[jh'[k]] = jfd'[k]
    BY DEF Shared
  <2>3. CASE k = j
    BY <2>1, <2>2, <2>3 DEF Now
  <2>4. CASE k # j
    <3>1. k \in Jobs
      BY DEF Jobs
    <3>2. phase'[k] = phase[k] /\ jh'[k] = jh[k] /\ jfd'[k] = jfd[k] /\ jclose'[k] = jclose[k]
      BY <2>1, <2>4, <3>1 DEF Now
    <3>3. k \in Unseen
      BY <2>2, <3>1, <3>2 DEF Unseen
    <3> QED BY <2>2, <3>2, <3>3 DEF Shared
  <2> QED BY <2>3, <2>4
<1>11. ASSUME NEW j \in Jobs, phase[j] \in {"calling", "accepted"}, j \notin reaped, NEW v, Now(phase', phase, Jobs, j, v),
              UNCHANGED <<jh, jclose, jfd, hstate, hfd, reaped>>
       PROVE  Shared'
  <2>1. \A k \in Fragments : k \in Unseen' => k \in Unseen
    BY <1>11 DEF Unseen, Now
  <2> QED BY <1>1, <1>11, <2>1
<1>12. ASSUME NEW t \in Threads, SubmitTask(t) \/ RefuseTask(t) PROVE Shared'
  <2>1. PICK j \in Jobs : 
          /\ phase[j] = "calling"
          /\ Now(phase', phase, Jobs, j, "accepted") \/ Now(phase', phase, Jobs, j, "refused")
    BY <1>12, SubmitEffect
  <2>2. UNCHANGED <<jh, jclose, jfd, hstate, hfd, reaped>>
    BY <1>12 DEF SubmitTask, RefuseTask
  <2>3. j \notin reaped
    BY <2>1 DEF Core, Stages
  <2> QED BY <1>11, <2>1, <2>2, <2>3
<1>13. ASSUME NEW t \in Threads, SubmitDelete(t) PROVE Shared'
  <2>1. PICK j \in Jobs : phase[j] = "calling" /\ Now(phase', phase, Jobs, j, "accepted")
    BY <1>13, SubmitDeleteEffect
  <2>2. UNCHANGED <<jh, jclose, jfd, hstate, hfd, reaped>> /\ j \notin reaped
    BY <1>13, <2>1 DEF SubmitDelete, Core, Stages
  <2> QED BY <1>11, <2>1, <2>2
<1>14. ASSUME NEW e \in Posters, Reset(e) PROVE Shared'
  <2>1. PICK j \in Jobs : phase[j] = "accepted" /\ Now(phase', phase, Jobs, j, "reported")
    BY <1>14, ResetEffect
  <2>2. UNCHANGED <<jh, jclose, jfd, hstate, hfd, reaped>> /\ j \notin reaped
    BY <1>14, <2>1 DEF Reset, Core, Stages
  <2> QED BY <1>11, <2>1, <2>2
<1>15. ASSUME NEW t \in Threads, NEW d \in Deletes, IOExecFileDelete(t, d) PROVE Shared'
  <2>1. /\ d \notin Fragments /\ Now(phase', phase, Jobs, d, "calling")
        /\ UNCHANGED <<jh, jclose, jfd, hstate, hfd, reaped>>
    BY <1>15, DeleteEffect DEF IOExecFileDelete
  <2>2. \A k \in Fragments : k \in Unseen' => k \in Unseen
    BY <2>1 DEF Unseen, Now
  <2> QED BY <1>1, <2>1, <2>2
<1>16. ASSUME Reap PROVE Shared'
  <2>1. UNCHANGED <<jh, jclose, jfd, hstate, hfd, phase>> /\ reaped \subseteq reaped'
    BY <1>16 DEF Reap
  <2>2. \A k \in Fragments : k \in Unseen' => k \in Unseen
    BY <2>1 DEF Unseen
  <2> QED BY <1>1, <2>1, <2>2
<1> QED
  BY <1>2, <1>3, <1>5, <1>7, <1>8, <1>9, <1>10, <1>12, <1>13, <1>14, <1>15, <1>16
  DEF Next, Application, InCallStep, ExecutorStep, Terminated, vars, IOExecEventFdOpen, IOExecEventFdClose,
      IOExecFileOpen, SkipFragment, OpReturns, KernelTakes, StartPost, CloseJobFd, gIOBatchFree,
      IOExecFileServiceDestroy, ServiceDestroyed, Engine!Close

-----------------------------------------------------------------------------
(***************************************************************************)
(* Who closes a descriptor.                                                *)
(***************************************************************************)
\* Those that have a number are open files.
LEMMA OwnersHave ==
  ASSUME Core, Owned
  PROVE  /\ \A h \in Handles : Keeps(h) => hfd[h] \in Fds /\ desc[hfd[h]] = h
         /\ \A j \in Jobs : Closes(j) => /\ jfd[j] \in Fds /\ desc[jfd[j]] = jh[j] /\ jh[j] \in Handles
                                        /\ ~Keeps(jh[j])
<1>1. \A h \in Handles : Keeps(h) => hfd[h] \in Fds /\ desc[hfd[h]] = h
  <2>1. \A h \in Handles : Keeps(h) => hfd[h] # FD_INVALID
    BY DEF Keeps
  <2>2. \A h \in Handles : hfd[h] \in Fds \/ hfd[h] = FD_INVALID
    BY Functions1
  <2> QED BY <2>1, <2>2 DEF Owned
<1>2. \A j \in Jobs : Closes(j) => /\ jfd[j] \in Fds /\ desc[jfd[j]] = jh[j] /\ jh[j] \in Handles
                                 /\ ~Keeps(jh[j])
  BY JobHandle DEF Keeps, Closes, Owned
<1> QED BY <1>1, <1>2

\* A step that changes neither descriptors nor owners.
LEMMA OwnedStays ==
  ASSUME Core, Owned, UNCHANGED <<desc, ev, evfd>>,
         \A h \in Handles : (Keeps(h)' <=> Keeps(h)) /\ (Keeps(h) => hfd'[h] = hfd[h]),
         \A j \in Jobs : (Closes(j)' <=> Closes(j)) /\ (Closes(j) => jh'[j] = jh[j] /\ jfd'[j] = jfd[j])
  PROVE  Owned'
<1>1. \A h \in Handles : Keeps(h)' => desc'[hfd'[h]] = h
  BY DEF Owned
<1>2. \A j \in Jobs : Closes(j)' => desc'[jfd'[j]] = jh'[j]
  BY DEF Owned
<1>3. ASSUME NEW n \in Fds, NEW h \in Handles, desc'[n] = h
      PROVE  \/ Keeps(h)' /\ hfd'[h] = n
             \/ \E j \in Jobs : Closes(j)' /\ jh'[j] = h /\ jfd'[j] = n
  <2>1. \/ Keeps(h) /\ hfd[h] = n
        \/ \E j \in Jobs : Closes(j) /\ jh[j] = h /\ jfd[j] = n
    BY <1>3 DEF Owned
  <2> QED BY <2>1
<1>4. ev' = "open" =>
        evfd'[1] \in Fds /\ evfd'[2] \in Fds /\ desc'[evfd'[1]] = "pipe" /\ desc'[evfd'[2]] = "pipe"
  BY DEF Owned
<1> QED BY <1>1, <1>2, <1>3, <1>4 DEF Owned

\* The file with the number x is closed by the one who has it.
LEMMA OwnedShut ==
  ASSUME Core, Owned, NEW x, Shut(desc', desc, x), UNCHANGED <<ev, evfd>>, desc[x] # "pipe",
         \A h \in Handles : Keeps(h)' => Keeps(h) /\ hfd'[h] = hfd[h] /\ hfd[h] # x,
         \A h \in Handles : Keeps(h) /\ hfd[h] # x => Keeps(h)',
         \A j \in Jobs : Closes(j)' => Closes(j) /\ jfd[j] # x,
         \A j \in Jobs : Closes(j) /\ jfd[j] # x => Closes(j)',
         UNCHANGED <<jh, jfd>>
  PROVE  Owned'
<1>1. \A h \in Handles : Keeps(h)' => desc'[hfd'[h]] = h
  BY ZenonT(40), OwnersHave DEF Shut
<1>2. \A j \in Jobs : Closes(j)' => desc'[jfd'[j]] = jh'[j]
  BY OwnersHave DEF Shut
<1>3. ASSUME NEW n \in Fds, NEW h \in Handles, desc'[n] = h
      PROVE  \/ Keeps(h)' /\ hfd'[h] = n
             \/ \E j \in Jobs : Closes(j)' /\ jh'[j] = h /\ jfd'[j] = n
  <2>1. n # x /\ desc[n] = h
    BY <1>3, ApiAssumption DEF Shut
  <2>2. \/ Keeps(h) /\ hfd[h] = n
        \/ \E j \in Jobs : Closes(j) /\ jh[j] = h /\ jfd[j] = n
    BY <2>1 DEF Owned
  <2> QED BY <2>1, <2>2
<1>4. ev' = "open" =>
        evfd'[1] \in Fds /\ evfd'[2] \in Fds /\ desc'[evfd'[1]] = "pipe" /\ desc'[evfd'[2]] = "pipe"
  <2>1. ev = "open" => /\ evfd[1] \in Fds /\ evfd[2] \in Fds /\ desc[evfd[1]] = "pipe" /\ desc[evfd[2]] = "pipe"
    BY DEF Owned
  <2>2. ev = "open" => evfd[1] # x /\ evfd[2] # x
    BY <2>1
  <2>3. ev = "open" => desc'[evfd[1]] = "pipe" /\ desc'[evfd[2]] = "pipe"
    BY <2>1, <2>2 DEF Shut
  <2> QED BY <2>1, <2>3
<1> QED BY <1>1, <1>2, <1>3, <1>4 DEF Owned

\* The event pipe takes two numbers that nobody has.
LEMMA OwnedEvOpen == ASSUME Core, Owned, NEW t \in Threads, IOExecEventFdOpen(t) PROVE Owned'
<1>1. PICK r, w \in Fds :
           /\ desc[r] = Nothing /\ desc[w] = Nothing
           /\ desc'[r] = "pipe" /\ desc'[w] = "pipe"
           /\ \A n \in Fds : n # r /\ n # w => desc'[n] = desc[n]
           /\ evfd'[1] = r /\ evfd'[2] = w
  BY EvOpenEffect
<1>2. UNCHANGED <<hfd, hstate, jh, jfd, jclose, jstate>>
  BY DEF IOExecEventFdOpen
<1>3. /\ \A h \in Handles : Keeps(h)' <=> Keeps(h)
      /\ \A j \in Jobs : Closes(j)' <=> Closes(j)
  BY <1>2 DEF Keeps, Closes
<1>4. \A n \in Fds : \A h \in Handles : desc[n] = h <=> desc'[n] = h
  BY <1>1, ApiAssumption
<1>5. \A h \in Handles : Keeps(h)' => desc'[hfd'[h]] = h
  BY <1>2, <1>3, <1>4, OwnersHave
<1>6. \A j \in Jobs : Closes(j)' => desc'[jfd'[j]] = jh'[j]
  BY <1>2, <1>3, <1>4, OwnersHave
<1>7. ASSUME NEW n \in Fds, NEW h \in Handles, desc'[n] = h
      PROVE  \/ Keeps(h)' /\ hfd'[h] = n
             \/ \E j \in Jobs : Closes(j)' /\ jh'[j] = h /\ jfd'[j] = n
  <2>1. \/ Keeps(h) /\ hfd[h] = n
        \/ \E j \in Jobs : Closes(j) /\ jh[j] = h /\ jfd[j] = n
    BY <1>4, <1>7 DEF Owned
  <2> QED BY <1>2, <1>3, <2>1
<1> QED BY <1>1, <1>5, <1>6, <1>7 DEF Owned

\* Closing the event pipe closes no file.
LEMMA OwnedEvClose == ASSUME Core, Owned, NEW t \in Threads, IOExecEventFdClose(t) PROVE Owned'
<1>1. UNCHANGED <<hfd, hstate, jh, jfd, jclose, jstate>> /\ ev = "open" /\ ev' = "deleted"
  BY DEF IOExecEventFdClose
<1>2. /\ \A h \in Handles : Keeps(h)' <=> Keeps(h)
      /\ \A j \in Jobs : Closes(j)' <=> Closes(j)
  BY <1>1 DEF Keeps, Closes
<1>3. desc[evfd[1]] = "pipe" /\ desc[evfd[2]] = "pipe"
  BY <1>1 DEF Owned
<1>4. ASSUME NEW n \in Fds, NEW h \in Handles PROVE desc[n] = h <=> desc'[n] = h
  <2>1. h # "pipe" /\ h # Nothing
    BY ApiAssumption
  <2>2. CASE n = evfd[1] \/ n = evfd[2]
    BY <1>3, <2>1, <2>2, EvCloseEffect
  <2>3. CASE n # evfd[1] /\ n # evfd[2]
    BY <2>3, EvCloseEffect
  <2> QED BY <2>2, <2>3
<1>5. \A h \in Handles : Keeps(h)' => desc'[hfd'[h]] = h
  BY <1>1, <1>2, <1>4, OwnersHave
<1>6. \A j \in Jobs : Closes(j)' => desc'[jfd'[j]] = jh'[j]
  BY <1>1, <1>2, <1>4, OwnersHave
<1>7. ASSUME NEW n \in Fds, NEW h \in Handles, desc'[n] = h
      PROVE  \/ Keeps(h)' /\ hfd'[h] = n
             \/ \E j \in Jobs : Closes(j)' /\ jh'[j] = h /\ jfd'[j] = n
  <2>1. \/ Keeps(h) /\ hfd[h] = n
        \/ \E j \in Jobs : Closes(j) /\ jh[j] = h /\ jfd[j] = n
    BY ZenonT(40), <1>4, <1>7 DEF Owned
  <2> QED BY <1>1, <1>2, <2>1
<1> QED BY <1>1, <1>5, <1>6, <1>7 DEF Owned

\* A new handle takes a number that nobody has.
LEMMA OwnedNew ==
  ASSUME Core, Owned, NEW h \in Handles, NewHandle(h), UNCHANGED <<ev, evfd, jh, jfd, jclose, jstate>>
  PROVE  Owned'
<1>1. PICK n \in Fds : desc[n] = Nothing /\ Now(desc', desc, Fds, n, h) /\ Now(hfd', hfd, Handles, h, n)
  BY NewHandleEffect
<1>2. hstate[h] = "none" /\ Now(hstate', hstate, Handles, h, "open")
  BY NewHandleEffect
<1>3. \A j \in Jobs : jh[j] # h
  BY <1>2, NoJobs
<1>4. /\ desc'[n] = h /\ hfd'[h] = n /\ hstate'[h] = "open"
      /\ \A m \in Fds : m # n => desc'[m] = desc[m]
      /\ \A k \in Handles : k # h => hfd'[k] = hfd[k] /\ hstate'[k] = hstate[k]
  BY <1>1, <1>2 DEF Now
<1>5. Keeps(h)' /\ ~Keeps(h)
  BY <1>2, <1>3, <1>4, FdsApart DEF Keeps
<1>6. \A k \in Handles : k # h => (Keeps(k)' <=> Keeps(k))
  BY <1>4 DEF Keeps
<1>7. \A j \in Jobs : Closes(j)' <=> Closes(j)
  BY DEF Closes
<1>8. \A k \in Handles : Nothing # k /\ "pipe" # k /\ Nothing # "pipe"
  BY ApiAssumption
<1>9. \A k \in Handles : Keeps(k)' => desc'[hfd'[k]] = k
  <2>1. \A k \in Handles : k # h /\ Keeps(k) => hfd[k] \in Fds /\ hfd[k] # n /\ desc[hfd[k]] = k
    BY <1>1, <1>8, OwnersHave
  <2>2. ASSUME NEW k \in Handles, k # h, Keeps(k)' PROVE desc'[hfd'[k]] = k
    BY <1>4, <1>6, <2>1, <2>2
  <2> QED BY <1>4, <2>2
<1>10. \A j \in Jobs : Closes(j)' => desc'[jfd'[j]] = jh'[j]
  <2>1. \A j \in Jobs : Closes(j) => jfd[j] \in Fds /\ jfd[j] # n /\ desc[jfd[j]] = jh[j]
    BY <1>1, <1>8, OwnersHave
  <2> QED BY <1>4, <1>7, <2>1
<1>11. ev' = "open" =>
         evfd'[1] \in Fds /\ evfd'[2] \in Fds /\ desc'[evfd'[1]] = "pipe" /\ desc'[evfd'[2]] = "pipe"
  <2>1. ev = "open" => /\ evfd[1] \in Fds /\ evfd[2] \in Fds /\ desc[evfd[1]] = "pipe" /\ desc[evfd[2]] = "pipe"
    BY DEF Owned
  <2> QED BY <1>1, <1>4, <1>8, <2>1
<1>12. ASSUME NEW m \in Fds, NEW k \in Handles, desc'[m] = k
       PROVE  \/ Keeps(k)' /\ hfd'[k] = m
              \/ \E j \in Jobs : Closes(j)' /\ jh'[j] = k /\ jfd'[j] = m
  <2>1. CASE m = n
    BY <1>4, <1>5, <1>12, <2>1
  <2>2. CASE m # n
    <3>1. \/ Keeps(k) /\ hfd[k] = m
          \/ \E j \in Jobs : Closes(j) /\ jh[j] = k /\ jfd[j] = m
      BY <1>4, <1>12, <2>2 DEF Owned
    <3> QED BY <1>4, <1>5, <1>6, <1>7, <3>1
  <2> QED BY <2>1, <2>2
<1> QED BY <1>9, <1>10, <1>11, <1>12 DEF Owned

\* A handle is deleted that has the number of its file, or none; no job of it closes.
LEMMA OwnedDelete ==
  ASSUME Core, Owned, NEW h \in Handles, DeleteHandle(h), UNCHANGED <<ev, evfd, jh, jfd, jclose, jstate>>,
         hfd[h] # FD_INVALID => Keeps(h)
  PROVE  Owned'
<1>1. /\ Now(hstate', hstate, Handles, h, "deleted") /\ Shut(desc', desc, hfd[h])
      /\ Now(hfd', hfd, Handles, h, FD_INVALID)
  BY DeleteHandleEffect
<1>2. /\ ~Keeps(h)' /\ \A k \in Handles : k # h => (Keeps(k)' <=> Keeps(k)) /\ hfd'[k] = hfd[k]
  BY <1>1 DEF Keeps, Now
<1>3. \A j \in Jobs : Closes(j)' <=> Closes(j)
  BY DEF Closes
<1>4. CASE hfd[h] = FD_INVALID
  <2>1. UNCHANGED desc /\ ~Keeps(h)
    BY <1>4 DEF DeleteHandle, Keeps
  <2> QED BY <1>2, <1>3, <2>1, OwnedStays
<1>5. CASE hfd[h] # FD_INVALID
  <2>1. Keeps(h) /\ desc[hfd[h]] = h
    BY <1>5, OwnersHave
  <2>2. \A k \in Handles : k # h /\ Keeps(k) => hfd[k] # hfd[h]
    BY <2>1, OwnersHave
  <2>3. \A j \in Jobs : Closes(j) => jfd[j] # hfd[h]
    BY <2>1, OwnersHave
  <2>4. desc[hfd[h]] # "pipe"
    BY <2>1, ApiAssumption
  <2> QED BY <1>1, <1>2, <1>3, <2>2, <2>3, <2>4, OwnedShut
<1> QED BY <1>4, <1>5

\* Owned is kept.
LEMMA OwnedStep ==
  OneFragment /\ Core /\ Ownership /\ [Next]_vars => Owned'
<1> SUFFICES ASSUME OneFragment, Core, Ownership, [Next]_vars PROVE Owned'
  OBVIOUS
<1>0. ReadsByName /\ Told /\ Owned
  BY DEF Ownership
<1>1. ASSUME UNCHANGED <<desc, ev, evfd, hfd, hstate, jh, jfd, jclose, jstate>> PROVE Owned'
  BY <1>0, <1>1, OwnedStays DEF Keeps, Closes
<1>2. ASSUME NEW t \in Threads, NEW h \in Handles, IOExecFileOpen(t, h) PROVE Owned'
  BY <1>0, <1>2, OwnedNew DEF IOExecFileOpen
<1>3. ASSUME NEW t \in Threads, NEW h \in Handles, IOExecFileClose(t, h) PROVE Owned'
  <2>1. hstate[h] = "open" /\ \A s \in Threads : ByNameCall(s) => th[s] # h
    BY <1>3 DEF IOExecFileClose, ByNameCall, InOp, InCall
  <2>2. \A j \in Jobs : ~(jh[j] = h /\ jclose[j])
    BY ZenonT(40), <1>0, <2>1 DEF ReadsByName
  <2>3. hfd[h] # FD_INVALID => Keeps(h)
    BY <2>1, <2>2 DEF Keeps
  <2> QED BY <1>0, <1>3, <2>3, OwnedDelete DEF IOExecFileClose
<1>4. ASSUME NEW t \in Threads, NEW h \in Handles, NEW b \in Batches,
             IOExecFileOp(t, h, b) \/ IOExecFileReadByName(t, h, b)
      PROVE  Owned'
  BY <1>0, <1>1, <1>4, OwnedNew DEF IOExecFileOp, IOExecFileReadByName
<1>5. ASSUME NEW t \in Threads, ReadByNameReturns(t) PROVE Owned'
  <2>1. ByNameCall(t) /\ th[t] \in Handles /\ hstate[th[t]] = "open" /\ pc[t] = "delete"
    BY <1>5 DEF ReadByNameReturns, Core, Calls, CallOf, ByNameCall, InOp
  <2>2. PICK h \in Handles : h = th[t]
    BY <2>1
  <2>3. hfd[h] # FD_INVALID => Keeps(h)
    <3> SUFFICES ASSUME hfd[h] # FD_INVALID, NEW j \in Jobs, jh[j] = h, jclose[j] PROVE jstate[j] = "none"
      BY <2>1, <2>2 DEF Keeps
    <3>1. ToldOf(t)
      BY <1>0, <2>1 DEF Told
    <3>2. retcode[t] # "0"
      BY <2>1, <2>2, <3>1 DEF ToldOf
    <3>3. j \in DataOf(tb[t])
      BY <1>0, <2>1, <2>2, ByNameJob
    <3>4. phase[j] \notin {"accepted", "reported"}
      BY <2>1, <3>1, <3>2, <3>3 DEF ToldOf
    <3>5. phase[j] \in {"new", "calling", "refused"}
      BY <3>4, Functions2
    <3> QED BY <3>5 DEF Core, Stages
  <2> QED BY <1>0, <1>5, <2>2, <2>3, OwnedDelete DEF ReadByNameReturns
<1>6. ASSUME NEW t \in Threads, MakeJob(t) PROVE Owned'
  <2>1. PICK j \in Jobs :
          /\ phase[j] = "new" /\ Now(jfd', jfd, Jobs, j, hfd[th[t]]) /\ Now(jh', jh, Jobs, j, th[t])
          /\ Now(jclose', jclose, Jobs, j, tb[t] \in ByName)
    BY <1>6, MakeJobEffect
  <2>2. UNCHANGED <<desc, ev, evfd, hfd, hstate, jstate>> /\ jstate[j] = "none"
    BY <1>6, <2>1 DEF MakeJob, Core, Stages
  <2>3. \A k \in Jobs : k # j => jh'[k] = jh[k] /\ jclose'[k] = jclose[k] /\ jfd'[k] = jfd[k]
    BY <2>1 DEF Now
  <2>4. \A h \in Handles : Keeps(h)' <=> Keeps(h)
    BY <2>2, <2>3 DEF Keeps
  <2>5. \A k \in Jobs : (Closes(k)' <=> Closes(k)) /\ (Closes(k) => k # j)
    BY <2>2, <2>3 DEF Closes
  <2> QED BY <1>0, <2>2, <2>3, <2>4, <2>5, OwnedStays
<1>7. ASSUME NEW t \in Threads, SubmitTask(t) \/ RefuseTask(t) PROVE Owned'
  <2>1. PICK j \in Fragments :
           /\ j \in Jobs /\ pc[t] = "submit" /\ phase[j] = "calling" /\ jh[j] = th[t] /\ jfd[j] = hfd[th[t]]
           /\ th[t] \in Handles /\ hfd[th[t]] \in Fds
           /\ \/ /\ Now(phase', phase, Jobs, j, "accepted") /\ Now(jstate', jstate, Jobs, j, "queued")
                 /\ Now(retcode', retcode, Threads, t, "0")
              \/ /\ Now(phase', phase, Jobs, j, "refused") /\ jstate' = jstate
                 /\ Now(retcode', retcode, Threads, t, "EAGAIN")
    BY <1>7, SubmitEffect
  <2>2. UNCHANGED <<desc, ev, evfd, hfd, hstate, jh, jclose, jfd>>
    BY <1>7 DEF SubmitTask, RefuseTask
  <2>3. CASE jstate' = jstate
    BY <1>1, <2>2, <2>3
  <2>4. CASE Now(jstate', jstate, Jobs, j, "queued") /\ ~jclose[j]
    <3>1. \A k \in Jobs : jclose[k] => jstate'[k] = jstate[k]
      BY <2>4 DEF Now
    <3>2. \A h \in Handles : Keeps(h)' <=> Keeps(h)
      BY <2>2, <3>1 DEF Keeps
    <3>3. \A k \in Jobs : Closes(k)' <=> Closes(k)
      BY <2>2, <3>1 DEF Closes
    <3> QED BY <1>0, <2>2, <3>2, <3>3, OwnedStays
  <2>5. CASE Now(jstate', jstate, Jobs, j, "queued") /\ jclose[j]
    <3>1. PICK h \in Handles : h = th[t]
      BY <2>1
    <3>2. jstate[j] = "none" /\ hstate[h] = "open"
      BY <2>1, <3>1 DEF Core, Stages, Calls, CallOf, InOp
    <3>3. \A k \in Jobs : jh[k] = h => k = j
      BY <1>0, <2>1, <2>5, <3>1 DEF ReadsByName
    <3>4. Keeps(h) /\ ~Keeps(h)' /\ ~Closes(j) /\ Closes(j)'
      <4>1. Keeps(h)
        BY <2>1, <3>1, <3>2, <3>3, FdsApart DEF Keeps
      <4>2. jstate'[j] = "queued"
        BY <2>5 DEF Now
      <4>3. ~Keeps(h)'
        BY <2>1, <2>2, <2>5, <3>1, <4>2 DEF Keeps
      <4> QED BY <2>2, <2>5, <3>2, <4>1, <4>2, <4>3 DEF Closes
    <3>5. \A k \in Jobs : k # j => jstate'[k] = jstate[k]
      BY <2>5 DEF Now
    <3>6. \A i \in Handles : i # h => (Keeps(i)' <=> Keeps(i))
      BY ZenonT(40), <2>1, <2>2, <3>1, <3>5 DEF Keeps
    <3>7. \A k \in Jobs : k # j => (Closes(k)' <=> Closes(k))
      BY <2>2, <3>5 DEF Closes
    <3>8. desc[jfd[j]] = jh[j] /\ jh[j] = h /\ jfd[j] = hfd[h]
      BY <1>0, <2>1, <3>1, <3>4, OwnersHave
    <3>9. \A i \in Handles : Keeps(i)' => desc'[hfd'[i]] = i
      BY <1>0, <2>2, <3>4, <3>6 DEF Owned
    <3>10. \A k \in Jobs : Closes(k)' => desc'[jfd'[k]] = jh'[k]
      BY <1>0, <2>2, <3>7, <3>8 DEF Owned
    <3>11. ASSUME NEW m \in Fds, NEW k \in Handles, desc'[m] = k
           PROVE  \/ Keeps(k)' /\ hfd'[k] = m
                  \/ \E i \in Jobs : Closes(i)' /\ jh'[i] = k /\ jfd'[i] = m
      <4>1. \/ Keeps(k) /\ hfd[k] = m
            \/ \E i \in Jobs : Closes(i) /\ jh[i] = k /\ jfd[i] = m
        BY <1>0, <2>2, <3>11 DEF Owned
      <4>2. CASE Keeps(k) /\ hfd[k] = m
        BY <2>1, <2>2, <3>4, <3>6, <3>8, <4>2
      <4>3. CASE \E i \in Jobs : Closes(i) /\ jh[i] = k /\ jfd[i] = m
        BY <2>2, <3>4, <3>7, <4>3
      <4> QED BY <4>1, <4>2, <4>3
    <3>12. ev' = "open" =>
             evfd'[1] \in Fds /\ evfd'[2] \in Fds /\ desc'[evfd'[1]] = "pipe" /\ desc'[evfd'[2]] = "pipe"
      BY <1>0, <2>2 DEF Owned
    <3> QED BY <3>9, <3>10, <3>11, <3>12 DEF Owned
  <2> QED BY <2>1, <2>3, <2>4, <2>5
<1>8. ASSUME NEW t \in Threads, ForgetFd(t) PROVE Owned'
  <2>1. /\ pc[t] = "loop" /\ tb[t] \in ByName /\ idx[t] > Len(Shape[tb[t]])
        /\ UNCHANGED <<desc, ev, evfd, hstate, jh, jclose, jfd, jstate>>
    BY <1>8 DEF ForgetFd, LoopDone, totalCount
  <2>2. ByNameCall(t) /\ th[t] \in Handles /\ idx[t] \in Nat
    BY <2>1, Functions1 DEF Core, Calls, CallOf, ByNameCall, InOp
  <2>3. CASE retcode[t] # "0"
    BY <1>1, <1>8, <2>1, <2>3 DEF ForgetFd
  <2>4. CASE retcode[t] = "0"
    <3>1. hfd' = [hfd EXCEPT ![th[t]] = FD_INVALID]
      BY <1>8, <2>4 DEF ForgetFd
    <3>2. PICK b \in ByName : b = tb[t]
      BY <2>1
    <3>3. PICK i \in DOMAIN Shape[b] : Shape[b][i] # Empty /\ Shape[b][i] \in DataOf(b)
      BY TheFragment
    <3>4. i < idx[t]
      <4>1. Shape[b] \in Seq(Fragments \cup {Empty})
        BY ApiAssumption
      <4> QED BY <2>1, <2>2, <3>2, <3>3, <4>1, SMT
    <3>5. phase[Shape[b][i]] \in {"accepted", "reported"}
      BY <1>0, <2>1, <2>2, <2>4, <3>2, <3>3, <3>4 DEF Told, ToldOf
    <3>6. PICK j \in Jobs : jh[j] = th[t] /\ jclose[j] /\ phase[j] \in {"accepted", "reported"}
      BY ZenonT(40), <1>0, <2>2, <3>2, <3>3, <3>5, ByNameJob
    <3>7. jstate[j] # "none"
      BY <3>6 DEF Core, Stages
    <3>8. ~Keeps(th[t])
      BY <3>6, <3>7 DEF Keeps
    <3>9. PICK h \in Handles : h = th[t]
      BY <2>2
    <3>10. ~Keeps(h)'
      BY <2>1, <3>6, <3>7, <3>9 DEF Keeps
    <3>11. \A k \in Handles : k # h => hfd'[k] = hfd[k]
      BY <3>1, <3>9, Functions1
    <3>12. \A k \in Handles : k # h => (Keeps(k)' <=> Keeps(k))
      BY <2>1, <3>11 DEF Keeps
    <3>13. \A k \in Jobs : Closes(k)' <=> Closes(k)
      BY <2>1 DEF Closes
    <3> QED BY <1>0, <2>1, <3>8, <3>9, <3>10, <3>11, <3>12, <3>13, OwnedStays
  <2> QED BY <2>3, <2>4
<1>9. ASSUME NEW t \in Threads, SubmitDelete(t) PROVE Owned'
  <2>1. PICK d \in Deletes : d \in Jobs /\ Now(jstate', jstate, Jobs, d, "queued")
    BY <1>9, SubmitDeleteEffect
  <2>2. UNCHANGED <<desc, ev, evfd, hfd, hstate, jh, jclose, jfd>> /\ ~jclose[d]
    BY <1>9, <2>1 DEF SubmitDelete, Core, Made
  <2>3. \A k \in Jobs : jclose[k] => jstate'[k] = jstate[k]
    BY <2>1, <2>2 DEF Now
  <2>4. \A h \in Handles : Keeps(h)' <=> Keeps(h)
    BY <2>2, <2>3 DEF Keeps
  <2>5. \A k \in Jobs : Closes(k)' <=> Closes(k)
    BY <2>2, <2>3 DEF Closes
  <2> QED BY <1>0, <2>2, <2>4, <2>5, OwnedStays
<1>10. ASSUME UNCHANGED <<desc, ev, evfd, hfd, hstate, jh, jclose, jfd>>,
              \A k \in Jobs : jclose[k] =>
                /\ jstate'[k] = "none" <=> jstate[k] = "none"
                /\ jstate'[k] \in {"queued", "kernel", "close"} <=> jstate[k] \in {"queued", "kernel", "close"}
       PROVE  Owned'
  <2>1. \A h \in Handles : Keeps(h)' <=> Keeps(h)
    BY <1>10 DEF Keeps
  <2>2. \A k \in Jobs : Closes(k)' <=> Closes(k)
    BY <1>10 DEF Closes
  <2> QED BY <1>0, <1>10, <2>1, <2>2, OwnedStays
<1>11. ASSUME NEW j \in Jobs, KernelTakes(j) PROVE Owned'
  <2>1. jstate[j] = "queued" /\ Now(jstate', jstate, Jobs, j, "kernel")
    BY <1>11, Functions2 DEF KernelTakes, Now
  <2> QED BY <1>10, <1>11, <2>1 DEF KernelTakes, Now
<1>12. ASSUME NEW e \in Posters, Reset(e) PROVE Owned'
  <2>1. PICK j \in Jobs :
           /\ jstate[j] = "kernel"
           /\ \/ jclose[j] /\ Now(jstate', jstate, Jobs, j, "close")
              \/ ~jclose[j] /\ Now(jstate', jstate, Jobs, j, "deleted")
    BY <1>12, ResetEffect
  <2>2. \A k \in Jobs : jclose[k] =>
          /\ jstate'[k] = "none" <=> jstate[k] = "none"
          /\ jstate'[k] \in {"queued", "kernel", "close"} <=> jstate[k] \in {"queued", "kernel", "close"}
    BY <2>1 DEF Now
  <2> QED BY <1>10, <1>12, <2>2 DEF Reset
<1>13. ASSUME NEW e \in Posters, CloseJobFd(e) PROVE Owned'
  <2>1. PICK j \in Jobs : /\ jstate[j] = "close" /\ Now(jstate', jstate, Jobs, j, "deleted")
                        /\ Shut(desc', desc, jfd[j])
    BY <1>13, CloseJobEffect
  <2>2. UNCHANGED <<ev, evfd, hfd, hstate, jh, jclose, jfd>>
    BY <1>13 DEF CloseJobFd
  <2>3. Closes(j) /\ ~Closes(j)'
    BY <2>1 DEF Closes, Core, Stages, Now
  <2>4. desc[jfd[j]] = jh[j] /\ jh[j] \in Handles /\ ~Keeps(jh[j])
    BY <1>0, <2>3, OwnersHave
  <2>5. \A k \in Jobs : k # j => (Closes(k)' <=> Closes(k))
    BY <2>1, <2>2 DEF Closes, Now
  <2>6. \A h \in Handles : Keeps(h)' <=> Keeps(h)
    BY <2>1, <2>2 DEF Keeps, Now
  <2>7. \A h \in Handles : Keeps(h) => hfd[h] # jfd[j]
    BY <1>0, <2>4, OwnersHave
  <2>8. \A k \in Jobs : k # j /\ Closes(k) => jfd[k] # jfd[j]
    <3>1. \A k \in Jobs : jh[k] = jh[j] => k = j
      BY <1>0, <2>3 DEF ReadsByName, Closes
    <3>2. ASSUME NEW k \in Jobs, Closes(k), jfd[k] = jfd[j] PROVE k = j
      <4>1. desc[jfd[k]] = jh[k]
        BY <1>0, <3>2, OwnersHave
      <4> QED BY <2>4, <3>1, <3>2, <4>1
    <3> QED BY <3>2
  <2>9. desc[jfd[j]] # "pipe"
    BY <2>4, ApiAssumption
  <2> QED BY <1>0, <2>1, <2>2, <2>3, <2>5, <2>6, <2>7, <2>8, <2>9, OwnedShut
<1>14. ASSUME NEW t \in Threads, IOExecEventFdOpen(t) \/ IOExecEventFdClose(t) PROVE Owned'
  BY <1>0, <1>14, OwnedEvOpen, OwnedEvClose
<1> QED
  BY <1>1, <1>2, <1>3, <1>4, <1>5, <1>6, <1>7, <1>8, <1>9, <1>11, <1>12, <1>13, <1>14
  DEF Next, Application, InCallStep, ExecutorStep, Terminated, vars, IOExecFileDelete,
      SkipFragment, OpReturns, StartPost, Reap, gIOBatchFree, IOExecFileServiceDestroy, ServiceDestroyed

-----------------------------------------------------------------------------
(***************************************************************************)
(* The theorems about descriptors.                                         *)
(***************************************************************************)
\* At first nothing is open.
LEMMA InitOwnership == Init => Ownership
<1> SUFFICES ASSUME Init PROVE Ownership
  OBVIOUS
<1>1. \A t \in Threads : ~ByNameCall(t)
  BY DEF Init, ByNameCall, InOp
<1>2. /\ \A j \in Jobs : ~jclose[j] /\ phase[j] = "new"
      /\ \A n \in Fds : desc[n] = Nothing
      /\ \A h \in Handles : hstate[h] = "none"
      /\ ev = "none"
  BY DEF Init, Engine!SvcInit
<1>3. ReadsByName /\ Told /\ Shared
  BY <1>1, <1>2 DEF ReadsByName, Told, Shared, Unseen
<1>4. \A h \in Handles : h # Nothing /\ ~Keeps(h)
  BY <1>2, ApiAssumption DEF Keeps
<1>5. Owned
  BY <1>2, <1>4 DEF Owned, Closes
<1> QED BY <1>3, <1>5 DEF Ownership

\* A step keeps who owns what.
LEMMA OwnershipStep == OneFragment /\ Core /\ Ownership /\ [Next]_vars => Ownership'
BY ReadsStep, ToldStep, SharedStep, OwnedStep DEF Ownership

\* The inductive invariant implies DescriptorsHeld.
LEMMA HeldByOwnership == ASSUME Core, Ownership PROVE DescriptorsHeld
<1>0. ReadsByName /\ Shared /\ Owned
  BY DEF Ownership
<1>1. \A h \in Handles : h \in Keeping <=> Keeps(h)
  BY DEF Keeping, Keeps
<1>2. \A j \in Jobs : j \in Closing <=> Closes(j)
  BY DEF Closing, Closes
<1>3. \A h \in Keeping : desc[hfd[h]] = h
  BY <1>0, <1>1 DEF Owned, Keeping
<1>4. \A j \in Closing : desc[jfd[j]] = jh[j]
  BY <1>0, <1>2 DEF Owned, Closing
<1>5. ASSUME NEW j \in Jobs, jstate[j] = "queued", j \in Fragments PROVE desc[jfd[j]] = jh[j]
  <2>1. CASE jclose[j]
    BY <1>4, <1>5, <2>1 DEF Closing
  <2>2. CASE ~jclose[j]
    <3>1. phase[j] = "accepted" /\ j \in Unseen
      BY <1>5 DEF Core, Stages, Unseen
    <3>2. hstate[jh[j]] = "open" /\ hfd[jh[j]] = jfd[j]
      BY <1>0, <1>5, <2>2, <3>1 DEF Shared
    <3>3. jh[j] \in Handles /\ jfd[j] \in Fds
      BY <1>5, <3>1 DEF Core, Made
    <3>4. ~\E k \in Jobs : jh[k] = jh[j] /\ jclose[k] /\ jstate[k] # "none"
      BY <1>0, <2>2 DEF ReadsByName
    <3>5. jh[j] \in Keeping
      BY <3>2, <3>3, <3>4, FdsApart DEF Keeping
    <3> QED BY <1>3, <3>2, <3>5
  <2> QED BY <2>1, <2>2
<1>6. ev = "open" => desc[evfd[1]] = "pipe" /\ desc[evfd[2]] = "pipe"
  BY <1>0 DEF Owned
<1>7. \A j \in Jobs : phase[j] = "accepted" => ev = "open"
  BY DEF Core, Stages
<1> QED BY <1>3, <1>4, <1>5, <1>6, <1>7 DEF DescriptorsHeld

\* It implies ClosedByOne.
LEMMA OneByOwnership == ASSUME Core, Ownership PROVE ClosedByOne
<1>0. ReadsByName /\ Owned
  BY DEF Ownership
<1> SUFFICES ASSUME NEW n \in Fds, desc[n] \in Handles
             PROVE  Cardinality({h \in Keeping : hfd[h] = n})
                      + Cardinality({j \in Closing : jfd[j] = n}) = 1
  BY DEF ClosedByOne
<1>1. PICK f \in Handles : f = desc[n]
  OBVIOUS
<1>2. \A h \in {k \in Keeping : hfd[k] = n} : h = f /\ Keeps(f)
  <2>1. \A h \in Keeping : h \in Handles /\ Keeps(h)
    BY DEF Keeping, Keeps
  <2>2. ASSUME NEW h \in Keeping, hfd[h] = n PROVE h = f /\ Keeps(f)
    <3>1. desc[hfd[h]] = h
      BY <1>0, <2>1, OwnersHave
    <3> QED BY <1>1, <2>1, <2>2, <3>1
  <2> QED BY <2>2
<1>3. \A j \in {k \in Closing : jfd[k] = n} : j \in Jobs /\ jh[j] = f /\ Closes(j) /\ ~Keeps(f)
  BY <1>0, <1>1, OwnersHave DEF Closing, Closes
<1>4. Cardinality({}) = 0 /\ \A x : Cardinality({x}) = 1
  BY FS_EmptySet, FS_Singleton
<1>5. CASE Keeps(f) /\ hfd[f] = n
  <2>1. {h \in Keeping : hfd[h] = n} = {f}
    BY <1>2, <1>5 DEF Keeping, Keeps
  <2>2. {j \in Closing : jfd[j] = n} = {}
    BY <1>3, <1>5
  <2>3. /\ Cardinality({h \in Keeping : hfd[h] = n}) = 1
        /\ Cardinality({j \in Closing : jfd[j] = n}) = 0
    BY <1>4, <2>1, <2>2
  <2> QED BY <2>3, SMT
<1>6. CASE \E j \in Jobs : Closes(j) /\ jh[j] = f /\ jfd[j] = n
  <2>1. PICK j \in Jobs : Closes(j) /\ jh[j] = f /\ jfd[j] = n
    BY <1>6
  <2>2. j \in {k \in Closing : jfd[k] = n}
    BY <2>1 DEF Closing, Closes
  <2>3. {k \in Closing : jfd[k] = n} = {j}
    <3>1. \A k \in Jobs : jh[k] = f => k = j
      BY <1>0, <2>1 DEF ReadsByName, Closes
    <3>2. \A k \in {m \in Closing : jfd[m] = n} : k = j
      BY <1>3, <3>1
    <3> QED BY <2>2, <3>2
  <2>4. {h \in Keeping : hfd[h] = n} = {}
    BY <1>2, <1>3, <2>2
  <2>5. /\ Cardinality({h \in Keeping : hfd[h] = n}) = 0
        /\ Cardinality({k \in Closing : jfd[k] = n}) = 1
    BY <1>4, <2>3, <2>4
  <2> QED BY <2>5, SMT
<1> QED BY <1>0, <1>1, <1>5, <1>6 DEF Owned

\* If every batch that is read by name has one fragment with data, whoever uses a
\* descriptor number finds the file it was opened for, although the executors and the
\* threads close and reuse numbers at any time and a handle learns only from the result
\* of submitTask whether its job closes the descriptor.
THEOREM DescriptorsHeldAlways == ASSUME OneFragment PROVE Spec => []DescriptorsHeld
<1>1. Init => Core /\ Ownership
  BY InitCore, InitOwnership
<1>2. Core /\ Ownership /\ [Next]_vars => (Core /\ Ownership)'
  BY CoreStep, OwnershipStep
<1>3. Core /\ Ownership => DescriptorsHeld
  BY HeldByOwnership
<1> QED BY <1>1, <1>2, <1>3, PTL DEF Spec

\* On the same condition exactly one party is left to close the descriptor of an open
\* file, its handle or the job of a read by name: none is closed twice, none is lost.
THEOREM ClosedByOneAlways == ASSUME OneFragment PROVE Spec => []ClosedByOne
<1>1. Init => Core /\ Ownership
  BY InitCore, InitOwnership
<1>2. Core /\ Ownership /\ [Next]_vars => (Core /\ Ownership)'
  BY CoreStep, OwnershipStep
<1>3. Core /\ Ownership => ClosedByOne
  BY OneByOwnership
<1> QED BY <1>1, <1>2, <1>3, PTL DEF Spec

-----------------------------------------------------------------------------
(***************************************************************************)
(* The engine below.                                                       *)
(***************************************************************************)
\* The service ends after the calls and the jobs: once IOExecFileServiceDestroy has begun
\* no thread is in a call, and once the engine is closed none of its jobs is left.
Ended ==
  /\ closed <=> dpc = "done"
  /\ dpc # "idle" => \A t \in Threads : ~InCall(t)
  /\ closed => \A j \in Jobs : phase[j] # "accepted"

\* What IOService expects of its client holds whenever the file API relies on it: a job
\* that IOExecFileOp is about to make is new, one it hands to submitTask (IOExecFileDelete
\* its own) is in nobody else's hands and the engine is not closed, and a thread of an
\* executor that post-processes a job reports one that was accepted, to an engine that is
\* still there.  So it is never a condition of IOService that keeps the file API waiting.
EngineReady ==
  /\ \A t \in Threads : pc[t] = "loop" /\ idx[t] <= totalCount(t) /\ JobOf(t) # Empty =>
       phase[JobOf(t)] = "new"
  /\ \A t \in Threads : pc[t] = "submit" => phase[JobOf(t)] = "calling" /\ ~closed
  /\ \A t \in Threads : pc[t] = "delSubmit" => phase[tb[t]] = "calling" /\ ~closed
  /\ \A j \in Jobs : jstate[j] \in {"queued", "kernel"} => phase[j] = "accepted" /\ ~closed

\* A step that begins no call, and leaves the service and the accepted jobs alone.
LEMMA EndedStays ==
  ASSUME Ended, UNCHANGED <<closed, dpc>>,
         \A t \in Threads : pc[t] = "idle" => pc'[t] = "idle",
         \A j \in Jobs : phase'[j] = "accepted" => phase[j] = "accepted"
  PROVE  Ended'
BY DEF Ended, InCall

\* Calls begin, jobs are accepted and reported, and the service is destroyed, in that order.
LEMMA EndedStep == Core /\ Ended /\ [Next]_vars => Ended'
<1> SUFFICES ASSUME Core, Ended, [Next]_vars PROVE Ended'
  OBVIOUS
<1>1. /\ pc \in [Threads -> {"idle", "loop", "submit", "delete", "delSubmit"}]
      /\ phase \in [Jobs -> {"new", "calling", "refused", "accepted", "reported"}]
  BY DEF Core, TypeOK
<1>2. ASSUME dpc = "idle", UNCHANGED <<closed, dpc>> PROVE Ended'
  BY <1>2 DEF Ended
<1>3. ASSUME UNCHANGED <<pc, phase, closed, dpc>> PROVE Ended'
  BY <1>3, EndedStays
<1>4. ASSUME NEW t \in Threads, Application(t) PROVE Ended'
  <2>1. CASE IOExecEventFdClose(t) \/ \E h \in Handles : IOExecFileClose(t, h)
    BY <1>3, <2>1 DEF IOExecEventFdClose, IOExecFileClose, callVars, svcVars
  <2>2. CASE ~(IOExecEventFdClose(t) \/ \E h \in Handles : IOExecFileClose(t, h))
    <3>1. dpc = "idle" /\ UNCHANGED <<closed, dpc>>
      BY <1>4, <2>2
      DEF Application, IOExecEventFdOpen, IOExecFileOpen, IOExecFileOp, IOExecFileReadByName,
          IOExecFileDelete, Idle, svcVars, Engine!Call, Engine!Move
    <3> QED BY <1>2, <3>1
  <2> QED BY <2>1, <2>2
<1>5. ASSUME NEW t \in Threads, InCallStep(t) PROVE Ended'
  <2>1. InCall(t)
    BY <1>5
    DEF InCallStep, SkipFragment, MakeJob, SubmitTask, RefuseTask, OpReturns, ForgetFd,
        ReadByNameReturns, SubmitDelete, LoopDone, InCall
  <2>2. dpc = "idle"
    BY <2>1 DEF Ended
  <2>3. UNCHANGED <<closed, dpc>>
    BY <1>5
    DEF InCallStep, SkipFragment, MakeJob, SubmitTask, RefuseTask, OpReturns, ForgetFd,
        ReadByNameReturns, SubmitDelete, svcVars, Engine!Call, Engine!Accept, Engine!Refuse,
        Engine!Move
  <2> QED BY <1>2, <2>2, <2>3
<1>6. ASSUME NEW e \in Posters, Reset(e) PROVE Ended'
  <2>1. /\ phase' = [phase EXCEPT ![post[e]] = "reported"]
        /\ UNCHANGED <<pc, closed, dpc>>
    BY <1>6 DEF Reset, callVars, Engine!Report, Engine!Move
  <2>2. \A j \in Jobs : phase'[j] = "accepted" => phase[j] = "accepted"
    BY <1>1, <2>1
  <2> QED BY <2>1, <2>2, EndedStays
<1>7. ASSUME IOExecFileServiceDestroy PROVE Ended'
  BY <1>7 DEF Ended, IOExecFileServiceDestroy, callVars, svcVars, InCall
<1>8. ASSUME ServiceDestroyed PROVE Ended'
  BY <1>8 DEF Ended, ServiceDestroyed, callVars, InCall, Engine!Close
<1>9. ASSUME \/ \E j \in Jobs : KernelTakes(j)
             \/ \E e \in Posters : (\E j \in Jobs : StartPost(e, j)) \/ CloseJobFd(e)
             \/ Reap \/ Terminated \/ (\E b \in Batches : gIOBatchFree(b))
             \/ UNCHANGED vars
      PROVE  Ended'
  BY <1>3, <1>9
  DEF KernelTakes, StartPost, CloseJobFd, Reap, Terminated, gIOBatchFree, vars, callVars, svcVars
<1> QED BY <1>4, <1>5, <1>6, <1>7, <1>8, <1>9 DEF Next, ExecutorStep

\* The file API never asks the engine for what IOService does not grant (EngineReady), for
\* any threads, batches and executors: the executor, which implements IOService, is used
\* as its promise requires, and IOExecFileServiceDestroy ends it under nobody's feet.
THEOREM ApiUsesService == Spec => []EngineReady
<1>1. Init => Ended
  BY DEF Init, Ended, Engine!SvcInit
<1>2. ASSUME Core, Ended PROVE EngineReady
  <2>1. ASSUME NEW t \in Threads, pc[t] = "loop", idx[t] <= totalCount(t), JobOf(t) # Empty
        PROVE  phase[JobOf(t)] = "new"
    <3>1. tb[t] \in Batches /\ idx[t] >= 1 /\ idx[t] \in Nat
      BY <1>2, <2>1 DEF Core, TypeOK, Calls, CallOf, InOp
    <3>2. Shape[tb[t]] \in Seq(Fragments \cup {Empty})
      BY <3>1, ApiAssumption
    <3>3. idx[t] \in DOMAIN Shape[tb[t]]
      BY <2>1, <3>1, <3>2, SMT DEF totalCount
    <3> QED BY <1>2, <2>1, <3>3 DEF Core, Ahead, InFront, JobOf
  <2>2. ASSUME NEW t \in Threads, pc[t] \in {"submit", "delSubmit"} PROVE ~closed
    BY <1>2, <2>2 DEF Ended, InCall
  <2>3. ASSUME NEW t \in Threads, pc[t] = "submit" PROVE phase[JobOf(t)] = "calling" /\ ~closed
    BY <1>2, <2>2, <2>3 DEF Core, Calls, CallOf
  <2>4. ASSUME NEW t \in Threads, pc[t] = "delSubmit" PROVE phase[tb[t]] = "calling" /\ ~closed
    BY <1>2, <2>2, <2>4 DEF Core, Calls, CallOf
  <2>5. ASSUME NEW j \in Jobs, jstate[j] \in {"queued", "kernel"}
        PROVE  phase[j] = "accepted" /\ ~closed
    BY <1>2, <2>5 DEF Core, Stages, Ended
  <2> QED BY <2>1, <2>3, <2>4, <2>5 DEF EngineReady
<1> QED BY <1>1, <1>2, CoreAlways, EndedStep, PTL DEF Spec
=============================================================================
