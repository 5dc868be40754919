-------------------------- MODULE IOExecutorProofs --------------------------
(***************************************************************************)
(* The types of IOExecutor are invariant, every job of an executor has one *)
(* holder among its threads and containers and is reported once, and the   *)
(* free contexts are accounted for, for every number of threads, jobs and  *)
(* contexts.                                                               *)
(***************************************************************************)
EXTENDS IOExecutor, FiniteSetTheorems, TLAPS

\* A thread inside submitTask has a job.
HasJob == \A t \in Submitters : pc[t] # "idle" => cur[t] \in Jobs

TypeInv == TypeOK /\ HasJob

\* Steps go to Zenon unless they name SMT; the assumptions on the constants.
USE Zenon
USE ThreadAssumption, SizeAssumption, EnvironmentAssumption

\* A set of jobs is finite, so its size is a natural number.
LEMMA CardJobs == \A S \in SUBSET Jobs : IsFiniteSet(S) /\ Cardinality(S) \in Nat
  BY FS_Subset, FS_CardinalityType

\* The initial state is well typed.
LEMMA InitType == Init => TypeInv
  BY SMT DEF Init, TypeInv, TypeOK, HasJob, Runners, SubmitterLabels, CompleterLabels, PrqLabels, Places, Codes

\* Every step of every thread, of the kernel and of stop() keeps the types.
LEMMA TypeStep == TypeInv /\ [Next]_vars => TypeInv'
<1> SUFFICES ASSUME TypeInv, [Next]_vars PROVE TypeInv'
  OBVIOUS
<1> USE DEF TypeInv, TypeOK, HasJob, Runners, SubmitterLabels, CompleterLabels,
            PrqLabels, Places, Codes, stopVars, qVars, fdVars, ctxVars, prqVars, callVars, jobVars,
            counts, requestSide, outside, allButPc, allButStop
<1>1. ASSUME NEW t \in Submitters, NEW j \in Jobs, NEW b \in BlockingModes,
            submitTask(t, j, b) PROVE TypeInv'
  BY SMT, <1>1 DEF submitTask, Goto, MoveTo
<1>2. ASSUME NEW t \in Submitters, CheckState(t) PROVE TypeInv'
  <2>1. pc[t] = "state" /\ UNCHANGED <<requestSide, stopVars, fdPc, fdVars, events, counts,
                                       cur, res, status>>
    BY <1>2 DEF CheckState
  <2>2. CASE Reject(t) /\ UNCHANGED blocking
    BY SMT, <2>1, <2>2 DEF Reject, Goto, MoveTo
  <2>3. CASE /\ blocking' = [blocking EXCEPT ![t] = @ \/ cur[t] \in UnalignedWrites]
             /\ Goto(t, IF cur[t] \in FdJobs THEN "fdRoom" ELSE "rqRoom")
             /\ UNCHANGED loc
    BY SMT, <2>1, <2>3 DEF Goto
  <2> QED BY <1>2, <2>2, <2>3 DEF CheckState
<1>3. ASSUME NEW t \in Submitters, RequestRoom(t) PROVE TypeInv'
  <2>1. pc[t] = "rqRoom" /\ UNCHANGED <<outside, requestSide, counts, res, status>>
    BY <1>3 DEF RequestRoom, CheckRoom
  <2>2. CASE Reject(t)
    BY SMT, <2>1, <2>2 DEF Reject, Goto, MoveTo
  <2>3. CASE Goto(t, "rqPause") /\ UNCHANGED loc
    BY SMT, <2>1, <2>3 DEF Goto
  <2>4. CASE Goto(t, "rqSize") /\ UNCHANGED loc
    BY SMT, <2>1, <2>4 DEF Goto
  <2> QED BY <1>3, <2>2, <2>3, <2>4 DEF RequestRoom, CheckRoom
<1>4. ASSUME NEW t \in Submitters, RequestPause(t) PROVE TypeInv'
  BY SMT, <1>4 DEF RequestPause, Pause, Goto, MoveTo
<1>5. ASSUME NEW t \in Submitters, RequestSize(t) PROVE TypeInv'
  BY SMT, <1>5 DEF RequestSize, Goto, MoveTo
<1>6. ASSUME NEW t \in Submitters, RequestCount(t) PROVE TypeInv'
  BY SMT, <1>6 DEF RequestCount, Goto, MoveTo
<1>7. ASSUME NEW t \in Submitters, RequestPush(t) PROVE TypeInv'
  BY SMT, <1>7 DEF RequestPush, Goto, MoveTo
<1>8. ASSUME NEW t \in Submitters, RequestMin(t) PROVE TypeInv'
  BY SMT, <1>8 DEF RequestMin, MinSubmitSize, Goto, MoveTo
<1>9. ASSUME NEW t \in Submitters, RequestLock(t) PROVE TypeInv'
  <2>1. pc[t] = "rqLock" /\ UNCHANGED <<outside, qVars, ctxVars, prqVars, counts, jobVars>>
    BY <1>9 DEF RequestLock, MinSubmitSize
  <2>2. CASE mutex' = t /\ Goto(t, "prqCtx")
    BY SMT, <2>1, <2>2 DEF Goto
  <2>3. CASE Goto(t, "idle") /\ UNCHANGED mutex
    BY SMT, <2>1, <2>3 DEF Goto
  <2> QED BY <1>9, <2>2, <2>3 DEF RequestLock, MinSubmitSize
<1>10. ASSUME NEW t \in Submitters, FdRoom(t) PROVE TypeInv'
  <2>1. pc[t] = "fdRoom" /\ UNCHANGED <<outside, requestSide, counts, res, status>>
    BY <1>10 DEF FdRoom, CheckRoom
  <2>2. CASE Reject(t)
    BY SMT, <2>1, <2>2 DEF Reject, Goto, MoveTo
  <2>3. CASE Goto(t, "fdPause") /\ UNCHANGED loc
    BY SMT, <2>1, <2>3 DEF Goto
  <2>4. CASE Goto(t, "fdCount") /\ UNCHANGED loc
    BY SMT, <2>1, <2>4 DEF Goto
  <2> QED BY <1>10, <2>2, <2>3, <2>4 DEF FdRoom, CheckRoom
<1>11. ASSUME NEW t \in Submitters, FdPause(t) PROVE TypeInv'
  BY SMT, <1>11 DEF FdPause, Pause, Goto, MoveTo
<1>12. ASSUME NEW t \in Submitters, FdCount(t) PROVE TypeInv'
  BY SMT, <1>12 DEF FdCount, Goto, MoveTo
<1>13. ASSUME NEW t \in Submitters, FdSize(t) PROVE TypeInv'
  BY SMT, <1>13 DEF FdSize, Goto, MoveTo
<1>14. ASSUME NEW t \in Submitters, FdPush(t) PROVE TypeInv'
  BY SMT, <1>14 DEF FdPush, Goto, MoveTo
<1>15. ASSUME NEW t \in Submitters, FdPost(t) PROVE TypeInv'
  BY SMT, <1>15 DEF FdPost, fdWakeup, Goto, MoveTo
<1>16. ASSUME NEW t \in Submitters, RequestSpurious(t) PROVE TypeInv'
  BY SMT, <1>16 DEF RequestSpurious, SpuriousWakeup, Goto, MoveTo
<1>17. ASSUME NEW t \in Submitters, FdSpurious(t) PROVE TypeInv'
  BY SMT, <1>17 DEF FdSpurious, SpuriousWakeup, Goto, MoveTo
<1>18. ASSUME NEW r \in Runners, PrqCtx(r) PROVE TypeInv'
  BY SMT, <1>18 DEF PrqCtx, Goto, MoveTo
<1>19. ASSUME NEW r \in Runners, PrqTake(r) PROVE TypeInv'
  BY SMT, <1>19 DEF PrqTake, decrementNumAvailable, Goto, MoveTo
<1>20. ASSUME NEW r \in Runners, PrqSem(r) PROVE TypeInv'
  BY SMT, <1>20 DEF PrqSem, ctxPause, Goto, MoveTo
<1>21. ASSUME NEW r \in Runners, PrqTaken(r) PROVE TypeInv'
  <2>1. pc[r] = "prqTake" /\ UNCHANGED <<outside, qVars, ctxVars, counts, jobVars, batch,
                                         toFail, failing>>
    BY <1>21 DEF PrqTaken
  <2>2. CASE Unlock(r) /\ UNCHANGED numTries
    BY SMT, <2>1, <2>2 DEF Unlock
  <2>3. CASE numTries' = NumTries /\ Goto(r, "prqSubmit") /\ UNCHANGED mutex
    BY SMT, <2>1, <2>3 DEF Goto
  <2> QED BY <1>21, <2>2, <2>3 DEF PrqTaken
<1>22. ASSUME NEW r \in Runners, PrqSubmitAll(r) PROVE TypeInv'
  BY SMT, <1>22 DEF PrqSubmitAll, Goto, MoveTo
<1>23. ASSUME NEW r \in Runners, PrqSubmitRetry(r) PROVE TypeInv'
  BY SMT, <1>23 DEF PrqSubmitRetry, Goto, MoveTo
<1>24. ASSUME NEW r \in Runners, PrqSubmitPart(r) PROVE TypeInv'
  <2>1. PICK S \in SUBSET batch :
          /\ MoveTo(S, "kernel")
          /\ batch' = batch \ S
          /\ incrementNumAvailable(Cardinality(S))
          /\ ctxWakeup(Cardinality(S))
    BY <1>24 DEF PrqSubmitPart
  <2>2. UNCHANGED <<outside, pc, mutex, qVars, counts, toFail, failing, res,
                    status>> /\ numTries' = numTries - 1 /\ numTries > 0
    BY <1>24 DEF PrqSubmitPart
  <2>3. Cardinality(S) \in Nat /\ S \subseteq Jobs
    BY CardJobs
  <2> QED BY SMT, <2>1, <2>2, <2>3 DEF MoveTo, incrementNumAvailable, ctxWakeup
<1>25. ASSUME NEW r \in Runners, PrqSubmitFatal(r) PROVE TypeInv'
  BY SMT, <1>25 DEF PrqSubmitFatal, Goto, MoveTo
<1>26. ASSUME NEW r \in Runners, PrqSubmitGivesUp(r) PROVE TypeInv'
  BY SMT, <1>26 DEF PrqSubmitGivesUp, Goto, MoveTo
<1>27. ASSUME NEW r \in Runners, PrqLeft(r) PROVE TypeInv'
  <2>1. pc[r] = "prqLeft" /\ UNCHANGED <<outside, mutex, qVars, ctxVars, counts, jobVars,
                                         batch, numTries>>
    BY <1>27 DEF PrqLeft
  <2>2. CASE Goto(r, "prqSpace") /\ UNCHANGED <<toFail, failing>>
    BY SMT, <2>1, <2>2 DEF Goto
  <2>3. CASE toFail' = batch /\ failing' = "left" /\ Goto(r, "prqFail")
    BY SMT, <2>1, <2>3 DEF Goto
  <2> QED BY <1>27, <2>2, <2>3 DEF PrqLeft
<1>28. ASSUME NEW r \in Runners, PrqFail(r) PROVE TypeInv'
  BY SMT, <1>28 DEF PrqFail, doPostProcessingOfJob, Goto, MoveTo
<1>29. ASSUME NEW r \in Runners, PrqGiveBack(r) PROVE TypeInv'
  <2>1. UNCHANGED <<outside, mutex, qVars, counts, toFail, failing, numTries, res,
                    status>> /\ pc[r] = "prqFail"
    BY <1>29 DEF PrqGiveBack
  <2>2. /\ incrementNumAvailable(Cardinality(batch))
        /\ ctxWakeup(Cardinality(batch))
        /\ MoveTo(batch, "gone")
    BY <1>29 DEF PrqGiveBack
  <2>3. Cardinality(batch) \in Nat
    BY CardJobs
  <2>4. CASE Goto(r, "prqLeft") /\ UNCHANGED batch
    BY SMT, <2>1, <2>2, <2>3, <2>4 DEF Goto, MoveTo, incrementNumAvailable, ctxWakeup
  <2>5. CASE batch' = {} /\ Goto(r, "prqSpace")
    BY SMT, <2>1, <2>2, <2>3, <2>5 DEF Goto, MoveTo, incrementNumAvailable, ctxWakeup
  <2> QED BY <1>29, <2>4, <2>5 DEF PrqGiveBack
<1>30. ASSUME NEW r \in Runners, PrqSpace(r) PROVE TypeInv'
  <2>1. pc[r] = "prqSpace" /\ UNCHANGED <<outside, qVars, ctxVars, prqVars, counts, jobVars>>
    BY <1>30 DEF PrqSpace
  <2>2. CASE Goto(r, "prqNotify") /\ UNCHANGED mutex
    BY SMT, <2>1, <2>2 DEF Goto
  <2>3. CASE Unlock(r)
    BY SMT, <2>1, <2>3 DEF Unlock
  <2> QED BY <1>30, <2>2, <2>3 DEF PrqSpace
<1>31. ASSUME NEW r \in Runners, PrqNotify(r) PROVE TypeInv'
  BY SMT, <1>31 DEF PrqNotify, NotifyAll, Goto, MoveTo
<1>32. ASSUME NEW j \in Jobs, KernelComplete(j) PROVE TypeInv'
  BY SMT, <1>32 DEF KernelComplete, Goto, MoveTo
<1>33. ASSUME CompleterLoop PROVE TypeInv'
  BY SMT, <1>33 DEF CompleterLoop, Goto, MoveTo
<1>34. ASSUME EpollWait PROVE TypeInv'
  <2>1. events' \in SUBSET {"shutdown", "timer", "ctx"}
    BY <1>34 DEF EpollWait, Ready
  <2>2. UNCHANGED <<requestSide, stopVars, fdPc, callVars, fdVars, counts,
                    jobVars>> /\ Goto(Completer, "event") /\ pc[Completer] = "epoll"
    BY <1>34 DEF EpollWait
  <2> QED BY SMT, <2>1, <2>2 DEF Goto
<1>35. ASSUME EventsHandled PROVE TypeInv'
  BY SMT, <1>35 DEF EventsHandled, Goto, MoveTo
<1>36. ASSUME CompleterLock PROVE TypeInv'
  BY SMT, <1>36 DEF CompleterLock, Goto, MoveTo
<1>37. ASSUME CtxEvent PROVE TypeInv'
  BY SMT, <1>37 DEF CtxEvent, At, Goto, MoveTo
<1>38. ASSUME Callback PROVE TypeInv'
  BY SMT, <1>38 DEF Callback, At, Retcode, doPostProcessingOfJob, Goto, MoveTo
<1>39. ASSUME CallbackInc PROVE TypeInv'
  BY SMT, <1>39 DEF CallbackInc, incrementNumAvailable, Goto, MoveTo
<1>40. ASSUME CallbackPost PROVE TypeInv'
  BY SMT, <1>40 DEF CallbackPost, ctxWakeup, Goto, MoveTo
<1>41. ASSUME CallbacksDone PROVE TypeInv'
  BY SMT, <1>41 DEF CallbacksDone, At, Goto, MoveTo
<1>42. ASSUME NEW e \in {"shutdown", "timer"}, WakeupEvent(e) PROVE TypeInv'
  BY SMT, <1>42 DEF WakeupEvent, Goto, MoveTo
<1>43. ASSUME FdLoop PROVE TypeInv'
  BY SMT, <1>43 DEF FdLoop, Goto, MoveTo
<1>44. ASSUME FdWait PROVE TypeInv'
  BY SMT, <1>44 DEF FdWait, fdPause, Goto, MoveTo
<1>45. ASSUME FdConsume PROVE TypeInv'
  <2>1. UNCHANGED <<requestSide, stopVars, pc, callVars, events, fdQueueSize, fdQueueCond,
                    counts>> /\ fdPc' \in {"exited", "count"}
    BY <1>45 DEF FdConsume
  <2>2. CASE UNCHANGED <<fdQueue, jobVars>>
    BY SMT, <2>1, <2>2
  <2>3. CASE fdQueue # <<>>
    <3>1. PICK s \in FdResults(Head(fdQueue)), code \in Codes :
            /\ res' = [res EXCEPT ![Head(fdQueue)] = s]
            /\ doPostProcessingOfJob(Head(fdQueue), code)
      BY <1>45, <2>3 DEF FdConsume, FdRetcodes
    <3>2. MoveTo({Head(fdQueue)}, "gone") /\ fdQueue' = Tail(fdQueue)
      BY <1>45, <2>3 DEF FdConsume
    <3>3. Head(fdQueue) \in Jobs /\ Tail(fdQueue) \in Seq(Jobs) /\ s \in IoResults
      BY SMT, <2>3 DEF FdResults
    <3>4. res' \in [Jobs -> IoResults \cup {"none"}]
      BY <3>1, <3>3
    <3>5. status' \in [Jobs -> Seq(Codes)]
      BY SMT, <3>1, <3>3 DEF doPostProcessingOfJob
    <3>6. loc' \in [Jobs -> Places]
      BY <3>2 DEF MoveTo
    <3> QED BY SMT, <2>1, <3>2, <3>3, <3>4, <3>5, <3>6
  <2> QED BY <1>45, <2>2, <2>3 DEF FdConsume
<1>46. ASSUME FdDec PROVE TypeInv'
  BY SMT, <1>46 DEF FdDec, Goto, MoveTo
<1>47. ASSUME FdSpace PROVE TypeInv'
  BY SMT, <1>47 DEF FdSpace, Goto, MoveTo
<1>48. ASSUME FdNotify PROVE TypeInv'
  BY SMT, <1>48 DEF FdNotify, NotifyAll, Goto, MoveTo
<1>49. ASSUME stop PROVE TypeInv'
  BY SMT, <1>49 DEF stop, StopAllowed, Goto, MoveTo
<1>50. ASSUME StopFdWake PROVE TypeInv'
  BY SMT, <1>50 DEF StopFdWake, fdWakeup, Goto, MoveTo
<1>51. ASSUME StopFdJoin PROVE TypeInv'
  BY SMT, <1>51 DEF StopFdJoin, Goto, MoveTo
<1>52. ASSUME StopSend PROVE TypeInv'
  BY SMT, <1>52 DEF StopSend, Goto, MoveTo
<1>53. ASSUME StopJoin PROVE TypeInv'
  BY <1>53 DEF StopJoin, Goto, MoveTo
<1>54. ASSUME UNCHANGED vars PROVE TypeInv'
  BY SMT, <1>54 DEF vars
<1>55. ASSUME NEW r \in Runners, PrqFailCount(r) PROVE TypeInv'
  BY SMT, <1>55 DEF PrqFailCount, incrementOps, Goto
<1>56. ASSUME CallbackCount PROVE TypeInv'
  BY SMT, <1>56 DEF CallbackCount, incrementOps, Goto
<1>57. ASSUME FdCounted PROVE TypeInv'
  BY SMT, <1>57 DEF FdCounted, incrementOps
<1> HIDE DEF TypeInv
<1> QED
  BY <1>1, <1>2, <1>3, <1>4, <1>5, <1>6, <1>7, <1>8, <1>9, <1>10, <1>11, <1>12,
     <1>13, <1>14, <1>15, <1>16, <1>17, <1>18, <1>19, <1>20, <1>21, <1>22, <1>23,
     <1>24, <1>25, <1>26, <1>27, <1>28, <1>29, <1>30, <1>31, <1>32, <1>33, <1>34,
     <1>35, <1>36, <1>37, <1>38, <1>39, <1>40, <1>41, <1>42, <1>43, <1>44, <1>45,
     <1>46, <1>47, <1>48, <1>49, <1>50, <1>51, <1>52, <1>53, <1>54, <1>55, <1>56, <1>57
     DEF Next, SubmitterStep, ProcessRequestQueue, ProcessCompletions, ProcessFdQueue,
         Stopping, Terminated, Runners

\* Every variable keeps its type in every behaviour: no counter, queue or label
\* of IOExecutor ever holds anything else, whatever io_submit returns.
THEOREM TypeCorrect == Spec => []TypeOK
<1>1. Init => TypeInv
  BY InitType
<1>2. TypeInv /\ [Next]_vars => TypeInv'
  BY TypeStep
<1>3. TypeInv => TypeOK
  BY DEF TypeInv
<1> QED BY <1>1, <1>2, <1>3, PTL DEF Spec

-----------------------------------------------------------------------------
(***************************************************************************)
(* Which thread and which container every job is with.                     *)
(***************************************************************************)
\* io_submit takes the whole batch or asks for a retry; what the code does on
\* the other outcomes breaks these invariants (run fatal_submit).
Reliable == SubmitOutcomes \subseteq {"all", "retry"}

\* The types the argument below uses.
Shapes ==
  /\ pc \in [Runners -> SubmitterLabels \cup CompleterLabels]
  /\ pc[Completer] \in CompleterLabels
  /\ mutex \in Runners \cup {Free}
  /\ cur \in [Submitters -> Jobs \cup {NoJob}]
  /\ \A t \in Submitters : pc[t] # "idle" => cur[t] \in Jobs
  /\ requestQueue \in Seq(Jobs)
  /\ fdQueue \in Seq(Jobs)
  /\ batch \in SUBSET Jobs
  /\ toFail \in SUBSET Jobs
  /\ loc \in [Jobs -> Places]
  /\ status \in [Jobs -> Seq(Codes)]

\* ProcessRequestQueue runs under the mutex, and the mutex is held only there.
LockInv == \A r \in Runners : pc[r] \in PrqLabels <=> mutex = r

HeldLabels == {"state", "rqRoom", "rqPause", "rqWait", "rqSize", "rqCount", "rqPush",
               "fdRoom", "fdPause", "fdWait", "fdCount", "fdSize", "fdPush"}

\* A job a thread has not pushed yet belongs to that thread alone.
HeldInv ==
  \A t \in Submitters : pc[t] \in HeldLabels =>
    /\ loc[cur[t]] = "held"
    /\ \A u \in Submitters : u # t /\ pc[u] \in HeldLabels => cur[u] # cur[t]

\* The jobs of queue q are distinct and the place l gives them is p.
Lined(q, l, p) ==
  /\ \A i \in 1..Len(q) : l[q[i]] = p
  /\ \A i, k \in 1..Len(q) : i # k => q[i] # q[k]

QueueInv == Lined(requestQueue, loc, "queued") /\ Lined(fdQueue, loc, "fdQueued")

\* The batch belongs to the holder of the mutex; its failing loop works through
\* exactly what the kernel did not take.
BatchInv ==
  /\ batch = {j \in Jobs : loc[j] \in {"batch", "failed"}}
  /\ failing = "left"
  /\ batch # {} => /\ mutex \in Runners
                   /\ pc[mutex] \in {"prqTake", "prqSem", "prqSubmit", "prqLeft", "prqFail",
                                    "prqCount"}
  /\ \A j \in Jobs : loc[j] = "failed" => mutex \in Runners /\ pc[mutex] \in {"prqFail", "prqCount"}
  /\ \A r \in Runners : pc[r] \in {"prqFail", "prqCount"} => toFail = {j \in Jobs : loc[j] = "batch"}

Coherent == LockInv /\ HeldInv /\ QueueInv /\ BatchInv /\ ReportedOnce

\* The types used below are part of the type invariant.
LEMMA ShapesType == TypeInv => Shapes
  BY DEF TypeInv, TypeOK, HasJob, Shapes

\* At the start no job is anywhere but with its client.
LEMMA InitCoherent == Init => Coherent
  BY SMT DEF Init, Coherent, LockInv, HeldInv, HeldLabels, QueueInv, Lined, BatchInv, ReportedOnce,
         Runners, PrqLabels

\* What Head and Tail of a nonempty sequence are.
LEMMA HeadTail ==
  ASSUME NEW S, NEW q \in Seq(S), q # <<>>
  PROVE  /\ Head(q) = q[1] /\ Head(q) \in S /\ 1 \in 1..Len(q)
         /\ Tail(q) \in Seq(S) /\ Len(Tail(q)) = Len(q) - 1
         /\ \A i \in 1..Len(Tail(q)) : Tail(q)[i] = q[i + 1] /\ i + 1 \in 1..Len(q)
  BY SMT

\* A queue stays lined up when none of its jobs moves.
LEMMA LinedKeep ==
  ASSUME NEW q \in Seq(Jobs), NEW l, NEW m, NEW p, Lined(q, l, p),
         \A j \in Jobs : l[j] = p => m[j] = p
  PROVE  Lined(q, m, p)
  BY SMT DEF Lined

\* A queue stays lined up when its head, and nothing else in it, moves away.
LEMMA LinedTail ==
  ASSUME NEW q \in Seq(Jobs), NEW l, NEW m, NEW p, Lined(q, l, p), q # <<>>,
         \A j \in Jobs : l[j] = p /\ j # Head(q) => m[j] = p
  PROVE  Lined(Tail(q), m, p)
<1>1. \A i \in 1..Len(Tail(q)) : Tail(q)[i] = q[i + 1] /\ i + 1 \in 1..Len(q) /\ i + 1 # 1
  BY SMT, HeadTail
<1>2. Head(q) = q[1] /\ 1 \in 1..Len(q)
  BY HeadTail
<1>3. \A i \in 1..Len(Tail(q)) : Tail(q)[i] # Head(q) /\ Tail(q)[i] \in Jobs
  BY SMT, <1>1, <1>2 DEF Lined
<1>4. \A i \in 1..Len(Tail(q)) : m[Tail(q)[i]] = p
  BY SMT, <1>1, <1>3 DEF Lined
<1>5. \A i, k \in 1..Len(Tail(q)) : i # k => Tail(q)[i] # Tail(q)[k]
  <2> TAKE i, k \in 1..Len(Tail(q))
  <2> HAVE i # k
  <2>1. i + 1 # k + 1 /\ i + 1 \in 1..Len(q) /\ k + 1 \in 1..Len(q)
    BY SMT, HeadTail
  <2> QED BY SMT, <2>1, <1>1 DEF Lined
<1> QED BY <1>4, <1>5 DEF Lined

\* The head of a lined-up queue is where the queue says it is.
LEMMA LinedHead ==
  ASSUME NEW q \in Seq(Jobs), NEW l, NEW p, Lined(q, l, p), q # <<>>
  PROVE  l[Head(q)] = p
  BY SMT, HeadTail DEF Lined

\* A queue stays lined up when a job from elsewhere joins its end.
LEMMA LinedAppend ==
  ASSUME NEW q \in Seq(Jobs), NEW l, NEW m, NEW p, Lined(q, l, p), NEW x \in Jobs,
         l[x] # p, m[x] = p, \A j \in Jobs : l[j] = p => m[j] = p
  PROVE  Lined(Append(q, x), m, p)
<1>1. /\ Len(Append(q, x)) = Len(q) + 1
      /\ \A i \in 1..Len(q) : Append(q, x)[i] = q[i] /\ q[i] # x /\ q[i] \in Jobs
      /\ Append(q, x)[Len(q) + 1] = x
  BY SMT DEF Lined
<1>2. \A i \in 1..Len(q) + 1 : i \in 1..Len(q) \/ i = Len(q) + 1
  BY SMT
<1> QED BY SMT, <1>1, <1>2 DEF Lined

\* What keeps HeldInv: no thread becomes a holder and no held job moves.
LEMMA HeldKeep ==
  ASSUME Shapes, HeldInv, UNCHANGED cur,
         \A t \in Submitters : pc'[t] \in HeldLabels => pc[t] \in HeldLabels,
         \A j \in Jobs : loc[j] = "held" => loc'[j] = "held"
  PROVE  HeldInv'
<1>1. "idle" \notin HeldLabels
  BY DEF HeldLabels
<1>2. \A t \in Submitters : pc[t] \in HeldLabels => cur[t] \in Jobs
  BY <1>1 DEF Shapes
<1> QED BY <1>2 DEF HeldInv

\* Nothing the invariant speaks of changes.
LEMMA CoherentFrame ==
  ASSUME Coherent,
         UNCHANGED <<pc, cur, mutex, requestQueue, fdQueue, batch, toFail, failing, loc,
                     status>>
  PROVE  Coherent'
  BY SMT DEF Coherent, LockInv, HeldInv, QueueInv, Lined, BatchInv, ReportedOnce

\* The collecting loop moves the head of the queue to the batch.
LEMMA TakeCoherent ==
  ASSUME Shapes, Coherent, NEW r \in Runners, PrqTake(r)
  PROVE  Coherent'
<1> DEFINE x == Head(requestQueue)
<1>1. /\ pc[r] = "prqTake" /\ pc' = [pc EXCEPT ![r] = "prqSem"]
      /\ requestQueue # <<>> /\ requestQueue' = Tail(requestQueue)
      /\ batch' = batch \cup {x}
      /\ \A j \in Jobs : loc'[j] = IF j = x THEN "batch" ELSE loc[j]
      /\ UNCHANGED <<cur, mutex, fdQueue, toFail, failing, status>>
  BY DEF PrqTake, Goto, MoveTo, outside, callVars, fdVars
<1>2. requestQueue \in Seq(Jobs) /\ fdQueue \in Seq(Jobs) /\ x \in Jobs
  BY <1>1, HeadTail DEF Shapes
<1> HIDE DEF x
<1>4. loc[x] = "queued"
  BY <1>1, <1>2, LinedHead DEF Coherent, QueueInv, x
<1>3. QueueInv'
  <2>1. Lined(Tail(requestQueue), loc', "queued")
    BY <1>1, <1>2, LinedTail DEF Coherent, QueueInv, x
  <2>3. Lined(fdQueue, loc', "fdQueued")
    BY <1>1, <1>2, <1>4, LinedKeep DEF Coherent, QueueInv
  <2> QED BY <1>1, <2>1, <2>3 DEF QueueInv
<1>5. LockInv'
  BY <1>1 DEF Coherent, LockInv, PrqLabels, Shapes
<1>6. HeldInv'
  <2>1. \A t \in Submitters : pc'[t] \in HeldLabels => pc[t] \in HeldLabels
    BY <1>1 DEF Shapes, HeldLabels, Runners
  <2> QED BY <1>1, <1>4, <2>1, HeldKeep DEF Coherent
<1>7. BatchInv'
  <2>1. mutex = r
    BY <1>1 DEF Coherent, LockInv, PrqLabels
  <2>2. \A s \in Runners : pc'[s] \notin {"prqFail", "prqCount"} /\ loc[x] # "failed"
    BY <1>1, <1>4, <2>1 DEF Coherent, LockInv, PrqLabels, Shapes
  <2>3. pc'[r] = "prqSem" /\ \A j \in Jobs : loc[j] # "failed"
    BY <1>1, <2>1 DEF Coherent, BatchInv, Shapes
  <2> QED BY SMT, <1>1, <1>2, <2>1, <2>2, <2>3 DEF Coherent, BatchInv
<1>8. ReportedOnce'
  BY <1>1, <1>2, <1>4 DEF Coherent, ReportedOnce
<1> QED BY <1>3, <1>5, <1>6, <1>7, <1>8 DEF Coherent

\* The fdQueue thread takes the head of its queue and reports it.
LEMMA FdConsumeCoherent ==
  ASSUME Shapes, Coherent, FdConsume
  PROVE  Coherent'
<1> DEFINE x == Head(fdQueue)
<1>1. UNCHANGED <<pc, cur, mutex, requestQueue, batch, toFail, failing>>
  BY DEF FdConsume, requestSide, qVars, prqVars, callVars
<1>2. CASE fdQueue = <<>>
  <2>1. UNCHANGED <<fdQueue, loc, status>>
    BY <1>2 DEF FdConsume, jobVars
  <2> QED BY <1>1, <2>1, CoherentFrame
<1>3. CASE fdQueue # <<>>
  <2>1. PICK code : status' = [status EXCEPT ![x] = Append(@, code)]
    BY <1>3 DEF FdConsume, doPostProcessingOfJob
  <2>2. /\ fdQueue' = Tail(fdQueue)
        /\ \A j \in Jobs : loc'[j] = IF j = x THEN "gone" ELSE loc[j]
    BY <1>3 DEF FdConsume, MoveTo
  <2>3. requestQueue \in Seq(Jobs) /\ fdQueue \in Seq(Jobs) /\ x \in Jobs
    BY <1>3, HeadTail DEF Shapes
  <2> HIDE DEF x
  <2>4. Lined(Tail(fdQueue), loc', "fdQueued")
    BY <1>3, <2>2, <2>3, LinedTail DEF Coherent, QueueInv, x
  <2>5. loc[x] = "fdQueued"
    BY <1>3, <2>3, LinedHead DEF Coherent, QueueInv, x
  <2>6. Lined(requestQueue, loc', "queued")
    BY <2>2, <2>3, <2>5, LinedKeep DEF Coherent, QueueInv
  <2>7. QueueInv'
    BY <1>1, <2>2, <2>4, <2>6 DEF QueueInv
  <2>8. LockInv' /\ HeldInv'
    BY <1>1, <2>2, <2>5, HeldKeep DEF Coherent, LockInv
  <2>9. BatchInv'
    BY SMT, <1>1, <2>2, <2>5 DEF Coherent, BatchInv
  <2>10. ReportedOnce'
    <3>1. status[x] = <<>>
      BY <2>3, <2>5 DEF Coherent, ReportedOnce
    <3>2. status'[x] = <<code>> /\ \A j \in Jobs : j # x => status'[j] = status[j]
      BY SMT, <2>1, <2>3, <3>1 DEF Shapes
    <3>3. Len(status'[x]) = 1 /\ status'[x] # <<>>
      BY SMT, <3>2
    <3> SUFFICES ASSUME NEW j \in Jobs
                 PROVE  /\ Len(status'[j]) <= 1
                        /\ status'[j] # <<>> <=> loc'[j] \in {"failed", "gone"}
      BY DEF ReportedOnce
    <3>4. CASE j = x
      <4>1. loc'[j] = "gone"
        BY <2>2, <3>4
      <4>2. Len(status'[j]) = 1 /\ status'[j] # <<>>
        BY <3>3, <3>4
      <4> QED BY SMT, <4>1, <4>2
    <3>5. CASE j # x
      BY <2>2, <3>2, <3>5 DEF Coherent, ReportedOnce
    <3> QED BY <3>4, <3>5
  <2> QED BY <2>7, <2>8, <2>9, <2>10 DEF Coherent
<1> QED BY <1>2, <1>3

\* The failing loop ends with an empty batch.
LEMMA GiveBackCoherent ==
  ASSUME Shapes, Coherent, NEW r \in Runners, PrqGiveBack(r)
  PROVE  Coherent'
<1>1. failing = "left"
  BY DEF Coherent, BatchInv
<1>2. /\ pc[r] = "prqFail" /\ pc' = [pc EXCEPT ![r] = "prqSpace"]
      /\ toFail = {} /\ batch' = {}
      /\ \A j \in Jobs : loc'[j] = IF j \in batch THEN "gone" ELSE loc[j]
      /\ UNCHANGED <<cur, mutex, requestQueue, fdQueue, toFail, failing, status>>
  BY <1>1 DEF PrqGiveBack, Goto, MoveTo, outside, callVars, fdVars, qVars
<1>3. \A j \in batch : j \in Jobs /\ loc[j] = "failed"
  BY <1>2 DEF Coherent, BatchInv
<1>4. mutex = r /\ pc'[r] = "prqSpace"
  BY <1>2 DEF Coherent, LockInv, PrqLabels, Shapes
<1>5. LockInv'
  BY <1>2 DEF Coherent, LockInv, PrqLabels, Shapes
<1>6. HeldInv'
  <2>1. \A t \in Submitters : pc'[t] \in HeldLabels => pc[t] \in HeldLabels
    BY <1>2 DEF Shapes, HeldLabels, Runners
  <2> QED BY <1>2, <1>3, <2>1, HeldKeep DEF Coherent
<1>7. QueueInv'
  <2>1. requestQueue \in Seq(Jobs) /\ fdQueue \in Seq(Jobs)
    BY DEF Shapes
  <2>2. Lined(requestQueue, loc', "queued")
    BY <1>2, <1>3, <2>1, LinedKeep DEF Coherent, QueueInv
  <2>3. Lined(fdQueue, loc', "fdQueued")
    BY <1>2, <1>3, <2>1, LinedKeep DEF Coherent, QueueInv
  <2> QED BY <1>2, <2>2, <2>3 DEF QueueInv
<1>8. BatchInv'
  <2>1. \A s \in Runners : pc'[s] \notin {"prqFail", "prqCount"}
    BY <1>2, <1>4 DEF Coherent, LockInv, PrqLabels, Shapes
  <2>2. \A j \in Jobs : loc'[j] \notin {"batch", "failed"}
    BY <1>2 DEF Coherent, BatchInv
  <2> QED BY <1>1, <1>2, <2>1, <2>2 DEF BatchInv
<1>9. ReportedOnce'
  BY <1>2, <1>3 DEF Coherent, ReportedOnce
<1> QED BY <1>5, <1>6, <1>7, <1>8, <1>9 DEF Coherent

\* NotifyAll moves only waiting threads.
LEMMA FdNotifyCoherent ==
  ASSUME Shapes, Coherent, FdNotify
  PROVE  Coherent'
<1>1. /\ UNCHANGED <<cur, mutex, requestQueue, fdQueue, batch, toFail, failing, loc, status>>
      /\ pc' = [r \in Runners |-> IF pc[r] = "fdWait" THEN "fdCount" ELSE pc[r]]
  BY DEF FdNotify, NotifyAll, requestSide, qVars, prqVars, callVars, fdVars, jobVars
<1>2. \A r \in Runners : pc'[r] \in PrqLabels <=> pc[r] \in PrqLabels
  BY <1>1 DEF PrqLabels
<1>3. \A r \in Runners : pc[r] \in PrqLabels => pc'[r] = pc[r]
  BY <1>1 DEF PrqLabels
<1>4. LockInv'
  BY <1>1, <1>2 DEF Coherent, LockInv
<1>5. HeldInv'
  <2>1. \A t \in Submitters : pc'[t] \in HeldLabels => pc[t] \in HeldLabels
    BY <1>1 DEF HeldLabels, Runners
  <2> QED BY <1>1, <2>1, HeldKeep DEF Coherent
<1>6. BatchInv'
  <2>1. {"prqFail", "prqCount"} \subseteq PrqLabels
    BY DEF PrqLabels
  <2>2. \A r \in Runners : pc'[r] \in {"prqFail", "prqCount"} => pc[r] \in {"prqFail", "prqCount"}
    BY <1>2, <1>3, <2>1
  <2> QED BY <1>1, <1>2, <1>3, <2>2 DEF Coherent, BatchInv, LockInv
<1> QED BY <1>1, <1>4, <1>5, <1>6 DEF Coherent, QueueInv, ReportedOnce

\* A push: the job leaves its thread for the end of a queue.
LEMMA PushCoherent ==
  ASSUME Shapes, Coherent, NEW t \in Submitters, RequestPush(t) \/ FdPush(t)
  PROVE  Coherent'
<1> DEFINE x == cur[t]
<1>1. /\ pc[t] \in {"rqPush", "fdPush"}
      /\ \/ pc' = [pc EXCEPT ![t] = "rqMin"]
         \/ pc' = [pc EXCEPT ![t] = "fdPost"]
      /\ UNCHANGED <<cur, mutex, batch, toFail, failing, status>>
  BY DEF RequestPush, FdPush, Goto, outside, requestSide, callVars, qVars, fdVars, prqVars
<1>2. x \in Jobs /\ loc[x] = "held" /\ pc[t] \in HeldLabels
  BY <1>1 DEF Shapes, Coherent, HeldInv, HeldLabels
<1>3. \A r \in Runners : pc'[r] \in PrqLabels <=> pc[r] \in PrqLabels
  BY SMT, <1>1 DEF PrqLabels, Shapes, Runners
<1>4. \A r \in Runners : pc[r] \in PrqLabels => pc'[r] = pc[r]
  BY <1>1 DEF PrqLabels, Shapes, Runners
<1>5. \A u \in Submitters : pc'[u] \in HeldLabels => pc[u] \in HeldLabels /\ u # t
  BY SMT, <1>1 DEF HeldLabels, Shapes, Runners
<1>6. \E p \in {"queued", "fdQueued"} :
        \A j \in Jobs : loc'[j] = IF j = x THEN p ELSE loc[j]
  BY DEF RequestPush, FdPush, MoveTo
<1>7. LockInv'
  BY <1>1, <1>3 DEF Coherent, LockInv
<1>8. HeldInv'
  <2>1. \A u \in Submitters : u # t /\ pc[u] \in HeldLabels => cur[u] # x /\ cur[u] \in Jobs
    BY <1>2 DEF Shapes, Coherent, HeldInv, HeldLabels
  <2> HIDE DEF x
  <2> QED BY <1>1, <1>5, <1>6, <2>1 DEF Coherent, HeldInv
<1>9. QueueInv'
  <2>1. requestQueue \in Seq(Jobs) /\ fdQueue \in Seq(Jobs)
    BY DEF Shapes
  <2>2. CASE RequestPush(t)
    <3>1. /\ \A j \in Jobs : loc'[j] = IF j = x THEN "queued" ELSE loc[j]
          /\ requestQueue' = Append(requestQueue, x)
          /\ UNCHANGED fdQueue
      BY <2>2 DEF RequestPush, MoveTo, outside, fdVars
    <3> HIDE DEF x
    <3>2. Lined(Append(requestQueue, x), loc', "queued")
      BY <1>2, <2>1, <3>1, LinedAppend DEF Coherent, QueueInv
    <3>3. Lined(fdQueue, loc', "fdQueued")
      BY <1>2, <2>1, <3>1, LinedKeep DEF Coherent, QueueInv
    <3> QED BY <3>1, <3>2, <3>3 DEF QueueInv
  <2>3. CASE FdPush(t)
    <3>1. /\ \A j \in Jobs : loc'[j] = IF j = x THEN "fdQueued" ELSE loc[j]
          /\ fdQueue' = Append(fdQueue, x)
          /\ UNCHANGED requestQueue
      BY <2>3 DEF FdPush, MoveTo, requestSide, qVars
    <3> HIDE DEF x
    <3>2. Lined(Append(fdQueue, x), loc', "fdQueued")
      BY <1>2, <2>1, <3>1, LinedAppend DEF Coherent, QueueInv
    <3>3. Lined(requestQueue, loc', "queued")
      BY <1>2, <2>1, <3>1, LinedKeep DEF Coherent, QueueInv
    <3> QED BY <3>1, <3>2, <3>3 DEF QueueInv
  <2> QED BY <2>2, <2>3
<1>10. BatchInv'
  <2>1. {"prqFail", "prqCount"} \subseteq PrqLabels
    BY DEF PrqLabels
  <2>2. \A r \in Runners : pc'[r] \in {"prqFail", "prqCount"} => pc[r] \in {"prqFail", "prqCount"}
    BY <1>3, <1>4, <2>1
  <2>3. \A j \in Jobs : \A p \in {"batch", "failed"} : loc'[j] = p <=> loc[j] = p
    BY <1>2, <1>6
  <2>4. mutex \in Runners => pc'[mutex] = pc[mutex]
    BY <1>4 DEF Coherent, LockInv
  <2>5. /\ batch' = {j \in Jobs : loc'[j] \in {"batch", "failed"}}
        /\ {j \in Jobs : loc'[j] = "batch"} = {j \in Jobs : loc[j] = "batch"}
    BY <1>1, <2>3 DEF Coherent, BatchInv
  <2> QED BY <1>1, <2>2, <2>3, <2>4, <2>5 DEF Coherent, BatchInv
<1>11. ReportedOnce'
  BY <1>1, <1>2, <1>6 DEF Coherent, ReportedOnce
<1> QED BY <1>7, <1>8, <1>9, <1>10, <1>11 DEF Coherent

\* Thread r goes from one label to another and nothing else changes that the
\* invariant speaks of.
Hop(r, from, to) ==
  /\ pc[r] = from
  /\ pc' = [pc EXCEPT ![r] = to]
  /\ UNCHANGED <<cur, mutex, requestQueue, fdQueue, batch, toFail, failing, loc, status>>

\* A step that only moves one thread between two labels of the same kind.
LEMMA HopCoherent ==
  ASSUME Shapes, Coherent, NEW r \in Runners, NEW from, NEW to, Hop(r, from, to),
         from \in PrqLabels <=> to \in PrqLabels,
         to \in HeldLabels => from \in HeldLabels,
         from \notin {"prqFail", "prqCount"},
         to \notin {"prqFail", "prqCount", "prqCtx", "prqSpace", "prqNotify"}
  PROVE  Coherent'
<1>1. \A s \in Runners : pc'[s] = IF s = r THEN to ELSE pc[s]
  BY DEF Hop, Shapes
<1>2. LockInv'
  BY <1>1 DEF Coherent, LockInv, Hop
<1>3. HeldInv'
  <2>1. \A t \in Submitters : pc'[t] \in HeldLabels => pc[t] \in HeldLabels
    BY <1>1 DEF Hop, Runners
  <2> QED BY <2>1, HeldKeep DEF Coherent, Hop
<1>4. BatchInv'
  <2>1. \A s \in Runners : pc'[s] \in {"prqFail", "prqCount"} <=> pc[s] \in {"prqFail", "prqCount"}
    BY <1>1 DEF Hop
  <2>2. mutex = r => to \in {"prqTake", "prqSem", "prqSubmit", "prqLeft"}
    BY DEF Coherent, LockInv, Hop, PrqLabels
  <2>3. batch # {} => /\ mutex \in Runners
                      /\ pc'[mutex] \in {"prqTake", "prqSem", "prqSubmit", "prqLeft", "prqFail",
                                         "prqCount"}
    BY <1>1, <2>2 DEF Coherent, BatchInv
  <2> QED BY <2>1, <2>3 DEF Coherent, BatchInv, Hop
<1> QED BY <1>2, <1>3, <1>4 DEF Coherent, QueueInv, ReportedOnce, Hop

\* No queued job changes its place.
Elsewhere == \A j \in Jobs : /\ loc[j] = "queued" => loc'[j] = "queued"
                             /\ loc[j] = "fdQueued" => loc'[j] = "fdQueued"

\* What keeps QueueInv: the queues stay and no queued job moves.
LEMMA QueueKeep ==
  ASSUME Shapes, QueueInv, Elsewhere, UNCHANGED <<requestQueue, fdQueue>>
  PROVE  QueueInv'
<1>1. Lined(requestQueue, loc', "queued")
  BY LinedKeep DEF QueueInv, Shapes, Elsewhere
<1>2. Lined(fdQueue, loc', "fdQueued")
  BY LinedKeep DEF QueueInv, Shapes, Elsewhere
<1> QED BY <1>1, <1>2 DEF QueueInv

\* A refused job goes back to its client and its thread leaves.
LEMMA RejectCoherent ==
  ASSUME Shapes, Coherent, NEW t \in Submitters, pc[t] \in HeldLabels, Reject(t),
         UNCHANGED <<cur, mutex, requestQueue, fdQueue, batch, toFail, failing, status>>
  PROVE  Coherent'
<1> DEFINE x == cur[t]
<1>1. /\ \A s \in Runners : pc'[s] = IF s = t THEN "idle" ELSE pc[s]
      /\ \A j \in Jobs : loc'[j] = IF j = x THEN "returned" ELSE loc[j]
  BY DEF Reject, Goto, MoveTo, Shapes
<1>2. pc[t] \notin PrqLabels /\ pc[t] # "idle" /\ t \in Runners
  BY DEF HeldLabels, PrqLabels, Runners
<1>3. loc[x] = "held" /\ x \in Jobs
  BY <1>2 DEF Coherent, HeldInv, Shapes
<1>4. \A u \in Submitters : u # t /\ pc[u] \in HeldLabels => cur[u] # x
  BY DEF Coherent, HeldInv
<1> HIDE DEF x
<1>5. LockInv'
  BY <1>1, <1>2 DEF Coherent, LockInv, PrqLabels
<1>6. HeldInv'
  <2>1. \A u \in Submitters : pc'[u] \in HeldLabels => u # t /\ pc[u] \in HeldLabels /\ cur[u] \in Jobs
    BY SMT, <1>1 DEF HeldLabels, Runners, Shapes
  <2> QED BY <1>1, <1>4, <2>1 DEF Coherent, HeldInv
<1>7. QueueInv'
  <2>1. Elsewhere
    BY <1>1, <1>3 DEF Elsewhere
  <2> QED BY <2>1, <1>1, <1>3, QueueKeep DEF Coherent
<1>8. BatchInv'
  <2>1. mutex # t
    BY <1>2 DEF Coherent, LockInv
  <2>2. \A j \in Jobs : /\ loc'[j] = "batch" <=> loc[j] = "batch"
                        /\ loc'[j] = "failed" <=> loc[j] = "failed"
    BY <1>1, <1>3
  <2> QED BY SMT, <1>1, <2>1, <2>2 DEF Coherent, BatchInv
<1>9. ReportedOnce'
  BY <1>1, <1>3 DEF Coherent, ReportedOnce
<1> QED BY <1>5, <1>6, <1>7, <1>8, <1>9 DEF Coherent

\* A first report is one report.
LEMMA AppendOne ==
  \A c : Append(<<>>, c) = <<c>> /\ Len(<<c>>) <= 1 /\ <<c>> # <<>>
BY SMT

\* Every job stays where it is, or comes out of the kernel, or is reported.
Completed ==
  \A j \in Jobs :
    \/ loc'[j] = loc[j] /\ status'[j] = status[j]
    \/ /\ loc[j] \in {"kernel", "event"} /\ loc'[j] \in {"event", "reaped"}
       /\ status'[j] = status[j]
    \/ /\ loc[j] = "reaped" /\ loc'[j] = "gone"
       /\ \E c \in Codes : status'[j] = Append(status[j], c)

\* A job goes from the kernel to the completion thread and is reported there.
LEMMA CompletionCoherent ==
  ASSUME Shapes, Coherent,
         \A s \in Runners : \/ pc'[s] = pc[s]
                            \/ s = Completer /\ {pc[s], pc'[s]} \cap PrqLabels = {},
         Completed,
         UNCHANGED <<cur, mutex, requestQueue, fdQueue, batch, toFail, failing>>
  PROVE  Coherent'
<1>1. LockInv'
  BY DEF Coherent, LockInv
<1>2. HeldInv'
  <2>1. \A u \in Submitters : pc'[u] = pc[u]
    BY DEF Runners
  <2>2. \A j \in Jobs : loc[j] = "held" => loc'[j] = "held"
    BY DEF Completed
  <2> QED BY <2>1, <2>2, HeldKeep DEF Coherent
<1>3. QueueInv'
  <2>1. Elsewhere
    BY DEF Elsewhere, Completed
  <2> QED BY <2>1, QueueKeep DEF Coherent
<1>4. BatchInv'
  <2>1. \A j \in Jobs : /\ loc'[j] = "batch" <=> loc[j] = "batch"
                        /\ loc'[j] = "failed" <=> loc[j] = "failed"
    BY DEF Completed
  <2>2. mutex \in Runners => pc'[mutex] = pc[mutex]
    BY DEF Coherent, LockInv, PrqLabels
  <2>3. \A r \in Runners : pc'[r] \in {"prqFail", "prqCount"} => pc[r] \in {"prqFail", "prqCount"}
    BY DEF PrqLabels
  <2> QED BY SMT, <2>1, <2>2, <2>3 DEF Coherent, BatchInv
<1>5. ReportedOnce'
  <2> SUFFICES ASSUME NEW j \in Jobs
               PROVE  Len(status'[j]) <= 1 /\ (status'[j] # <<>> <=> loc'[j] \in {"failed", "gone"})
    BY DEF ReportedOnce
  <2>1. Len(status[j]) <= 1 /\ (status[j] # <<>> <=> loc[j] \in {"failed", "gone"})
    BY DEF Coherent, ReportedOnce
  <2>2. CASE loc'[j] = loc[j] /\ status'[j] = status[j]
    BY <2>1, <2>2
  <2>3. CASE /\ loc[j] \in {"kernel", "event"} /\ loc'[j] \in {"event", "reaped"}
             /\ status'[j] = status[j]
    BY <2>1, <2>3
  <2>4. CASE /\ loc[j] = "reaped" /\ loc'[j] = "gone"
             /\ \E c \in Codes : status'[j] = Append(status[j], c)
    <3>1. PICK c \in Codes : status'[j] = Append(status[j], c)
      BY <2>4
    <3>2. status[j] = <<>>
      BY <2>1, <2>4
    <3>3. status'[j] = Append(<<>>, c)
      BY <3>1, <3>2
    <3>4. Len(status'[j]) <= 1 /\ status'[j] # <<>>
      BY <3>3, AppendOne
    <3> QED BY <2>4, <3>4
  <2> QED BY <2>2, <2>3, <2>4 DEF Completed
<1> QED BY <1>1, <1>2, <1>3, <1>4, <1>5 DEF Coherent

-----------------------------------------------------------------------------
(***************************************************************************)
(* Which thread and which container every job is with: every step.         *)
(***************************************************************************)
\* The mutex changes hands while the batch is empty.
LEMMA MutexCoherent ==
  ASSUME Shapes, Coherent, batch = {}, LockInv',
         \A u \in Submitters : pc'[u] \in HeldLabels => pc[u] \in HeldLabels,
         \A r \in Runners : pc'[r] \notin {"prqFail", "prqCount"},
         UNCHANGED <<cur, requestQueue, fdQueue, batch, toFail, failing, loc, status>>
  PROVE  Coherent'
<1>1. HeldInv'
  BY HeldKeep DEF Coherent
<1>2. BatchInv'
  <2>1. \A j \in Jobs : loc[j] \notin {"batch", "failed"}
    BY DEF Coherent, BatchInv
  <2> QED BY <2>1 DEF Coherent, BatchInv
<1> QED BY <1>1, <1>2 DEF Coherent, QueueInv, ReportedOnce

\* A thread enters submitTask with a job that is with nobody else.
LEMMA EnterCoherent ==
  ASSUME Shapes, Coherent, NEW t \in Submitters, NEW j \in Jobs, NEW b \in BlockingModes,
         submitTask(t, j, b)
  PROVE  Coherent'
<1>1. /\ pc[t] = "idle" /\ loc[j] = "new"
      /\ \A s \in Runners : pc'[s] = IF s = t THEN "state" ELSE pc[s]
      /\ \A u \in Submitters : cur'[u] = IF u = t THEN j ELSE cur[u]
      /\ \A k \in Jobs : loc'[k] = IF k = j THEN "held" ELSE loc[k]
      /\ UNCHANGED <<mutex, requestQueue, fdQueue, batch, toFail, failing, status>>
  BY DEF submitTask, Goto, MoveTo, Shapes, requestSide, qVars, fdVars, prqVars
<1>2. LockInv'
  BY SMT, <1>1 DEF Coherent, LockInv, PrqLabels
<1>3. HeldInv'
  <2>1. \A u \in Submitters : u # t /\ pc'[u] \in HeldLabels =>
          pc[u] \in HeldLabels /\ cur[u] \in Jobs /\ loc[cur[u]] = "held" /\ cur[u] # j
    BY SMT, <1>1 DEF Coherent, HeldInv, HeldLabels, Runners, Shapes
  <2> QED BY SMT, <1>1, <2>1 DEF Coherent, HeldInv, Runners
<1>4. QueueInv'
  <2>1. Elsewhere
    BY <1>1 DEF Elsewhere
  <2> QED BY <2>1, <1>1, QueueKeep DEF Coherent
<1>5. BatchInv'
  <2>1. mutex # t
    BY <1>1 DEF Coherent, LockInv, PrqLabels, Runners
  <2>2. \A k \in Jobs : /\ loc'[k] = "batch" <=> loc[k] = "batch"
                        /\ loc'[k] = "failed" <=> loc[k] = "failed"
    BY <1>1
  <2>3. \A r \in Runners : pc'[r] \in {"prqFail", "prqCount"} => pc[r] \in {"prqFail", "prqCount"}
    BY <1>1
  <2> QED BY SMT, <1>1, <2>1, <2>2, <2>3 DEF Coherent, BatchInv
<1>6. ReportedOnce'
  BY <1>1 DEF Coherent, ReportedOnce
<1> QED BY <1>2, <1>3, <1>4, <1>5, <1>6 DEF Coherent

\* io_submit takes the batch of the holder of the mutex.
LEMMA SubmitAllCoherent ==
  ASSUME Shapes, Coherent, NEW r \in Runners, PrqSubmitAll(r)
  PROVE  Coherent'
<1>1. /\ pc[r] = "prqSubmit"
      /\ \A s \in Runners : pc'[s] = IF s = r THEN "prqLeft" ELSE pc[s]
      /\ \A j \in Jobs : loc'[j] = IF j \in batch THEN "kernel" ELSE loc[j]
      /\ batch' = {}
      /\ UNCHANGED <<cur, mutex, requestQueue, fdQueue, toFail, failing, status>>
  BY DEF PrqSubmitAll, Goto, MoveTo, Shapes, qVars, fdVars, outside, callVars
<1>2. mutex = r
  BY <1>1 DEF Coherent, LockInv, PrqLabels
<1>3. \A j \in Jobs : j \in batch <=> loc[j] = "batch"
  BY <1>1, <1>2 DEF Coherent, BatchInv
<1>4. LockInv'
  BY SMT, <1>1 DEF Coherent, LockInv, PrqLabels
<1>5. HeldInv'
  <2>1. \A u \in Submitters : pc'[u] \in HeldLabels => pc[u] \in HeldLabels
    BY <1>1 DEF HeldLabels, Runners
  <2> QED BY <1>1, <1>3, <2>1, HeldKeep DEF Coherent
<1>6. QueueInv'
  <2>1. Elsewhere
    BY <1>1, <1>3 DEF Elsewhere
  <2> QED BY <2>1, <1>1, <1>3, QueueKeep DEF Coherent
<1>7. BatchInv'
  <2>1. \A s \in Runners : pc'[s] \notin {"prqFail", "prqCount"}
    BY <1>1, <1>2 DEF Coherent, LockInv, PrqLabels
  <2>2. \A j \in Jobs : loc[j] # "failed"
    BY <1>1, <1>2 DEF Coherent, BatchInv
  <2> QED BY SMT, <1>1, <1>3, <2>1, <2>2 DEF Coherent, BatchInv
<1>8. ReportedOnce'
  BY <1>1, <1>3 DEF Coherent, ReportedOnce
<1> QED BY <1>4, <1>5, <1>6, <1>7, <1>8 DEF Coherent

\* The holder of the mutex finds that something is left.
LEMMA LeftCoherent ==
  ASSUME Shapes, Coherent, NEW r \in Runners, pc[r] = "prqLeft", toFail' = batch,
         failing' = "left", Goto(r, "prqFail"),
         UNCHANGED <<cur, mutex, requestQueue, fdQueue, batch, loc, status>>
  PROVE  Coherent'
<1>1. \A s \in Runners : pc'[s] = IF s = r THEN "prqFail" ELSE pc[s]
  BY DEF Goto, Shapes
<1>2. mutex = r
  BY DEF Coherent, LockInv, PrqLabels
<1>3. LockInv'
  BY <1>1 DEF Coherent, LockInv, PrqLabels
<1>4. HeldInv'
  <2>1. \A u \in Submitters : pc'[u] \in HeldLabels => pc[u] \in HeldLabels
    BY <1>1 DEF HeldLabels, Runners
  <2> QED BY <2>1, HeldKeep DEF Coherent
<1>5. BatchInv'
  <2>1. batch = {j \in Jobs : loc[j] = "batch"} /\ \A j \in Jobs : loc[j] # "failed"
    BY <1>2 DEF Coherent, BatchInv
  <2> QED BY <1>1, <1>2, <2>1 DEF Coherent, BatchInv
<1> QED BY <1>3, <1>4, <1>5 DEF Coherent, QueueInv, ReportedOnce

\* One turn of the failing loop reports a job of the batch.
LEMMA FailCoherent ==
  ASSUME Shapes, Coherent, NEW r \in Runners, PrqFail(r)
  PROVE  Coherent'
<1>1. PICK x \in toFail : doPostProcessingOfJob(x, "EINVAL") /\ MoveTo({x}, "failed")
                          /\ toFail' = toFail \ {x}
  BY DEF PrqFail, Coherent, BatchInv
<1>2. /\ pc[r] = "prqFail" /\ toFail \in SUBSET Jobs
      /\ \A s \in Runners : pc'[s] = IF s = r THEN "prqCount" ELSE pc[s]
      /\ UNCHANGED <<cur, mutex, requestQueue, fdQueue, batch, failing>>
  BY DEF PrqFail, Goto, outside, qVars, fdVars, callVars, Shapes
<1>3. x \in Jobs /\ loc[x] = "batch" /\ mutex = r
  BY <1>1, <1>2 DEF Coherent, BatchInv, LockInv, PrqLabels
<1>4. /\ \A j \in Jobs : loc'[j] = IF j = x THEN "failed" ELSE loc[j]
      /\ \A j \in Jobs : j # x => status'[j] = status[j]
      /\ status'[x] = Append(status[x], "EINVAL")
  BY <1>1, <1>3 DEF doPostProcessingOfJob, MoveTo, Shapes
<1>5. LockInv'
  BY <1>2 DEF Coherent, LockInv, PrqLabels
<1>6. HeldInv'
  <2>1. \A u \in Submitters : pc'[u] \in HeldLabels => pc[u] \in HeldLabels
    BY <1>2 DEF HeldLabels, Runners
  <2> QED BY <1>2, <1>3, <1>4, <2>1, HeldKeep DEF Coherent
<1>7. QueueInv'
  <2>1. Elsewhere
    BY <1>3, <1>4, <1>2 DEF Elsewhere
  <2> QED BY <2>1, <1>3, <1>4, <1>2, QueueKeep DEF Coherent
<1>8. BatchInv'
  <2>1. toFail = {j \in Jobs : loc[j] = "batch"}
    BY <1>2 DEF Coherent, BatchInv
  <2>2. toFail' = {j \in Jobs : loc'[j] = "batch"}
    BY <1>1, <1>4, <2>1
  <2>3. batch' = {j \in Jobs : loc'[j] \in {"batch", "failed"}}
    BY <1>2, <1>3, <1>4 DEF Coherent, BatchInv
  <2> QED BY <1>2, <1>3, <2>2, <2>3 DEF Coherent, BatchInv
<1>9. ReportedOnce'
  <2>1. status[x] = <<>>
    BY <1>3 DEF Coherent, ReportedOnce
  <2>2. status'[x] = Append(<<>>, "EINVAL")
    BY <1>4, <2>1
  <2>3. Len(status'[x]) <= 1 /\ status'[x] # <<>>
    BY <2>2, AppendOne
  <2> QED BY <1>3, <1>4, <2>3 DEF Coherent, ReportedOnce
<1> QED BY <1>5, <1>6, <1>7, <1>8, <1>9 DEF Coherent

\* The failing loop counts the job it has reported.
LEMMA FailCountCoherent ==
  ASSUME Shapes, Coherent, NEW r \in Runners, PrqFailCount(r)
  PROVE  Coherent'
<1>1. /\ pc[r] = "prqCount"
      /\ \A s \in Runners : pc'[s] = IF s = r THEN "prqFail" ELSE pc[s]
      /\ UNCHANGED <<cur, mutex, requestQueue, fdQueue, batch, toFail, failing, loc, status>>
  BY DEF PrqFailCount, Goto, outside, requestSide, qVars, fdVars, prqVars, callVars, jobVars,
         Shapes
<1>2. mutex = r
  BY <1>1 DEF Coherent, LockInv, PrqLabels
<1>3. LockInv'
  BY <1>1 DEF Coherent, LockInv, PrqLabels
<1>4. HeldInv'
  <2>1. \A u \in Submitters : pc'[u] \in HeldLabels => pc[u] \in HeldLabels
    BY <1>1 DEF HeldLabels, Runners
  <2> QED BY <1>1, <2>1, HeldKeep DEF Coherent
<1>5. BatchInv'
  <2>1. \A s \in Runners : pc'[s] \in {"prqFail", "prqCount"} => pc[s] \in {"prqFail", "prqCount"}
    BY <1>1
  <2> QED BY <1>1, <1>2, <2>1 DEF Coherent, BatchInv
<1> QED BY <1>1, <1>3, <1>4, <1>5 DEF Coherent, QueueInv, ReportedOnce

\* Every step keeps every job with exactly one holder.
LEMMA CoherentStep ==
  ASSUME Reliable, TypeInv, Coherent, [Next]_vars
  PROVE  Coherent'
<1>1. ASSUME NEW r \in Runners, PrqSubmitPart(r) PROVE FALSE
  BY <1>1 DEF PrqSubmitPart, Reliable
<1>2. ASSUME NEW r \in Runners, PrqSubmitFatal(r) PROVE FALSE
  BY <1>2 DEF PrqSubmitFatal, Reliable
<1>0. Shapes
  BY ShapesType
<1> USE <1>0 DEF stopVars, qVars, fdVars, ctxVars, prqVars, callVars, jobVars, counts,
                 requestSide, outside, allButPc, allButStop, Runners, PrqLabels, HeldLabels
\* Actions that only move one thread, or nothing the invariant speaks of.
<1>3. ASSUME NEW t \in Submitters, RequestPause(t) PROVE Coherent'
  <2>1. Hop(t, "rqPause", "rqWait")
    BY <1>3 DEF RequestPause, Pause, Hop, Goto
  <2> QED BY <2>1, HopCoherent
<1>4. ASSUME NEW t \in Submitters, RequestSize(t) PROVE Coherent'
  <2>1. Hop(t, "rqSize", "rqCount")
    BY <1>4 DEF RequestSize, Hop, Goto
  <2> QED BY <2>1, HopCoherent
<1>5. ASSUME NEW t \in Submitters, RequestCount(t) PROVE Coherent'
  <2>1. Hop(t, "rqCount", "rqPush")
    BY <1>5 DEF RequestCount, Hop, Goto
  <2> QED BY <2>1, HopCoherent
<1>6. ASSUME NEW t \in Submitters, RequestPush(t) PROVE Coherent'
  BY <1>6, PushCoherent
<1>7. ASSUME NEW t \in Submitters, RequestMin(t) PROVE Coherent'
  <2>1. Hop(t, "rqMin", IF requestQueueSize >= MinSubmitSize THEN "rqLock" ELSE "idle")
    BY <1>7 DEF RequestMin, Hop, Goto
  <2> QED BY <2>1, HopCoherent
<1>8. ASSUME NEW t \in Submitters, FdPause(t) PROVE Coherent'
  <2>1. Hop(t, "fdPause", "fdWait")
    BY <1>8 DEF FdPause, Pause, Hop, Goto
  <2> QED BY <2>1, HopCoherent
<1>9. ASSUME NEW t \in Submitters, FdCount(t) PROVE Coherent'
  <2>1. Hop(t, "fdCount", "fdSize")
    BY <1>9 DEF FdCount, Hop, Goto
  <2> QED BY <2>1, HopCoherent
<1>10. ASSUME NEW t \in Submitters, FdSize(t) PROVE Coherent'
  <2>1. Hop(t, "fdSize", "fdPush")
    BY <1>10 DEF FdSize, Hop, Goto
  <2> QED BY <2>1, HopCoherent
<1>11. ASSUME NEW t \in Submitters, FdPush(t) PROVE Coherent'
  BY <1>11, PushCoherent
<1>12. ASSUME NEW t \in Submitters, FdPost(t) PROVE Coherent'
  <2>1. Hop(t, "fdPost", "idle")
    BY <1>12 DEF FdPost, Hop, Goto
  <2> QED BY <2>1, HopCoherent
<1>13. ASSUME NEW t \in Submitters, RequestSpurious(t) PROVE Coherent'
  <2>1. Hop(t, "rqWait", "rqSize")
    BY <1>13 DEF RequestSpurious, SpuriousWakeup, Hop, Goto
  <2> QED BY <2>1, HopCoherent
<1>14. ASSUME NEW t \in Submitters, FdSpurious(t) PROVE Coherent'
  <2>1. Hop(t, "fdWait", "fdCount")
    BY <1>14 DEF FdSpurious, SpuriousWakeup, Hop, Goto
  <2> QED BY <2>1, HopCoherent
<1>15. ASSUME NEW r \in Runners, PrqCtx(r) PROVE Coherent'
  <2>1. Hop(r, "prqCtx", "prqTake")
    BY <1>15 DEF PrqCtx, Hop, Goto
  <2> QED BY <2>1, HopCoherent
<1>16. ASSUME NEW r \in Runners, PrqTake(r) PROVE Coherent'
  BY <1>16, TakeCoherent
<1>17. ASSUME NEW r \in Runners, PrqSem(r) PROVE Coherent'
  <2>1. Hop(r, "prqSem", "prqTake")
    BY <1>17 DEF PrqSem, Hop, Goto
  <2> QED BY <2>1, HopCoherent
<1>18. ASSUME NEW r \in Runners, PrqSubmitRetry(r) PROVE Coherent'
  BY <1>18, CoherentFrame DEF PrqSubmitRetry
<1>19. ASSUME NEW r \in Runners, PrqSubmitPart(r) PROVE Coherent'
  BY <1>19, <1>1
<1>20. ASSUME NEW r \in Runners, PrqSubmitFatal(r) PROVE Coherent'
  BY <1>20, <1>2
<1>21. ASSUME NEW r \in Runners, PrqSubmitGivesUp(r) PROVE Coherent'
  <2>1. Hop(r, "prqSubmit", "prqLeft")
    BY <1>21 DEF PrqSubmitGivesUp, Hop, Goto
  <2> QED BY <2>1, HopCoherent
<1>22. ASSUME NEW r \in Runners, PrqGiveBack(r) PROVE Coherent'
  BY <1>22, GiveBackCoherent
<1>23. ASSUME CompleterLoop PROVE Coherent'
  <2>1. Hop(Completer, "loop", IF AllDone THEN "exited" ELSE "epoll")
    BY <1>23 DEF CompleterLoop, Hop, Goto
  <2> QED BY <2>1, HopCoherent
<1>24. ASSUME EpollWait PROVE Coherent'
  <2>1. Hop(Completer, "epoll", "event")
    BY <1>24 DEF EpollWait, Hop, Goto
  <2> QED BY <2>1, HopCoherent
<1>25. ASSUME EventsHandled PROVE Coherent'
  <2>1. Hop(Completer, "event", "loop")
    BY <1>25 DEF EventsHandled, Hop, Goto
  <2> QED BY <2>1, HopCoherent
<1>26. ASSUME CallbackInc PROVE Coherent'
  <2>1. Hop(Completer, "inc", "post")
    BY <1>26 DEF CallbackInc, Hop, Goto
  <2> QED BY <2>1, HopCoherent
<1>27. ASSUME CallbackPost PROVE Coherent'
  <2>1. Hop(Completer, "post", "reap")
    BY <1>27 DEF CallbackPost, Hop, Goto
  <2> QED BY <2>1, HopCoherent
<1>28. ASSUME CallbacksDone PROVE Coherent'
  <2>1. Hop(Completer, "reap", "event")
    BY <1>28 DEF CallbacksDone, Hop, Goto
  <2> QED BY <2>1, HopCoherent
<1>29. ASSUME NEW e \in {"shutdown", "timer"}, WakeupEvent(e) PROVE Coherent'
  <2>1. Hop(Completer, "event", IF state = "FINAL_SHUTDOWN" THEN "lock" ELSE "event")
    BY <1>29 DEF WakeupEvent, Hop, Goto
  <2> QED BY <2>1, HopCoherent
<1>30. ASSUME FdLoop PROVE Coherent'
  BY <1>30, CoherentFrame DEF FdLoop
<1>31. ASSUME FdWait PROVE Coherent'
  BY <1>31, CoherentFrame DEF FdWait, fdPause
<1>32. ASSUME FdConsume PROVE Coherent'
  BY <1>32, FdConsumeCoherent
<1>33. ASSUME FdDec PROVE Coherent'
  BY <1>33, CoherentFrame DEF FdDec
<1>34. ASSUME FdSpace PROVE Coherent'
  BY <1>34, CoherentFrame DEF FdSpace
<1>35. ASSUME FdNotify PROVE Coherent'
  BY <1>35, FdNotifyCoherent
<1>36. ASSUME stop PROVE Coherent'
  BY <1>36, CoherentFrame DEF stop
<1>37. ASSUME StopFdWake PROVE Coherent'
  BY <1>37, CoherentFrame DEF StopFdWake, fdWakeup
<1>38. ASSUME StopFdJoin PROVE Coherent'
  BY <1>38, CoherentFrame DEF StopFdJoin
<1>39. ASSUME StopSend PROVE Coherent'
  BY <1>39, CoherentFrame DEF StopSend
<1>40. ASSUME StopJoin PROVE Coherent'
  BY <1>40, CoherentFrame DEF StopJoin
<1>41. ASSUME UNCHANGED vars PROVE Coherent'
  BY <1>41, CoherentFrame DEF vars
\* Actions that move a job, the batch or the mutex.
<1>42. ASSUME NEW t \in Submitters, NEW j \in Jobs, NEW b \in BlockingModes,
            submitTask(t, j, b) PROVE Coherent'
  BY <1>42, EnterCoherent
<1>43. ASSUME NEW t \in Submitters, CheckState(t) PROVE Coherent'
  <2>1. pc[t] = "state" /\ UNCHANGED <<requestSide, stopVars, fdPc, fdVars, events, counts,
                                       cur, res, status>>
    BY <1>43 DEF CheckState
  <2>2. CASE Reject(t)
    BY <2>1, <2>2, RejectCoherent
  <2>3. CASE Goto(t, IF cur[t] \in FdJobs THEN "fdRoom" ELSE "rqRoom") /\ UNCHANGED loc
    <3>1. Hop(t, "state", IF cur[t] \in FdJobs THEN "fdRoom" ELSE "rqRoom")
      BY <2>1, <2>3 DEF Hop, Goto
    <3> QED BY <3>1, HopCoherent
  <2> QED BY <1>43, <2>2, <2>3 DEF CheckState
<1>44. ASSUME NEW t \in Submitters, RequestRoom(t) PROVE Coherent'
  <2>1. pc[t] = "rqRoom" /\ UNCHANGED <<outside, requestSide, counts, res, status>>
    BY <1>44 DEF RequestRoom, CheckRoom
  <2>2. CASE Reject(t)
    BY <2>1, <2>2, RejectCoherent
  <2>3. CASE Goto(t, "rqPause") /\ UNCHANGED loc
    <3>1. Hop(t, "rqRoom", "rqPause")
      BY <2>1, <2>3 DEF Hop, Goto
    <3> QED BY <3>1, HopCoherent
  <2>4. CASE Goto(t, "rqSize") /\ UNCHANGED loc
    <3>1. Hop(t, "rqRoom", "rqSize")
      BY <2>1, <2>4 DEF Hop, Goto
    <3> QED BY <3>1, HopCoherent
  <2> QED BY <1>44, <2>2, <2>3, <2>4 DEF RequestRoom, CheckRoom
<1>45. ASSUME NEW t \in Submitters, FdRoom(t) PROVE Coherent'
  <2>1. pc[t] = "fdRoom" /\ UNCHANGED <<outside, requestSide, counts, res, status>>
    BY <1>45 DEF FdRoom, CheckRoom
  <2>2. CASE Reject(t)
    BY <2>1, <2>2, RejectCoherent
  <2>3. CASE Goto(t, "fdPause") /\ UNCHANGED loc
    <3>1. Hop(t, "fdRoom", "fdPause")
      BY <2>1, <2>3 DEF Hop, Goto
    <3> QED BY <3>1, HopCoherent
  <2>4. CASE Goto(t, "fdCount") /\ UNCHANGED loc
    <3>1. Hop(t, "fdRoom", "fdCount")
      BY <2>1, <2>4 DEF Hop, Goto
    <3> QED BY <3>1, HopCoherent
  <2> QED BY <1>45, <2>2, <2>3, <2>4 DEF FdRoom, CheckRoom
<1>46. ASSUME NEW t \in Submitters, RequestLock(t) PROVE Coherent'
  <2>1. /\ pc[t] = "rqLock" /\ mutex = Free
        /\ UNCHANGED <<outside, qVars, ctxVars, prqVars, counts, jobVars>>
    BY <1>46 DEF RequestLock
  <2>2. batch = {} /\ \A r \in Runners : pc[r] \notin PrqLabels
    BY <2>1 DEF Coherent, BatchInv, LockInv
  <2>3. CASE mutex' = t /\ Goto(t, "prqCtx")
    <3>1. \A s \in Runners : pc'[s] = IF s = t THEN "prqCtx" ELSE pc[s]
      BY <2>3 DEF Goto, Shapes
    <3>2. LockInv'
      BY <2>1, <2>2, <2>3, <3>1 DEF LockInv
    <3> QED BY <2>1, <2>2, <3>1, <3>2, MutexCoherent
  <2>4. CASE Goto(t, "idle") /\ UNCHANGED mutex
    <3>1. Hop(t, "rqLock", "idle")
      BY <2>1, <2>4 DEF Hop, Goto
    <3> QED BY <3>1, HopCoherent
  <2> QED BY <1>46, <2>3, <2>4 DEF RequestLock
<1>47. ASSUME CompleterLock PROVE Coherent'
  <2>1. /\ pc[Completer] = "lock" /\ mutex = Free /\ mutex' = Completer
        /\ \A s \in Runners : pc'[s] = IF s = Completer THEN "prqCtx" ELSE pc[s]
        /\ UNCHANGED <<cur, requestQueue, fdQueue, batch, toFail, failing, loc, status>>
    BY <1>47 DEF CompleterLock, Goto, Shapes
  <2>2. batch = {} /\ \A r \in Runners : pc[r] \notin PrqLabels
    BY <2>1 DEF Coherent, BatchInv, LockInv
  <2>3. LockInv'
    BY <2>1, <2>2 DEF LockInv
  <2> QED BY <2>1, <2>2, <2>3, MutexCoherent
<1>48. ASSUME NEW r \in Runners, PrqTaken(r) PROVE Coherent'
  <2>1. pc[r] = "prqTake" /\ UNCHANGED <<outside, qVars, ctxVars, counts, jobVars, batch,
                                         toFail, failing>>
    BY <1>48 DEF PrqTaken
  <2>2. CASE batch = {} /\ Unlock(r)
    <3>1. \A s \in Runners : s # r => pc[s] \notin PrqLabels
      BY <2>1 DEF Coherent, LockInv
    <3>2. mutex' = Free /\ \A s \in Runners : pc'[s] \notin PrqLabels
      BY <2>2, <3>1 DEF Unlock, Shapes
    <3>3. \A u \in Submitters : pc'[u] \in HeldLabels => pc[u] \in HeldLabels
      BY <2>2 DEF Unlock, Shapes
    <3>4. LockInv'
      BY <3>2 DEF LockInv
    <3> QED BY SMT, <2>1, <2>2, <3>2, <3>3, <3>4, MutexCoherent
  <2>3. CASE Goto(r, "prqSubmit") /\ UNCHANGED mutex
    <3>1. Hop(r, "prqTake", "prqSubmit")
      BY <2>1, <2>3 DEF Hop, Goto
    <3> QED BY <3>1, HopCoherent
  <2> QED BY <1>48, <2>2, <2>3 DEF PrqTaken
<1>49. ASSUME NEW r \in Runners, PrqSubmitAll(r) PROVE Coherent'
  BY <1>49, SubmitAllCoherent
<1>50. ASSUME NEW r \in Runners, PrqLeft(r) PROVE Coherent'
  <2>1. pc[r] = "prqLeft" /\ UNCHANGED <<outside, mutex, qVars, ctxVars, counts, jobVars,
                                         batch, numTries>>
    BY <1>50 DEF PrqLeft
  <2>2. CASE batch = {} /\ Goto(r, "prqSpace") /\ UNCHANGED <<toFail, failing>>
    <3>1. \A s \in Runners : pc'[s] = IF s = r THEN "prqSpace" ELSE pc[s]
      BY <2>2 DEF Goto, Shapes
    <3>2. LockInv'
      BY <2>1, <3>1 DEF Coherent, LockInv
    <3>3. \A s \in Runners : pc'[s] \notin {"prqFail", "prqCount"}
      BY <2>1, <3>1 DEF Coherent, LockInv
    <3> QED BY <2>1, <2>2, <3>1, <3>2, <3>3, MutexCoherent
  <2>3. CASE toFail' = batch /\ failing' = "left" /\ Goto(r, "prqFail")
    BY <2>1, <2>3, LeftCoherent
  <2> QED BY <1>50, <2>2, <2>3 DEF PrqLeft
<1>51. ASSUME NEW r \in Runners, PrqFail(r) PROVE Coherent'
  BY <1>51, FailCoherent
<1>52. ASSUME NEW r \in Runners, PrqSpace(r) \/ PrqNotify(r) PROVE Coherent'
  <2>1. /\ pc[r] \in {"prqSpace", "prqNotify"}
        /\ UNCHANGED <<outside, qVars, ctxVars, prqVars, counts, jobVars>>
    BY <1>52 DEF PrqSpace, PrqNotify
  <2>2. batch = {} /\ mutex = r /\ \A s \in Runners : s # r => pc[s] \notin PrqLabels
    BY <2>1 DEF Coherent, BatchInv, LockInv
  <2>3. CASE Goto(r, "prqNotify") /\ UNCHANGED mutex
    <3>1. \A s \in Runners : pc'[s] = IF s = r THEN "prqNotify" ELSE pc[s]
      BY <2>3 DEF Goto, Shapes
    <3>2. LockInv'
      BY <2>2, <2>3, <3>1 DEF LockInv
    <3> QED BY <2>1, <2>2, <3>1, <3>2, MutexCoherent
  <2>4. CASE /\ mutex' = Free
             /\ \A s \in Runners :
                  \/ s # r /\ pc'[s] = pc[s]
                  \/ s = r /\ pc'[s] \in {"event", "idle"}
                  \/ pc[s] = "rqWait" /\ pc'[s] = "rqSize"
    <3>1. \A s \in Runners : pc'[s] \notin PrqLabels
      BY <2>2, <2>4
    <3>2. LockInv'
      BY <2>4, <3>1 DEF LockInv
    <3>3. \A u \in Submitters : pc'[u] \in HeldLabels => pc[u] \in HeldLabels
      BY <2>4
    <3> QED BY <2>1, <2>2, <3>1, <3>2, <3>3, MutexCoherent
  <2>5. CASE PrqSpace(r)
    BY <2>3, <2>4, <2>5 DEF PrqSpace, Unlock, Shapes
  <2>6. CASE PrqNotify(r)
    BY <2>4, <2>6 DEF PrqNotify, NotifyAll, Shapes
  <2> QED BY <1>52, <2>5, <2>6
<1>53. ASSUME NEW j \in Jobs, KernelComplete(j) PROVE Coherent'
  <2>1. loc[j] = "kernel" /\ \A k \in Jobs : loc'[k] = IF k = j THEN "event" ELSE loc[k]
    BY <1>53 DEF KernelComplete, MoveTo
  <2>2. UNCHANGED <<pc, cur, mutex, requestQueue, fdQueue, batch, toFail, failing, status>>
    BY <1>53 DEF KernelComplete
  <2>3. Completed
    BY <2>1, <2>2 DEF Completed
  <2> QED BY <2>2, <2>3, CompletionCoherent
<1>54. ASSUME CtxEvent PROVE Coherent'
  <2>1. \A k \in Jobs : \/ loc'[k] = loc[k]
                        \/ loc[k] = "event" /\ loc'[k] = "reaped"
    BY <1>54 DEF CtxEvent, At, MoveTo
  <2>2. UNCHANGED <<cur, mutex, requestQueue, fdQueue, batch, toFail, failing, status>>
    BY <1>54 DEF CtxEvent
  <2>3. \A s \in Runners : \/ pc'[s] = pc[s]
                           \/ s = Completer /\ {pc[s], pc'[s]} \cap PrqLabels = {}
    BY <1>54 DEF CtxEvent, Goto, Shapes
  <2>4. Completed
    BY <2>1, <2>2 DEF Completed
  <2> QED BY <2>2, <2>3, <2>4, CompletionCoherent
<1>55. ASSUME Callback PROVE Coherent'
  <2>1. PICK x \in At("reaped") : doPostProcessingOfJob(x, Retcode(res[x])) /\ MoveTo({x}, "gone")
    BY <1>55 DEF Callback
  <2>2. x \in Jobs /\ loc[x] = "reaped" /\ Retcode(res[x]) \in Codes
    BY DEF At, Retcode, Codes
  <2>3. /\ \A k \in Jobs : loc'[k] = IF k = x THEN "gone" ELSE loc[k]
        /\ \A k \in Jobs : k # x => status'[k] = status[k]
        /\ status'[x] = Append(status[x], Retcode(res[x]))
    BY <2>1, <2>2 DEF doPostProcessingOfJob, MoveTo, Shapes
  <2>4. UNCHANGED <<cur, mutex, requestQueue, fdQueue, batch, toFail, failing>>
    BY <1>55 DEF Callback
  <2>5. \A s \in Runners : \/ pc'[s] = pc[s]
                           \/ s = Completer /\ {pc[s], pc'[s]} \cap PrqLabels = {}
    BY <1>55 DEF Callback, Goto, Shapes
  <2>6. Completed
    BY <2>2, <2>3 DEF Completed
  <2> QED BY <2>4, <2>5, <2>6, CompletionCoherent
<1>56. ASSUME NEW r \in Runners, PrqFailCount(r) PROVE Coherent'
  BY <1>56, FailCountCoherent
<1>57. ASSUME CallbackCount PROVE Coherent'
  <2>1. Hop(Completer, "count", "inc")
    BY <1>57 DEF CallbackCount, Hop, Goto
  <2> QED BY <2>1, HopCoherent
<1>58. ASSUME FdCounted PROVE Coherent'
  BY <1>58, CoherentFrame DEF FdCounted
<1> QED
  BY SMT, <1>1, <1>2, <1>3, <1>4, <1>5, <1>6, <1>7, <1>8, <1>9, <1>10, <1>11, <1>12,
     <1>13, <1>14, <1>15, <1>16, <1>17, <1>18, <1>19, <1>20, <1>21, <1>22, <1>23,
     <1>24, <1>25, <1>26, <1>27, <1>28, <1>29, <1>30, <1>31, <1>32, <1>33, <1>34,
     <1>35, <1>36, <1>37, <1>38, <1>39, <1>40, <1>41, <1>42, <1>43, <1>44, <1>45,
     <1>46, <1>47, <1>48, <1>49, <1>50, <1>51, <1>52, <1>53, <1>54, <1>55, <1>56, <1>57, <1>58
     DEF Next, SubmitterStep, ProcessRequestQueue, ProcessCompletions, ProcessFdQueue,
         Stopping, Terminated, Runners

CoherentAlways == TypeInv /\ Coherent

\* The inductive invariant holds in every behaviour of a reliable io_submit.
LEMMA AlwaysCoherent == ASSUME Reliable PROVE Spec => []CoherentAlways
<1>1. Init => CoherentAlways
  BY InitType, InitCoherent DEF CoherentAlways
<1>2. CoherentAlways /\ [Next]_vars => CoherentAlways'
  BY TypeStep, CoherentStep DEF CoherentAlways
<1> QED BY <1>1, <1>2, PTL DEF Spec

\* A job is reported at most once and exactly when the executor lets go of it,
\* for every number of threads, jobs and contexts, when io_submit takes all of
\* a batch or asks for a retry.
THEOREM ReportedOnceCorrect == ASSUME Reliable PROVE Spec => []ReportedOnce
<1>1. CoherentAlways => ReportedOnce
  BY DEF CoherentAlways, Coherent
<1> QED BY <1>1, AlwaysCoherent, PTL

-----------------------------------------------------------------------------
(***************************************************************************)
(* The accounting of contexts.                                             *)
(***************************************************************************)
\* The inductive form: the decrement in ProcessRequestQueue never goes below 0.
CtxInv == CtxAccounting /\ numAvailable >= 0

HoldPlaces == {"batch", "kernel", "event", "reaped", "failed"}

\* The jobs that hold a context, by the place they are at.
LEMMA HoldingPlaces == Holding = {j \in Jobs : loc[j] \in HoldPlaces}
  BY DEF Holding, At, HoldPlaces

\* The number of held contexts is a natural number.
LEMMA HoldingCard == Cardinality(Holding) \in Nat /\ Holding \in SUBSET Jobs
  BY CardJobs DEF Holding, At

\* At the start every context is free.
LEMMA InitCtx == Init => CtxInv
<1> SUFFICES ASSUME Init PROVE CtxInv
  OBVIOUS
<1>1. Holding = {}
  BY DEF Init, Holding, At
<1>2. Cardinality(Holding) = 0
  BY <1>1, FS_EmptySet
<1>3. pc[Completer] = "loop" /\ \A r \in Runners : pc[r] # "prqSem"
  BY DEF Init, Runners
<1>4. numAvailable = Depth /\ ctxCond = Depth
  BY DEF Init
<1> QED BY SMT, <1>2, <1>3, <1>4 DEF CtxInv, CtxAccounting, One

\* No context is taken, returned or half-way.
Still ==
  /\ UNCHANGED ctxVars
  /\ \A j \in Jobs : loc'[j] \in HoldPlaces <=> loc[j] \in HoldPlaces
  /\ \A r \in Runners : pc'[r] = "prqSem" <=> pc[r] = "prqSem"
  /\ pc'[Completer] \in {"count", "inc"} <=> pc[Completer] \in {"count", "inc"}
  /\ pc'[Completer] = "post" <=> pc[Completer] = "post"

\* A step that moves no job into or out of HoldPlaces and leaves the counters alone.
LEMMA StillCtx == CtxInv /\ Still => CtxInv'
<1> SUFFICES ASSUME CtxInv, Still PROVE CtxInv'
  OBVIOUS
<1>1. Holding' = Holding
  BY HoldingPlaces DEF Still, Holding, At, HoldPlaces
<1>2. /\ One(pc[Completer] \in {"count", "inc"})' = One(pc[Completer] \in {"count", "inc"})
      /\ One(pc[Completer] = "post")' = One(pc[Completer] = "post")
      /\ One(\E r \in Runners : pc[r] = "prqSem")' = One(\E r \in Runners : pc[r] = "prqSem")
  BY DEF Still, One
<1> QED BY <1>1, <1>2 DEF CtxInv, CtxAccounting, Still, ctxVars

\* The holder of the mutex is the only thread between the two decrements.
LEMMA OneSem ==
  ASSUME LockInv, NEW r \in Runners, mutex = r
  PROVE  (\E s \in Runners : pc[s] = "prqSem") <=> pc[r] = "prqSem"
  BY DEF LockInv, PrqLabels

\* The collecting loop takes one context for the job it takes.
LEMMA TakeCtx ==
  ASSUME TypeInv, Coherent, CtxInv, NEW r \in Runners, PrqTake(r)
  PROVE  CtxInv'
<1> DEFINE x == Head(requestQueue)
<1>1. /\ pc[r] = "prqTake" /\ pc' = [pc EXCEPT ![r] = "prqSem"]
      /\ numAvailable # 0 /\ numAvailable' = numAvailable - 1 /\ ctxCond' = ctxCond
      /\ requestQueue # <<>>
      /\ \A j \in Jobs : loc'[j] = IF j = x THEN "batch" ELSE loc[j]
      /\ UNCHANGED mutex
  BY DEF PrqTake, Goto, MoveTo, isEmpty, decrementNumAvailable
<1>2. x \in Jobs /\ loc[x] = "queued"
  BY SMT, <1>1, HeadTail, LinedHead DEF Coherent, QueueInv, TypeInv, TypeOK
<1> HIDE DEF x
<1>3. Cardinality(Holding') = Cardinality(Holding) + 1
  <2>1. Holding' = Holding \cup {x} /\ x \notin Holding
    BY SMT, <1>1, <1>2 DEF Holding, At
  <2>2. IsFiniteSet(Holding)
    BY CardJobs, HoldingCard
  <2> QED BY <2>1, <2>2, FS_AddElement
<1>4. mutex = r /\ LockInv' /\ mutex' = r
  BY <1>1, TakeCoherent, ShapesType DEF Coherent, LockInv, PrqLabels
<1>5. (\E s \in Runners : pc[s] = "prqSem") = FALSE
  BY <1>1, <1>4, OneSem DEF Coherent
<1>6. (\E s \in Runners : pc'[s] = "prqSem") = TRUE
  BY <1>1 DEF TypeInv, TypeOK
<1>7. /\ pc'[Completer] \in {"count", "inc"} <=> pc[Completer] \in {"count", "inc"}
      /\ pc'[Completer] = "post" <=> pc[Completer] = "post"
  BY <1>1 DEF TypeInv, TypeOK, Runners
<1>8. numAvailable \in Int /\ ctxCond \in Int /\ Cardinality(Holding) \in Nat
  BY SMT, HoldingCard DEF TypeInv, TypeOK
<1> QED BY SMT, <1>1, <1>3, <1>5, <1>6, <1>7, <1>8 DEF CtxInv, CtxAccounting, One

\* The semaphore follows the counter.
LEMMA SemCtx ==
  ASSUME TypeInv, Coherent, CtxInv, NEW r \in Runners, PrqSem(r)
  PROVE  CtxInv'
<1>1. /\ pc[r] = "prqSem" /\ pc' = [pc EXCEPT ![r] = "prqTake"]
      /\ numAvailable' = numAvailable /\ ctxCond' = ctxCond - 1
      /\ UNCHANGED <<mutex, loc>>
  BY DEF PrqSem, Goto, ctxPause, jobVars
<1>2. Holding' = Holding
  BY <1>1 DEF Holding, At
<1>3. (\E s \in Runners : pc[s] = "prqSem") = TRUE
  BY <1>1
<1>4. (\E s \in Runners : pc'[s] = "prqSem") = FALSE
  BY SMT, <1>1 DEF Coherent, LockInv, PrqLabels, TypeInv, TypeOK
<1>5. /\ pc'[Completer] \in {"count", "inc"} <=> pc[Completer] \in {"count", "inc"}
      /\ pc'[Completer] = "post" <=> pc[Completer] = "post"
  BY <1>1 DEF TypeInv, TypeOK, Runners
<1>6. numAvailable \in Int /\ ctxCond \in Int /\ Cardinality(Holding) \in Nat
  BY SMT, HoldingCard DEF TypeInv, TypeOK
<1> QED BY SMT, <1>1, <1>2, <1>3, <1>4, <1>5, <1>6 DEF CtxInv, CtxAccounting, One

\* The failing loop returns one context for every job of the batch.
LEMMA GiveBackCtx ==
  ASSUME TypeInv, Coherent, CtxInv, NEW r \in Runners, PrqGiveBack(r)
  PROVE  CtxInv'
<1> DEFINE n == Cardinality(batch)
<1>1. /\ pc[r] = "prqFail" /\ pc' = [pc EXCEPT ![r] = "prqSpace"]
      /\ numAvailable' = numAvailable + n /\ ctxCond' = ctxCond + n
      /\ \A j \in Jobs : loc'[j] = IF j \in batch THEN "gone" ELSE loc[j]
  BY DEF PrqGiveBack, Goto, MoveTo, incrementNumAvailable, ctxWakeup, Coherent, BatchInv
<1>2. batch \subseteq Holding
  BY DEF Coherent, BatchInv, Holding, At
<1>3. Holding' = Holding \ batch
  BY <1>1 DEF Holding, At
<1>4. Cardinality(Holding') = Cardinality(Holding) - n /\ n \in Nat
  <2>1. IsFiniteSet(Holding) /\ IsFiniteSet(batch)
    BY CardJobs, HoldingCard DEF TypeInv, TypeOK
  <2>2. Holding \cap batch = batch
    BY <1>2
  <2> QED BY <1>3, <2>1, <2>2, FS_Difference, FS_CardinalityType
<1> HIDE DEF n
<1>5. \A s \in Runners : pc[s] # "prqSem" /\ pc'[s] # "prqSem"
  BY SMT, <1>1 DEF Coherent, LockInv, PrqLabels, TypeInv, TypeOK
<1>6. /\ pc'[Completer] \in {"count", "inc"} <=> pc[Completer] \in {"count", "inc"}
      /\ pc'[Completer] = "post" <=> pc[Completer] = "post"
  BY <1>1 DEF TypeInv, TypeOK, Runners
<1>7. numAvailable \in Int /\ ctxCond \in Int /\ Cardinality(Holding) \in Nat
  BY SMT, HoldingCard DEF TypeInv, TypeOK
<1> QED BY SMT, <1>1, <1>4, <1>5, <1>6, <1>7 DEF CtxInv, CtxAccounting, One

\* ProcessCallbacks frees the job and still owes its context.
LEMMA CallbackCtx ==
  ASSUME TypeInv, CtxInv, Callback
  PROVE  CtxInv'
<1>1. PICK x \in Jobs : /\ loc[x] = "reaped"
                        /\ \A j \in Jobs : loc'[j] = IF j = x THEN "gone" ELSE loc[j]
  BY DEF Callback, At, MoveTo
<1>2. /\ pc[Completer] = "reap" /\ pc' = [pc EXCEPT ![Completer] = "count"]
      /\ UNCHANGED <<numAvailable, ctxCond>>
  BY DEF Callback, Goto, requestSide, ctxVars
<1>3. Cardinality(Holding') = Cardinality(Holding) - 1
  <2>1. Holding' = Holding \ {x} /\ x \in Holding
    BY <1>1 DEF Holding, At
  <2>2. IsFiniteSet(Holding)
    BY CardJobs, HoldingCard
  <2> QED BY <2>1, <2>2, FS_RemoveElement
<1>4. \A s \in Runners : pc'[s] = "prqSem" <=> pc[s] = "prqSem"
  BY <1>2 DEF TypeInv, TypeOK, Runners
<1>5. pc'[Completer] = "count"
  BY <1>2 DEF TypeInv, TypeOK, Runners
<1>6. numAvailable \in Int /\ ctxCond \in Int /\ Cardinality(Holding) \in Nat
  BY SMT, HoldingCard DEF TypeInv, TypeOK
<1>7. One(\E s \in Runners : pc[s] = "prqSem")' = One(\E s \in Runners : pc[s] = "prqSem")
  BY <1>4 DEF One
<1> QED BY SMT, <1>2, <1>3, <1>5, <1>6, <1>7 DEF CtxInv, CtxAccounting, One

\* ProcessCompletions returns the context it owes, to the counter and then to the semaphore.
LEMMA ReturnCtx ==
  ASSUME TypeInv, CtxInv, CallbackInc \/ CallbackPost
  PROVE  CtxInv'
<1>1. UNCHANGED loc /\ \E l \in {"post", "reap"} : pc' = [pc EXCEPT ![Completer] = l]
  BY DEF CallbackInc, CallbackPost, Goto, jobVars
<1>2. Holding' = Holding
  BY <1>1 DEF Holding, At
<1>3. \A s \in Runners : pc'[s] = "prqSem" <=> pc[s] = "prqSem"
  <2>1. pc[Completer] \in {"inc", "post"}
    BY DEF CallbackInc, CallbackPost
  <2> QED BY <1>1, <2>1 DEF TypeInv, TypeOK, Runners
<1>4. One(\E s \in Runners : pc[s] = "prqSem")' = One(\E s \in Runners : pc[s] = "prqSem")
  BY <1>3 DEF One
<1>5. /\ numAvailable \in Int /\ ctxCond \in Int /\ Cardinality(Holding) \in Nat
      /\ One(\E s \in Runners : pc[s] = "prqSem") \in Int
  BY SMT, HoldingCard DEF TypeInv, TypeOK, One
<1>6. CASE CallbackInc
  <2>1. /\ pc[Completer] = "inc" /\ pc'[Completer] = "post"
        /\ numAvailable' = numAvailable + 1 /\ ctxCond' = ctxCond
    BY <1>6 DEF CallbackInc, Goto, incrementNumAvailable, TypeInv, TypeOK, Runners
  <2> QED BY SMT, <1>2, <1>4, <1>5, <2>1 DEF CtxInv, CtxAccounting, One
<1>7. CASE CallbackPost
  <2>1. /\ pc[Completer] = "post" /\ pc'[Completer] = "reap"
        /\ numAvailable' = numAvailable /\ ctxCond' = ctxCond + 1
    BY <1>7 DEF CallbackPost, Goto, ctxWakeup, TypeInv, TypeOK, Runners
  <2> QED BY SMT, <1>2, <1>4, <1>5, <2>1 DEF CtxInv, CtxAccounting, One
<1> QED BY <1>6, <1>7

\* Every step keeps the two counts of free contexts right.
LEMMA CtxStep ==
  ASSUME Reliable, TypeInv, Coherent, CtxInv, [Next]_vars
  PROVE  CtxInv'
<1>0. Shapes
  BY ShapesType
<1> USE <1>0 DEF Shapes, Runners, stopVars, qVars, fdVars, ctxVars, prqVars, callVars, jobVars,
                 counts, requestSide, outside, allButPc, allButStop
<1>1. ASSUME NEW t \in Submitters, NEW j \in Jobs, NEW b \in BlockingModes,
            submitTask(t, j, b) PROVE CtxInv'
  BY <1>1, StillCtx DEF submitTask, Goto, MoveTo, Still, HoldPlaces
<1>2. ASSUME NEW t \in Submitters, CheckState(t) PROVE CtxInv'
  <2>1. UNCHANGED ctxVars /\ \E l \in {"idle", "rqRoom", "fdRoom", "rqPause", "fdPause", "rqSize", "fdCount"} :
                               pc' = [pc EXCEPT ![t] = l]
    BY <1>2 DEF CheckState, Reject, Goto
  <2>2. UNCHANGED loc \/ \A j \in Jobs : loc'[j] = IF j = cur[t] THEN "returned" ELSE loc[j]
    BY <1>2 DEF CheckState, Reject, MoveTo
  <2>3. pc[t] \in {"state", "rqRoom", "fdRoom"} /\ loc[cur[t]] = "held"
    BY <1>2 DEF CheckState, Coherent, HeldInv, HeldLabels
  <2> QED BY SMT, <2>1, <2>2, <2>3, StillCtx DEF Still, HoldPlaces
<1>3. ASSUME NEW t \in Submitters, RequestRoom(t) PROVE CtxInv'
  <2>1. UNCHANGED ctxVars /\ \E l \in {"idle", "rqRoom", "fdRoom", "rqPause", "fdPause", "rqSize", "fdCount"} :
                               pc' = [pc EXCEPT ![t] = l]
    BY <1>3 DEF RequestRoom, CheckRoom, Reject, Goto
  <2>2. UNCHANGED loc \/ \A j \in Jobs : loc'[j] = IF j = cur[t] THEN "returned" ELSE loc[j]
    BY <1>3 DEF RequestRoom, CheckRoom, Reject, MoveTo
  <2>3. pc[t] \in {"state", "rqRoom", "fdRoom"} /\ loc[cur[t]] = "held"
    BY <1>3 DEF RequestRoom, CheckRoom, Coherent, HeldInv, HeldLabels
  <2> QED BY SMT, <2>1, <2>2, <2>3, StillCtx DEF Still, HoldPlaces
<1>4. ASSUME NEW t \in Submitters, RequestPause(t) PROVE CtxInv'
  BY <1>4, StillCtx DEF RequestPause, Pause, Goto, MoveTo, Still, HoldPlaces
<1>5. ASSUME NEW t \in Submitters, RequestSize(t) PROVE CtxInv'
  BY <1>5, StillCtx DEF RequestSize, Goto, MoveTo, Still, HoldPlaces
<1>6. ASSUME NEW t \in Submitters, RequestCount(t) PROVE CtxInv'
  BY <1>6, StillCtx DEF RequestCount, Goto, MoveTo, Still, HoldPlaces
<1>7. ASSUME NEW t \in Submitters, RequestPush(t) PROVE CtxInv'
  <2>1. loc[cur[t]] = "held"
    BY <1>7 DEF RequestPush, Coherent, HeldInv, HeldLabels
  <2> QED BY <1>7, <2>1, StillCtx DEF RequestPush, Goto, MoveTo, Still, HoldPlaces
<1>8. ASSUME NEW t \in Submitters, RequestMin(t) PROVE CtxInv'
  BY <1>8, StillCtx DEF RequestMin, MinSubmitSize, Goto, MoveTo, Still, HoldPlaces
<1>9. ASSUME NEW t \in Submitters, RequestLock(t) PROVE CtxInv'
  <2>1. /\ UNCHANGED <<ctxVars, loc>> /\ pc[t] = "rqLock"
        /\ \E l \in {"prqCtx", "idle"} : pc' = [pc EXCEPT ![t] = l]
    BY <1>9 DEF RequestLock, Goto
  <2> QED BY <2>1, StillCtx DEF Still
<1>10. ASSUME NEW t \in Submitters, FdRoom(t) PROVE CtxInv'
  <2>1. UNCHANGED ctxVars /\ \E l \in {"idle", "rqRoom", "fdRoom", "rqPause", "fdPause", "rqSize", "fdCount"} :
                               pc' = [pc EXCEPT ![t] = l]
    BY <1>10 DEF FdRoom, CheckRoom, Reject, Goto
  <2>2. UNCHANGED loc \/ \A j \in Jobs : loc'[j] = IF j = cur[t] THEN "returned" ELSE loc[j]
    BY <1>10 DEF FdRoom, CheckRoom, Reject, MoveTo
  <2>3. pc[t] \in {"state", "rqRoom", "fdRoom"} /\ loc[cur[t]] = "held"
    BY <1>10 DEF FdRoom, CheckRoom, Coherent, HeldInv, HeldLabels
  <2> QED BY <2>1, <2>2, <2>3, StillCtx DEF Still, HoldPlaces
<1>11. ASSUME NEW t \in Submitters, FdPause(t) PROVE CtxInv'
  BY <1>11, StillCtx DEF FdPause, Pause, Goto, MoveTo, Still, HoldPlaces
<1>12. ASSUME NEW t \in Submitters, FdCount(t) PROVE CtxInv'
  BY <1>12, StillCtx DEF FdCount, Goto, MoveTo, Still, HoldPlaces
<1>13. ASSUME NEW t \in Submitters, FdSize(t) PROVE CtxInv'
  BY <1>13, StillCtx DEF FdSize, Goto, MoveTo, Still, HoldPlaces
<1>14. ASSUME NEW t \in Submitters, FdPush(t) PROVE CtxInv'
  <2>1. loc[cur[t]] = "held"
    BY <1>14 DEF FdPush, Coherent, HeldInv, HeldLabels
  <2> QED BY <1>14, <2>1, StillCtx DEF FdPush, Goto, MoveTo, Still, HoldPlaces
<1>15. ASSUME NEW t \in Submitters, FdPost(t) PROVE CtxInv'
  BY <1>15, StillCtx DEF FdPost, fdWakeup, Goto, MoveTo, Still, HoldPlaces
<1>16. ASSUME NEW t \in Submitters, RequestSpurious(t) PROVE CtxInv'
  BY <1>16, StillCtx DEF RequestSpurious, SpuriousWakeup, Goto, MoveTo, Still, HoldPlaces
<1>17. ASSUME NEW t \in Submitters, FdSpurious(t) PROVE CtxInv'
  BY <1>17, StillCtx DEF FdSpurious, SpuriousWakeup, Goto, MoveTo, Still, HoldPlaces
<1>18. ASSUME NEW r \in Runners, PrqCtx(r) PROVE CtxInv'
  BY <1>18, StillCtx DEF PrqCtx, Goto, MoveTo, Still, HoldPlaces
<1>19. ASSUME NEW r \in Runners, PrqTake(r) PROVE CtxInv'
  BY <1>19, TakeCtx
<1>20. ASSUME NEW r \in Runners, PrqSem(r) PROVE CtxInv'
  BY <1>20, SemCtx
<1>21. ASSUME NEW r \in Runners, PrqTaken(r) PROVE CtxInv'
  <2>1. /\ UNCHANGED <<ctxVars, loc>> /\ pc[r] = "prqTake"
        /\ \E l \in {"event", "idle", "prqSubmit"} : pc' = [pc EXCEPT ![r] = l]
    BY <1>21 DEF PrqTaken, Goto, Unlock
  <2> QED BY <2>1, StillCtx DEF Still
<1>22. ASSUME NEW r \in Runners, PrqSubmitAll(r) PROVE CtxInv'
  <2>1. \A j \in batch : loc[j] \in HoldPlaces
    BY DEF Coherent, BatchInv, HoldPlaces
  <2>2. \A j \in toFail : pc[r] = "prqFail" => j \in batch
    BY DEF Coherent, BatchInv
  <2> QED BY <1>22, <2>1, <2>2, StillCtx DEF PrqSubmitAll, Goto, MoveTo, Still, HoldPlaces
<1>23. ASSUME NEW r \in Runners, PrqSubmitRetry(r) PROVE CtxInv'
  BY <1>23, StillCtx DEF PrqSubmitRetry, Goto, MoveTo, Still, HoldPlaces
<1>24. ASSUME NEW r \in Runners, PrqSubmitPart(r) PROVE CtxInv'
  BY <1>24 DEF PrqSubmitPart, Reliable
<1>25. ASSUME NEW r \in Runners, PrqSubmitFatal(r) PROVE CtxInv'
  BY <1>25 DEF PrqSubmitFatal, Reliable
<1>26. ASSUME NEW r \in Runners, PrqSubmitGivesUp(r) PROVE CtxInv'
  BY <1>26, StillCtx DEF PrqSubmitGivesUp, Goto, MoveTo, Still, HoldPlaces
<1>27. ASSUME NEW r \in Runners, PrqLeft(r) PROVE CtxInv'
  <2>1. /\ UNCHANGED <<ctxVars, loc>> /\ pc[r] = "prqLeft"
        /\ \E l \in {"prqSpace", "prqFail"} : pc' = [pc EXCEPT ![r] = l]
    BY <1>27 DEF PrqLeft, Goto
  <2> QED BY <2>1, StillCtx DEF Still
<1>28. ASSUME NEW r \in Runners, PrqFail(r) PROVE CtxInv'
  <2>1. \A j \in batch : loc[j] \in HoldPlaces
    BY DEF Coherent, BatchInv, HoldPlaces
  <2>2. \A j \in toFail : pc[r] = "prqFail" => j \in batch
    BY DEF Coherent, BatchInv
  <2> QED BY SMT, <1>28, <2>1, <2>2, StillCtx DEF PrqFail, doPostProcessingOfJob, Goto, MoveTo, Still, HoldPlaces
<1>29. ASSUME NEW r \in Runners, PrqGiveBack(r) PROVE CtxInv'
  BY <1>29, GiveBackCtx
<1>30. ASSUME NEW r \in Runners, PrqSpace(r) PROVE CtxInv'
  <2>1. /\ UNCHANGED <<ctxVars, loc>> /\ pc[r] = "prqSpace"
        /\ \E l \in {"prqNotify", "event", "idle"} : pc' = [pc EXCEPT ![r] = l]
    BY <1>30 DEF PrqSpace, Goto, Unlock
  <2> QED BY <2>1, StillCtx DEF Still
<1>31. ASSUME NEW r \in Runners, PrqNotify(r) PROVE CtxInv'
  BY <1>31, StillCtx DEF PrqNotify, NotifyAll, Goto, MoveTo, Still, HoldPlaces
<1>32. ASSUME NEW j \in Jobs, KernelComplete(j) PROVE CtxInv'
  BY <1>32, StillCtx DEF KernelComplete, Goto, MoveTo, Still, HoldPlaces
<1>33. ASSUME CompleterLoop PROVE CtxInv'
  BY <1>33, StillCtx DEF CompleterLoop, Goto, MoveTo, Still, HoldPlaces
<1>34. ASSUME EpollWait PROVE CtxInv'
  BY <1>34, StillCtx DEF EpollWait, Ready, At, Goto, MoveTo, Still, HoldPlaces
<1>35. ASSUME EventsHandled PROVE CtxInv'
  BY <1>35, StillCtx DEF EventsHandled, Goto, MoveTo, Still, HoldPlaces
<1>36. ASSUME CompleterLock PROVE CtxInv'
  BY <1>36, StillCtx DEF CompleterLock, Goto, MoveTo, Still, HoldPlaces
<1>37. ASSUME CtxEvent PROVE CtxInv'
  BY <1>37, StillCtx DEF CtxEvent, At, Goto, MoveTo, Still, HoldPlaces
<1>38. ASSUME Callback PROVE CtxInv'
  BY <1>38, CallbackCtx
<1>39. ASSUME CallbackInc PROVE CtxInv'
  BY <1>39, ReturnCtx
<1>40. ASSUME CallbackPost PROVE CtxInv'
  BY <1>40, ReturnCtx
<1>41. ASSUME CallbacksDone PROVE CtxInv'
  BY <1>41, StillCtx DEF CallbacksDone, At, Goto, MoveTo, Still, HoldPlaces
<1>42. ASSUME NEW e \in {"shutdown", "timer"}, WakeupEvent(e) PROVE CtxInv'
  BY <1>42, StillCtx DEF WakeupEvent, Goto, MoveTo, Still, HoldPlaces
<1>43. ASSUME FdLoop PROVE CtxInv'
  BY <1>43, StillCtx DEF FdLoop, Goto, MoveTo, Still, HoldPlaces
<1>44. ASSUME FdWait PROVE CtxInv'
  BY <1>44, StillCtx DEF FdWait, fdPause, Goto, MoveTo, Still, HoldPlaces
<1>45. ASSUME FdConsume PROVE CtxInv'
  <2>1. UNCHANGED <<ctxVars, pc>>
    BY <1>45 DEF FdConsume
  <2>2. CASE fdQueue = <<>>
    BY SMT, <1>45, <2>1, <2>2, StillCtx DEF FdConsume, Still
  <2>3. CASE fdQueue # <<>>
    <3>1. \A j \in Jobs : loc'[j] = IF j = Head(fdQueue) THEN "gone" ELSE loc[j]
      BY <1>45, <2>3 DEF FdConsume, MoveTo
    <3>2. loc[Head(fdQueue)] = "fdQueued"
      BY <2>3, LinedHead DEF Coherent, QueueInv
    <3> QED BY <2>1, <3>1, <3>2, StillCtx DEF Still, HoldPlaces
  <2> QED BY <2>2, <2>3
<1>46. ASSUME FdDec PROVE CtxInv'
  BY <1>46, StillCtx DEF FdDec, Goto, MoveTo, Still, HoldPlaces
<1>47. ASSUME FdSpace PROVE CtxInv'
  BY <1>47, StillCtx DEF FdSpace, Goto, MoveTo, Still, HoldPlaces
<1>48. ASSUME FdNotify PROVE CtxInv'
  BY <1>48, StillCtx DEF FdNotify, NotifyAll, Goto, MoveTo, Still, HoldPlaces
<1>49. ASSUME stop PROVE CtxInv'
  BY <1>49, StillCtx DEF stop, StopAllowed, Goto, MoveTo, Still, HoldPlaces
<1>50. ASSUME StopFdWake PROVE CtxInv'
  BY <1>50, StillCtx DEF StopFdWake, fdWakeup, Goto, MoveTo, Still, HoldPlaces
<1>51. ASSUME StopFdJoin PROVE CtxInv'
  BY <1>51, StillCtx DEF StopFdJoin, Goto, MoveTo, Still, HoldPlaces
<1>52. ASSUME StopSend PROVE CtxInv'
  BY <1>52, StillCtx DEF StopSend, Goto, MoveTo, Still, HoldPlaces
<1>53. ASSUME StopJoin PROVE CtxInv'
  BY <1>53, StillCtx DEF StopJoin, Goto, MoveTo, Still, HoldPlaces
<1>54. ASSUME UNCHANGED vars PROVE CtxInv'
  BY <1>54, StillCtx DEF vars, Still
<1>55. ASSUME NEW r \in Runners, PrqFailCount(r) PROVE CtxInv'
  BY <1>55, StillCtx DEF PrqFailCount, Goto, Still, HoldPlaces
<1>56. ASSUME CallbackCount PROVE CtxInv'
  BY <1>56, StillCtx DEF CallbackCount, Goto, Still, HoldPlaces
<1>57. ASSUME FdCounted PROVE CtxInv'
  BY <1>57, StillCtx DEF FdCounted, Still, HoldPlaces
<1> HIDE DEF Shapes
<1> QED
  BY <1>1, <1>2, <1>3, <1>4, <1>5, <1>6, <1>7, <1>8, <1>9, <1>10, <1>11, <1>12,
     <1>13, <1>14, <1>15, <1>16, <1>17, <1>18, <1>19, <1>20, <1>21, <1>22, <1>23,
     <1>24, <1>25, <1>26, <1>27, <1>28, <1>29, <1>30, <1>31, <1>32, <1>33, <1>34,
     <1>35, <1>36, <1>37, <1>38, <1>39, <1>40, <1>41, <1>42, <1>43, <1>44, <1>45,
     <1>46, <1>47, <1>48, <1>49, <1>50, <1>51, <1>52, <1>53, <1>54, <1>55, <1>56, <1>57
     DEF Next, SubmitterStep, ProcessRequestQueue, ProcessCompletions, ProcessFdQueue,
         Stopping, Terminated

CtxAlways == CoherentAlways /\ CtxInv

\* The accounting invariant holds in every behaviour of a reliable io_submit.
LEMMA AlwaysCtx == ASSUME Reliable PROVE Spec => []CtxAlways
<1>1. Init => CtxAlways
  BY InitType, InitCoherent, InitCtx DEF CtxAlways, CoherentAlways
<1>2. CtxAlways /\ [Next]_vars => CtxAlways'
  BY TypeStep, CoherentStep, CtxStep DEF CtxAlways, CoherentAlways
<1> QED BY <1>1, <1>2, PTL DEF Spec

\* No context is ever lost or invented: numAvailable_ and ctxCond_ account for
\* every context at every moment, for every depth of the I/O queue.
THEOREM CtxAccountingCorrect == ASSUME Reliable PROVE Spec => []CtxAccounting
<1>1. CtxAlways => CtxAccounting
  BY DEF CtxAlways, CtxInv
<1> QED BY <1>1, AlwaysCtx, PTL

\* The asserts of FilerCtx hold: numAvailable_ stays within 0..ioQueueDepth_.
THEOREM CtxBoundsCorrect == ASSUME Reliable PROVE Spec => []CtxBounds
<1>1. CtxAlways => CtxBounds
  BY SMT, HoldingCard DEF CtxAlways, CoherentAlways, CtxInv, CtxAccounting, CtxBounds, One, TypeInv, TypeOK
<1> QED BY <1>1, AlwaysCtx, PTL

\* The arrays post_iocb and cbVec of ProcessRequestQueue never overflow: a
\* batch has at most ioQueueDepth_ jobs.
THEOREM BatchFitsCorrect == ASSUME Reliable PROVE Spec => []BatchFits
<1>1. ASSUME CtxAlways PROVE BatchFits
  <2>1. batch \subseteq Holding
    BY <1>1, HoldingPlaces DEF CtxAlways, CoherentAlways, Coherent, BatchInv, HoldPlaces
  <2>2. Cardinality(batch) <= Cardinality(Holding) /\ Cardinality(batch) \in Nat
    BY <2>1, HoldingCard, CardJobs, FS_Subset
  <2>3. Cardinality(Holding) <= Depth
    BY SMT, <1>1, HoldingCard DEF CtxAlways, CoherentAlways, CtxInv, CtxAccounting, One, TypeInv, TypeOK
  <2> QED BY SMT, <2>2, <2>3, HoldingCard DEF BatchFits
<1> QED BY <1>1, AlwaysCtx, PTL
=============================================================================
