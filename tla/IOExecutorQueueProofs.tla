----------------------- MODULE IOExecutorQueueProofs ------------------------
(***************************************************************************)
(* The queues of an executor: their counters are exact up to the threads   *)
(* between a count and its push, or a pop and its decrement, and no        *)
(* request is ever stranded in one, for every number of threads, jobs and  *)
(* contexts.                                                               *)
(***************************************************************************)
EXTENDS IOExecutorProofs

\* Steps go to Zenon unless they name SMT; the assumptions on the constants.
USE Zenon
USE ThreadAssumption, SizeAssumption, EnvironmentAssumption

(***************************************************************************)
(* The queues' size counters.                                              *)
(***************************************************************************)
\* Threads that have counted a request, or a delete, and not pushed it yet.
RqPending == {t \in Submitters : pc[t] \in {"rqCount", "rqPush"}}
FdPending == {t \in Submitters : pc[t] = "fdPush"}
Popping   == \E r \in Runners : pc[r] = "prqSem"

RqSizeInv == requestQueueSize = Len(requestQueue) + Cardinality(RqPending) + One(Popping)
FdSizeInv == fdQueueSize = Len(fdQueue) + Cardinality(FdPending) + One(fdPc \in {"count", "dec"})

\* SizesExact speaks of two independent queues.
LEMMA SizesSplit == SizesExact <=> RqSizeInv /\ FdSizeInv
  BY DEF SizesExact, RqSizeInv, FdSizeInv, RqPending, FdPending, Popping

\* A set of client threads is finite.
LEMMA CardSubmitters == \A S \in SUBSET Submitters : IsFiniteSet(S) /\ Cardinality(S) \in Nat
  BY FS_Subset, FS_CardinalityType

\* The threads between the count and the push are finitely many.
LEMMA PendingCard ==
  /\ RqPending \in SUBSET Submitters /\ FdPending \in SUBSET Submitters
  /\ IsFiniteSet(RqPending) /\ Cardinality(RqPending) \in Nat
  /\ IsFiniteSet(FdPending) /\ Cardinality(FdPending) \in Nat
  BY CardSubmitters DEF RqPending, FdPending

\* At the start both queues are empty.
LEMMA InitSizes == Init => RqSizeInv /\ FdSizeInv
<1> SUFFICES ASSUME Init PROVE RqSizeInv /\ FdSizeInv
  OBVIOUS
<1>1. RqPending = {} /\ FdPending = {} /\ ~Popping
  BY DEF Init, RqPending, FdPending, Popping, Runners
<1>2. Cardinality(RqPending) = 0 /\ Cardinality(FdPending) = 0
  BY <1>1, FS_EmptySet
<1>3. requestQueueSize = 0 /\ Len(requestQueue) = 0 /\ fdQueueSize = 0 /\ Len(fdQueue) = 0
  BY DEF Init
<1>4. fdPc \notin {"count", "dec"}
  BY DEF Init
<1> QED BY SMT, <1>1, <1>2, <1>3, <1>4 DEF RqSizeInv, FdSizeInv, One

RqStill ==
  /\ UNCHANGED qVars
  /\ \A t \in Submitters : pc'[t] \in {"rqCount", "rqPush"} <=> pc[t] \in {"rqCount", "rqPush"}
  /\ \A r \in Runners : pc'[r] = "prqSem" <=> pc[r] = "prqSem"

FdStill ==
  /\ UNCHANGED <<fdQueue, fdQueueSize>>
  /\ \A t \in Submitters : pc'[t] = "fdPush" <=> pc[t] = "fdPush"
  /\ fdPc' \in {"count", "dec"} <=> fdPc \in {"count", "dec"}

\* A step that leaves the request queue and the threads about to push alone.
LEMMA StillRq == RqSizeInv /\ RqStill => RqSizeInv'
<1> SUFFICES ASSUME RqSizeInv, RqStill PROVE RqSizeInv'
  OBVIOUS
<1>1. RqPending' = RqPending
  BY DEF RqStill, RqPending
<1>2. One(Popping)' = One(Popping)
  BY DEF RqStill, Popping, One
<1> QED BY <1>1, <1>2 DEF RqSizeInv, RqStill, qVars

\* The same for the fd queue.
LEMMA StillFd == FdSizeInv /\ FdStill => FdSizeInv'
<1> SUFFICES ASSUME FdSizeInv, FdStill PROVE FdSizeInv'
  OBVIOUS
<1>1. FdPending' = FdPending
  BY DEF FdStill, FdPending
<1>2. One(fdPc \in {"count", "dec"})' = One(fdPc \in {"count", "dec"})
  BY DEF FdStill, One
<1> QED BY <1>1, <1>2 DEF FdSizeInv, FdStill

\* A request is counted before it is pushed.
LEMMA RequestSizeRq ==
  ASSUME TypeInv, RqSizeInv, NEW t \in Submitters, RequestSize(t)
  PROVE  RqSizeInv'
<1>1. /\ pc[t] = "rqSize" /\ pc' = [pc EXCEPT ![t] = "rqCount"]
      /\ requestQueueSize' = requestQueueSize + 1 /\ UNCHANGED requestQueue
  BY DEF RequestSize, Goto
<1>2. RqPending' = RqPending \cup {t} /\ t \notin RqPending
  BY SMT, <1>1 DEF RqPending, TypeInv, TypeOK, Runners
<1>3. Cardinality(RqPending') = Cardinality(RqPending) + 1
  BY <1>2, PendingCard, FS_AddElement
<1>4. One(Popping)' = One(Popping)
  <2>1. \A r \in Runners : pc'[r] = "prqSem" <=> pc[r] = "prqSem"
    BY <1>1 DEF TypeInv, TypeOK, Runners
  <2> QED BY <2>1 DEF Popping, One
<1>5. Len(requestQueue) \in Nat /\ One(Popping) \in Nat /\ Cardinality(RqPending) \in Nat
  BY SMT, PendingCard DEF TypeInv, TypeOK, One
<1> QED BY SMT, <1>1, <1>3, <1>4, <1>5 DEF RqSizeInv

\* The push turns a counted request into a queued one.
LEMMA RequestPushRq ==
  ASSUME TypeInv, RqSizeInv, NEW t \in Submitters, RequestPush(t)
  PROVE  RqSizeInv'
<1>1. /\ pc[t] = "rqPush" /\ pc' = [pc EXCEPT ![t] = "rqMin"]
      /\ requestQueue' = Append(requestQueue, cur[t]) /\ UNCHANGED requestQueueSize
  BY DEF RequestPush, Goto
<1>2. RqPending' = RqPending \ {t} /\ t \in RqPending
  BY <1>1 DEF RqPending, TypeInv, TypeOK, Runners
<1>3. Cardinality(RqPending') = Cardinality(RqPending) - 1
  BY <1>2, PendingCard, FS_RemoveElement
<1>4. One(Popping)' = One(Popping)
  <2>1. \A r \in Runners : pc'[r] = "prqSem" <=> pc[r] = "prqSem"
    BY <1>1 DEF TypeInv, TypeOK, Runners
  <2> QED BY <2>1 DEF Popping, One
<1>5. Len(requestQueue') = Len(requestQueue) + 1
  BY SMT, <1>1 DEF TypeInv, TypeOK
<1>6. Len(requestQueue) \in Nat /\ One(Popping) \in Nat /\ Cardinality(RqPending) \in Nat
  BY SMT, PendingCard DEF TypeInv, TypeOK, One
<1> QED BY SMT, <1>1, <1>3, <1>4, <1>5, <1>6 DEF RqSizeInv

\* The pop leaves one request counted and not queued.
LEMMA TakeRq ==
  ASSUME TypeInv, Coherent, RqSizeInv, NEW r \in Runners, PrqTake(r)
  PROVE  RqSizeInv'
<1>1. /\ pc[r] = "prqTake" /\ pc' = [pc EXCEPT ![r] = "prqSem"]
      /\ requestQueue # <<>> /\ requestQueue' = Tail(requestQueue)
      /\ UNCHANGED requestQueueSize
  BY DEF PrqTake, Goto
<1>2. RqPending' = RqPending
  BY <1>1 DEF RqPending, TypeInv, TypeOK, Runners
<1>3. Popping' /\ ~Popping
  BY <1>1 DEF Popping, Coherent, LockInv, PrqLabels, TypeInv, TypeOK
<1>4. Len(requestQueue') = Len(requestQueue) - 1
  BY <1>1, HeadTail DEF TypeInv, TypeOK
<1>5. Len(requestQueue) \in Nat /\ Cardinality(RqPending) \in Nat
  BY SMT, PendingCard DEF TypeInv, TypeOK
<1> QED BY SMT, <1>1, <1>2, <1>3, <1>4, <1>5 DEF RqSizeInv, One

\* The decrement after the pop makes the count exact again.
LEMMA SemRq ==
  ASSUME TypeInv, Coherent, RqSizeInv, NEW r \in Runners, PrqSem(r)
  PROVE  RqSizeInv'
<1>1. /\ pc[r] = "prqSem" /\ pc' = [pc EXCEPT ![r] = "prqTake"]
      /\ requestQueueSize' = requestQueueSize - 1 /\ UNCHANGED requestQueue
  BY DEF PrqSem, Goto
<1>2. RqPending' = RqPending
  BY <1>1 DEF RqPending, TypeInv, TypeOK, Runners
<1>3. Popping /\ ~Popping'
  BY SMT, <1>1 DEF Popping, Coherent, LockInv, PrqLabels, TypeInv, TypeOK
<1>4. Len(requestQueue) \in Nat /\ Cardinality(RqPending) \in Nat
  BY SMT, PendingCard DEF TypeInv, TypeOK
<1> QED BY SMT, <1>1, <1>2, <1>3, <1>4 DEF RqSizeInv, One

\* An fd job is counted before it is pushed.
LEMMA FdSizeFd ==
  ASSUME TypeInv, FdSizeInv, NEW t \in Submitters, FdSize(t)
  PROVE  FdSizeInv'
<1>1. /\ pc[t] = "fdSize" /\ pc' = [pc EXCEPT ![t] = "fdPush"]
      /\ fdQueueSize' = fdQueueSize + 1 /\ UNCHANGED <<fdQueue, fdPc>>
  BY DEF FdSize, Goto
<1>2. FdPending' = FdPending \cup {t} /\ t \notin FdPending
  BY SMT, <1>1 DEF FdPending, TypeInv, TypeOK, Runners
<1>3. Cardinality(FdPending') = Cardinality(FdPending) + 1
  BY <1>2, PendingCard, FS_AddElement
<1>4. Len(fdQueue) \in Nat /\ Cardinality(FdPending) \in Nat
  BY SMT, PendingCard DEF TypeInv, TypeOK
<1> QED BY SMT, <1>1, <1>3, <1>4 DEF FdSizeInv, One

\* The push turns a counted fd job into a queued one.
LEMMA FdPushFd ==
  ASSUME TypeInv, FdSizeInv, NEW t \in Submitters, FdPush(t)
  PROVE  FdSizeInv'
<1>1. /\ pc[t] = "fdPush" /\ pc' = [pc EXCEPT ![t] = "fdPost"]
      /\ fdQueue' = Append(fdQueue, cur[t]) /\ UNCHANGED <<fdQueueSize, fdPc>>
  BY DEF FdPush, Goto
<1>2. FdPending' = FdPending \ {t} /\ t \in FdPending
  BY <1>1 DEF FdPending, TypeInv, TypeOK, Runners
<1>3. Cardinality(FdPending') = Cardinality(FdPending) - 1
  BY <1>2, PendingCard, FS_RemoveElement
<1>4. Len(fdQueue') = Len(fdQueue) + 1
  BY SMT, <1>1 DEF TypeInv, TypeOK
<1>5. Len(fdQueue) \in Nat /\ Cardinality(FdPending) \in Nat
  BY SMT, PendingCard DEF TypeInv, TypeOK
<1> QED BY SMT, <1>1, <1>3, <1>4, <1>5 DEF FdSizeInv, One

\* The fdQueue thread decrements after it has popped.
LEMMA FdThreadFd ==
  ASSUME TypeInv, FdSizeInv, FdConsume \/ FdDec
  PROVE  FdSizeInv'
<1>1. FdPending' = FdPending
  BY DEF FdConsume, FdDec, FdPending
<1>2. Len(fdQueue) \in Nat /\ Cardinality(FdPending) \in Nat
  BY SMT, PendingCard DEF TypeInv, TypeOK
<1>3. CASE FdDec
  <2>1. /\ fdPc = "dec" /\ fdPc' = "space"
        /\ fdQueueSize' = fdQueueSize - 1 /\ UNCHANGED fdQueue
    BY <1>3 DEF FdDec
  <2> QED BY SMT, <1>1, <1>2, <2>1 DEF FdSizeInv, One
<1>4. CASE FdConsume /\ fdQueue = <<>>
  <2>1. fdPc = "consume" /\ fdPc' = "exited" /\ UNCHANGED <<fdQueue, fdQueueSize>>
    BY <1>4 DEF FdConsume
  <2> QED BY <1>1, <1>2, <2>1 DEF FdSizeInv, One
<1>5. CASE FdConsume /\ fdQueue # <<>>
  <2>1. /\ fdPc = "consume" /\ fdPc' = "count"
        /\ fdQueue' = Tail(fdQueue) /\ UNCHANGED fdQueueSize
    BY <1>5 DEF FdConsume
  <2>2. Len(fdQueue') = Len(fdQueue) - 1
    BY <1>5, <2>1, HeadTail DEF TypeInv, TypeOK
  <2> QED BY SMT, <1>1, <1>2, <2>1, <2>2 DEF FdSizeInv, One
<1> QED BY <1>3, <1>4, <1>5

SizeInv == RqSizeInv /\ FdSizeInv

\* Every step keeps both counters exact.
LEMMA SizeStep ==
  ASSUME TypeInv, Coherent, SizeInv, [Next]_vars
  PROVE  SizeInv'
<1>0. Shapes /\ RqSizeInv /\ FdSizeInv
  BY ShapesType DEF SizeInv
<1> USE <1>0 DEF Shapes, SizeInv, Runners, stopVars, qVars, fdVars, ctxVars, prqVars, callVars,
                 jobVars, counts, requestSide, outside, allButPc, allButStop
<1>1. ASSUME NEW t \in Submitters, NEW j \in Jobs, NEW b \in BlockingModes,
            submitTask(t, j, b) PROVE SizeInv'
  BY <1>1, StillRq, StillFd DEF submitTask, Goto, RqStill, FdStill
<1>2. ASSUME NEW t \in Submitters, CheckState(t) PROVE SizeInv'
  <2>1. /\ UNCHANGED <<qVars, fdVars, fdPc>> /\ pc[t] = "state"
        /\ \E l \in {"idle", "fdRoom", "rqRoom"} : pc' = [pc EXCEPT ![t] = l]
    BY <1>2 DEF CheckState, Goto, Reject
  <2> QED BY SMT, <2>1, StillRq, StillFd DEF RqStill, FdStill
<1>3. ASSUME NEW t \in Submitters, RequestRoom(t) PROVE SizeInv'
  <2>1. /\ UNCHANGED <<qVars, fdVars, fdPc>> /\ pc[t] = "rqRoom"
        /\ \E l \in {"idle", "rqPause", "rqSize"} : pc' = [pc EXCEPT ![t] = l]
    BY <1>3 DEF RequestRoom, CheckRoom, Goto, Reject
  <2> QED BY SMT, <2>1, StillRq, StillFd DEF RqStill, FdStill
<1>4. ASSUME NEW t \in Submitters, RequestPause(t) PROVE SizeInv'
  BY <1>4, StillRq, StillFd DEF RequestPause, Pause, Goto, RqStill, FdStill
<1>5. ASSUME NEW t \in Submitters, RequestSize(t) PROVE SizeInv'
  BY <1>5, RequestSizeRq, StillFd DEF RequestSize, Goto, FdStill
<1>6. ASSUME NEW t \in Submitters, RequestCount(t) PROVE SizeInv'
  BY <1>6, StillRq, StillFd DEF RequestCount, Goto, RqStill, FdStill
<1>7. ASSUME NEW t \in Submitters, RequestPush(t) PROVE SizeInv'
  BY <1>7, RequestPushRq, StillFd DEF RequestPush, Goto, FdStill
<1>8. ASSUME NEW t \in Submitters, RequestMin(t) PROVE SizeInv'
  BY <1>8, StillRq, StillFd DEF RequestMin, Goto, RqStill, FdStill
<1>9. ASSUME NEW t \in Submitters, RequestLock(t) PROVE SizeInv'
  <2>1. /\ UNCHANGED <<qVars, fdVars, fdPc>> /\ pc[t] = "rqLock"
        /\ \E l \in {"prqCtx", "idle"} : pc' = [pc EXCEPT ![t] = l]
    BY <1>9 DEF RequestLock, Goto
  <2> QED BY SMT, <2>1, StillRq, StillFd DEF RqStill, FdStill
<1>10. ASSUME NEW t \in Submitters, FdRoom(t) PROVE SizeInv'
  <2>1. /\ UNCHANGED <<qVars, fdVars, fdPc>> /\ pc[t] = "fdRoom"
        /\ \E l \in {"idle", "fdPause", "fdCount"} : pc' = [pc EXCEPT ![t] = l]
    BY <1>10 DEF FdRoom, CheckRoom, Goto, Reject
  <2> QED BY SMT, <2>1, StillRq, StillFd DEF RqStill, FdStill
<1>11. ASSUME NEW t \in Submitters, FdPause(t) PROVE SizeInv'
  BY <1>11, StillRq, StillFd DEF FdPause, Pause, Goto, RqStill, FdStill
<1>12. ASSUME NEW t \in Submitters, FdCount(t) PROVE SizeInv'
  BY <1>12, StillRq, StillFd DEF FdCount, Goto, RqStill, FdStill
<1>13. ASSUME NEW t \in Submitters, FdSize(t) PROVE SizeInv'
  BY <1>13, StillRq, FdSizeFd DEF FdSize, Goto, RqStill
<1>14. ASSUME NEW t \in Submitters, FdPush(t) PROVE SizeInv'
  BY <1>14, StillRq, FdPushFd DEF FdPush, Goto, RqStill
<1>15. ASSUME NEW t \in Submitters, FdPost(t) PROVE SizeInv'
  BY <1>15, StillRq, StillFd DEF FdPost, Goto, RqStill, FdStill
<1>16. ASSUME NEW t \in Submitters, RequestSpurious(t) PROVE SizeInv'
  BY <1>16, StillRq, StillFd DEF RequestSpurious, SpuriousWakeup, Goto, RqStill, FdStill
<1>17. ASSUME NEW t \in Submitters, FdSpurious(t) PROVE SizeInv'
  BY <1>17, StillRq, StillFd DEF FdSpurious, SpuriousWakeup, Goto, RqStill, FdStill
<1>18. ASSUME NEW r \in Runners, PrqCtx(r) PROVE SizeInv'
  BY <1>18, StillRq, StillFd DEF PrqCtx, Goto, RqStill, FdStill
<1>19. ASSUME NEW r \in Runners, PrqTake(r) PROVE SizeInv'
  BY <1>19, TakeRq, StillFd DEF PrqTake, Goto, FdStill
<1>20. ASSUME NEW r \in Runners, PrqSem(r) PROVE SizeInv'
  BY <1>20, SemRq, StillFd DEF PrqSem, Goto, FdStill
<1>21. ASSUME NEW r \in Runners, PrqTaken(r) PROVE SizeInv'
  <2>1. /\ UNCHANGED <<qVars, fdVars, fdPc>> /\ pc[r] = "prqTake"
        /\ \E l \in {"event", "idle", "prqSubmit"} : pc' = [pc EXCEPT ![r] = l]
    BY <1>21 DEF PrqTaken, Goto, Unlock
  <2> QED BY SMT, <2>1, StillRq, StillFd DEF RqStill, FdStill
<1>22. ASSUME NEW r \in Runners, PrqSubmitAll(r) PROVE SizeInv'
  BY <1>22, StillRq, StillFd DEF PrqSubmitAll, Goto, RqStill, FdStill
<1>23. ASSUME NEW r \in Runners, PrqSubmitRetry(r) PROVE SizeInv'
  BY <1>23, StillRq, StillFd DEF PrqSubmitRetry, Goto, RqStill, FdStill
<1>24. ASSUME NEW r \in Runners, PrqSubmitPart(r) PROVE SizeInv'
  BY <1>24, StillRq, StillFd DEF PrqSubmitPart, Goto, RqStill, FdStill
<1>25. ASSUME NEW r \in Runners, PrqSubmitFatal(r) PROVE SizeInv'
  BY SMT, <1>25, StillRq, StillFd DEF PrqSubmitFatal, Goto, RqStill, FdStill
<1>26. ASSUME NEW r \in Runners, PrqSubmitGivesUp(r) PROVE SizeInv'
  BY SMT, <1>26, StillRq, StillFd DEF PrqSubmitGivesUp, Goto, RqStill, FdStill
<1>27. ASSUME NEW r \in Runners, PrqLeft(r) PROVE SizeInv'
  <2>1. /\ UNCHANGED <<qVars, fdVars, fdPc>> /\ pc[r] = "prqLeft"
        /\ \E l \in {"prqSpace", "prqFail"} : pc' = [pc EXCEPT ![r] = l]
    BY <1>27 DEF PrqLeft, Goto
  <2> QED BY <2>1, StillRq, StillFd DEF RqStill, FdStill
<1>28. ASSUME NEW r \in Runners, PrqFail(r) PROVE SizeInv'
  BY <1>28, StillRq, StillFd DEF PrqFail, Goto, RqStill, FdStill
<1>29. ASSUME NEW r \in Runners, PrqGiveBack(r) PROVE SizeInv'
  BY SMT, <1>29, StillRq, StillFd DEF PrqGiveBack, Goto, RqStill, FdStill
<1>30. ASSUME NEW r \in Runners, PrqSpace(r) PROVE SizeInv'
  <2>1. /\ UNCHANGED <<qVars, fdVars, fdPc>> /\ pc[r] = "prqSpace"
        /\ \E l \in {"prqNotify", "event", "idle"} : pc' = [pc EXCEPT ![r] = l]
    BY <1>30 DEF PrqSpace, Goto, Unlock
  <2> QED BY <2>1, StillRq, StillFd DEF RqStill, FdStill
<1>31. ASSUME NEW r \in Runners, PrqNotify(r) PROVE SizeInv'
  BY <1>31, StillRq, StillFd DEF PrqNotify, NotifyAll, Goto, RqStill, FdStill
<1>32. ASSUME NEW j \in Jobs, KernelComplete(j) PROVE SizeInv'
  BY <1>32, StillRq, StillFd DEF KernelComplete, Goto, RqStill, FdStill
<1>33. ASSUME CompleterLoop PROVE SizeInv'
  BY <1>33, StillRq, StillFd DEF CompleterLoop, Goto, RqStill, FdStill
<1>34. ASSUME EpollWait PROVE SizeInv'
  BY <1>34, StillRq, StillFd DEF EpollWait, Goto, RqStill, FdStill
<1>35. ASSUME EventsHandled PROVE SizeInv'
  BY <1>35, StillRq, StillFd DEF EventsHandled, Goto, RqStill, FdStill
<1>36. ASSUME CompleterLock PROVE SizeInv'
  BY <1>36, StillRq, StillFd DEF CompleterLock, Goto, RqStill, FdStill
<1>37. ASSUME CtxEvent PROVE SizeInv'
  BY <1>37, StillRq, StillFd DEF CtxEvent, Goto, RqStill, FdStill
<1>38. ASSUME Callback PROVE SizeInv'
  BY SMT, <1>38, StillRq, StillFd DEF Callback, Goto, RqStill, FdStill
<1>39. ASSUME CallbackInc PROVE SizeInv'
  BY <1>39, StillRq, StillFd DEF CallbackInc, Goto, RqStill, FdStill
<1>40. ASSUME CallbackPost PROVE SizeInv'
  BY SMT, <1>40, StillRq, StillFd DEF CallbackPost, Goto, RqStill, FdStill
<1>41. ASSUME CallbacksDone PROVE SizeInv'
  BY <1>41, StillRq, StillFd DEF CallbacksDone, Goto, RqStill, FdStill
<1>42. ASSUME NEW e \in {"shutdown", "timer"}, WakeupEvent(e) PROVE SizeInv'
  BY <1>42, StillRq, StillFd DEF WakeupEvent, Goto, RqStill, FdStill
<1>43. ASSUME FdLoop PROVE SizeInv'
  BY <1>43, StillRq, StillFd DEF FdLoop, Goto, RqStill, FdStill
<1>44. ASSUME FdWait PROVE SizeInv'
  BY <1>44, StillRq, StillFd DEF FdWait, Goto, RqStill, FdStill
<1>45. ASSUME FdConsume PROVE SizeInv'
  BY <1>45, StillRq, FdThreadFd DEF FdConsume, Goto, RqStill
<1>46. ASSUME FdDec PROVE SizeInv'
  BY <1>46, StillRq, FdThreadFd DEF FdDec, Goto, RqStill
<1>47. ASSUME FdSpace PROVE SizeInv'
  BY SMT, <1>47, StillRq, StillFd DEF FdSpace, Goto, RqStill, FdStill
<1>48. ASSUME FdNotify PROVE SizeInv'
  BY <1>48, StillRq, StillFd DEF FdNotify, NotifyAll, Goto, RqStill, FdStill
<1>49. ASSUME stop PROVE SizeInv'
  BY <1>49, StillRq, StillFd DEF stop, Goto, RqStill, FdStill
<1>50. ASSUME StopFdWake PROVE SizeInv'
  BY <1>50, StillRq, StillFd DEF StopFdWake, Goto, RqStill, FdStill
<1>51. ASSUME StopFdJoin PROVE SizeInv'
  BY <1>51, StillRq, StillFd DEF StopFdJoin, Goto, RqStill, FdStill
<1>52. ASSUME StopSend PROVE SizeInv'
  BY SMT, <1>52, StillRq, StillFd DEF StopSend, Goto, RqStill, FdStill
<1>53. ASSUME StopJoin PROVE SizeInv'
  BY SMT, <1>53, StillRq, StillFd DEF StopJoin, Goto, RqStill, FdStill
<1>54. ASSUME UNCHANGED vars PROVE SizeInv'
  BY <1>54, StillRq, StillFd DEF vars, RqStill, FdStill
<1>55. ASSUME NEW r \in Runners, PrqFailCount(r) PROVE SizeInv'
  BY <1>55, StillRq, StillFd DEF PrqFailCount, Goto, RqStill, FdStill
<1>56. ASSUME CallbackCount PROVE SizeInv'
  BY <1>56, StillRq, StillFd DEF CallbackCount, Goto, RqStill, FdStill
<1>57. ASSUME FdCounted PROVE SizeInv'
  BY <1>57, StillRq, StillFd DEF FdCounted, RqStill, FdStill
<1> HIDE DEF Shapes, SizeInv
<1> QED
  BY <1>1, <1>2, <1>3, <1>4, <1>5, <1>6, <1>7, <1>8, <1>9, <1>10, <1>11, <1>12,
     <1>13, <1>14, <1>15, <1>16, <1>17, <1>18, <1>19, <1>20, <1>21, <1>22, <1>23,
     <1>24, <1>25, <1>26, <1>27, <1>28, <1>29, <1>30, <1>31, <1>32, <1>33, <1>34,
     <1>35, <1>36, <1>37, <1>38, <1>39, <1>40, <1>41, <1>42, <1>43, <1>44, <1>45,
     <1>46, <1>47, <1>48, <1>49, <1>50, <1>51, <1>52, <1>53, <1>54, <1>55, <1>56, <1>57
     DEF Next, SubmitterStep, ProcessRequestQueue, ProcessCompletions, ProcessFdQueue,
         Stopping, Terminated

SizeAlways == CtxAlways /\ SizeInv

\* The size invariant holds in every behaviour of a reliable io_submit.
LEMMA AlwaysSize == ASSUME Reliable PROVE Spec => []SizeAlways
<1>1. Init => SizeAlways
  BY InitType, InitCoherent, InitCtx, InitSizes DEF SizeAlways, CtxAlways, CoherentAlways, SizeInv
<1>2. SizeAlways /\ [Next]_vars => SizeAlways'
  BY TypeStep, CoherentStep, CtxStep, SizeStep DEF SizeAlways, CtxAlways, CoherentAlways
<1> QED BY <1>1, <1>2, PTL DEF Spec

\* requestQueueSize_ and fdQueueSize_ differ from the lengths of their queues
\* only by the threads between a count and its push, or a pop and its
\* decrement, for every number of threads.
THEOREM SizesExactCorrect == ASSUME Reliable PROVE Spec => []SizesExact
<1>1. SizeAlways => SizesExact
  BY SizesSplit DEF SizeAlways, SizeInv
<1> QED BY <1>1, AlwaysSize, PTL
-----------------------------------------------------------------------------
(***************************************************************************)
(* Every queued request has a thread that will take one.                   *)
(***************************************************************************)
\* The holder of the mutex finds a context for its first request, and knows
\* that it has collected something before it looks at the semaphore again.
CollectInv ==
  \A r \in Runners : /\ pc[r] = "prqTake" /\ batch = {} => numAvailable > 0
                     /\ pc[r] = "prqSem" => batch # {}

TurnInv == CollectInv /\ NoStrandedRequest

\* At the start nothing is queued.
LEMMA InitTurn == Init => TurnInv
<1> SUFFICES ASSUME Init PROVE TurnInv
  OBVIOUS
<1>1. CollectInv
  BY DEF Init, CollectInv, Runners
<1>2. Cardinality(Committed) \in Nat
  BY CardSubmitters DEF Committed
<1> QED BY SMT, <1>1, <1>2 DEF Init, TurnInv, NoStrandedRequest

TurnStill ==
  /\ UNCHANGED <<requestQueue, batch>>
  /\ numAvailable' >= numAvailable
  /\ \A r \in Runners : pc'[r] \in {"prqTake", "prqSem"} => pc'[r] = pc[r]
  /\ \A t \in Submitters : pc[t] \in {"rqMin", "rqLock", "prqCtx", "prqTake"} => pc'[t] = pc[t]

\* More committed threads are not fewer.
LEMMA CommittedGrows ==
  ASSUME Committed \subseteq Committed'
  PROVE  Cardinality(Committed) <= Cardinality(Committed') /\ Cardinality(Committed) \in Nat
                                                        /\ Cardinality(Committed') \in Nat
<1>1. Committed' \in SUBSET Submitters /\ IsFiniteSet(Committed')
  BY CardSubmitters DEF Committed
<1> QED BY <1>1, FS_Subset, FS_CardinalityType

\* A step that leaves the queue, the batch and the committed threads alone.
LEMMA StillTurn ==
  ASSUME TypeInv, numAvailable' \in Int, TurnInv, TurnStill PROVE TurnInv'
<1>1. CollectInv'
  BY SMT DEF TurnInv, CollectInv, TurnStill, TypeInv, TypeOK
<1>2. Committed \subseteq Committed'
  BY DEF Committed, TurnStill
<1>3. Len(requestQueue) \in Nat
  BY SMT DEF TypeInv, TypeOK
<1> QED BY SMT, <1>1, <1>2, <1>3, CommittedGrows DEF TurnInv, NoStrandedRequest, TurnStill

\* A thread that pushes a request commits itself.
LEMMA PushTurn ==
  ASSUME TypeInv, TurnInv, NEW t \in Submitters, RequestPush(t)
  PROVE  TurnInv'
<1>1. /\ pc[t] = "rqPush" /\ pc' = [pc EXCEPT ![t] = "rqMin"]
      /\ requestQueue' = Append(requestQueue, cur[t])
      /\ UNCHANGED <<batch, numAvailable>>
  BY DEF RequestPush, Goto, prqVars, ctxVars
<1>2. Committed' = Committed \cup {t} /\ t \notin Committed
  BY SMT, <1>1 DEF Committed, TypeInv, TypeOK, Runners
<1>3. IsFiniteSet(Committed) /\ Cardinality(Committed) \in Nat
  BY CardSubmitters DEF Committed
<1>4. Cardinality(Committed') = Cardinality(Committed) + 1
  BY <1>2, <1>3, FS_AddElement
<1>5. Len(requestQueue') = Len(requestQueue) + 1 /\ Len(requestQueue) \in Nat
  BY SMT, <1>1 DEF TypeInv, TypeOK
<1>6. CollectInv'
  BY <1>1 DEF TurnInv, CollectInv, TypeInv, TypeOK, Runners
<1> QED BY SMT, <1>3, <1>4, <1>5, <1>6 DEF TurnInv, NoStrandedRequest

\* Nothing is stranded in an empty queue.
LEMMA EmptyTurn ==
  ASSUME CollectInv', requestQueue' = <<>>
  PROVE  TurnInv'
<1>1. Cardinality(Committed') \in Nat
  BY CardSubmitters DEF Committed
<1> QED BY SMT, <1>1 DEF TurnInv, NoStrandedRequest

\* The counter is at least the length of the queue.
LEMMA SizeBounds ==
  ASSUME TypeInv, RqSizeInv
  PROVE  Len(requestQueue) \in Nat /\ Len(requestQueue) <= requestQueueSize
<1>1. Cardinality(RqPending) \in Nat /\ One(Popping) \in Nat /\ Len(requestQueue) \in Nat
  BY SMT, PendingCard DEF One, TypeInv, TypeOK
<1> QED BY SMT, <1>1 DEF RqSizeInv

\* A thread that finds the counter below minSubmitSize_ leaves nothing behind.
LEMMA LeaveTurn ==
  ASSUME TypeInv, RqSizeInv, TurnInv, NEW t \in Submitters, RequestMin(t) \/ RequestLock(t)
  PROVE  TurnInv'
<1>1. /\ UNCHANGED <<requestQueue, batch, numAvailable>>
      /\ pc[t] \in {"rqMin", "rqLock"}
      /\ \/ pc' = [pc EXCEPT ![t] = "rqLock"]
         \/ pc' = [pc EXCEPT ![t] = "prqCtx"]
         \/ pc' = [pc EXCEPT ![t] = "idle"] /\ requestQueueSize < MinSubmitSize
  BY SMT DEF RequestMin, RequestLock, Goto, allButPc, requestSide, qVars, ctxVars, prqVars, TypeInv,
         TypeOK, MinSubmitSize
<1>2. CollectInv'
  BY <1>1 DEF TurnInv, CollectInv, TypeInv, TypeOK, Runners
<1>3. CASE pc' = [pc EXCEPT ![t] = "idle"] /\ requestQueueSize < MinSubmitSize
  <2>1. Len(requestQueue) = 0
    BY SMT, <1>3, SizeBounds DEF MinSubmitSize, TypeInv, TypeOK
  <2>2. requestQueue' = <<>>
    BY SMT, <1>1, <2>1 DEF TypeInv, TypeOK
  <2> QED BY <1>2, <2>2, EmptyTurn
<1>4. CASE \E l \in {"rqLock", "prqCtx"} : pc' = [pc EXCEPT ![t] = l]
  <2>1. Committed \subseteq Committed'
    BY <1>1, <1>4 DEF Committed, TypeInv, TypeOK, Runners
  <2>2. Len(requestQueue) \in Nat
    BY SMT DEF TypeInv, TypeOK
  <2> QED BY SMT, <1>1, <1>2, <2>1, <2>2, CommittedGrows DEF TurnInv, NoStrandedRequest
<1> QED BY <1>1, <1>3, <1>4

\* A thread that gets past ctxCond_ finds a context.
LEMMA ContextTurn ==
  ASSUME TypeInv, Coherent, CtxInv, TurnInv, NEW r \in Runners, PrqCtx(r)
  PROVE  TurnInv'
<1>1. /\ UNCHANGED <<requestQueue, batch, numAvailable>>
      /\ pc[r] = "prqCtx" /\ pc' = [pc EXCEPT ![r] = "prqTake"] /\ ctxCond > 0
  BY DEF PrqCtx, Goto, allButPc, requestSide, qVars, ctxVars, prqVars
<1>2. ~(\E s \in Runners : pc[s] = "prqSem")
  BY <1>1 DEF Coherent, LockInv, PrqLabels
<1>3. numAvailable > 0
  BY SMT, <1>1, <1>2 DEF CtxInv, CtxAccounting, One, TypeInv, TypeOK
<1>4. batch = {}
  BY <1>1 DEF Coherent, LockInv, BatchInv, PrqLabels
<1>5. CollectInv'
  BY <1>1, <1>3 DEF TurnInv, CollectInv, TypeInv, TypeOK
<1>6. Committed \subseteq Committed'
  BY SMT, <1>1, <1>4 DEF Committed, TypeInv, TypeOK
<1>7. Len(requestQueue) \in Nat
  BY SMT DEF TypeInv, TypeOK
<1> QED BY SMT, <1>1, <1>5, <1>6, <1>7, CommittedGrows DEF TurnInv, NoStrandedRequest

\* A committed thread takes one request out.
LEMMA TakeTurn ==
  ASSUME TypeInv, Coherent, TurnInv, NEW r \in Runners, PrqTake(r)
  PROVE  TurnInv'
<1>1. /\ pc[r] = "prqTake" /\ pc' = [pc EXCEPT ![r] = "prqSem"]
      /\ requestQueue # <<>> /\ requestQueue' = Tail(requestQueue)
      /\ batch' = batch \cup {Head(requestQueue)}
  BY DEF PrqTake, Goto
<1>2. \A s \in Runners : s # r => pc[s] \notin PrqLabels
  BY <1>1 DEF Coherent, LockInv, PrqLabels
<1>3. CollectInv'
  BY <1>1, <1>2 DEF CollectInv, PrqLabels, TypeInv, TypeOK
<1>4. Committed' = Committed \ {r}
  BY <1>1, <1>2 DEF Committed, PrqLabels, TypeInv, TypeOK, Runners
<1>5. IsFiniteSet(Committed) /\ Cardinality(Committed) \in Nat
  BY CardSubmitters DEF Committed
<1>6. Cardinality(Committed') >= Cardinality(Committed) - 1
  <2>1. CASE r \in Committed
    <3>1. Cardinality(Committed') = Cardinality(Committed) - 1
      BY <1>4, <1>5, <2>1, FS_RemoveElement
    <3> QED BY SMT, <1>5, <3>1
  <2>2. CASE r \notin Committed
    <3>1. Committed' = Committed
      BY <1>4, <2>2
    <3> QED BY SMT, <1>5, <3>1
  <2> QED BY <2>1, <2>2
<1>7. Len(requestQueue') = Len(requestQueue) - 1 /\ Len(requestQueue) \in Nat
  BY SMT, <1>1, HeadTail DEF TypeInv, TypeOK
<1>8. Cardinality(Committed') \in Nat
  BY CardSubmitters DEF Committed
<1> QED BY SMT, <1>3, <1>5, <1>6, <1>7, <1>8 DEF TurnInv, NoStrandedRequest

\* After the semaphore the collecting loop goes on with what it has.
LEMMA SemTurn ==
  ASSUME TypeInv, TurnInv, NEW r \in Runners, PrqSem(r)
  PROVE  TurnInv'
<1>1. /\ pc[r] = "prqSem" /\ pc' = [pc EXCEPT ![r] = "prqTake"]
      /\ UNCHANGED <<requestQueue, batch, numAvailable>>
  BY DEF PrqSem, Goto, prqVars
<1>2. CollectInv'
  BY <1>1 DEF TurnInv, CollectInv, TypeInv, TypeOK
<1>3. Committed \subseteq Committed'
  BY SMT, <1>1 DEF Committed, TypeInv, TypeOK
<1>4. Len(requestQueue) \in Nat
  BY SMT DEF TypeInv, TypeOK
<1> QED BY SMT, <1>1, <1>2, <1>3, <1>4, CommittedGrows DEF TurnInv, NoStrandedRequest

\* The collecting loop ends with nothing only when the queue is empty.
LEMMA TakenTurn ==
  ASSUME TypeInv, TurnInv, NEW r \in Runners, PrqTaken(r)
  PROVE  TurnInv'
<1>1. /\ pc[r] = "prqTake" /\ UNCHANGED <<requestQueue, batch, numAvailable>>
      /\ numAvailable <= 0 \/ requestQueue = <<>>
      /\ \E l \in {"event", "idle", "prqSubmit"} : pc' = [pc EXCEPT ![r] = l]
  BY SMT DEF PrqTaken, Goto, Unlock, qVars, ctxVars, isEmpty, TypeInv, TypeOK
<1>2. CollectInv'
  BY <1>1 DEF TurnInv, CollectInv, TypeInv, TypeOK
<1>3. CASE batch = {}
  BY SMT, <1>1, <1>2, <1>3, EmptyTurn DEF TurnInv, CollectInv, TypeInv, TypeOK
<1>4. CASE batch # {}
  <2>1. Committed \subseteq Committed'
    BY SMT, <1>1, <1>4 DEF Committed, TypeInv, TypeOK
  <2>2. Len(requestQueue) \in Nat
    BY SMT DEF TypeInv, TypeOK
  <2> QED BY SMT, <1>1, <1>2, <2>1, <2>2, CommittedGrows DEF TurnInv, NoStrandedRequest
<1> QED BY <1>3, <1>4

\* The batch is handed over or given up by the holder of the mutex.
LEMMA EmptiedTurn ==
  ASSUME TypeInv, Coherent, TurnInv, NEW r \in Runners, PrqSubmitAll(r) \/ PrqGiveBack(r)
  PROVE  TurnInv'
<1>1. /\ UNCHANGED requestQueue /\ pc[r] \in {"prqSubmit", "prqFail"}
      /\ \E l \in {"prqLeft", "prqSpace"} : pc' = [pc EXCEPT ![r] = l]
  BY DEF PrqSubmitAll, PrqGiveBack, Goto, qVars
<1>2. \A s \in Runners : s # r => pc[s] \notin PrqLabels
  BY <1>1 DEF Coherent, LockInv, PrqLabels
<1>3. CollectInv'
  BY <1>1, <1>2 DEF CollectInv, PrqLabels, TypeInv, TypeOK
<1>4. Committed \subseteq Committed'
  BY <1>1, <1>2 DEF Committed, PrqLabels, TypeInv, TypeOK, Runners
<1>5. Len(requestQueue) \in Nat
  BY SMT DEF TypeInv, TypeOK
<1> QED BY SMT, <1>1, <1>3, <1>4, <1>5, CommittedGrows DEF TurnInv, NoStrandedRequest

\* Every step keeps a committed thread for every queued request.
LEMMA TurnStep ==
  ASSUME Reliable, TypeInv, Coherent, CtxInv, SizeInv, TurnInv, [Next]_vars
  PROVE  TurnInv'
<1>0. Shapes /\ RqSizeInv /\ numAvailable \in Int
  BY ShapesType DEF SizeInv, TypeInv, TypeOK
<1> USE <1>0 DEF Shapes, Runners, stopVars, qVars, fdVars, ctxVars, prqVars, callVars,
                 jobVars, counts, requestSide, outside, allButPc, allButStop
<1>1. ASSUME NEW t \in Submitters, NEW j \in Jobs, NEW b \in BlockingModes,
            submitTask(t, j, b) PROVE TurnInv'
  BY SMT, <1>1, StillTurn DEF submitTask, Goto, TurnStill
<1>2. ASSUME NEW t \in Submitters, CheckState(t) PROVE TurnInv'
  <2>1. /\ UNCHANGED <<qVars, batch, numAvailable>> /\ pc[t] = "state"
        /\ \E l \in {"idle", "fdRoom", "rqRoom"} : pc' = [pc EXCEPT ![t] = l]
    BY <1>2 DEF CheckState, Goto, Reject
  <2> QED BY SMT, <2>1, StillTurn DEF TurnStill
<1>3. ASSUME NEW t \in Submitters, RequestRoom(t) PROVE TurnInv'
  <2>1. /\ UNCHANGED <<qVars, batch, numAvailable>> /\ pc[t] = "rqRoom"
        /\ \E l \in {"idle", "rqPause", "rqSize"} : pc' = [pc EXCEPT ![t] = l]
    BY <1>3 DEF RequestRoom, CheckRoom, Goto, Reject
  <2> QED BY SMT, <2>1, StillTurn DEF TurnStill
<1>4. ASSUME NEW t \in Submitters, RequestPause(t) PROVE TurnInv'
  BY SMT, <1>4, StillTurn DEF RequestPause, Pause, Goto, TurnStill
<1>5. ASSUME NEW t \in Submitters, RequestSize(t) PROVE TurnInv'
  BY SMT, <1>5, StillTurn DEF RequestSize, Goto, TurnStill
<1>6. ASSUME NEW t \in Submitters, RequestCount(t) PROVE TurnInv'
  BY SMT, <1>6, StillTurn DEF RequestCount, Goto, TurnStill
<1>7. ASSUME NEW t \in Submitters, RequestPush(t) PROVE TurnInv'
  BY <1>7, PushTurn
<1>8. ASSUME NEW t \in Submitters, RequestMin(t) PROVE TurnInv'
  BY <1>8, LeaveTurn
<1>9. ASSUME NEW t \in Submitters, RequestLock(t) PROVE TurnInv'
  BY <1>9, LeaveTurn
<1>10. ASSUME NEW t \in Submitters, FdRoom(t) PROVE TurnInv'
  <2>1. /\ UNCHANGED <<qVars, batch, numAvailable>> /\ pc[t] = "fdRoom"
        /\ \E l \in {"idle", "fdPause", "fdCount"} : pc' = [pc EXCEPT ![t] = l]
    BY <1>10 DEF FdRoom, CheckRoom, Goto, Reject
  <2> QED BY SMT, <2>1, StillTurn DEF TurnStill
<1>11. ASSUME NEW t \in Submitters, FdPause(t) PROVE TurnInv'
  BY SMT, <1>11, StillTurn DEF FdPause, Pause, Goto, TurnStill
<1>12. ASSUME NEW t \in Submitters, FdCount(t) PROVE TurnInv'
  BY SMT, <1>12, StillTurn DEF FdCount, Goto, TurnStill
<1>13. ASSUME NEW t \in Submitters, FdSize(t) PROVE TurnInv'
  BY SMT, <1>13, StillTurn DEF FdSize, Goto, TurnStill
<1>14. ASSUME NEW t \in Submitters, FdPush(t) PROVE TurnInv'
  BY SMT, <1>14, StillTurn DEF FdPush, Goto, TurnStill
<1>15. ASSUME NEW t \in Submitters, FdPost(t) PROVE TurnInv'
  BY SMT, <1>15, StillTurn DEF FdPost, Goto, TurnStill
<1>16. ASSUME NEW t \in Submitters, RequestSpurious(t) PROVE TurnInv'
  BY SMT, <1>16, StillTurn DEF RequestSpurious, SpuriousWakeup, Goto, TurnStill
<1>17. ASSUME NEW t \in Submitters, FdSpurious(t) PROVE TurnInv'
  BY SMT, <1>17, StillTurn DEF FdSpurious, SpuriousWakeup, Goto, TurnStill
<1>18. ASSUME NEW r \in Runners, PrqCtx(r) PROVE TurnInv'
  BY <1>18, ContextTurn
<1>19. ASSUME NEW r \in Runners, PrqTake(r) PROVE TurnInv'
  BY <1>19, TakeTurn
<1>20. ASSUME NEW r \in Runners, PrqSem(r) PROVE TurnInv'
  BY <1>20, SemTurn
<1>21. ASSUME NEW r \in Runners, PrqTaken(r) PROVE TurnInv'
  BY <1>21, TakenTurn
<1>22. ASSUME NEW r \in Runners, PrqSubmitAll(r) PROVE TurnInv'
  BY <1>22, EmptiedTurn
<1>23. ASSUME NEW r \in Runners, PrqSubmitRetry(r) PROVE TurnInv'
  BY SMT, <1>23, StillTurn DEF PrqSubmitRetry, Goto, TurnStill
<1>24. ASSUME NEW r \in Runners, PrqSubmitPart(r) PROVE TurnInv'
  BY <1>24 DEF PrqSubmitPart, Reliable
<1>25. ASSUME NEW r \in Runners, PrqSubmitFatal(r) PROVE TurnInv'
  BY <1>25 DEF PrqSubmitFatal, Reliable
<1>26. ASSUME NEW r \in Runners, PrqSubmitGivesUp(r) PROVE TurnInv'
  BY SMT, <1>26, StillTurn DEF PrqSubmitGivesUp, Goto, TurnStill
<1>27. ASSUME NEW r \in Runners, PrqLeft(r) PROVE TurnInv'
  <2>1. /\ UNCHANGED <<qVars, batch, numAvailable>> /\ pc[r] = "prqLeft"
        /\ \E l \in {"prqSpace", "prqFail"} : pc' = [pc EXCEPT ![r] = l]
    BY <1>27 DEF PrqLeft, Goto
  <2> QED BY SMT, <2>1, StillTurn DEF TurnStill
<1>28. ASSUME NEW r \in Runners, PrqFail(r) PROVE TurnInv'
  BY SMT, <1>28, StillTurn DEF PrqFail, Goto, TurnStill
<1>29. ASSUME NEW r \in Runners, PrqGiveBack(r) PROVE TurnInv'
  BY <1>29, EmptiedTurn
<1>30. ASSUME NEW r \in Runners, PrqSpace(r) PROVE TurnInv'
  <2>1. /\ UNCHANGED <<qVars, batch, numAvailable>> /\ pc[r] = "prqSpace"
        /\ \E l \in {"prqNotify", "event", "idle"} : pc' = [pc EXCEPT ![r] = l]
    BY <1>30 DEF PrqSpace, Goto, Unlock
  <2> QED BY SMT, <2>1, StillTurn DEF TurnStill
<1>31. ASSUME NEW r \in Runners, PrqNotify(r) PROVE TurnInv'
  BY SMT, <1>31, StillTurn DEF PrqNotify, NotifyAll, Goto, TurnStill
<1>32. ASSUME NEW j \in Jobs, KernelComplete(j) PROVE TurnInv'
  BY SMT, <1>32, StillTurn DEF KernelComplete, Goto, TurnStill
<1>33. ASSUME CompleterLoop PROVE TurnInv'
  BY SMT, <1>33, StillTurn DEF CompleterLoop, Goto, TurnStill
<1>34. ASSUME EpollWait PROVE TurnInv'
  BY SMT, <1>34, StillTurn DEF EpollWait, Goto, TurnStill
<1>35. ASSUME EventsHandled PROVE TurnInv'
  BY SMT, <1>35, StillTurn DEF EventsHandled, Goto, TurnStill
<1>36. ASSUME CompleterLock PROVE TurnInv'
  BY SMT, <1>36, StillTurn DEF CompleterLock, Goto, TurnStill
<1>37. ASSUME CtxEvent PROVE TurnInv'
  BY SMT, <1>37, StillTurn DEF CtxEvent, Goto, TurnStill
<1>38. ASSUME Callback PROVE TurnInv'
  BY SMT, <1>38, StillTurn DEF Callback, Goto, TurnStill
<1>39. ASSUME CallbackInc PROVE TurnInv'
  BY SMT, <1>39, StillTurn DEF CallbackInc, incrementNumAvailable, Goto, TurnStill
<1>40. ASSUME CallbackPost PROVE TurnInv'
  BY SMT, <1>40, StillTurn DEF CallbackPost, Goto, TurnStill
<1>41. ASSUME CallbacksDone PROVE TurnInv'
  BY SMT, <1>41, StillTurn DEF CallbacksDone, Goto, TurnStill
<1>42. ASSUME NEW e \in {"shutdown", "timer"}, WakeupEvent(e) PROVE TurnInv'
  BY SMT, <1>42, StillTurn DEF WakeupEvent, Goto, TurnStill
<1>43. ASSUME FdLoop PROVE TurnInv'
  BY SMT, <1>43, StillTurn DEF FdLoop, Goto, TurnStill
<1>44. ASSUME FdWait PROVE TurnInv'
  BY SMT, <1>44, StillTurn DEF FdWait, Goto, TurnStill
<1>45. ASSUME FdConsume PROVE TurnInv'
  BY SMT, <1>45, StillTurn DEF FdConsume, Goto, TurnStill
<1>46. ASSUME FdDec PROVE TurnInv'
  BY SMT, <1>46, StillTurn DEF FdDec, Goto, TurnStill
<1>47. ASSUME FdSpace PROVE TurnInv'
  BY SMT, <1>47, StillTurn DEF FdSpace, Goto, TurnStill
<1>48. ASSUME FdNotify PROVE TurnInv'
  BY SMT, <1>48, StillTurn DEF FdNotify, NotifyAll, Goto, TurnStill
<1>49. ASSUME stop PROVE TurnInv'
  BY SMT, <1>49, StillTurn DEF stop, Goto, TurnStill
<1>50. ASSUME StopFdWake PROVE TurnInv'
  BY SMT, <1>50, StillTurn DEF StopFdWake, Goto, TurnStill
<1>51. ASSUME StopFdJoin PROVE TurnInv'
  BY SMT, <1>51, StillTurn DEF StopFdJoin, Goto, TurnStill
<1>52. ASSUME StopSend PROVE TurnInv'
  BY SMT, <1>52, StillTurn DEF StopSend, Goto, TurnStill
<1>53. ASSUME StopJoin PROVE TurnInv'
  BY SMT, <1>53, StillTurn DEF StopJoin, Goto, TurnStill
<1>54. ASSUME UNCHANGED vars PROVE TurnInv'
  BY SMT, <1>54, StillTurn DEF vars, TurnStill
<1>55. ASSUME NEW r \in Runners, PrqFailCount(r) PROVE TurnInv'
  BY SMT, <1>55, StillTurn DEF PrqFailCount, Goto, TurnStill
<1>56. ASSUME CallbackCount PROVE TurnInv'
  BY SMT, <1>56, StillTurn DEF CallbackCount, Goto, TurnStill
<1>57. ASSUME FdCounted PROVE TurnInv'
  BY SMT, <1>57, StillTurn DEF FdCounted, TurnStill
<1> HIDE DEF Shapes
<1> QED
  BY <1>1, <1>2, <1>3, <1>4, <1>5, <1>6, <1>7, <1>8, <1>9, <1>10, <1>11, <1>12,
     <1>13, <1>14, <1>15, <1>16, <1>17, <1>18, <1>19, <1>20, <1>21, <1>22, <1>23,
     <1>24, <1>25, <1>26, <1>27, <1>28, <1>29, <1>30, <1>31, <1>32, <1>33, <1>34,
     <1>35, <1>36, <1>37, <1>38, <1>39, <1>40, <1>41, <1>42, <1>43, <1>44, <1>45,
     <1>46, <1>47, <1>48, <1>49, <1>50, <1>51, <1>52, <1>53, <1>54, <1>55, <1>56, <1>57
     DEF Next, SubmitterStep, ProcessRequestQueue, ProcessCompletions, ProcessFdQueue,
         Stopping, Terminated

QueueAlways == CtxAlways /\ SizeInv /\ TurnInv

\* The queue invariant holds in every behaviour of a reliable io_submit.
LEMMA AlwaysQueue == ASSUME Reliable PROVE Spec => []QueueAlways
<1>1. Init => QueueAlways
  BY InitType, InitCoherent, InitCtx, InitSizes, InitTurn
     DEF QueueAlways, CtxAlways, CoherentAlways, SizeInv
<1>2. QueueAlways /\ [Next]_vars => QueueAlways'
  BY TypeStep, CoherentStep, CtxStep, SizeStep, TurnStep DEF QueueAlways, CtxAlways, CoherentAlways
<1> QED BY <1>1, <1>2, PTL DEF Spec

\* No request is ever left in the queue without a client thread on its way to
\* take one out, for every number of threads, jobs and contexts.
THEOREM NoStrandedRequestCorrect == ASSUME Reliable PROVE Spec => []NoStrandedRequest
<1>1. QueueAlways => NoStrandedRequest
  BY DEF QueueAlways, TurnInv
<1> QED BY <1>1, AlwaysQueue, PTL
=============================================================================
