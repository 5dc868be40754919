---------------------- MODULE IOExecutorServiceProofs -----------------------
(***************************************************************************)
(* IOExecutor implements IOService, for every number of threads, jobs and  *)
(* contexts, when stop() is called after the last submitTask() has         *)
(* returned.                                                               *)
(*                                                                         *)
(* A client sees of a job whether submitTask() has taken it and whether it *)
(* has been reported, so every step is first put into one of eight forms   *)
(* (StepForms); what is counted (CountInv) and what is promised (Refines)  *)
(* then follows form by form.                                              *)
(***************************************************************************)
EXTENDS IOExecutorProofs

\* Steps go to Zenon unless they name SMT; the assumptions on the constants.
USE Zenon
USE ThreadAssumption, SizeAssumption, EnvironmentAssumption

\* Whoever calls stop() has waited for the threads inside submitTask().
Orderly == MayStop => "noSubmitter" \in StopRequires

-----------------------------------------------------------------------------
(***************************************************************************)
(* The forms of a step.                                                    *)
(***************************************************************************)
\* The places of the jobs the executor has taken and not reported.
OutPlaces == {"queued", "fdQueued", "batch", "kernel", "event", "reaped"}

\* A thread in submitTask() may still refuse its job, is past the last check but
\* has not counted the job, or has counted it and not pushed it.
Before   == {"state", "rqRoom", "fdRoom"}
Entering == {"rqPause", "rqWait", "rqSize", "rqCount", "fdPause", "fdWait", "fdCount"}
Pushing  == {"rqPush", "fdSize", "fdPush"}

SameStage(t) ==
  /\ pc'[t] \in Before <=> pc[t] \in Before
  /\ pc'[t] \in Entering <=> pc[t] \in Entering
  /\ pc'[t] \in Pushing <=> pc[t] \in Pushing
  /\ cur'[t] = cur[t]

LocStill(j) ==
  \/ loc'[j] = loc[j]
  \/ loc[j] \in OutPlaces /\ loc'[j] \in OutPlaces
  \/ loc[j] = "failed" /\ loc'[j] = "gone"

\* The reports that have been made and not counted, and all of them.  A step
\* that counts a report makes none.
Uncounted == One(\E r \in Runners : pc[r] = "prqCount")
               + One(pc[Completer] = "count") + One(fdPc = "count")
Reported  == numCompleted + Uncounted

SameCounts == numQueued' = numQueued /\ Reported' = Reported

SameEnd == pc'[Completer] = "exited" <=> pc[Completer] = "exited"

AllStages   == \A t \in Submitters : SameStage(t)
OthersOf(t) == \A u \in Submitters : u # t => SameStage(u)
AllStill    == \A j \in Jobs : LocStill(j)
StillBut(j) == \A k \in Jobs : k # j => LocStill(k)

Rests == AllStages /\ AllStill /\ SameEnd /\ SameCounts

Calls(t, j) ==
  /\ pc[t] = "idle" /\ pc'[t] \in Before /\ cur'[t] = j /\ OthersOf(t)
  /\ loc[j] = "new" /\ loc'[j] = "held" /\ StillBut(j)
  /\ SameEnd /\ SameCounts

Refuses(t) ==
  /\ pc[t] \in Before /\ pc'[t] = "idle" /\ cur'[t] = cur[t] /\ OthersOf(t)
  /\ loc'[cur[t]] = "returned" /\ StillBut(cur[t])
  /\ SameEnd /\ SameCounts

Accepts(t) ==
  /\ pc[t] \in Before /\ pc'[t] \in Entering /\ cur'[t] = cur[t] /\ OthersOf(t)
  /\ AllStill /\ SameEnd /\ SameCounts

Counts(t) ==
  /\ pc[t] \in Entering /\ pc'[t] \in Pushing /\ cur'[t] = cur[t] /\ OthersOf(t)
  /\ AllStill /\ SameEnd /\ numQueued' = numQueued + 1 /\ Reported' = Reported

Pushes(t) ==
  /\ pc[t] \in Pushing /\ pc'[t] \notin HeldLabels /\ cur'[t] = cur[t] /\ OthersOf(t)
  /\ loc'[cur[t]] \in OutPlaces /\ StillBut(cur[t])
  /\ SameEnd /\ SameCounts

Reports(j) ==
  /\ loc[j] \in OutPlaces /\ loc'[j] \in {"failed", "gone"} /\ StillBut(j)
  /\ AllStages /\ SameEnd /\ Reported' = Reported + 1 /\ UNCHANGED numQueued

Exits ==
  /\ pc[Completer] = "loop" /\ pc'[Completer] = "exited" /\ AllDone
  /\ AllStages /\ AllStill /\ SameCounts

Forms ==
  \/ Rests
  \/ \E t \in Submitters, j \in Jobs : Calls(t, j)
  \/ \E t \in Submitters : Refuses(t) \/ Accepts(t) \/ Counts(t) \/ Pushes(t)
  \/ \E j \in Jobs : Reports(j)
  \/ Exits

\* Uncounted is a number.
LEMMA UncountedNat == Uncounted \in Nat
BY SMT DEF Uncounted, One

\* A step in which no thread begins or ends to owe a count.
LEMMA ReportedKept ==
  ASSUME UNCHANGED <<numCompleted, fdPc>>,
         \A r \in Runners : pc'[r] = "prqCount" <=> pc[r] = "prqCount",
         pc'[Completer] = "count" <=> pc[Completer] = "count"
  PROVE  Reported' = Reported
<1>1. /\ One(\E r \in Runners : pc[r] = "prqCount")' = One(\E r \in Runners : pc[r] = "prqCount")
      /\ One(pc[Completer] = "count")' = One(pc[Completer] = "count")
      /\ One(fdPc = "count")' = One(fdPc = "count")
  BY DEF One
<1> QED BY <1>1 DEF Reported, Uncounted

\* One thread goes to another label and neither is about to count a report.
LEMMA GoesReported ==
  ASSUME Shapes, NEW r \in Runners, NEW l, pc' = [pc EXCEPT ![r] = l],
         UNCHANGED <<numCompleted, fdPc>>,
         pc[r] \notin {"prqCount", "count"}, l \notin {"prqCount", "count"}
  PROVE  Reported' = Reported
<1>1. pc'[r] = l /\ \A s \in Runners : s # r => pc'[s] = pc[s]
  BY DEF Shapes
<1>2. /\ \A s \in Runners : pc'[s] = "prqCount" <=> pc[s] = "prqCount"
      /\ pc'[Completer] = "count" <=> pc[Completer] = "count"
  BY <1>1 DEF Runners
<1> QED BY <1>2, ReportedKept

\* One client thread goes to another label; the completion thread stays.
LEMMA OneGoes ==
  ASSUME Shapes, NEW t \in Submitters, NEW l, Goto(t, l), UNCHANGED cur
  PROVE  pc'[t] = l /\ OthersOf(t) /\ SameEnd
<1>1. pc'[t] = l /\ \A u \in Runners : u # t => pc'[u] = pc[u]
  BY DEF Shapes, Goto, Runners
<1> QED BY <1>1 DEF OthersOf, SameStage, SameEnd, Runners

\* Nothing happens to the jobs when their places stay.
LEMMA NoneMoves == ASSUME UNCHANGED loc PROVE AllStill
BY DEF AllStill, LocStill

\* MoveTo moves one job.
LEMMA OneMoves ==
  ASSUME NEW j \in Jobs, NEW p, MoveTo({j}, p)
  PROVE  loc'[j] = p /\ StillBut(j)
BY DEF MoveTo, StillBut, LocStill

\* A client thread on its way to a queue.
LEMMA SubmitForms ==
  ASSUME Shapes, NEW t \in Submitters,
         \/ CheckState(t)
         \/ RequestRoom(t) \/ RequestPause(t) \/ RequestSize(t) \/ RequestCount(t)
         \/ RequestPush(t) \/ RequestMin(t) \/ RequestLock(t)
         \/ FdRoom(t) \/ FdPause(t) \/ FdCount(t) \/ FdSize(t) \/ FdPush(t) \/ FdPost(t)
         \/ RequestSpurious(t) \/ FdSpurious(t)
  PROVE  Rests \/ Refuses(t) \/ Accepts(t) \/ Counts(t) \/ Pushes(t)
<1> USE DEF outside, requestSide, allButPc, stopVars, qVars, fdVars, ctxVars, prqVars, callVars,
            jobVars, counts
<1>0. Reported' = Reported
  <2>1. UNCHANGED <<numCompleted, fdPc>>
    BY DEF CheckState, RequestRoom, RequestPause, RequestSize, RequestCount, RequestPush, RequestMin,
       RequestLock, FdRoom, FdPause, FdCount, FdSize, FdPush, FdPost, RequestSpurious, FdSpurious,
       CheckRoom, Pause, SpuriousWakeup
  <2>2. pc[t] \in HeldLabels \cup {"rqMin", "rqLock", "fdPost"}
    BY DEF CheckState, RequestRoom, RequestPause, RequestSize, RequestCount, RequestPush, RequestMin,
       RequestLock, FdRoom, FdPause, FdCount, FdSize, FdPush, FdPost, RequestSpurious, FdSpurious,
       CheckRoom, Pause, SpuriousWakeup, HeldLabels
  <2>3. \E l \in HeldLabels \cup {"idle", "rqMin", "rqLock", "fdPost", "prqCtx"} :
          pc' = [pc EXCEPT ![t] = l]
    <3>1. CASE CheckState(t) \/ RequestRoom(t) \/ FdRoom(t)
      BY <3>1 DEF CheckState, RequestRoom, FdRoom, CheckRoom, Reject, Goto, HeldLabels
    <3>2. CASE RequestMin(t) \/ RequestLock(t) \/ RequestPush(t) \/ FdPush(t) \/ FdPost(t)
      BY <3>2 DEF RequestMin, RequestLock, RequestPush, FdPush, FdPost, Goto
    <3>3. CASE \/ RequestPause(t) \/ FdPause(t) \/ RequestSpurious(t) \/ FdSpurious(t)
               \/ RequestSize(t) \/ RequestCount(t) \/ FdCount(t) \/ FdSize(t)
      BY <3>3 DEF RequestPause, FdPause, RequestSpurious, FdSpurious, RequestSize, RequestCount,
         FdCount, FdSize, Pause, SpuriousWakeup, Goto, HeldLabels
    <3> QED BY <3>1, <3>2, <3>3
  <2>4. \A l \in HeldLabels \cup {"idle", "rqMin", "rqLock", "fdPost", "prqCtx"} :
          l \notin {"prqCount", "count"}
    BY DEF HeldLabels
  <2> QED BY <2>1, <2>2, <2>3, <2>4, GoesReported DEF Runners
<1>1. ASSUME OthersOf(t), SameStage(t) PROVE AllStages
  BY <1>1 DEF OthersOf, AllStages
<1>2. pc[t] # "idle" => cur[t] \in Jobs
  BY DEF Shapes
<1>3. CASE CheckState(t)
  <2>1. CASE Reject(t)
    <3>1. pc[t] = "state" /\ UNCHANGED <<cur, numQueued>>
      BY <1>3 DEF CheckState
    <3>2. Refuses(t)
      BY <1>0, <1>2, <2>1, <3>1, OneGoes, OneMoves DEF Reject, Refuses, SameCounts, Before
    <3> QED BY <3>2
  <2>2. CASE ~Reject(t)
    <3>1. /\ pc[t] = "state" /\ UNCHANGED <<cur, numQueued, loc>>
          /\ \E l \in {"fdRoom", "rqRoom"} : Goto(t, l)
      BY <1>3, <2>2 DEF CheckState
    <3>2. SameStage(t) /\ OthersOf(t) /\ SameEnd
      BY <3>1, OneGoes DEF SameStage, Before, Entering, Pushing
    <3> QED BY <1>0, <1>1, <3>1, <3>2, NoneMoves DEF Rests, SameCounts
  <2> QED BY <2>1, <2>2
<1>4. CASE RequestRoom(t) \/ FdRoom(t)
  <2>1. pc[t] \in {"rqRoom", "fdRoom"} /\ UNCHANGED <<cur, numQueued>>
    BY <1>4 DEF RequestRoom, FdRoom, CheckRoom
  <2>2. CASE Reject(t)
    <3>1. Refuses(t)
      BY <1>0, <1>2, <2>1, <2>2, OneGoes, OneMoves DEF Reject, Refuses, SameCounts, Before
    <3> QED BY <3>1
  <2>3. CASE ~Reject(t)
    <3>1. /\ UNCHANGED loc
          /\ \E l \in {"rqPause", "rqSize", "fdPause", "fdCount"} : Goto(t, l)
      BY <1>4, <2>3 DEF RequestRoom, FdRoom, CheckRoom
    <3>2. Accepts(t)
      BY <1>0, <2>1, <3>1, OneGoes, NoneMoves DEF Accepts, SameCounts, Before, Entering
    <3> QED BY <3>2
  <2> QED BY <2>2, <2>3
<1>5. CASE RequestPause(t) \/ FdPause(t) \/ RequestSpurious(t) \/ FdSpurious(t) \/ RequestSize(t)
  <2>1. /\ pc[t] \in Entering /\ UNCHANGED <<cur, numQueued, loc>>
        /\ \E l \in Entering : Goto(t, l)
    BY <1>5 DEF RequestPause, FdPause, RequestSpurious, FdSpurious, RequestSize, Pause,
       SpuriousWakeup, Entering
  <2>2. SameStage(t) /\ OthersOf(t) /\ SameEnd
    BY <2>1, OneGoes DEF SameStage, Before, Entering, Pushing
  <2> QED BY <1>0, <1>1, <2>1, <2>2, NoneMoves DEF Rests, SameCounts
<1>6. CASE RequestCount(t) \/ FdCount(t)
  <2>1. /\ pc[t] \in Entering /\ UNCHANGED <<cur, loc>>
        /\ numQueued' = numQueued + 1 /\ \E l \in Pushing : Goto(t, l)
    BY <1>6 DEF RequestCount, FdCount, Entering, Pushing
  <2>2. Counts(t)
    BY <1>0, <2>1, OneGoes, NoneMoves DEF Counts, SameCounts
  <2> QED BY <2>2
<1>7. CASE RequestPush(t) \/ FdPush(t)
  <2>1. /\ pc[t] \in Pushing /\ pc[t] # "idle" /\ UNCHANGED <<cur, numQueued>>
        /\ \E l \in {"rqMin", "fdPost"} : Goto(t, l)
        /\ \E p \in {"queued", "fdQueued"} : MoveTo({cur[t]}, p)
    BY <1>7 DEF RequestPush, FdPush, Pushing
  <2>2. Pushes(t)
    BY <1>0, <1>2, <2>1, OneGoes, OneMoves DEF Pushes, SameCounts, HeldLabels, OutPlaces
  <2> QED BY <2>2
<1>8. CASE FdSize(t)
  <2>1. /\ pc[t] \in Pushing /\ UNCHANGED <<cur, numQueued, loc>>
        /\ \E l \in Pushing : Goto(t, l)
    BY <1>8 DEF FdSize, Pushing
  <2>2. SameStage(t) /\ OthersOf(t) /\ SameEnd
    BY <2>1, OneGoes DEF SameStage, Before, Entering, Pushing
  <2> QED BY <1>0, <1>1, <2>1, <2>2, NoneMoves DEF Rests, SameCounts
<1>9. CASE RequestMin(t) \/ RequestLock(t) \/ FdPost(t)
  <2>1. /\ pc[t] \in {"rqMin", "rqLock", "fdPost"} /\ UNCHANGED <<cur, numQueued, loc>>
        /\ \E l \in {"rqLock", "idle", "prqCtx"} : Goto(t, l)
    BY <1>9 DEF RequestMin, RequestLock, FdPost
  <2>2. SameStage(t) /\ OthersOf(t) /\ SameEnd
    BY <2>1, OneGoes DEF SameStage, Before, Entering, Pushing
  <2> QED BY <1>0, <1>1, <2>1, <2>2, NoneMoves DEF Rests, SameCounts
<1> QED BY <1>3, <1>4, <1>5, <1>6, <1>7, <1>8, <1>9

\* A thread that runs ProcessRequestQueue is outside submitTask's own labels, and
\* those it wakes stay past their last check.
LEMMA RunnerGoes ==
  ASSUME Shapes, NEW r \in Runners, pc[r] \in PrqLabels,
         pc'[r] \in PrqLabels \cup {"idle", "event"}, UNCHANGED cur,
         \A s \in Runners : s # r => \/ pc'[s] = pc[s]
                                     \/ pc[s] = "rqWait" /\ pc'[s] = "rqSize"
  PROVE  AllStages /\ SameEnd
<1>1. \A t \in Submitters : SameStage(t)
  BY DEF SameStage, Before, Entering, Pushing, PrqLabels, Runners
<1>2. SameEnd
  BY DEF SameEnd, PrqLabels, Runners
<1> QED BY <1>1, <1>2 DEF AllStages

\* notify_all moves the threads that wait, and no other.
LEMMA Notified ==
  ASSUME NEW p, NEW r \in Runners, NEW wait, NEW enter, p[r] # wait,
         pc' = NotifyAll(p, wait, enter), \A s \in Runners : s # r => p[s] = pc[s]
  PROVE  /\ pc'[r] = p[r]
         /\ \A s \in Runners : s # r => \/ pc'[s] = pc[s]
                                        \/ pc[s] = wait /\ pc'[s] = enter
<1>1. ASSUME NEW s \in Runners
      PROVE  pc'[s] = IF p[s] = wait THEN enter ELSE p[s]
  BY DEF NotifyAll
<1> QED BY <1>1

\* ProcessRequestQueue reports the jobs it cannot submit, one by one.
LEMMA PrqForms ==
  ASSUME Reliable, Shapes, Coherent, numCompleted \in Nat,
         NEW r \in Runners, ProcessRequestQueue(r)
  PROVE  Rests \/ \E j \in Jobs : Reports(j)
<1> USE DEF outside, requestSide, allButPc, stopVars, qVars, fdVars, ctxVars, prqVars, callVars,
            jobVars, counts
<1>1. ASSUME NEW l \in PrqLabels \cup {"idle", "event"}, pc[r] \in PrqLabels,
             pc' = [pc EXCEPT ![r] = l], UNCHANGED cur
      PROVE  /\ AllStages /\ SameEnd
             /\ pc[r] # "prqCount" /\ l # "prqCount" /\ UNCHANGED <<numCompleted, fdPc>>
                  => Reported' = Reported
  <2>1. AllStages /\ SameEnd
    BY <1>1, RunnerGoes DEF Shapes
  <2>2. pc[r] # "count" /\ l # "count"
    BY <1>1 DEF PrqLabels
  <2> QED BY <1>1, <2>1, <2>2, GoesReported
<1>2. ASSUME pc[r] \in PrqLabels, UNCHANGED <<pc, cur>>
      PROVE  /\ AllStages /\ SameEnd
             /\ UNCHANGED <<numCompleted, fdPc>> => Reported' = Reported
  BY <1>2, RunnerGoes, ReportedKept
<1>3. /\ ~PrqSubmitPart(r) /\ ~PrqSubmitFatal(r)
      /\ pc[r] \in PrqLabels => mutex = r
  BY DEF Reliable, PrqSubmitPart, PrqSubmitFatal, Coherent, LockInv
<1>3a. ASSUME pc[r] \in PrqLabels, UNCHANGED fdPc
       PROVE  /\ pc[r] = "prqFail" /\ pc' = [pc EXCEPT ![r] = "prqCount"] /\ UNCHANGED numCompleted
                   => Reported' = Reported + 1
              /\ pc[r] = "prqCount" /\ pc' = [pc EXCEPT ![r] = "prqFail"]
                 /\ numCompleted' = numCompleted + 1 => Reported' = Reported
  <2>1. \A s \in Runners : s # r => pc[s] # "prqCount"
    BY <1>3, <1>3a DEF Coherent, LockInv, PrqLabels
  <2>2. ASSUME NEW l, pc' = [pc EXCEPT ![r] = l]
        PROVE  pc'[r] = l /\ \A s \in Runners : s # r => pc'[s] = pc[s]
    BY <2>2 DEF Shapes
  <2>3. ASSUME pc[r] \in {"prqFail", "prqCount"}, NEW l \in {"prqFail", "prqCount"},
               pc' = [pc EXCEPT ![r] = l]
        PROVE  /\ (\E s \in Runners : pc[s] = "prqCount") <=> pc[r] = "prqCount"
               /\ (\E s \in Runners : pc'[s] = "prqCount") <=> l = "prqCount"
               /\ pc'[Completer] = "count" <=> pc[Completer] = "count"
    BY <2>1, <2>2, <2>3 DEF Runners
  <2>4. ASSUME pc[r] = "prqFail", pc' = [pc EXCEPT ![r] = "prqCount"], UNCHANGED numCompleted
        PROVE  Reported' = Reported + 1
    BY SMT, <1>3a, <2>3, <2>4 DEF Reported, Uncounted, One
  <2>5. ASSUME pc[r] = "prqCount", pc' = [pc EXCEPT ![r] = "prqFail"],
               numCompleted' = numCompleted + 1
        PROVE  Reported' = Reported
    BY SMT, <1>3a, <2>3, <2>5 DEF Reported, Uncounted, One
  <2> QED BY <2>4, <2>5
<1>4. CASE PrqCtx(r) \/ PrqSem(r) \/ PrqTaken(r) \/ PrqSubmitGivesUp(r) \/ PrqLeft(r) \/ PrqSpace(r)
  <2>1. /\ pc[r] \in PrqLabels /\ pc[r] # "prqCount" /\ UNCHANGED <<cur, counts, fdPc, loc>>
        /\ \E l \in PrqLabels \cup {"idle", "event"} :
             l # "prqCount" /\ pc' = [pc EXCEPT ![r] = l]
    BY <1>4 DEF PrqCtx, PrqSem, PrqTaken, PrqSubmitGivesUp, PrqLeft, PrqSpace, Goto, Unlock, PrqLabels
  <2>2. AllStages /\ SameEnd /\ Reported' = Reported
    BY <1>1, <2>1
  <2> QED BY <2>1, <2>2, NoneMoves DEF Rests, SameCounts
<1>5. CASE PrqSubmitRetry(r)
  <2>1. pc[r] \in PrqLabels /\ UNCHANGED <<pc, cur, counts, fdPc, loc>>
    BY <1>5 DEF PrqSubmitRetry, PrqLabels
  <2> QED BY <1>2, <2>1, NoneMoves DEF Rests, SameCounts
<1>6. CASE PrqNotify(r)
  <2>1. /\ pc[r] = "prqNotify" /\ pc[r] \in PrqLabels /\ pc[r] # "rqWait"
        /\ UNCHANGED <<cur, counts, fdPc, loc>>
    BY <1>6 DEF PrqNotify, PrqLabels
  <2>2. /\ pc'[r] \in {"idle", "event"}
        /\ \A s \in Runners : s # r => \/ pc'[s] = pc[s]
                                       \/ pc[s] = "rqWait" /\ pc'[s] = "rqSize"
    <3> DEFINE p == [pc EXCEPT ![r] = IF r = Completer THEN "event" ELSE "idle"]
    <3>1. pc' = NotifyAll(p, "rqWait", "rqSize")
      BY <1>6 DEF PrqNotify
    <3>2. p[r] \in {"idle", "event"} /\ \A s \in Runners : s # r => p[s] = pc[s]
      BY DEF Shapes
    <3> HIDE DEF p
    <3>3. p[r] # "rqWait"
      BY <3>2
    <3> QED BY SMT, <3>1, <3>2, <3>3, Notified
  <2>3. /\ \A s \in Runners : pc'[s] = "prqCount" <=> pc[s] = "prqCount"
        /\ pc'[Completer] = "count" <=> pc[Completer] = "count"
    BY <2>1, <2>2 DEF Runners
  <2>4. Reported' = Reported
    BY <2>1, <2>3, ReportedKept
  <2> QED BY <2>1, <2>2, <2>4, RunnerGoes, NoneMoves DEF Rests, SameCounts
<1>7. CASE PrqTake(r)
  <2>1. /\ pc[r] \in PrqLabels /\ pc[r] # "prqCount" /\ UNCHANGED <<cur, counts, fdPc>>
        /\ \E l \in PrqLabels : l # "prqCount" /\ pc' = [pc EXCEPT ![r] = l]
        /\ requestQueue # <<>> /\ MoveTo({Head(requestQueue)}, "batch")
    BY <1>7 DEF PrqTake, PrqLabels, Goto
  <2>2. Head(requestQueue) \in Jobs /\ loc[Head(requestQueue)] = "queued"
    BY <2>1, HeadTail, LinedHead DEF Shapes, Coherent, QueueInv
  <2>3. AllStill
    BY <2>1, <2>2 DEF MoveTo, AllStill, LocStill, OutPlaces
  <2>4. AllStages /\ SameEnd /\ Reported' = Reported
    BY <1>1, <2>1
  <2> QED BY <2>1, <2>3, <2>4 DEF Rests, SameCounts
<1>8. CASE PrqSubmitAll(r)
  <2>1. /\ pc[r] = "prqSubmit" /\ pc[r] \in PrqLabels /\ UNCHANGED <<cur, counts, fdPc>>
        /\ \E l \in PrqLabels : l # "prqCount" /\ pc' = [pc EXCEPT ![r] = l]
        /\ MoveTo(batch, "kernel")
    BY <1>8 DEF PrqSubmitAll, PrqLabels, Goto
  <2>2. \A j \in batch : loc[j] = "batch"
    BY <1>3, <2>1 DEF Coherent, BatchInv
  <2>3. AllStill
    BY <2>1, <2>2 DEF MoveTo, AllStill, LocStill, OutPlaces
  <2>4. AllStages /\ SameEnd /\ Reported' = Reported
    BY <1>1, <2>1
  <2> QED BY <2>1, <2>3, <2>4 DEF Rests, SameCounts
<1>9. CASE PrqGiveBack(r)
  <2>1. /\ pc[r] = "prqFail" /\ pc[r] \in PrqLabels /\ UNCHANGED <<cur, counts, fdPc>>
        /\ \E l \in PrqLabels : l # "prqCount" /\ pc' = [pc EXCEPT ![r] = l]
        /\ MoveTo(batch, "gone") /\ toFail = {}
    BY <1>9 DEF PrqGiveBack, PrqLabels, Goto
  <2>2. \A j \in batch : loc[j] = "failed"
    BY <2>1 DEF Coherent, BatchInv
  <2>3. AllStill
    BY <2>1, <2>2 DEF MoveTo, AllStill, LocStill
  <2>4. AllStages /\ SameEnd /\ Reported' = Reported
    BY <1>1, <2>1
  <2> QED BY <2>1, <2>3, <2>4 DEF Rests, SameCounts
<1>10. CASE PrqFail(r)
  <2>1. /\ pc[r] = "prqFail" /\ pc[r] \in PrqLabels /\ UNCHANGED <<cur, counts, fdPc>>
        /\ "prqCount" \in PrqLabels /\ pc' = [pc EXCEPT ![r] = "prqCount"]
        /\ \E j \in toFail : MoveTo({j}, "failed")
    BY <1>10 DEF PrqFail, PrqLabels, Goto
  <2>2. PICK j \in toFail : MoveTo({j}, "failed")
    BY <2>1
  <2>3. j \in Jobs /\ loc[j] = "batch"
    BY <2>1 DEF Coherent, BatchInv
  <2>4. AllStages /\ SameEnd
    BY <1>1, <2>1
  <2>5. Reported' = Reported + 1
    BY <1>3a, <2>1
  <2>6. Reports(j)
    BY <2>1, <2>2, <2>3, <2>4, <2>5, OneMoves DEF Reports, OutPlaces
  <2> QED BY <2>3, <2>6
<1>11. CASE PrqFailCount(r)
  <2>1. /\ pc[r] = "prqCount" /\ pc[r] \in PrqLabels /\ UNCHANGED <<cur, numQueued, fdPc, loc>>
        /\ "prqFail" \in PrqLabels /\ pc' = [pc EXCEPT ![r] = "prqFail"]
        /\ numCompleted' = numCompleted + 1
    BY <1>11 DEF PrqFailCount, PrqLabels, Goto, incrementOps
  <2>2. AllStages /\ SameEnd
    BY <1>1, <2>1
  <2>3. Reported' = Reported
    BY <1>3a, <2>1
  <2> QED BY <2>1, <2>2, <2>3, NoneMoves DEF Rests, SameCounts
<1> QED BY <1>3, <1>4, <1>5, <1>6, <1>7, <1>8, <1>9, <1>10, <1>11 DEF ProcessRequestQueue

\* The completion thread goes to another label.
LEMMA CompleterGoes ==
  ASSUME Shapes, NEW l, Goto(Completer, l), UNCHANGED cur
  PROVE  /\ AllStages /\ pc'[Completer] = l
         /\ pc[Completer] # "exited" /\ l # "exited" => SameEnd
         /\ pc[Completer] \notin {"prqCount", "count"} /\ l \notin {"prqCount", "count"}
            /\ UNCHANGED <<numCompleted, fdPc>> => Reported' = Reported
<1>1. pc'[Completer] = l /\ \A u \in Runners : u # Completer => pc'[u] = pc[u]
  BY DEF Shapes, Goto, Runners
<1>2. AllStages /\ (pc[Completer] # "exited" /\ l # "exited" => SameEnd)
  BY <1>1 DEF AllStages, SameStage, SameEnd, Runners
<1> QED BY <1>1, <1>2, GoesReported DEF Goto, Runners

\* The completion thread reports a job and counts the report.
LEMMA CompleterReports ==
  ASSUME Shapes, numCompleted \in Nat, UNCHANGED fdPc
  PROVE  /\ pc[Completer] = "reap" /\ Goto(Completer, "count") /\ UNCHANGED numCompleted
              => Reported' = Reported + 1
         /\ pc[Completer] = "count" /\ Goto(Completer, "inc") /\ numCompleted' = numCompleted + 1
              => Reported' = Reported
<1>1. ASSUME NEW l, Goto(Completer, l), l # "prqCount", pc[Completer] # "prqCount"
      PROVE  /\ pc'[Completer] = l
             /\ (\E s \in Runners : pc'[s] = "prqCount") <=> (\E s \in Runners : pc[s] = "prqCount")
  <2>1. pc'[Completer] = l /\ \A u \in Runners : u # Completer => pc'[u] = pc[u]
    BY <1>1 DEF Shapes, Goto, Runners
  <2> QED BY <1>1, <2>1
<1>2. ASSUME pc[Completer] = "reap", Goto(Completer, "count"), UNCHANGED numCompleted
      PROVE  Reported' = Reported + 1
  BY SMT, <1>1, <1>2 DEF Reported, Uncounted, One
<1>3. ASSUME pc[Completer] = "count", Goto(Completer, "inc"), numCompleted' = numCompleted + 1
      PROVE  Reported' = Reported
  BY SMT, <1>1, <1>3 DEF Reported, Uncounted, One
<1> QED BY <1>2, <1>3

\* The completion thread reports what the kernel has completed, and exits.
LEMMA CompleterForms ==
  ASSUME Reliable, Shapes, Coherent, numCompleted \in Nat, ProcessCompletions
  PROVE  Rests \/ Exits \/ \E j \in Jobs : Reports(j)
<1> USE DEF outside, requestSide, allButPc, stopVars, qVars, fdVars, ctxVars, prqVars, callVars,
            jobVars, counts
<1>1. CASE EpollWait \/ EventsHandled \/ CompleterLock \/ (\E e \in {"shutdown", "timer"} : WakeupEvent(e))
            \/ CallbackInc \/ CallbackPost \/ CallbacksDone
  <2>1. /\ pc[Completer] \notin {"exited", "prqCount", "count"}
        /\ UNCHANGED <<cur, counts, fdPc, loc>>
        /\ \E l \in CompleterLabels \ {"exited", "prqCount", "count"} : Goto(Completer, l)
    BY <1>1 DEF EpollWait, EventsHandled, CompleterLock, WakeupEvent, CallbackInc, CallbackPost,
       CallbacksDone, CompleterLabels, PrqLabels
  <2>2. AllStages /\ SameEnd /\ Reported' = Reported
    BY <2>1, CompleterGoes
  <2> QED BY <2>1, <2>2, NoneMoves DEF Rests, SameCounts
<1>2. CASE CompleterLoop
  <2>1. pc[Completer] = "loop" /\ UNCHANGED <<cur, counts, fdPc, loc>>
    BY <1>2 DEF CompleterLoop
  <2>2. CASE AllDone
    <3>1. Goto(Completer, "exited")
      BY <1>2, <2>2 DEF CompleterLoop
    <3>2. /\ pc[Completer] \notin {"prqCount", "count"}
          /\ \E l \in {"exited"} : l \notin {"prqCount", "count"} /\ Goto(Completer, l)
      BY <2>1, <3>1
    <3>3. Reported' = Reported
      BY <2>1, <3>2, CompleterGoes
    <3> QED BY <2>1, <2>2, <3>1, <3>3, CompleterGoes, NoneMoves DEF Exits, SameCounts
  <2>3. CASE ~AllDone
    <3>1. pc[Completer] # "exited" /\ \E l \in {"epoll"} : Goto(Completer, l)
      BY <1>2, <2>3 DEF CompleterLoop
    <3>2. AllStages /\ SameEnd /\ Reported' = Reported
      BY <2>1, <3>1, CompleterGoes
    <3> QED BY <2>1, <3>2, NoneMoves DEF Rests, SameCounts
  <2> QED BY <2>2, <2>3
<1>3. CASE CtxEvent
  <2>1. /\ pc[Completer] \notin {"exited", "prqCount", "count"}
        /\ (\E l \in {"reap"} : Goto(Completer, l))
        /\ UNCHANGED <<cur, counts, fdPc>>
        /\ MoveTo(At("event"), "reaped")
    BY <1>3 DEF CtxEvent
  <2>2. AllStages /\ SameEnd /\ Reported' = Reported
    BY <2>1, CompleterGoes
  <2>3. AllStill
    BY <2>1 DEF MoveTo, At, AllStill, LocStill, OutPlaces
  <2> QED BY <2>1, <2>2, <2>3 DEF Rests, SameCounts
<1>4. CASE Callback
  <2>1. /\ pc[Completer] = "reap" /\ Goto(Completer, "count") /\ UNCHANGED <<cur, counts, fdPc>>
        /\ \E j \in At("reaped") : MoveTo({j}, "gone")
    BY <1>4 DEF Callback
  <2>2. PICK j \in At("reaped") : MoveTo({j}, "gone")
    BY <2>1
  <2>3. j \in Jobs /\ loc[j] = "reaped"
    BY DEF At
  <2>4. pc[Completer] # "exited" /\ \E l \in {"count"} : l # "exited" /\ Goto(Completer, l)
    BY <2>1
  <2>5. AllStages /\ SameEnd
    BY <2>1, <2>4, CompleterGoes
  <2>6. Reported' = Reported + 1
    BY <2>1, CompleterReports
  <2>7. Reports(j)
    BY <2>1, <2>2, <2>3, <2>5, <2>6, OneMoves DEF Reports, OutPlaces
  <2> QED BY <2>3, <2>7
<1>5. CASE ProcessRequestQueue(Completer)
  BY <1>5, PrqForms DEF Runners
<1>6. CASE CallbackCount
  <2>1. /\ pc[Completer] = "count" /\ Goto(Completer, "inc") /\ numCompleted' = numCompleted + 1
        /\ UNCHANGED <<cur, numQueued, fdPc, loc>>
    BY <1>6 DEF CallbackCount, incrementOps
  <2>2. pc[Completer] # "exited" /\ \E l \in {"inc"} : l # "exited" /\ Goto(Completer, l)
    BY <2>1
  <2>3. AllStages /\ SameEnd
    BY <2>1, <2>2, CompleterGoes
  <2>4. Reported' = Reported
    BY <2>1, CompleterReports
  <2> QED BY <2>1, <2>3, <2>4, NoneMoves DEF Rests, SameCounts
<1> QED BY <1>1, <1>2, <1>3, <1>4, <1>5, <1>6 DEF ProcessCompletions

\* The fdQueue thread reports the jobs of its queue.
LEMMA FdForms ==
  ASSUME Shapes, Coherent, numCompleted \in Nat, ProcessFdQueue
  PROVE  Rests \/ \E j \in Jobs : Reports(j)
<1> USE DEF outside, requestSide, allButPc, stopVars, qVars, fdVars, ctxVars, prqVars, callVars,
            jobVars, counts
<1>1. ASSUME UNCHANGED <<pc, cur>> PROVE AllStages /\ SameEnd
  BY <1>1 DEF AllStages, SameStage, SameEnd
<1>2. ASSUME \A r \in Runners : pc'[r] = "prqCount" <=> pc[r] = "prqCount",
             pc'[Completer] = "count" <=> pc[Completer] = "count"
      PROVE  /\ fdPc # "count" /\ fdPc' # "count" /\ UNCHANGED numCompleted => Reported' = Reported
             /\ fdPc # "count" /\ fdPc' = "count" /\ UNCHANGED numCompleted => Reported' = Reported + 1
             /\ fdPc = "count" /\ fdPc' # "count" /\ numCompleted' = numCompleted + 1
                  => Reported' = Reported
  <2>1. (\E r \in Runners : pc'[r] = "prqCount") <=> (\E r \in Runners : pc[r] = "prqCount")
    BY <1>2
  <2> QED BY SMT, <1>2, <2>1 DEF Reported, Uncounted, One
<1>3. CASE FdLoop \/ FdWait \/ FdDec \/ FdSpace
  <2>1. UNCHANGED <<pc, cur, counts, loc>> /\ fdPc # "count" /\ fdPc' # "count"
    BY <1>3 DEF FdLoop, FdWait, FdDec, FdSpace
  <2>2. Reported' = Reported
    BY <1>2, <2>1
  <2> QED BY <1>1, <2>1, <2>2, NoneMoves DEF Rests, SameCounts
<1>4. CASE FdNotify
  <2>1. /\ UNCHANGED <<cur, counts, loc>> /\ pc' = NotifyAll(pc, "fdWait", "fdCount")
        /\ fdPc # "count" /\ fdPc' # "count"
    BY <1>4 DEF FdNotify
  <2>2. \A s \in Runners : \/ pc'[s] = pc[s]
                           \/ pc[s] = "fdWait" /\ pc'[s] = "fdCount"
    BY <2>1 DEF NotifyAll
  <2>3. AllStages
    BY <2>1, <2>2 DEF AllStages, SameStage, Before, Entering, Pushing, Runners
  <2>4. SameEnd
    BY <2>2 DEF SameEnd, Runners
  <2>5. /\ \A s \in Runners : pc'[s] = "prqCount" <=> pc[s] = "prqCount"
        /\ pc'[Completer] = "count" <=> pc[Completer] = "count"
    BY <2>2 DEF Runners
  <2>6. Reported' = Reported
    BY <1>2, <2>1, <2>5
  <2> QED BY <2>1, <2>3, <2>4, <2>6, NoneMoves DEF Rests, SameCounts
<1>5. CASE FdConsume
  <2>1. CASE fdQueue = <<>>
    <3>1. UNCHANGED <<pc, cur, counts, loc>> /\ fdPc # "count" /\ fdPc' # "count"
      BY <1>5, <2>1 DEF FdConsume
    <3>2. Reported' = Reported
      BY <1>2, <3>1
    <3> QED BY <1>1, <3>1, <3>2, NoneMoves DEF Rests, SameCounts
  <2>2. CASE fdQueue # <<>>
    <3>1. /\ UNCHANGED <<pc, cur, counts>> /\ fdPc # "count" /\ fdPc' = "count"
          /\ MoveTo({Head(fdQueue)}, "gone")
      BY <1>5, <2>2 DEF FdConsume
    <3>2. Head(fdQueue) \in Jobs /\ loc[Head(fdQueue)] = "fdQueued"
      BY <2>2, HeadTail, LinedHead DEF Shapes, Coherent, QueueInv
    <3>3. Reported' = Reported + 1
      BY <1>2, <3>1
    <3>4. Reports(Head(fdQueue))
      BY <1>1, <3>1, <3>2, <3>3, OneMoves DEF Reports, OutPlaces
    <3> QED BY <3>2, <3>4
  <2> QED BY <2>1, <2>2
<1>6. CASE FdCounted
  <2>1. /\ UNCHANGED <<pc, cur, numQueued, loc>> /\ fdPc = "count" /\ fdPc' # "count"
        /\ numCompleted' = numCompleted + 1
    BY <1>6 DEF FdCounted, incrementOps
  <2>2. Reported' = Reported
    BY <1>2, <2>1
  <2> QED BY <1>1, <2>1, <2>2, NoneMoves DEF Rests, SameCounts
<1> QED BY <1>3, <1>4, <1>5, <1>6 DEF ProcessFdQueue

\* Every step has one of the forms.
LEMMA StepForms ==
  ASSUME Reliable, TypeInv, Coherent, [Next]_vars
  PROVE  Forms
<1> USE DEF outside, requestSide, allButPc, allButStop, stopVars, qVars, fdVars, ctxVars, prqVars,
            callVars, jobVars, counts
<1>1. Shapes /\ numCompleted \in Nat
  BY ShapesType DEF TypeInv, TypeOK
<1>2. ASSUME NEW t \in Submitters, NEW j \in Jobs, NEW b \in BlockingModes, submitTask(t, j, b)
      PROVE  Forms
  <2>1. /\ pc[t] = "idle" /\ loc[j] = "new" /\ MoveTo({j}, "held")
        /\ UNCHANGED <<counts, fdPc>>
        /\ cur' = [cur EXCEPT ![t] = j] /\ pc' = [pc EXCEPT ![t] = "state"]
    BY <1>2 DEF submitTask, Goto
  <2>2. /\ cur'[t] = j /\ \A u \in Submitters : u # t => cur'[u] = cur[u]
        /\ pc'[t] = "state" /\ \A u \in Runners : u # t => pc'[u] = pc[u]
    BY <1>1, <2>1 DEF Shapes, Runners
  <2>3. OthersOf(t) /\ SameEnd
    BY <2>2 DEF OthersOf, SameStage, SameEnd, Runners
  <2>4. Reported' = Reported
    <3>1. /\ t \in Runners /\ pc[t] \notin {"prqCount", "count"}
          /\ \E l \in {"state"} : l \notin {"prqCount", "count"} /\ pc' = [pc EXCEPT ![t] = l]
      BY <2>1 DEF Runners
    <3> QED BY <1>1, <2>1, <3>1, GoesReported
  <2>5. Calls(t, j)
    BY <2>1, <2>2, <2>3, <2>4, OneMoves DEF Calls, SameCounts, Before
  <2> QED BY <2>5 DEF Forms
<1>3. ASSUME NEW t \in Submitters, SubmitterStep(t) \/ RequestSpurious(t) \/ FdSpurious(t)
      PROVE  Forms
  <2>1. CASE ProcessRequestQueue(t)
    BY <1>1, <2>1, PrqForms DEF Forms, Runners
  <2>2. CASE ~ProcessRequestQueue(t)
    <3>1. Rests \/ Refuses(t) \/ Accepts(t) \/ Counts(t) \/ Pushes(t)
      BY <1>1, <1>3, <2>2, SubmitForms DEF SubmitterStep
    <3> QED BY <3>1 DEF Forms
  <2> QED BY <2>1, <2>2
<1>4. ASSUME NEW j \in Jobs, KernelComplete(j)
      PROVE  Forms
  <2>1. loc[j] = "kernel" /\ MoveTo({j}, "event") /\ UNCHANGED <<pc, cur, counts, fdPc>>
    BY <1>4 DEF KernelComplete
  <2>2. AllStages /\ SameEnd /\ Reported' = Reported
    BY <2>1, ReportedKept DEF AllStages, SameStage, SameEnd
  <2>3. AllStill
    BY <2>1 DEF MoveTo, AllStill, LocStill, OutPlaces
  <2> QED BY <2>1, <2>2, <2>3 DEF Rests, SameCounts, Forms
<1>5. CASE ProcessCompletions
  BY <1>1, <1>5, CompleterForms DEF Forms
<1>6. CASE ProcessFdQueue
  BY <1>1, <1>6, FdForms DEF Forms
<1>7. CASE stop \/ Stopping \/ UNCHANGED vars
  <2>1. UNCHANGED <<pc, cur, counts, fdPc, loc>>
    BY <1>7 DEF stop, Stopping, StopFdWake, StopFdJoin, StopSend, StopJoin, vars
  <2>2. AllStages /\ SameEnd /\ Reported' = Reported
    BY <2>1, ReportedKept DEF AllStages, SameStage, SameEnd
  <2> QED BY <2>1, <2>2, NoneMoves DEF Rests, SameCounts, Forms
<1> QED BY <1>2, <1>3, <1>4, <1>5, <1>6, <1>7 DEF Next, Terminated
-----------------------------------------------------------------------------
(***************************************************************************)
(* What the two statistics count, and when the completion thread exits.    *)
(***************************************************************************)
\* The jobs numQueued_ counts that have not been reported yet.
Counted == {j \in Jobs : \/ loc[j] \in OutPlaces
                         \/ \E t \in Submitters : pc[t] \in Pushing /\ cur[t] = j}

CountInv == numQueued = Reported + Cardinality(Counted)

\* After stop() has begun every call of submitTask is refused.
QuietInv ==
  /\ stopPc # "idle" => state # "RUNNING"
  /\ state # "RUNNING" => \A t \in Submitters : pc[t] \in {"idle", "state"}

\* The completion thread exits when nothing is left to report.
ExitInv == pc[Completer] = "exited" => state # "RUNNING" /\ Counted = {}

ServiceInv == CountInv /\ QuietInv /\ ExitInv

\* Counted is finite.
LEMMA CountedCard == IsFiniteSet(Counted) /\ Cardinality(Counted) \in Nat /\ Counted \subseteq Jobs
BY CardJobs DEF Counted

\* At first nothing is counted and nobody has exited.
LEMMA InitService == Init => ServiceInv
<1> SUFFICES ASSUME Init PROVE ServiceInv
  OBVIOUS
<1>1. Counted = {}
  BY DEF Init, Counted, OutPlaces, Pushing, Runners
<1>2. /\ fdPc # "count" /\ pc[Completer] # "count" /\ \A r \in Runners : pc[r] # "prqCount"
      /\ numQueued = 0 /\ numCompleted = 0 /\ Cardinality(Counted) = 0
  BY <1>1, FS_EmptySet DEF Init, Runners
<1>3. CountInv
  BY SMT, <1>2 DEF CountInv, Reported, Uncounted, One
<1>4. QuietInv /\ ExitInv
  BY DEF Init, QuietInv, ExitInv, Runners
<1> QED BY <1>3, <1>4 DEF ServiceInv

\* A job stays counted or not when it does not enter or leave OutPlaces and no
\* thread begins or ends to push it.
LEMMA CountedKept ==
  ASSUME NEW j \in Jobs, loc'[j] \in OutPlaces <=> loc[j] \in OutPlaces,
         \A u \in Submitters : pc'[u] \in Pushing /\ cur'[u] = j <=> pc[u] \in Pushing /\ cur[u] = j
  PROVE  j \in Counted' <=> j \in Counted
BY DEF Counted

\* LocStill keeps a job in OutPlaces or outside.
LEMMA StillOut ==
  ASSUME NEW j \in Jobs, LocStill(j)
  PROVE  loc'[j] \in OutPlaces <=> loc[j] \in OutPlaces
BY DEF LocStill, OutPlaces

\* The jobs numQueued_ counts, form by form.
LEMMA CountStep ==
  ASSUME TypeInv, Coherent, CountInv, Forms
  PROVE  /\ CountInv'
         /\ Counted' \subseteq Counted \/ \E t \in Submitters : pc[t] \in Entering
<1>1. /\ numQueued \in Nat /\ Reported \in Nat /\ Shapes
      /\ IsFiniteSet(Counted) /\ Cardinality(Counted) \in Nat
  BY SMT, CountedCard, ShapesType, UncountedNat DEF TypeInv, TypeOK, Reported
<1>2. numQueued = Reported + Cardinality(Counted)
  BY DEF CountInv
<1>3. ASSUME SameCounts, \A j \in Jobs : j \in Counted' <=> j \in Counted
      PROVE  CountInv' /\ Counted' \subseteq Counted
  <2>1. Counted' = Counted
    BY <1>3 DEF Counted
  <2> QED BY <1>2, <1>3, <2>1 DEF CountInv, SameCounts
<1>4. \A t \in Submitters : pc[t] \in Before \cup Entering \cup Pushing =>
        /\ cur[t] \in Jobs /\ loc[cur[t]] = "held"
        /\ \A u \in Submitters : u # t /\ pc[u] \in Before \cup Entering \cup Pushing => cur[u] # cur[t]
  BY <1>1 DEF Coherent, HeldInv, HeldLabels, Shapes, Before, Entering, Pushing
<1>5. Before \cap Pushing = {} /\ Entering \cap Pushing = {} /\ "idle" \notin Pushing
  BY DEF Before, Entering, Pushing
<1>6. "held" \notin OutPlaces /\ "new" \notin OutPlaces /\ "returned" \notin OutPlaces
      /\ "failed" \notin OutPlaces /\ "gone" \notin OutPlaces
  BY DEF OutPlaces
<1>7. CASE Rests \/ Exits
  <2>1. SameCounts /\ AllStages /\ AllStill
    BY <1>7 DEF Rests, Exits
  <2>2. \A j \in Jobs : j \in Counted' <=> j \in Counted
    BY <2>1, CountedKept, StillOut DEF AllStages, AllStill, SameStage
  <2> QED BY <1>3, <2>1, <2>2
<1>8. ASSUME NEW t \in Submitters, NEW j \in Jobs, Calls(t, j)
      PROVE  CountInv' /\ Counted' \subseteq Counted
  <2>1. \A k \in Jobs : loc'[k] \in OutPlaces <=> loc[k] \in OutPlaces
    BY <1>6, <1>8, StillOut DEF Calls, StillBut
  <2>2. \A k \in Jobs, u \in Submitters :
          pc'[u] \in Pushing /\ cur'[u] = k <=> pc[u] \in Pushing /\ cur[u] = k
    BY <1>5, <1>8 DEF Calls, OthersOf, SameStage
  <2> QED BY <1>3, <1>8, <2>1, <2>2, CountedKept DEF Calls
<1>9. ASSUME NEW t \in Submitters, Refuses(t) \/ Accepts(t)
      PROVE  CountInv' /\ Counted' \subseteq Counted
  <2>1. /\ pc[t] \in Before /\ pc'[t] \in Entering \cup {"idle"} /\ OthersOf(t)
        /\ SameCounts /\ (AllStill \/ (loc'[cur[t]] = "returned" /\ StillBut(cur[t])))
    BY <1>9 DEF Refuses, Accepts
  <2>2. \A k \in Jobs : loc'[k] \in OutPlaces <=> loc[k] \in OutPlaces
    BY <1>4, <1>6, <2>1, StillOut DEF StillBut, AllStill
  <2>3. \A k \in Jobs, u \in Submitters :
          pc'[u] \in Pushing /\ cur'[u] = k <=> pc[u] \in Pushing /\ cur[u] = k
    BY <1>5, <2>1 DEF OthersOf, SameStage
  <2> QED BY <1>3, <2>1, <2>2, <2>3, CountedKept
<1>10. ASSUME NEW t \in Submitters, Pushes(t)
       PROVE  CountInv' /\ Counted' \subseteq Counted
  <2>1. /\ pc[t] \in Pushing /\ pc'[t] \notin Pushing /\ cur'[t] = cur[t] /\ OthersOf(t)
        /\ loc'[cur[t]] \in OutPlaces /\ StillBut(cur[t]) /\ SameCounts
    BY <1>10 DEF Pushes, HeldLabels, Pushing
  <2>2. cur[t] \in Jobs /\ cur[t] \in Counted /\ cur[t] \in Counted'
    BY <1>4, <2>1 DEF Counted
  <2>3. \A k \in Jobs : k # cur[t] => (k \in Counted' <=> k \in Counted)
    BY <2>1, CountedKept, StillOut DEF StillBut, OthersOf, SameStage
  <2> QED BY <1>3, <2>1, <2>2, <2>3
<1>11. ASSUME NEW t \in Submitters, Counts(t)
       PROVE  CountInv' /\ pc[t] \in Entering
  <2>1. /\ pc[t] \in Entering /\ pc'[t] \in Pushing /\ cur'[t] = cur[t] /\ OthersOf(t)
        /\ AllStill /\ numQueued' = numQueued + 1 /\ Reported' = Reported
    BY <1>11 DEF Counts
  <2>2. cur[t] \in Jobs /\ cur[t] \notin Counted
    BY <1>4, <1>5, <1>6, <2>1 DEF Counted
  <2>3. cur[t] \in Counted'
    BY <2>1, <2>2 DEF Counted
  <2>4. \A k \in Jobs : k # cur[t] => (k \in Counted' <=> k \in Counted)
    BY <2>1, CountedKept, StillOut DEF AllStill, OthersOf, SameStage
  <2>5. Counted' = Counted \cup {cur[t]}
    BY <2>2, <2>3, <2>4 DEF Counted
  <2>6. Cardinality(Counted') = Cardinality(Counted) + 1
    BY <1>1, <2>2, <2>5, FS_AddElement
  <2>7. CountInv'
    BY SMT, <1>1, <1>2, <2>1, <2>6 DEF CountInv
  <2> QED BY <2>1, <2>7
<1>12. ASSUME NEW j \in Jobs, Reports(j)
       PROVE  CountInv' /\ Counted' \subseteq Counted
  <2>1. /\ loc[j] \in OutPlaces /\ loc'[j] \in {"failed", "gone"} /\ StillBut(j) /\ AllStages
        /\ numQueued' = numQueued /\ Reported' = Reported + 1
    BY <1>12 DEF Reports
  <2>2. j \in Counted /\ \A u \in Submitters : pc[u] \in Pushing => cur[u] # j
    BY <1>4, <1>6, <2>1 DEF Counted
  <2>3. j \notin Counted'
    BY <1>6, <2>1, <2>2 DEF Counted, AllStages, SameStage
  <2>4. \A k \in Jobs : k # j => (k \in Counted' <=> k \in Counted)
    BY <2>1, CountedKept, StillOut DEF StillBut, AllStages, SameStage
  <2>5. Counted' = Counted \ {j}
    BY <2>2, <2>3, <2>4 DEF Counted
  <2>6. Cardinality(Counted') = Cardinality(Counted) - 1
    BY <1>1, <2>2, <2>5, FS_RemoveElement
  <2>7. CountInv'
    BY SMT, <1>1, <1>2, <2>1, <2>6 DEF CountInv
  <2> QED BY <2>5, <2>7
<1> QED BY <1>7, <1>8, <1>9, <1>10, <1>11, <1>12 DEF Forms

\* The executor never runs again once stop() has begun.
LEMMA StateStep ==
  ASSUME [Next]_vars
  PROVE  \/ state' = state /\ stopPc' = stopPc
         \/ state' = state /\ stopPc # "idle"
         \/ state' # "RUNNING" /\ stopPc # "idle"
         \/ stop
<1> USE DEF outside, requestSide, allButPc, allButStop, stopVars, qVars, fdVars, ctxVars, prqVars,
            callVars, jobVars, counts
<1>1. ASSUME NEW r \in Runners, ProcessRequestQueue(r) PROVE UNCHANGED <<state, stopPc>>
  BY <1>1 DEF ProcessRequestQueue, PrqCtx, PrqTake, PrqSem, PrqTaken, PrqSubmitAll, PrqSubmitRetry,
     PrqSubmitPart, PrqSubmitFatal, PrqSubmitGivesUp, PrqLeft, PrqFail, PrqFailCount, PrqGiveBack,
     PrqSpace, PrqNotify
<1>2. ASSUME NEW t \in Submitters, SubmitterStep(t) PROVE UNCHANGED <<state, stopPc>>
  <2>1. CASE ProcessRequestQueue(t)
    BY <1>1, <2>1 DEF Runners
  <2>2. CASE ~ProcessRequestQueue(t)
    BY <1>2, <2>2 DEF SubmitterStep, CheckState, RequestRoom, RequestPause, RequestSize,
       RequestCount, RequestPush, RequestMin, RequestLock, FdRoom, FdPause, FdCount, FdSize, FdPush,
       FdPost, CheckRoom, Pause
  <2> QED BY <2>1, <2>2
<1>3. ASSUME NEW t \in Submitters,
             \/ \E j \in Jobs, b \in BlockingModes : submitTask(t, j, b)
             \/ RequestSpurious(t) \/ FdSpurious(t)
      PROVE  UNCHANGED <<state, stopPc>>
  BY <1>3 DEF submitTask, RequestSpurious, FdSpurious, SpuriousWakeup
<1>4. ASSUME NEW j \in Jobs, KernelComplete(j) PROVE UNCHANGED <<state, stopPc>>
  BY <1>4 DEF KernelComplete
<1>5. ASSUME ProcessCompletions PROVE UNCHANGED <<state, stopPc>>
  <2>1. CASE ProcessRequestQueue(Completer)
    BY <1>1, <2>1 DEF Runners
  <2>2. CASE ~ProcessRequestQueue(Completer)
    BY <1>5, <2>2 DEF ProcessCompletions, CompleterLoop, EpollWait, EventsHandled, CompleterLock,
       CtxEvent, WakeupEvent, Callback, CallbackCount, CallbackInc, CallbackPost, CallbacksDone
  <2> QED BY <2>1, <2>2
<1>6. ASSUME ProcessFdQueue PROVE UNCHANGED <<state, stopPc>>
  BY <1>6 DEF ProcessFdQueue, FdLoop, FdWait, FdConsume, FdCounted, FdDec, FdSpace, FdNotify
<1>7. ASSUME Stopping PROVE stopPc # "idle" /\ (state' = state \/ state' # "RUNNING")
  BY <1>7 DEF Stopping, StopFdWake, StopFdJoin, StopSend, StopJoin
<1>8. CASE UNCHANGED vars
  BY <1>8 DEF vars
<1> QED BY <1>2, <1>3, <1>4, <1>5, <1>6, <1>7, <1>8 DEF Next, Terminated

\* While the executor is not running no thread gets past the check of state_.
LEMMA QuietStep ==
  ASSUME Orderly, TypeInv, ServiceInv, [Next]_vars
  PROVE  QuietInv'
<1> USE DEF outside, requestSide, allButPc, allButStop, stopVars, qVars, fdVars, ctxVars, prqVars,
            callVars, jobVars, counts
<1>1. Shapes /\ QuietInv
  BY ShapesType DEF ServiceInv
<1>2. stopPc' # "idle" => state' # "RUNNING"
  BY <1>1, StateStep DEF QuietInv, stop
<1>3. CASE stop
  BY <1>2, <1>3 DEF stop, StopAllowed, Orderly, QuietInv
<1>4. CASE ~stop
  <2> SUFFICES ASSUME state' # "RUNNING" PROVE \A t \in Submitters : pc'[t] \in {"idle", "state"}
    BY <1>2 DEF QuietInv
  <2>1. state # "RUNNING" /\ \A t \in Submitters : pc[t] \in {"idle", "state"}
    BY <1>1, <1>4, StateStep DEF QuietInv
  <2> DEFINE Kept == \A t \in Submitters : pc'[t] = pc[t]
  <2>2. ASSUME NEW t \in Submitters, NEW l \in {"idle", "state"}, Goto(t, l)
        PROVE  \A u \in Submitters : pc'[u] \in {"idle", "state"}
    BY <1>1, <2>1, <2>2 DEF Goto, Shapes, Runners
  <2>3. ASSUME NEW l, Goto(Completer, l) PROVE Kept
    BY <1>1, <2>3 DEF Goto, Shapes, Runners
  <2>4. ASSUME NEW p, NEW wait, NEW enter, pc' = NotifyAll(p, wait, enter),
               wait \notin {"idle", "state"}, \A t \in Submitters : p[t] = pc[t]
        PROVE  Kept
    BY <2>1, <2>4 DEF NotifyAll, Runners
  <2>5. ASSUME ProcessRequestQueue(Completer) PROVE Kept
    <3>1. CASE PrqNotify(Completer)
      <4> DEFINE p == [pc EXCEPT ![Completer] = "event"]
      <4>1. pc' = NotifyAll(p, "rqWait", "rqSize") /\ "rqWait" \notin {"idle", "state"}
        BY <3>1 DEF PrqNotify
      <4>2. \A t \in Submitters : p[t] = pc[t]
        BY <1>1 DEF Shapes, Runners
      <4> HIDE DEF p
      <4> QED BY SMT, <2>4, <4>1, <4>2
    <3>2. CASE PrqSubmitRetry(Completer) \/ PrqSubmitPart(Completer)
      BY <3>2 DEF PrqSubmitRetry, PrqSubmitPart
    <3>3. CASE PrqTaken(Completer) \/ PrqSpace(Completer)
      <4>1. \E l : Goto(Completer, l)
        BY <3>3 DEF PrqTaken, PrqSpace, Unlock, Goto
      <4> QED BY <2>3, <4>1
    <3>4. CASE \/ PrqCtx(Completer) \/ PrqTake(Completer) \/ PrqSem(Completer)
               \/ PrqSubmitAll(Completer) \/ PrqSubmitFatal(Completer)
               \/ PrqSubmitGivesUp(Completer) \/ PrqLeft(Completer) \/ PrqGiveBack(Completer)
               \/ PrqFail(Completer) \/ PrqFailCount(Completer)
      <4>1. \E l : Goto(Completer, l)
        BY <3>4 DEF PrqCtx, PrqTake, PrqSem, PrqSubmitAll, PrqSubmitFatal, PrqSubmitGivesUp,
           PrqLeft, PrqFail, PrqFailCount, PrqGiveBack
      <4> QED BY <2>3, <4>1
    <3> QED BY <2>5, <3>1, <3>2, <3>3, <3>4 DEF ProcessRequestQueue
  <2>6. ASSUME ProcessCompletions PROVE Kept
    <3>1. CASE ProcessRequestQueue(Completer)
      BY <2>5, <3>1
    <3>2. CASE ~ProcessRequestQueue(Completer)
      <4>1. \E l : Goto(Completer, l)
        BY <2>6, <3>2 DEF ProcessCompletions, CompleterLoop, EpollWait, EventsHandled,
           CompleterLock, CtxEvent, WakeupEvent, Callback, CallbackCount, CallbackInc, CallbackPost,
           CallbacksDone
      <4> QED BY <2>3, <4>1
    <3> QED BY <3>1, <3>2
  <2>7. ASSUME ProcessFdQueue PROVE Kept
    <3>1. CASE FdNotify
      BY SMT, <2>4, <3>1 DEF FdNotify
    <3>2. CASE ~FdNotify
      BY <2>7, <3>2 DEF ProcessFdQueue, FdLoop, FdWait, FdConsume, FdCounted, FdDec, FdSpace
    <3> QED BY <3>1, <3>2
  <2>8. ASSUME NEW t \in Submitters, SubmitterStep(t) \/ RequestSpurious(t) \/ FdSpurious(t)
        PROVE  Goto(t, "idle")
    <3>1. pc[t] \in {"idle", "state"}
      BY <2>1
    <3>2. ~ProcessRequestQueue(t) /\ ~RequestSpurious(t) /\ ~FdSpurious(t)
      BY <3>1 DEF ProcessRequestQueue, PrqCtx, PrqTake, PrqSem, PrqTaken, PrqSubmitAll,
         PrqSubmitRetry, PrqSubmitPart, PrqSubmitFatal, PrqSubmitGivesUp, PrqLeft, PrqFail,
         PrqFailCount, PrqGiveBack, PrqSpace, PrqNotify, RequestSpurious, FdSpurious, SpuriousWakeup
    <3>3. CheckState(t)
      BY <2>8, <3>1, <3>2 DEF SubmitterStep, RequestRoom, RequestPause, RequestSize, RequestCount,
         RequestPush, RequestMin, RequestLock, FdRoom, FdPause, FdCount, FdSize, FdPush, FdPost,
         CheckRoom, Pause
    <3> QED BY <2>1, <3>3 DEF CheckState, Reject
  <2>9. ASSUME NEW t \in Submitters, NEW j \in Jobs, NEW b \in BlockingModes, submitTask(t, j, b)
        PROVE  Goto(t, "state")
    BY <2>9 DEF submitTask
  <2>10. CASE \/ UNCHANGED vars \/ Stopping \/ \E j \in Jobs : KernelComplete(j)
    BY <2>1, <2>10 DEF vars, Stopping, StopFdWake, StopFdJoin, StopSend, StopJoin, KernelComplete
  <2>11. CASE Kept
    BY <2>1, <2>11
  <2> HIDE DEF Kept
  <2> QED BY <1>4, <2>2, <2>6, <2>7, <2>8, <2>9, <2>10, <2>11 DEF Next, Terminated
<1> QED BY <1>3, <1>4

\* The completion thread exits when the counters agree, and then nothing is
\* counted; nothing is counted afterwards, for no thread is past the check.
LEMMA ExitStep ==
  ASSUME TypeInv, Coherent, ServiceInv, Forms, [Next]_vars
  PROVE  ExitInv' /\ (Exits => Counted = {} /\ state # "RUNNING")
<1>1. /\ CountInv /\ QuietInv /\ ExitInv
      /\ numQueued \in Nat /\ numCompleted \in Nat /\ Uncounted \in Nat
      /\ IsFiniteSet(Counted) /\ Cardinality(Counted) \in Nat
  BY SMT, CountedCard, UncountedNat DEF ServiceInv, TypeInv, TypeOK
<1>2. ASSUME Exits PROVE Counted = {} /\ state # "RUNNING"
  <2>1. state = "FINAL_SHUTDOWN" /\ numQueued = numCompleted
    BY <1>2 DEF Exits, AllDone
  <2>2. Cardinality(Counted) = 0
    BY SMT, <1>1, <2>1 DEF CountInv, Reported
  <2> QED BY <1>1, <2>1, <2>2, FS_EmptySet
<1>3. ASSUME pc'[Completer] = "exited" PROVE Counted = {} /\ state # "RUNNING"
  <2>1. CASE pc[Completer] = "exited"
    BY <1>1, <2>1 DEF ExitInv
  <2>2. CASE pc[Completer] # "exited"
    <3>1. ~SameEnd
      BY <1>3, <2>2 DEF SameEnd
    <3>2. Exits
      BY <3>1 DEF Forms, Rests, Calls, Refuses, Accepts, Counts, Pushes, Reports
    <3> QED BY <1>2, <3>2
  <2> QED BY <2>1, <2>2
<1>4. ASSUME state # "RUNNING" PROVE state' # "RUNNING" /\ Counted' \subseteq Counted
  <2>1. \A t \in Submitters : pc[t] \notin Entering
    BY <1>1, <1>4 DEF QuietInv, Entering
  <2> QED BY <1>1, <1>4, <2>1, CountStep, StateStep DEF stop
<1>5. ExitInv'
  BY <1>3, <1>4 DEF ExitInv
<1> QED BY <1>2, <1>5

\* What holds in every reachable state.
ServiceAlways == CoherentAlways /\ ServiceInv

\* The counts and the end hold in every behaviour of an orderly stop().
LEMMA ServiceAlwaysStep ==
  ASSUME Reliable, Orderly, ServiceAlways, [Next]_vars
  PROVE  /\ ServiceAlways' /\ Forms
         /\ Exits => Counted = {} /\ state # "RUNNING"
<1>1. TypeInv /\ Coherent /\ ServiceInv
  BY DEF ServiceAlways, CoherentAlways
<1>2. TypeInv' /\ Coherent'
  BY <1>1, TypeStep, CoherentStep
<1>3. Forms
  BY <1>1, StepForms
<1>4. CountInv'
  BY <1>1, <1>3, CountStep DEF ServiceInv
<1>5. QuietInv'
  BY <1>1, QuietStep
<1>6. ExitInv' /\ (Exits => Counted = {} /\ state # "RUNNING")
  BY <1>1, <1>3, ExitStep
<1> QED BY <1>2, <1>3, <1>4, <1>5, <1>6 DEF ServiceAlways, CoherentAlways, ServiceInv

\* numQueued_ and numCompleted_ differ by the jobs in the executor's hands and
\* the reports doPostProcessingOfJob() has made and not counted, whatever the
\* number of threads, jobs and contexts: the completion thread's test
\* numQueued_ == numCompleted_ holds exactly when nothing is left to report or
\* to count.  io_submit takes all of a batch or asks for a retry; stop() may be
\* called at any time.
THEOREM CountsExactCorrect == ASSUME Reliable PROVE Spec => []CountsExact
<1>1. Init => CountInv
  BY InitService DEF ServiceInv
<1>2. ASSUME CoherentAlways, CountInv, [Next]_vars PROVE CountInv'
  BY <1>2, StepForms, CountStep DEF CoherentAlways
<1>3. ASSUME CountInv, TypeInv PROVE CountsExact
  <2>1. InHand = Counted
    BY DEF InHand, Counted, OutPlaces, Pushing
  <2>2. Cardinality(InHand) = Cardinality(Counted)
    BY <2>1
  <2>3. numCompleted \in Nat /\ Cardinality(Counted) \in Nat
    BY <1>3, CountedCard DEF TypeInv, TypeOK
  <2> QED BY SMT, <1>3, <2>2, <2>3 DEF CountInv, CountsExact, Reported, Uncounted, One
<1>4. CoherentAlways => TypeInv
  BY DEF CoherentAlways
<1> QED BY <1>1, <1>2, <1>3, <1>4, AlwaysCoherent, PTL DEF Spec

-----------------------------------------------------------------------------
(***************************************************************************)
(* The steps of IOService.                                                 *)
(***************************************************************************)
\* The thread that is past the last check with job j.
Taken(j) == \E t \in Submitters : cur[t] = j /\ pc[t] \in Entering \cup Pushing

\* The phase of a job, place by place.
LEMMA Phases ==
  ASSUME NEW j \in Jobs
  PROVE  /\ loc[j] = "new" => PhaseOf(j) = "new"
         /\ loc[j] = "returned" => PhaseOf(j) = "refused"
         /\ loc[j] \in {"failed", "gone"} => PhaseOf(j) = "reported"
         /\ loc[j] = "held" /\ Taken(j) => PhaseOf(j) = "accepted"
         /\ loc[j] = "held" /\ ~Taken(j) => PhaseOf(j) = "calling"
         /\ loc[j] \in OutPlaces => PhaseOf(j) = "accepted"
<1>1. Taken(j) <=> \E t \in Submitters : cur[t] = j /\ Accepting(t)
  BY DEF Taken, Accepting, Entering, Pushing
<1> QED BY SMT, <1>1 DEF PhaseOf, OutPlaces

\* The same in the next state.
LEMMA NextPhases ==
  ASSUME NEW j \in Jobs
  PROVE  /\ loc'[j] = "new" => PhaseOf(j)' = "new"
         /\ loc'[j] = "returned" => PhaseOf(j)' = "refused"
         /\ loc'[j] \in {"failed", "gone"} => PhaseOf(j)' = "reported"
         /\ loc'[j] = "held" /\ Taken(j)' => PhaseOf(j)' = "accepted"
         /\ loc'[j] = "held" /\ ~Taken(j)' => PhaseOf(j)' = "calling"
         /\ loc'[j] \in OutPlaces => PhaseOf(j)' = "accepted"
<1>1. Taken(j)' <=> \E t \in Submitters : cur'[t] = j /\ Accepting(t)'
  BY DEF Taken, Accepting, Entering, Pushing
<1> QED BY SMT, <1>1 DEF PhaseOf, OutPlaces

\* A job that stays where it is for its client keeps its phase.
LEMMA PhaseKept ==
  ASSUME Shapes, NEW j \in Jobs, LocStill(j), Taken(j)' <=> Taken(j)
  PROVE  PhaseOf(j)' = PhaseOf(j)
<1>1. loc[j] \in {"new", "held", "returned", "failed", "gone"} \cup OutPlaces
  BY DEF Shapes, Places, OutPlaces
<1>2. loc[j] = "failed" => loc[j] \notin OutPlaces
  BY DEF OutPlaces
<1>3. \/ loc'[j] = loc[j]
      \/ loc[j] \in OutPlaces /\ loc'[j] \in OutPlaces
      \/ loc[j] = "failed" /\ loc'[j] = "gone"
  BY DEF LocStill
<1> QED BY <1>1, <1>3, Phases, NextPhases

\* No step of IOService when every phase and the end stay.
LEMMA StutterIs ==
  ASSUME \A j \in Jobs : PhaseOf(j)' = PhaseOf(j), SameEnd
  PROVE  UNCHANGED Service!svcVars
<1>1. [j \in Jobs |-> PhaseOf(j)]' = [j \in Jobs |-> PhaseOf(j)]
  OBVIOUS
<1>2. (pc[Completer] = "exited")' = (pc[Completer] = "exited")
  BY DEF SameEnd
<1> QED BY <1>1, <1>2 DEF Service!svcVars

\* A step of IOService moves one job from one phase to another.
LEMMA MoveIs ==
  ASSUME NEW j \in Jobs, NEW from, NEW to, PhaseOf(j) = from, PhaseOf(j)' = to,
         \A k \in Jobs : k # j => PhaseOf(k)' = PhaseOf(k), SameEnd
  PROVE  Service!Move(j, from, to)
<1>1. [k \in Jobs |-> PhaseOf(k)]' = [[k \in Jobs |-> PhaseOf(k)] EXCEPT ![j] = to]
  OBVIOUS
<1>2. (pc[Completer] = "exited")' = (pc[Completer] = "exited")
  BY DEF SameEnd
<1> QED BY <1>1, <1>2 DEF Service!Move

\* Every step is a step of IOService or none of its steps.
LEMMA Refines ==
  ASSUME Reliable, Orderly, ServiceAlways, [Next]_vars
  PROVE  [Service!SvcNext]_(Service!svcVars)
<1>1. /\ Shapes /\ Coherent /\ QuietInv /\ ExitInv /\ QuietInv' /\ ExitInv' /\ Forms
      /\ Exits => Counted = {} /\ state # "RUNNING"
  BY ServiceAlwaysStep, ShapesType DEF ServiceAlways, CoherentAlways, ServiceInv
<1>2. \A t \in Submitters : pc[t] \in Before \cup Entering \cup Pushing =>
        /\ cur[t] \in Jobs /\ loc[cur[t]] = "held"
        /\ \A u \in Submitters : u # t /\ pc[u] \in Before \cup Entering \cup Pushing => cur[u] # cur[t]
  BY <1>1 DEF Coherent, HeldInv, HeldLabels, Shapes, Before, Entering, Pushing
<1>3. /\ Before \cap (Entering \cup Pushing) = {}
      /\ "idle" \notin Before \cup Entering \cup Pushing /\ Entering \cup Pushing \subseteq HeldLabels
      /\ "held" \notin OutPlaces
  BY DEF Before, Entering, Pushing, HeldLabels, OutPlaces
<1>4. ASSUME NEW j \in Jobs, Taken(j) PROVE loc[j] = "held"
  BY <1>2, <1>4 DEF Taken
<1>5. ASSUME AllStages, NEW j \in Jobs PROVE Taken(j)' <=> Taken(j)
  BY <1>5 DEF AllStages, SameStage, Taken
<1>6. ASSUME NEW t \in Submitters, OthersOf(t), NEW j \in Jobs,
             cur'[t] = j /\ pc'[t] \in Entering \cup Pushing
               <=> cur[t] = j /\ pc[t] \in Entering \cup Pushing
      PROVE  Taken(j)' <=> Taken(j)
  BY <1>6 DEF OthersOf, SameStage, Taken
<1>7. ASSUME NEW t \in Submitters, pc[t] \in Before
      PROVE  cur[t] \in Jobs /\ loc[cur[t]] = "held" /\ ~Taken(cur[t])
  BY <1>2, <1>3, <1>7 DEF Taken
<1>8. CASE Rests
  BY <1>1, <1>5, <1>8, PhaseKept, StutterIs DEF Rests, AllStill
<1>9. ASSUME NEW t \in Submitters, NEW j \in Jobs, Calls(t, j) PROVE Service!Call(j)
  <2>1. /\ pc[t] = "idle" /\ pc'[t] \in Before /\ cur'[t] = j /\ OthersOf(t)
        /\ loc[j] = "new" /\ loc'[j] = "held" /\ StillBut(j) /\ SameEnd
    BY <1>9 DEF Calls
  <2>2. \A k \in Jobs : Taken(k)' <=> Taken(k)
    BY <1>3, <1>6, <2>1
  <2>3. ~Taken(j)
    BY <1>4, <2>1
  <2>4. PhaseOf(j) = "new" /\ PhaseOf(j)' = "calling"
    BY <2>1, <2>2, <2>3, Phases, NextPhases
  <2>5. \A k \in Jobs : k # j => PhaseOf(k)' = PhaseOf(k)
    BY <1>1, <2>1, <2>2, PhaseKept DEF StillBut
  <2> QED BY <2>1, <2>4, <2>5, MoveIs DEF Service!Call
<1>10. ASSUME NEW t \in Submitters, Refuses(t) PROVE \E j \in Jobs : Service!Refuse(j)
  <2>1. PICK j \in Jobs : j = cur[t] /\ loc[j] = "held" /\ ~Taken(j)
    BY <1>7, <1>10 DEF Refuses
  <2>2. /\ pc[t] \in Before /\ pc'[t] = "idle" /\ OthersOf(t)
        /\ loc'[j] = "returned" /\ StillBut(j) /\ SameEnd
    BY <1>10, <2>1 DEF Refuses
  <2>3. \A k \in Jobs : Taken(k)' <=> Taken(k)
    BY <1>3, <1>6, <2>2
  <2>4. PhaseOf(j) = "calling" /\ PhaseOf(j)' = "refused"
    BY <2>1, <2>2, Phases, NextPhases
  <2>5. \A k \in Jobs : k # j => PhaseOf(k)' = PhaseOf(k)
    BY <1>1, <2>2, <2>3, PhaseKept DEF StillBut
  <2> QED BY <2>2, <2>4, <2>5, MoveIs DEF Service!Refuse
<1>11. ASSUME NEW t \in Submitters, Accepts(t) PROVE \E j \in Jobs : Service!Accept(j)
  <2>1. PICK j \in Jobs : j = cur[t] /\ loc[j] = "held" /\ ~Taken(j)
    BY <1>7, <1>11 DEF Accepts
  <2>2. /\ pc[t] \in Before /\ pc'[t] \in Entering /\ cur'[t] = j /\ OthersOf(t)
        /\ AllStill /\ SameEnd
    BY <1>11, <2>1 DEF Accepts
  <2>3. loc'[j] = "held" /\ Taken(j)'
    BY <1>3, <2>1, <2>2 DEF AllStill, LocStill, Taken
  <2>4. PhaseOf(j) = "calling" /\ PhaseOf(j)' = "accepted"
    BY <2>1, <2>3, Phases, NextPhases
  <2>5. \A k \in Jobs : k # j => PhaseOf(k)' = PhaseOf(k)
    BY <1>1, <1>6, <2>1, <2>2, PhaseKept DEF AllStill
  <2>6. pc[Completer] # "exited"
    <3>1. pc'[t] \notin {"idle", "state"}
      BY <2>2 DEF Entering
    <3> QED BY <1>1, <2>2, <3>1 DEF ExitInv, QuietInv, SameEnd
  <2> QED BY <2>2, <2>4, <2>5, <2>6, MoveIs DEF Service!Accept
<1>12. ASSUME NEW t \in Submitters, Counts(t) PROVE UNCHANGED Service!svcVars
  <2>1. /\ pc[t] \in Entering /\ pc'[t] \in Pushing /\ cur'[t] = cur[t] /\ OthersOf(t)
        /\ AllStill /\ SameEnd
    BY <1>12 DEF Counts
  <2>2. \A k \in Jobs : PhaseOf(k)' = PhaseOf(k)
    BY <1>1, <1>6, <2>1, PhaseKept DEF AllStill
  <2> QED BY <2>1, <2>2, StutterIs
<1>13. ASSUME NEW t \in Submitters, Pushes(t) PROVE UNCHANGED Service!svcVars
  <2>1. pc[t] \in Pushing
    BY <1>13 DEF Pushes
  <2>2. PICK j \in Jobs : j = cur[t] /\ loc[j] = "held" /\ Taken(j)
    BY <1>2, <2>1 DEF Taken
  <2>3. /\ pc'[t] \notin HeldLabels /\ cur'[t] = j /\ OthersOf(t)
        /\ loc'[j] \in OutPlaces /\ StillBut(j) /\ SameEnd
    BY <1>13, <2>2 DEF Pushes
  <2>4. PhaseOf(j)' = PhaseOf(j)
    BY <2>2, <2>3, Phases, NextPhases
  <2>5. \A k \in Jobs : k # j => PhaseOf(k)' = PhaseOf(k)
    BY <1>1, <1>6, <2>2, <2>3, PhaseKept DEF StillBut
  <2> QED BY <2>3, <2>4, <2>5, StutterIs
<1>14. ASSUME NEW j \in Jobs, Reports(j) PROVE Service!Report(j)
  <2>1. /\ loc[j] \in OutPlaces /\ loc'[j] \in {"failed", "gone"} /\ StillBut(j) /\ AllStages
        /\ SameEnd
    BY <1>14 DEF Reports
  <2>2. PhaseOf(j) = "accepted" /\ PhaseOf(j)' = "reported"
    BY <2>1, Phases, NextPhases
  <2>3. \A k \in Jobs : k # j => PhaseOf(k)' = PhaseOf(k)
    BY <1>1, <1>5, <2>1, PhaseKept DEF StillBut
  <2>4. pc[Completer] # "exited"
    BY <1>1, <2>1 DEF ExitInv, Counted
  <2> QED BY <2>1, <2>2, <2>3, <2>4, MoveIs DEF Service!Report
<1>15. CASE Exits
  <2>1. /\ pc[Completer] # "exited" /\ pc'[Completer] = "exited" /\ AllStages /\ AllStill
        /\ Counted = {} /\ state # "RUNNING"
    BY <1>1, <1>15 DEF Exits
  <2>2. \A j \in Jobs : PhaseOf(j)' = PhaseOf(j)
    BY <1>1, <1>5, <2>1, PhaseKept DEF AllStill
  <2>3. \A j \in Jobs : loc[j] \notin OutPlaces /\ ~Taken(j)
    BY <1>1, <1>3, <2>1 DEF Counted, Taken, QuietInv, Entering, Pushing
  <2>4. \A j \in Jobs : PhaseOf(j) # "accepted"
    <3> SUFFICES ASSUME NEW j \in Jobs PROVE PhaseOf(j) # "accepted"
      OBVIOUS
    <3>1. loc[j] \in {"new", "held", "returned", "failed", "gone"} \cup OutPlaces
      BY <1>1 DEF Shapes, Places, OutPlaces
    <3> QED BY <2>3, <3>1, Phases
  <2>5. [j \in Jobs |-> PhaseOf(j)]' = [j \in Jobs |-> PhaseOf(j)]
    BY <2>2
  <2>6. \A j \in Jobs : [k \in Jobs |-> PhaseOf(k)][j] # "accepted"
    BY <2>4
  <2>7. (pc[Completer] = "exited")' = TRUE
    BY <2>1
  <2>8. Service!Close
    BY <2>1, <2>5, <2>6, <2>7 DEF Service!Close
  <2> QED BY <2>8 DEF Service!SvcNext
<1> QED BY <1>1, <1>8, <1>9, <1>10, <1>11, <1>12, <1>13, <1>14, <1>15 DEF Forms, Service!SvcNext

\* The executor implements IOService: whatever the number of threads, jobs and
\* contexts and however submitTask(), ProcessRequestQueue(), the two service
\* threads and stop() interleave, a job is refused or reported once, and the
\* completion thread exits after the last report.  io_submit takes all of a
\* batch or asks for a retry, and stop() is called when no thread is inside
\* submitTask(): the runs fatal_submit and exit_with_submitter show what the
\* executor does otherwise.
THEOREM ServiceImplemented == ASSUME Reliable, Orderly PROVE Spec => ImplementsService
<1>1. Init => ServiceAlways
  BY InitType, InitCoherent, InitService DEF ServiceAlways, CoherentAlways
<1>2. ServiceAlways /\ [Next]_vars => ServiceAlways'
  BY ServiceAlwaysStep
<1>3. ServiceAlways /\ [Next]_vars => [Service!SvcNext]_(Service!svcVars)
  BY Refines
<1>4. Init => Service!SvcInit
  <2> SUFFICES ASSUME Init PROVE Service!SvcInit
    OBVIOUS
  <2>1. \A j \in Jobs : PhaseOf(j) = "new"
    BY Phases DEF Init
  <2>2. pc[Completer] = "loop"
    BY DEF Init, Runners
  <2>3. (pc[Completer] = "exited") = FALSE
    BY <2>2
  <2> QED BY <2>1, <2>3 DEF Service!SvcInit
<1> QED BY <1>1, <1>2, <1>3, <1>4, PTL DEF Spec, ImplementsService, Service!SvcSpec
=============================================================================
