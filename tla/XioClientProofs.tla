-------------------------- MODULE XioClientProofs --------------------------
(***************************************************************************)
(* Proofs about the network client, first part: its inductive invariant.   *)
(*                                                                         *)
(* What the client promises depends on which requests have a message and   *)
(* on who has it, so Core relates the calls of the threads (Calling), the  *)
(* messages of their requests (Messages), the queue between the threads    *)
(* and the network thread (Queue) and the message the network thread       *)
(* handles (Handled).  XioClientCallProofs shows what follows from it.     *)
(***************************************************************************)
EXTENDS XioClient, TLAPS

\* The types of what belongs to the calls.
CallTypes ==
  /\ pc \in [Threads -> ThreadLabels]
  /\ call \in [Threads -> SUBSET Requests]
  /\ kind \in [Threads -> {"read", "readv", "readcb"}]
  /\ todo \in [Threads -> SUBSET Requests]
  /\ cur \in [Threads -> SUBSET Requests]
  /\ timed \in [Threads -> BOOLEAN]
  /\ err \in [Threads -> BOOLEAN]

\* Those of what belongs to the network thread.
NetTypes ==
  /\ nrReqQueue \in Int
  /\ inflight \in Seq(Requests)
  /\ evfd \in BOOLEAN
  /\ stopLoop \in BOOLEAN
  /\ npc \in NetworkLabels
  /\ nback \in {"run", "bye", "send"}
  /\ nreq \in SUBSET Requests
  /\ nres \in {"none", "data", "error", "EIO"}
  /\ stopping \in BOOLEAN
  /\ sdPc \in {"idle", "stop", "join", "stopped"}
  /\ connection \in {"up", "down", "torn"}

\* Those of what belongs to the requests, but for the count of their notifier.
MemTypes ==
  /\ msg \in [Requests -> {"none", "queued", "wire", "lost", "handling", "gone"}]
  /\ mem \in [Requests -> {"none", "live", "freed"}]
  /\ group \in [Requests -> SUBSET Requests]
  /\ result \in [Requests -> {"none", "data", "error", "EIO"}]
  /\ cmem \in [Requests -> {"none", "live", "freed"}]
  /\ onWait \in [Requests -> BOOLEAN]
  /\ signaled \in [Requests -> BOOLEAN]

BaseOK == CallTypes /\ NetTypes /\ MemTypes

\* Where a thread submits a request that has no message yet.
Unsubmitted == {"slot", "slotWait", "slotWoken", "busy", "push"}

\* Where a thread submits the requests of its call.
Submitting == Unsubmitted \cup {"next", "wake"}

\* The calls are disjoint, the requests of a call share its notifier, and a
\* thread that submits a request has taken it out of those still to be submitted.
Apart      == \A t, u \in Threads : \A r \in call[t] : r \in call[u] => t = u
Grouped    == \A t \in Threads : \A r \in call[t] : group[r] = call[t]
TodoOfCall == \A t \in Threads : todo[t] \subseteq call[t]
AllTaken   == \A t \in Threads : pc[t] \notin Submitting => todo[t] = {}
CurTaken   == \A t \in Threads : pc[t] \in Submitting \ {"next"} =>
                \E r \in call[t] : r \notin todo[t] /\ cur[t] = {r}
NoError    == \A t \in Threads : pc[t] \notin Submitting \cup {"idle"} => ~err[t]

Calling == Apart /\ Grouped /\ TodoOfCall /\ AllTaken /\ CurTaken /\ NoError

\* The requests of the call of t without a message.
Unsent(t) == todo[t] \cup (IF pc[t] \in Unsubmitted THEN cur[t] ELSE {})

\* A request gets its memory before its message; once a call whose submissions
\* all succeeded has been submitted, each of its requests has had a message.
NoGroup   == \A r \in Requests : group[r] = {} => mem[r] = "none"
TodoFresh == \A t \in Threads : \A r \in todo[t] : mem[r] = "none"
CurFresh  == \A t \in Threads : pc[t] \in Unsubmitted =>
               \A r \in cur[t] : mem[r] = "live" /\ msg[r] = "none"
MemFirst  == \A r \in Requests : mem[r] = "none" => msg[r] = "none"
AllSent   == \A t \in Threads : ~err[t] =>
               \A r \in call[t] : r \in Unsent(t) \/ msg[r] # "none"

Messages == NoGroup /\ TodoFresh /\ CurFresh /\ MemFirst /\ AllSent

\* inflight_reqs holds the messages that are queued, each at one place.
Queue ==
  /\ \A i \in 1..Len(inflight) : msg[inflight[i]] = "queued"
  /\ \A i, k \in 1..Len(inflight) : inflight[i] = inflight[k] => i = k

\* The network thread handles one message at a time; the message of a request
\* that could not be sent is deleted before the request completes.
Handled ==
  /\ npc \in {"release", "complete", "callback", "signal", "notify"} =>
       \E r \in Requests : nreq = {r}
  /\ \A r \in nreq : npc = "release" => msg[r] = "handling"
  /\ \A r \in nreq : npc \in {"complete", "callback", "signal", "notify"} =>
       msg[r] = IF nback = "send" THEN "gone" ELSE "handling"

\* Steps go to Zenon unless they name SMT; the groups of variables.
USE Zenon
USE DEF callVars, netVars, memVars, cVars, endVars, rest

-----------------------------------------------------------------------------
(***************************************************************************)
(* Types.                                                                  *)
(***************************************************************************)
\* What putting into inflight_reqs and taking from it leave.
LEMMA QueueTypes ==
  ASSUME NEW q \in Seq(Requests)
  PROVE  /\ \A r \in Requests : Append(q, r) \in Seq(Requests)
         /\ q # <<>> => Tail(q) \in Seq(Requests) /\ Head(q) \in Requests
BY SMT

\* Writing one value for a set of requests keeps the type of a function.
LEMMA SetAllType ==
  ASSUME NEW D, NEW f \in [Requests -> D], NEW v \in D, NEW S
  PROVE  SetAll(f, S, v) \in [Requests -> D]
BY DEF SetAll

\* The client begins with its types.
LEMMA BaseInit == Init => BaseOK
<1> SUFFICES ASSUME Init PROVE BaseOK
  OBVIOUS
<1>1. inflight \in Seq(Requests)
  BY SMT DEF Init
<1>2. nrReqQueue \in Int
  BY SMT, ClientAssumption DEF Init
<1>4. /\ pc \in [Threads -> ThreadLabels] /\ call \in [Threads -> SUBSET Requests]
      /\ kind \in [Threads -> {"read", "readv", "readcb"}]
      /\ todo \in [Threads -> SUBSET Requests] /\ cur \in [Threads -> SUBSET Requests]
      /\ timed \in [Threads -> BOOLEAN] /\ err \in [Threads -> BOOLEAN]
  BY DEF Init, ThreadLabels
<1>5. /\ msg \in [Requests -> {"none", "queued", "wire", "lost", "handling", "gone"}]
      /\ mem \in [Requests -> {"none", "live", "freed"}]
      /\ group \in [Requests -> SUBSET Requests]
      /\ result \in [Requests -> {"none", "data", "error", "EIO"}]
      /\ cmem \in [Requests -> {"none", "live", "freed"}]
      /\ onWait \in [Requests -> BOOLEAN] /\ signaled \in [Requests -> BOOLEAN]
  BY DEF Init
<1>6. /\ npc \in NetworkLabels /\ nback = "run" /\ nreq \in SUBSET Requests /\ nres = "none"
      /\ sdPc = "idle" /\ connection = "up"
  BY DEF Init, NetworkLabels
<1>7. evfd \in BOOLEAN /\ stopLoop \in BOOLEAN /\ stopping \in BOOLEAN
  BY DEF Init
<1> QED BY <1>1, <1>2, <1>4, <1>5, <1>6, <1>7 DEF BaseOK, CallTypes, NetTypes, MemTypes

\* A thread keeps to its labels.
LEMMA GotoType ==
  ASSUME BaseOK, NEW t \in Threads, NEW l \in ThreadLabels, Goto(t, l)
  PROVE  pc' \in [Threads -> ThreadLabels]
BY DEF BaseOK, CallTypes, Goto

\* A step of a thread that changes nothing but its own position.
Moves(t) ==
  \/ Submitted(t) \/ SlotWoken(t) \/ SuspendUntimed(t) \/ SuspendTimed(t) \/ WaitSignaled(t)
  \/ ThreadDisturbed(t)

\* Such a step keeps everything else, the thread stays in the call.
LEMMA MovesTypes ==
  ASSUME BaseOK, NEW t \in Threads, Moves(t)
  PROVE  UNCHANGED rest /\ \E l \in ThreadLabels : Goto(t, l)
<1>1. UNCHANGED rest
  BY DEF Moves, Submitted, SlotWoken, SuspendUntimed, SuspendTimed, WaitSignaled, ThreadDisturbed,
         SlotSpurious, SlotTimeout, SuspendSpurious, SuspendTimeout, WaitSpurious, WaitTimeout
<1>2. CASE Submitted(t)
  <2>1. (CASE err[t] -> "idle" [] ~err[t] /\ kind[t] = "readcb" -> "waitC" [] OTHER -> "suspend")
          \in ThreadLabels
    BY DEF ThreadLabels
  <2> QED BY <1>2, <2>1 DEF Submitted
<1>3. CASE ~Submitted(t)
  BY <1>3 DEF Moves, SlotWoken, SuspendUntimed, SuspendTimed, WaitSignaled, ThreadDisturbed,
         SlotSpurious, SlotTimeout, SuspendSpurious, SuspendTimeout, WaitSpurious, WaitTimeout, ThreadLabels
<1> QED BY <1>1, <1>2, <1>3

\* The threads keep the types.
LEMMA BaseThread ==
  ASSUME BaseOK, NEW t \in Threads, ThreadStep(t) \/ ThreadDisturbed(t)
  PROVE  BaseOK'
<1>1. CASE Moves(t)
  <2>1. pc' \in [Threads -> ThreadLabels]
    BY <1>1, MovesTypes, GotoType
  <2>2. UNCHANGED rest
    BY <1>1, MovesTypes
  <2> QED BY SMT, <2>1, <2>2 DEF BaseOK, CallTypes, NetTypes, MemTypes
<1>2. CASE SubmitAioRequest(t)
  <2>1. pc' \in [Threads -> ThreadLabels]
    BY <1>2, GotoType DEF SubmitAioRequest, ThreadLabels
  <2>2. /\ cur' \in [Threads -> SUBSET Requests] /\ todo' \in [Threads -> SUBSET Requests]
        /\ mem' \in [Requests -> {"none", "live", "freed"}]
    BY SMT, <1>2 DEF SubmitAioRequest, BaseOK, CallTypes, MemTypes
  <2> QED BY SMT, <1>2, <2>1, <2>2 DEF SubmitAioRequest, BaseOK, CallTypes, NetTypes, MemTypes
<1>3. CASE ReqQueueWaitUntil(t)
  <2>1. pc' \in [Threads -> ThreadLabels]
    BY <1>3, GotoType DEF ReqQueueWaitUntil, ThreadLabels
  <2>2. nrReqQueue' \in Int
    BY SMT, <1>3 DEF ReqQueueWaitUntil, BaseOK, NetTypes
  <2> QED BY SMT, <1>3, <2>1, <2>2 DEF ReqQueueWaitUntil, BaseOK, CallTypes, NetTypes, MemTypes
<1>4. CASE Busy(t)
  <2>1. pc' \in [Threads -> ThreadLabels]
    BY <1>4, GotoType DEF Busy, ThreadLabels
  <2>2. mem' \in [Requests -> {"none", "live", "freed"}]
    BY <1>4, SetAllType DEF Busy, BaseOK, MemTypes
  <2>3. err' \in [Threads -> BOOLEAN]
    BY <1>4 DEF Busy, BaseOK, CallTypes
  <2> QED BY SMT, <1>4, <2>1, <2>2, <2>3 DEF Busy, BaseOK, CallTypes, NetTypes, MemTypes
<1>5. CASE PushRequest(t)
  <2>1. pc' \in [Threads -> ThreadLabels]
    BY <1>5, GotoType DEF PushRequest, ThreadLabels
  <2>2. inflight' \in Seq(Requests)
    BY <1>5, QueueTypes DEF PushRequest, BaseOK, CallTypes, NetTypes
  <2>3. msg' \in [Requests -> {"none", "queued", "wire", "lost", "handling", "gone"}]
    BY <1>5, SetAllType DEF PushRequest, BaseOK, MemTypes
  <2> QED BY SMT, <1>5, <2>1, <2>2, <2>3 DEF PushRequest, BaseOK, CallTypes, NetTypes, MemTypes
<1>6. CASE XstopLoop(t)
  <2>1. pc' \in [Threads -> ThreadLabels]
    BY <1>6, GotoType DEF XstopLoop, ThreadLabels
  <2>2. evfd' \in BOOLEAN
    BY <1>6 DEF XstopLoop
  <2> QED BY SMT, <1>6, <2>1, <2>2 DEF XstopLoop, BaseOK, CallTypes, NetTypes, MemTypes
<1>7. CASE AioFinish(t)
  <2>1. pc' \in [Threads -> ThreadLabels]
    BY <1>7, GotoType DEF AioFinish, ThreadLabels
  <2>2. mem' \in [Requests -> {"none", "live", "freed"}]
    BY <1>7, SetAllType DEF AioFinish, BaseOK, MemTypes
  <2> QED BY SMT, <1>7, <2>1, <2>2 DEF AioFinish, BaseOK, CallTypes, NetTypes, MemTypes
<1>8. CASE AioWaitCompletion(t)
  <2>1. pc' \in [Threads -> ThreadLabels]
    BY <1>8, GotoType DEF AioWaitCompletion, ThreadLabels
  <2>2. onWait' \in [Requests -> BOOLEAN]
    BY <1>8 DEF AioWaitCompletion, BaseOK, MemTypes
  <2> QED BY SMT, <1>8, <2>1, <2>2 DEF AioWaitCompletion, BaseOK, CallTypes, NetTypes, MemTypes
<1>9. CASE ReleaseCompletion(t)
  <2>1. pc' \in [Threads -> ThreadLabels]
    BY <1>9, GotoType DEF ReleaseCompletion, ThreadLabels
  <2>2. mem' \in [Requests -> {"none", "live", "freed"}] /\ cmem' \in [Requests -> {"none", "live", "freed"}]
    BY <1>9, SetAllType DEF ReleaseCompletion, BaseOK, MemTypes
  <2> QED BY SMT, <1>9, <2>1, <2>2 DEF ReleaseCompletion, BaseOK, CallTypes, NetTypes, MemTypes
<1> QED BY <1>1, <1>2, <1>3, <1>4, <1>5, <1>6, <1>7, <1>8, <1>9 DEF ThreadStep, Moves

\* The network thread keeps the types.
LEMMA BaseNetwork ==
  ASSUME BaseOK, NetworkThread \/ PeerGone \/ \E r \in Requests : Answered(r)
  PROVE  BaseOK'
<1>1. CASE EvfdStopLoop \/ ConnectionTeardown \/ SessionTeardown \/ PeerGone
  <2>1. UNCHANGED <<pc, callVars, nrReqQueue, inflight, npc, netVars, msg, memVars, cVars, stopping, sdPc>>
    BY <1>1 DEF EvfdStopLoop, ConnectionTeardown, SessionTeardown, PeerGone, TeardownIn
  <2>2. evfd' \in BOOLEAN /\ stopLoop' \in BOOLEAN /\ connection' \in {"up", "down", "torn"}
    BY <1>1 DEF EvfdStopLoop, ConnectionTeardown, SessionTeardown, PeerGone, TeardownIn, BaseOK, NetTypes
  <2> QED BY <2>1, <2>2 DEF BaseOK, CallTypes, NetTypes, MemTypes
<1>2. CASE LoopReturns \/ Callback \/ Drained \/ Disconnect
  <2>1. UNCHANGED <<pc, callVars, nrReqQueue, inflight, evfd, netVars, msg, memVars, cVars, endVars>>
    BY <1>2 DEF LoopReturns, Callback, Drained, Disconnect
  <2>2. npc' \in NetworkLabels
    BY <1>2 DEF LoopReturns, Callback, Drained, Disconnect, NetworkLabels
  <2>3. stopLoop' \in BOOLEAN
    BY <1>2 DEF LoopReturns, Callback, Drained, Disconnect, BaseOK, NetTypes
  <2> QED BY SMT, <2>1, <2>2, <2>3 DEF BaseOK, CallTypes, NetTypes, MemTypes
<1>3. CASE CompleteRequest
  <2>1. PICK r \in nreq :
          /\ result' = [result EXCEPT ![r] = nres]
          /\ NotifierSignal(r)
          /\ npc' = IF WithCompletion(r) THEN "callback" ELSE AfterComplete
    BY <1>3 DEF CompleteRequest
  <2>2. result' \in [Requests -> {"none", "data", "error", "EIO"}]
    BY <2>1 DEF BaseOK, NetTypes, MemTypes
  <2>4. pc' \in [Threads -> ThreadLabels]
    BY <2>1 DEF BaseOK, CallTypes, NotifierSignal, ThreadLabels
  <2>5. npc' \in NetworkLabels
    BY <2>1 DEF AfterComplete, NetworkLabels
  <2> QED BY SMT, <1>3, <2>2, <2>4, <2>5 DEF BaseOK, CallTypes, NetTypes, MemTypes, CompleteRequest
<1>4. CASE AioSignalCompletion
  <2>1. onWait' \in [Requests -> BOOLEAN]
    BY <1>4 DEF BaseOK, MemTypes, AioSignalCompletion
  <2>2. npc' \in NetworkLabels
    BY <1>4 DEF AioSignalCompletion, AfterComplete, NetworkLabels
  <2> QED BY SMT, <1>4, <2>1, <2>2 DEF BaseOK, CallTypes, NetTypes, MemTypes, AioSignalCompletion
<1>5. CASE NotifyCompletion
  <2>1. signaled' \in [Requests -> BOOLEAN]
    BY <1>5, SetAllType DEF BaseOK, MemTypes, NotifyCompletion
  <2>2. pc' \in [Threads -> ThreadLabels]
    BY <1>5 DEF BaseOK, CallTypes, NotifyCompletion, ThreadLabels
  <2>3. npc' \in NetworkLabels
    BY <1>5 DEF NotifyCompletion, AfterComplete, NetworkLabels
  <2>4. CallTypes'
    BY <1>5, <2>2 DEF BaseOK, CallTypes, NotifyCompletion
  <2>5. NetTypes'
    BY <1>5, <2>3 DEF BaseOK, NetTypes, NotifyCompletion
  <2>6. MemTypes'
    BY <1>5, <2>1 DEF BaseOK, MemTypes, NotifyCompletion
  <2> QED BY <2>4, <2>5, <2>6 DEF BaseOK
<1>6. CASE ReqQueueRelease
  <2>1. nrReqQueue' \in Int
    BY SMT, <1>6 DEF BaseOK, NetTypes, ReqQueueRelease
  <2>2. pc' \in [Threads -> ThreadLabels]
    <3>1. "slotWoken" \in ThreadLabels
      BY DEF ThreadLabels
    <3> QED BY <1>6, <3>1, GotoType DEF BaseOK, CallTypes, NetTypes, MemTypes, ReqQueueRelease, NotifyOne
  <2>3. msg' \in [Requests -> {"none", "queued", "wire", "lost", "handling", "gone"}]
    BY <1>6, SetAllType DEF BaseOK, MemTypes, ReqQueueRelease
  <2>4. npc' \in NetworkLabels
    BY <1>6 DEF BaseOK, NetTypes, ReqQueueRelease, NetworkLabels
  <2> QED BY SMT, <1>6, <2>1, <2>2, <2>3, <2>4 DEF BaseOK, CallTypes, NetTypes, MemTypes, ReqQueueRelease
<1>7. CASE SendOk \/ SendFails
  <2>1. inflight' \in Seq(Requests) /\ Head(inflight) \in Requests
    BY <1>7, QueueTypes DEF BaseOK, NetTypes, SendOk, SendFails
  <2>2. msg' \in [Requests -> {"none", "queued", "wire", "lost", "handling", "gone"}]
    BY <1>7 DEF BaseOK, MemTypes, SendOk, SendFails
  <2>3. /\ npc' \in NetworkLabels /\ nback' \in {"run", "bye", "send"}
        /\ nreq' \in SUBSET Requests /\ nres' \in {"none", "data", "error", "EIO"}
    BY <1>7, <2>1 DEF BaseOK, NetTypes, SendOk, SendFails, NetworkLabels
  <2>4. UNCHANGED <<pc, callVars, nrReqQueue, evfd, stopLoop, memVars, cVars, endVars>>
    BY <1>7 DEF SendOk, SendFails
  <2> QED BY <2>1, <2>2, <2>3, <2>4 DEF BaseOK, CallTypes, NetTypes, MemTypes
<1>8. ASSUME NEW r \in Requests, Answered(r)
      PROVE  BaseOK'
  <2>1. CASE OnBadResponse(r)
    BY SMT, <2>1 DEF BaseOK, CallTypes, NetTypes, MemTypes, OnBadResponse
  <2>2. ASSUME NEW res \in {"data", "error", "EIO"}, InLoop, Handle(r, res)
        PROVE  BaseOK'
    <3>1. npc' \in NetworkLabels /\ nback' \in {"run", "bye", "send"}
      BY <2>2 DEF InLoop, Handle, NetworkLabels
    <3> QED BY SMT, <2>2, <3>1 DEF BaseOK, CallTypes, NetTypes, MemTypes, Handle
  <2> QED BY <1>8, <2>1, <2>2 DEF Answered, OnResponse, OnMsgError
<1> QED BY <1>1, <1>2, <1>3, <1>4, <1>5, <1>6, <1>7, <1>8 DEF NetworkThread

\* A new call keeps the types.
LEMMA BaseStart ==
  ASSUME BaseOK, NEW t \in Threads, NEW k \in Calls, NEW R \in SUBSET Requests, NEW tm \in Timed,
         StartCall(t, k, R, tm)
  PROVE  BaseOK'
<1>1. pc' \in [Threads -> ThreadLabels]
  BY GotoType DEF StartCall, ThreadLabels
<1>4. group' \in [Requests -> SUBSET Requests]
  BY SetAllType DEF BaseOK, MemTypes, StartCall
<1>5. cmem' \in [Requests -> {"none", "live", "freed"}]
  BY SetAllType DEF BaseOK, MemTypes, StartCall
<1>6. /\ call' \in [Threads -> SUBSET Requests] /\ todo' \in [Threads -> SUBSET Requests]
      /\ timed' \in [Threads -> BOOLEAN] /\ err' \in [Threads -> BOOLEAN]
      /\ kind' \in [Threads -> {"read", "readv", "readcb"}]
  BY ClientAssumption DEF BaseOK, CallTypes, StartCall
<1> QED BY SMT, <1>1, <1>4, <1>5, <1>6 DEF BaseOK, CallTypes, NetTypes, MemTypes, StartCall

\* Every step keeps the types.
LEMMA BaseStep == BaseOK /\ [Next]_vars => BaseOK'
<1> SUFFICES ASSUME BaseOK, [Next]_vars PROVE BaseOK'
  OBVIOUS
<1>1. CASE Shutdown \/ ShuttingDown
  <2>1. UNCHANGED <<pc, callVars, nrReqQueue, evfd, npc, netVars, msg, memVars, cVars, connection>>
    BY <1>1 DEF Shutdown, ShuttingDown, ShutdownStop, ShutdownJoin
  <2>2. <<>> \in Seq(Requests)
    BY SMT
  <2>3. inflight' \in Seq(Requests) /\ sdPc' \in {"idle", "stop", "join", "stopped"}
    BY <1>1, <2>2 DEF BaseOK, NetTypes, Shutdown, ShuttingDown, ShutdownStop, ShutdownJoin
  <2>4. stopLoop' \in BOOLEAN /\ stopping' \in BOOLEAN
    BY <1>1 DEF BaseOK, NetTypes, Shutdown, ShuttingDown, ShutdownStop, ShutdownJoin
  <2> QED BY <2>1, <2>3, <2>4 DEF BaseOK, CallTypes, NetTypes, MemTypes
<1>2. CASE UNCHANGED vars
  BY SMT, <1>2 DEF BaseOK, CallTypes, NetTypes, MemTypes, vars
<1> QED BY <1>1, <1>2, BaseStart, BaseThread, BaseNetwork DEF Next, Quiescent

-----------------------------------------------------------------------------
(***************************************************************************)
(* Steps that leave the calls and the slots alone.                         *)
(***************************************************************************)
\* The states of a message whose request has a slot.
Held == {"queued", "wire", "lost", "handling"}

\* The thread u stays where it is or moves on without submitting anything.
Advances(u) ==
  \/ pc'[u] = pc[u]
  \/ pc[u] \in Unsubmitted /\ pc'[u] \in Unsubmitted
  \/ pc[u] \notin Submitting \cup {"idle"} /\ pc'[u] \notin Submitting
  \/ pc[u] = "wake" /\ pc'[u] = "next"

\* The thread u neither gets a slot nor begins or ceases to wait for one.
SameSlot(u) ==
  /\ pc'[u] = "push" <=> pc[u] = "push"
  /\ pc'[u] = "busy" <=> pc[u] = "busy"
  /\ pc'[u] \in {"slotWait", "slotWoken"} <=> pc[u] \in {"slotWait", "slotWoken"}

\* No request gets its message or loses its slot.
SameMsgs ==
  \A r \in Requests : /\ msg'[r] = "none" <=> msg[r] = "none"
                      /\ msg'[r] \in Held <=> msg[r] \in Held

Quiet ==
  /\ UNCHANGED <<call, todo, cur, err, group, mem, nrReqQueue>>
  /\ \A u \in Threads : Advances(u) /\ SameSlot(u)
  /\ SameMsgs

\* The steps of the threads between the submission and the return of a call.
LEMMA QuietThread ==
  ASSUME BaseOK, NEW t \in Threads,
         \/ SuspendUntimed(t) \/ SuspendTimed(t) \/ WaitSignaled(t) \/ AioWaitCompletion(t)
         \/ SlotSpurious(t) \/ SuspendSpurious(t) \/ SuspendTimeout(t) \/ WaitSpurious(t)
         \/ WaitTimeout(t) \/ XstopLoop(t)
  PROVE  Quiet /\ UNCHANGED <<inflight, npc, netVars, msg>>
<1>1. UNCHANGED <<call, todo, cur, err, group, mem, nrReqQueue, inflight, npc, netVars, msg>>
  BY DEF SuspendUntimed, SuspendTimed, WaitSignaled, AioWaitCompletion, SlotSpurious,
               SuspendSpurious, SuspendTimeout, WaitSpurious, WaitTimeout, XstopLoop
<1>2. SameMsgs
  BY <1>1 DEF SameMsgs
<1>3. /\ pc' = [pc EXCEPT ![t] = pc'[t]]
      /\ \/ pc[t] = "slotWait" /\ pc'[t] = "slotWoken"
         \/ /\ pc[t] \in {"suspend", "suspended", "waitC", "lockC", "waitingC"}
            /\ pc'[t] \in {"suspend", "suspended", "return", "waitC", "lockC", "waitingC", "completed"}
         \/ pc[t] = "wake" /\ pc'[t] = "next"
  BY DEF BaseOK, CallTypes, Goto, SuspendUntimed, SuspendTimed, WaitSignaled, AioWaitCompletion, SlotSpurious,
               SuspendSpurious, SuspendTimeout, WaitSpurious, WaitTimeout, XstopLoop
<1>4. \A u \in Threads : u # t => pc'[u] = pc[u]
  BY <1>3 DEF BaseOK, CallTypes
<1>5. Advances(t) /\ SameSlot(t)
  BY <1>3 DEF Advances, SameSlot, Unsubmitted, Submitting
<1>6. \A u \in Threads : Advances(u) /\ SameSlot(u)
  BY <1>4, <1>5 DEF Advances, SameSlot
<1> QED BY <1>1, <1>2, <1>6 DEF Quiet

\* The thread that completes a request only wakes those that wait for it.
LEMMA QuietComplete ==
  ASSUME BaseOK, CompleteRequest \/ NotifyCompletion
  PROVE  Quiet /\ UNCHANGED <<inflight, netVars, msg>>
<1>1. UNCHANGED <<call, todo, cur, err, group, mem, nrReqQueue, inflight, netVars, msg>>
  BY DEF CompleteRequest, NotifyCompletion
<1>2. SameMsgs
  BY <1>1 DEF SameMsgs
<1>3. ASSUME NEW u \in Threads
      PROVE  \/ pc'[u] = pc[u]
             \/ pc[u] = "suspended" /\ pc'[u] = "return"
             \/ pc[u] = "waitingC" /\ pc'[u] = "completed"
  <2>1. CASE CompleteRequest
    <3>1. PICK r \in nreq : NotifierSignal(r)
      BY <2>1 DEF CompleteRequest
    <3> QED BY <3>1 DEF NotifierSignal
  <2>2. CASE NotifyCompletion
    BY <2>2 DEF NotifyCompletion
  <2> QED BY <2>1, <2>2
<1>4. \A u \in Threads : Advances(u) /\ SameSlot(u)
  BY <1>3 DEF Advances, SameSlot, Unsubmitted, Submitting
<1> QED BY <1>1, <1>2, <1>4 DEF Quiet

\* Neither do the other steps of the network thread, but for the release of a
\* slot, the events of the transport and shutdown().
LEMMA QuietNetwork ==
  ASSUME BaseOK, Queue,
         \/ EvfdStopLoop \/ ConnectionTeardown \/ SessionTeardown \/ LoopReturns \/ Callback
         \/ AioSignalCompletion \/ SendOk \/ SendFails \/ Drained \/ Disconnect \/ PeerGone
         \/ (\E r \in Requests : Answered(r)) \/ Shutdown \/ ShuttingDown \/ UNCHANGED vars
  PROVE  Quiet
<1>1. UNCHANGED <<pc, call, todo, cur, err, group, mem, nrReqQueue>>
  BY DEF EvfdStopLoop, ConnectionTeardown, SessionTeardown, LoopReturns, Callback,
               AioSignalCompletion, SendOk, SendFails, Drained, Disconnect, PeerGone, TeardownIn,
               Answered, OnResponse, OnBadResponse, OnMsgError, Handle, Shutdown, ShuttingDown,
               ShutdownStop, ShutdownJoin, vars
<1>2. \A u \in Threads : Advances(u) /\ SameSlot(u)
  BY <1>1 DEF Advances, SameSlot
<1>3. CASE SendOk \/ SendFails
  <2>1. Head(inflight) \in Requests /\ msg[Head(inflight)] = "queued"
    BY SMT, <1>3, QueueTypes DEF BaseOK, NetTypes, Queue, SendOk, SendFails
  <2>2. \E v \in {"wire", "handling"} : msg' = [msg EXCEPT ![Head(inflight)] = v]
    BY <1>3 DEF SendOk, SendFails
  <2> QED BY <1>1, <1>2, <2>1, <2>2 DEF BaseOK, MemTypes, Quiet, SameMsgs, Held
<1>4. CASE \E r \in Requests : Answered(r)
  <2>1. PICK r \in Requests :
          msg[r] = "wire" /\ \E v \in {"lost", "handling"} : msg' = [msg EXCEPT ![r] = v]
    BY <1>4 DEF Answered, OnResponse, OnBadResponse, OnMsgError, Handle
  <2> QED BY <1>1, <1>2, <2>1 DEF BaseOK, MemTypes, Quiet, SameMsgs, Held
<1>5. CASE ~(SendOk \/ SendFails \/ \E r \in Requests : Answered(r))
  <2>1. UNCHANGED msg
    BY <1>5 DEF EvfdStopLoop, ConnectionTeardown, SessionTeardown, LoopReturns, Callback,
               AioSignalCompletion, Drained, Disconnect, PeerGone, TeardownIn, Shutdown,
               ShuttingDown, ShutdownStop, ShutdownJoin, vars
  <2> QED BY <1>1, <1>2, <2>1 DEF Quiet, SameMsgs
<1> QED BY <1>3, <1>4, <1>5

\* A step that changes no call and submits nothing.
LEMMA CallingFrame ==
  ASSUME Calling, UNCHANGED <<call, todo, group>>
  PROVE  Apart' /\ Grouped' /\ TodoOfCall'
BY DEF Calling, Apart, Grouped, TodoOfCall

\* A step in which the threads only move on keeps what is known of the calls and
\* of their messages.
LEMMA AdvanceKeeps ==
  ASSUME BaseOK, Calling, Messages,
         UNCHANGED <<call, todo, cur, err, group, mem>>,
         \A u \in Threads : Advances(u),
         \A r \in Requests : msg'[r] = "none" <=> msg[r] = "none"
  PROVE  Calling' /\ Messages'
<1>1. ASSUME NEW u \in Threads
      PROVE  /\ pc'[u] \in Unsubmitted <=> pc[u] \in Unsubmitted
             /\ pc'[u] \in Submitting \ {"next"} => pc[u] \in Submitting \ {"next"}
             /\ pc'[u] \notin Submitting => pc[u] \notin Submitting
             /\ pc'[u] \notin Submitting \cup {"idle"} => pc[u] \notin Submitting \cup {"idle"}
  BY DEF Advances, Unsubmitted, Submitting
<1>2. Calling'
  <2>1. Apart' /\ Grouped' /\ TodoOfCall'
    BY CallingFrame
  <2>2. AllTaken'
    BY <1>1 DEF Calling, AllTaken
  <2>3. CurTaken'
    BY <1>1 DEF Calling, CurTaken
  <2>4. NoError'
    BY <1>1 DEF Calling, NoError
  <2> QED BY <2>1, <2>2, <2>3, <2>4 DEF Calling
<1>3. \A u \in Threads : Unsent(u)' = Unsent(u)
  BY <1>1 DEF Unsent
<1>4. Messages'
  <2>1. NoGroup' /\ TodoFresh' /\ MemFirst'
    BY DEF Messages, NoGroup, TodoFresh, MemFirst
  <2>2. \A u \in Threads : call[u] \subseteq Requests /\ cur[u] \subseteq Requests
    BY DEF BaseOK, CallTypes
  <2>3. CurFresh'
    BY <1>1, <2>2 DEF Messages, CurFresh
  <2>4. AllSent'
    BY <1>3, <2>2 DEF Messages, AllSent
  <2> QED BY <2>1, <2>3, <2>4 DEF Messages
<1> QED BY <1>2, <1>4
-----------------------------------------------------------------------------
(***************************************************************************)
(* The calls and the messages of their requests.                           *)
(***************************************************************************)
\* At first there are no calls.
LEMMA CallInit == Init => Calling /\ Messages
<1> SUFFICES ASSUME Init PROVE Calling /\ Messages
  OBVIOUS
<1>1. /\ \A t \in Threads : pc[t] = "idle" /\ call[t] = {} /\ todo[t] = {} /\ err[t] = FALSE
      /\ \A r \in Requests : mem[r] = "none" /\ msg[r] = "none" /\ group[r] = {}
  BY DEF Init
<1>2. Calling
  BY <1>1 DEF Calling, Apart, Grouped, TodoOfCall, AllTaken, CurTaken, NoError, Submitting, Unsubmitted
<1>3. Messages
  BY <1>1 DEF Messages, NoGroup, TodoFresh, CurFresh, MemFirst, AllSent, Unsubmitted
<1> QED BY <1>2, <1>3

\* A new call takes requests that no call has had.
LEMMA CallStart ==
  ASSUME BaseOK, Calling, Messages,
         NEW t \in Threads, NEW k \in Calls, NEW R \in SUBSET Requests, NEW tm \in Timed,
         StartCall(t, k, R, tm)
  PROVE  Calling' /\ Messages'
<1>1. /\ pc[t] = "idle" /\ pc'[t] = "next" /\ call'[t] = R /\ todo'[t] = R /\ err'[t] = FALSE
      /\ \A u \in Threads : u # t => /\ pc'[u] = pc[u] /\ call'[u] = call[u]
                                     /\ todo'[u] = todo[u] /\ err'[u] = err[u]
      /\ UNCHANGED <<cur, mem, msg>>
  BY DEF BaseOK, CallTypes, StartCall, Goto
<1>2. /\ \A r \in R : group[r] = {} /\ group'[r] = R
      /\ \A r \in Requests \ R : group'[r] = group[r]
  BY DEF BaseOK, MemTypes, StartCall, SetAll
<1>3. \A u \in Threads : \A r \in call[u] : r \notin R
  BY <1>2 DEF Calling, Grouped
<1>4. \A u \in Threads : call[u] \subseteq Requests
  BY DEF BaseOK, CallTypes
<1>5. Calling'
  <2>1. Apart'
    BY <1>1, <1>3 DEF Calling, Apart
  <2>2. Grouped'
    BY SMT, <1>1, <1>2, <1>3, <1>4 DEF Calling, Grouped
  <2>3. TodoOfCall'
    BY <1>1 DEF Calling, TodoOfCall
  <2>4. AllTaken'
    BY <1>1 DEF Calling, AllTaken, Submitting
  <2>5. CurTaken'
    BY <1>1 DEF Calling, CurTaken
  <2>6. NoError'
    BY <1>1 DEF Calling, NoError
  <2> QED BY <2>1, <2>2, <2>3, <2>4, <2>5, <2>6 DEF Calling
<1>6. Messages'
  <2>1. NoGroup'
    BY <1>1, <1>2 DEF Messages, NoGroup
  <2>2. TodoFresh'
    BY SMT, <1>1, <1>2 DEF Messages, TodoFresh, NoGroup
  <2>3. CurFresh'
    BY <1>1 DEF Messages, CurFresh, Unsubmitted
  <2>4. MemFirst'
    BY <1>1 DEF Messages, MemFirst
  <2>5. AllSent'
    <3>1. \A r \in call'[t] : r \in Unsent(t)'
      BY <1>1 DEF Unsent
    <3>2. \A u \in Threads : u # t => Unsent(u)' = Unsent(u)
      BY <1>1 DEF Unsent
    <3> QED BY <1>1, <3>1, <3>2 DEF Messages, AllSent
  <2> QED BY <2>1, <2>2, <2>3, <2>4, <2>5 DEF Messages
<1> QED BY <1>5, <1>6

\* create_new_request takes a request of the call that has no memory.
LEMMA CallSubmit ==
  ASSUME BaseOK, Calling, Messages, NEW t \in Threads, SubmitAioRequest(t)
  PROVE  Calling' /\ Messages'
<1>1. PICK q \in todo[t] :
        /\ cur' = [cur EXCEPT ![t] = {q}]
        /\ todo' = [todo EXCEPT ![t] = @ \ {q}]
        /\ mem' = [mem EXCEPT ![q] = "live"]
  BY DEF SubmitAioRequest
<1>2. /\ pc[t] = "next" /\ pc'[t] = "slot" /\ cur'[t] = {q} /\ todo'[t] = todo[t] \ {q}
      /\ \A u \in Threads : u # t => pc'[u] = pc[u] /\ cur'[u] = cur[u] /\ todo'[u] = todo[u]
      /\ UNCHANGED <<call, err, group, msg>>
  BY <1>1 DEF BaseOK, CallTypes, SubmitAioRequest, Goto
<1>3. /\ q \in call[t] /\ q \in Requests /\ mem[q] = "none" /\ mem'[q] = "live" /\ msg[q] = "none"
      /\ \A r \in Requests : r # q => mem'[r] = mem[r]
  BY SMT, <1>1 DEF BaseOK, CallTypes, MemTypes, Calling, TodoOfCall, Messages, TodoFresh, MemFirst
<1>4. \A u \in Threads : u # t => q \notin call[u]
  BY <1>3 DEF Calling, Apart
<1>5. Calling'
  <2>1. Apart'
    BY <1>2 DEF Calling, Apart
  <2>2. Grouped'
    BY <1>2 DEF Calling, Grouped
  <2>3. TodoOfCall'
    BY <1>2 DEF Calling, TodoOfCall
  <2>4. AllTaken'
    BY <1>2 DEF Calling, AllTaken, Submitting, Unsubmitted
  <2>5. CurTaken'
    BY SMT, <1>2, <1>3 DEF Calling, CurTaken
  <2>6. NoError'
    BY <1>2 DEF Calling, NoError, Submitting, Unsubmitted
  <2> QED BY <2>1, <2>2, <2>3, <2>4, <2>5, <2>6 DEF Calling
<1>6. \A u \in Threads : todo'[u] \subseteq call[u] /\ call[u] \subseteq Requests /\ q \notin todo'[u]
  BY <1>2, <1>4 DEF BaseOK, CallTypes, Calling, TodoOfCall
<1>7. NoGroup'
  BY SMT, <1>2, <1>3 DEF Messages, NoGroup, Calling, Grouped
<1>8. TodoFresh'
  BY SMT, <1>2, <1>3, <1>6 DEF Messages, TodoFresh
<1>9. CurFresh'
  <2>1. \A u \in Threads : cur[u] \subseteq Requests
    BY DEF BaseOK, CallTypes
  <2> QED BY SMT, <1>2, <1>3, <2>1 DEF Messages, CurFresh
<1>10. MemFirst'
  BY <1>2, <1>3 DEF Messages, MemFirst
<1>11. AllSent'
  BY SMT, <1>2 DEF Messages, AllSent, Unsent, Unsubmitted
<1> QED BY <1>5, <1>7, <1>8, <1>9, <1>10, <1>11 DEF Messages
\* The call has been submitted.
LEMMA CallSubmitted ==
  ASSUME BaseOK, Calling, Messages, NEW t \in Threads, Submitted(t)
  PROVE  Calling' /\ Messages'
<1>1. /\ pc[t] = "next" /\ todo[t] = {} /\ pc'[t] \in {"idle", "waitC", "suspend"}
      /\ err[t] => pc'[t] = "idle"
  BY DEF BaseOK, CallTypes, Submitted, Goto
<1>2. \A u \in Threads : u # t => pc'[u] = pc[u]
  BY DEF BaseOK, CallTypes, Submitted, Goto
<1>3. UNCHANGED rest
  BY DEF Submitted
<1>4. Calling'
  <2>1. Apart' /\ Grouped' /\ TodoOfCall'
    BY <1>3, CallingFrame
  <2>2. AllTaken'
    BY <1>1, <1>2, <1>3 DEF Calling, AllTaken, Submitting, Unsubmitted
  <2>3. CurTaken'
    BY <1>1, <1>2, <1>3 DEF Calling, CurTaken, Submitting, Unsubmitted
  <2>4. NoError'
    BY <1>1, <1>2, <1>3 DEF Calling, NoError, Submitting, Unsubmitted
  <2> QED BY <2>1, <2>2, <2>3, <2>4 DEF Calling
<1>5. \A u \in Threads : /\ pc'[u] \in Unsubmitted <=> pc[u] \in Unsubmitted
                         /\ Unsent(u)' = Unsent(u)
  BY <1>1, <1>2, <1>3 DEF Unsubmitted, Unsent
<1>6. Messages'
  <2>1. NoGroup' /\ TodoFresh' /\ MemFirst'
    BY <1>3 DEF Messages, NoGroup, TodoFresh, MemFirst
  <2>2. CurFresh'
    BY <1>3, <1>5 DEF Messages, CurFresh
  <2>3. AllSent'
    BY <1>3, <1>5 DEF Messages, AllSent
  <2> QED BY <2>1, <2>2, <2>3 DEF Messages
<1> QED BY <1>4, <1>6

\* No thread submits a request of another one's call.
LEMMA CurApart ==
  ASSUME BaseOK, Calling, NEW t \in Threads, NEW q \in call[t]
  PROVE  \A u \in Threads : u # t =>
           /\ q \notin todo[u]
           /\ pc[u] \in Unsubmitted => q \notin cur[u]
<1> SUFFICES ASSUME NEW u \in Threads, u # t
             PROVE  /\ q \notin todo[u]
                    /\ pc[u] \in Unsubmitted => q \notin cur[u]
  OBVIOUS
<1>1. q \notin call[u]
  BY DEF Calling, Apart
<1>2. todo[u] \subseteq call[u]
  BY DEF Calling, TodoOfCall
<1>3. ASSUME pc[u] \in Unsubmitted
      PROVE  cur[u] \subseteq call[u]
  <2>1. pc[u] \in Submitting \ {"next"}
    BY <1>3 DEF Submitting, Unsubmitted
  <2>2. PICK r \in call[u] : cur[u] = {r}
    BY <2>1 DEF Calling, CurTaken
  <2> QED BY <2>2
<1> QED BY <1>1, <1>2, <1>3

\* The request whose thread gives up is deleted without a message.
LEMMA CallBusy ==
  ASSUME BaseOK, Calling, Messages, NEW t \in Threads, Busy(t)
  PROVE  Calling' /\ Messages'
<1>1. /\ pc[t] = "busy" /\ pc'[t] = "next" /\ err'[t] = TRUE
      /\ \A u \in Threads : u # t => pc'[u] = pc[u] /\ err'[u] = err[u]
      /\ UNCHANGED <<call, todo, cur, group, msg>>
  BY DEF BaseOK, CallTypes, Busy, Goto
<1>2. PICK q \in call[t] : q \notin todo[t] /\ cur[t] = {q}
  BY <1>1 DEF Calling, CurTaken, Submitting, Unsubmitted
<1>3. q \in Requests /\ mem[q] = "live" /\ msg[q] = "none"
  BY SMT, <1>1, <1>2 DEF BaseOK, CallTypes, Messages, CurFresh, Unsubmitted
<1>4. mem'[q] = "freed" /\ \A r \in Requests : r # q => mem'[r] = mem[r]
  BY <1>2, <1>3 DEF BaseOK, MemTypes, Busy, SetAll
<1>5. \A u \in Threads : /\ todo[u] \subseteq Requests /\ q \notin todo[u]
                         /\ u # t /\ pc[u] \in Unsubmitted => cur[u] \subseteq Requests /\ q \notin cur[u]
  <2>1. \A u \in Threads : todo[u] \subseteq Requests /\ cur[u] \subseteq Requests
    BY DEF BaseOK, CallTypes
  <2> QED BY <1>2, <2>1, CurApart
<1>6. Calling'
  <2>1. Apart' /\ Grouped' /\ TodoOfCall'
    BY <1>1, CallingFrame
  <2>2. AllTaken'
    BY <1>1 DEF Calling, AllTaken, Submitting, Unsubmitted
  <2>3. CurTaken'
    BY <1>1 DEF Calling, CurTaken, Submitting, Unsubmitted
  <2>4. NoError'
    BY <1>1 DEF Calling, NoError, Submitting, Unsubmitted
  <2> QED BY <2>1, <2>2, <2>3, <2>4 DEF Calling
<1>7. NoGroup'
  BY SMT, <1>1, <1>2, <1>4 DEF Messages, NoGroup, Calling, Grouped
<1>8. TodoFresh'
  BY SMT, <1>1, <1>4, <1>5 DEF Messages, TodoFresh
<1>9. CurFresh'
  <2>1. pc'[t] \notin Unsubmitted
    BY <1>1 DEF Unsubmitted
  <2> QED BY SMT, <1>1, <1>4, <1>5, <2>1 DEF Messages, CurFresh
<1>10. MemFirst'
  BY <1>1, <1>4 DEF Messages, MemFirst
<1>11. AllSent'
  BY <1>1 DEF Messages, AllSent, Unsent
<1> QED BY <1>6, <1>7, <1>8, <1>9, <1>10, <1>11 DEF Messages

\* The push gives the request its message.
LEMMA CallPush ==
  ASSUME BaseOK, Calling, Messages, NEW t \in Threads, PushRequest(t)
  PROVE  Calling' /\ Messages'
<1>1. /\ pc[t] = "push" /\ pc'[t] = "wake"
      /\ \A u \in Threads : u # t => pc'[u] = pc[u]
      /\ UNCHANGED <<call, todo, cur, err, group, mem>>
  BY DEF BaseOK, CallTypes, PushRequest, Goto
<1>2. PICK q \in call[t] : q \notin todo[t] /\ cur[t] = {q}
  BY <1>1 DEF Calling, CurTaken, Submitting, Unsubmitted
<1>3. q \in Requests /\ mem[q] = "live" /\ msg[q] = "none"
  BY <1>1, <1>2 DEF BaseOK, CallTypes, Messages, CurFresh, Unsubmitted
<1>4. msg'[q] = "queued" /\ \A r \in Requests : r # q => msg'[r] = msg[r]
  BY <1>2, <1>3 DEF BaseOK, MemTypes, PushRequest, SetAll
<1>5. \A u \in Threads : u # t /\ pc[u] \in Unsubmitted => cur[u] \subseteq Requests /\ q \notin cur[u]
  <2>1. \A u \in Threads : cur[u] \subseteq Requests
    BY DEF BaseOK, CallTypes
  <2> QED BY <1>2, <2>1, CurApart
<1>6. Calling'
  <2>1. Apart' /\ Grouped' /\ TodoOfCall'
    BY <1>1, CallingFrame
  <2>2. AllTaken'
    BY <1>1 DEF Calling, AllTaken, Submitting, Unsubmitted
  <2>3. CurTaken'
    BY <1>1 DEF Calling, CurTaken, Submitting, Unsubmitted
  <2>4. NoError'
    BY <1>1 DEF Calling, NoError, Submitting, Unsubmitted
  <2> QED BY <2>1, <2>2, <2>3, <2>4 DEF Calling
<1>7. CurFresh'
  <2>1. pc'[t] \notin Unsubmitted
    BY <1>1 DEF Unsubmitted
  <2> QED BY SMT, <1>1, <1>4, <1>5, <2>1 DEF Messages, CurFresh
<1>8. MemFirst'
  BY <1>1, <1>3, <1>4 DEF Messages, MemFirst
<1>9. AllSent'
  <2> SUFFICES ASSUME NEW u \in Threads, ~err[u], NEW r \in call[u], r # q, r \in Unsent(u)
               PROVE  r \in Unsent(u)'
    <3>1. \A u \in Threads : call[u] \subseteq Requests
      BY DEF BaseOK, CallTypes
    <3> QED BY <1>1, <1>4, <3>1 DEF Messages, AllSent
  <2> QED BY <1>1, <1>2 DEF Unsent
<1>10. NoGroup' /\ TodoFresh'
  BY <1>1 DEF Messages, NoGroup, TodoFresh
<1> QED BY <1>6, <1>7, <1>8, <1>9, <1>10 DEF Messages

\* aio_finish frees requests that have had their message.
LEMMA CallFinish ==
  ASSUME BaseOK, Calling, Messages, NEW t \in Threads, AioFinish(t) \/ ReleaseCompletion(t)
  PROVE  /\ Calling' /\ Messages'
         /\ \A r \in call[t] : msg[r] # "none"
<1>1. /\ pc[t] \in {"return", "completed"} /\ pc'[t] = "idle"
      /\ \A u \in Threads : u # t => pc'[u] = pc[u]
      /\ UNCHANGED <<call, todo, cur, err, group, msg>>
  BY DEF BaseOK, CallTypes, AioFinish, ReleaseCompletion, Goto
<1>2. mem' = SetAll(mem, call[t], "freed")
  BY DEF AioFinish, ReleaseCompletion
<1>3. todo[t] = {} /\ ~err[t] /\ pc[t] \notin Unsubmitted
  BY <1>1 DEF Calling, AllTaken, NoError, Submitting, Unsubmitted
<1>4. \A r \in call[t] : msg[r] # "none"
  BY <1>3 DEF Messages, AllSent, Unsent
<1>5. /\ \A r \in call[t] : mem'[r] = "freed"
      /\ \A r \in Requests : r \notin call[t] => mem'[r] = mem[r]
  BY <1>2 DEF BaseOK, MemTypes, CallTypes, SetAll
<1>6. Calling'
  <2>1. Apart' /\ Grouped' /\ TodoOfCall'
    BY <1>1, CallingFrame
  <2>2. AllTaken'
    BY <1>1, <1>3 DEF Calling, AllTaken, Submitting, Unsubmitted
  <2>3. CurTaken'
    BY <1>1, <1>3 DEF Calling, CurTaken, Submitting, Unsubmitted
  <2>4. NoError'
    BY <1>1, <1>3 DEF Calling, NoError, Submitting, Unsubmitted
  <2> QED BY <2>1, <2>2, <2>3, <2>4 DEF Calling
<1>7. NoGroup'
  BY <1>1, <1>5 DEF Messages, NoGroup, Calling, Grouped
<1>8. TodoFresh'
  <2>1. \A u \in Threads : \A r \in todo[u] : r \in Requests /\ r \notin call[t]
    BY <1>3 DEF BaseOK, CallTypes, Calling, Apart, TodoOfCall
  <2> QED BY <1>1, <1>5, <2>1 DEF Messages, TodoFresh
<1>9. CurFresh'
  <2>1. \A u \in Threads : cur[u] \subseteq Requests
    BY DEF BaseOK, CallTypes
  <2>2. pc'[t] \notin Unsubmitted
    BY <1>1 DEF Unsubmitted
  <2> QED BY <1>1, <1>4, <1>5, <2>1, <2>2 DEF Messages, CurFresh
<1>10. MemFirst'
  BY <1>1, <1>5 DEF Messages, MemFirst
<1>11. AllSent'
  BY <1>1, <1>4 DEF Messages, AllSent, Unsent
<1> QED BY <1>4, <1>6, <1>7, <1>8, <1>9, <1>10, <1>11 DEF Messages

\* A thread that waits for a slot keeps its request.
LEMMA CallSlot ==
  ASSUME BaseOK, Calling, Messages, NEW t \in Threads,
         ReqQueueWaitUntil(t) \/ SlotWoken(t) \/ SlotTimeout(t)
  PROVE  Calling' /\ Messages'
<1>1. UNCHANGED <<call, todo, cur, err, group, mem, msg>>
  BY DEF ReqQueueWaitUntil, SlotWoken, SlotTimeout
<1>2. \A u \in Threads : Advances(u)
  <2>1. \A u \in Threads : \/ pc'[u] = pc[u]
                           \/ /\ pc[u] \in {"slot", "slotWait", "slotWoken"}
                              /\ pc'[u] \in {"slotWait", "push", "busy"}
    BY DEF BaseOK, CallTypes, Goto, ReqQueueWaitUntil, SlotWoken, SlotTimeout
  <2> QED BY <2>1 DEF Advances, Unsubmitted
<1> QED BY <1>1, <1>2, AdvanceKeeps

\* A slot that goes back wakes such a thread.
LEMMA CallRelease ==
  ASSUME BaseOK, Calling, Messages, Handled, ReqQueueRelease
  PROVE  Calling' /\ Messages'
<1>1. UNCHANGED <<call, todo, cur, err, group, mem>>
  BY DEF ReqQueueRelease
<1>2. \A u \in Threads : Advances(u)
  <2>1. \A u \in Threads : pc'[u] = pc[u] \/ (pc[u] = "slotWait" /\ pc'[u] = "slotWoken")
    BY DEF BaseOK, CallTypes, Goto, NotifyOne, ReqQueueRelease
  <2> QED BY <2>1 DEF Advances, Unsubmitted
<1>3. \A r \in Requests : msg'[r] = "none" <=> msg[r] = "none"
  BY DEF BaseOK, MemTypes, NetTypes, Handled, ReqQueueRelease, SetAll
<1> QED BY <1>1, <1>2, <1>3, AdvanceKeeps

-----------------------------------------------------------------------------
(***************************************************************************)
(* The queue and the message the network thread handles.                   *)
(***************************************************************************)
\* At first the queue is empty and the thread in its loop.
LEMMA NetInit == Init => Queue /\ Handled
<1> SUFFICES ASSUME Init PROVE Queue /\ Handled
  OBVIOUS
<1>1. inflight = <<>> /\ npc = "run"
  BY DEF Init
<1> QED BY SMT, <1>1 DEF Queue, Handled

\* What the push of a request leaves in the queue.
LEMMA PutElems ==
  ASSUME NEW q \in Seq(Requests), NEW r \in Requests
  PROVE  /\ Len(Append(q, r)) = Len(q) + 1
         /\ \A i \in 1..Len(q) : Append(q, r)[i] = q[i]
         /\ Append(q, r)[Len(q) + 1] = r
BY SMT

\* What taking the first request leaves of it.
LEMMA TakeElems ==
  ASSUME NEW q \in Seq(Requests), q # <<>>
  PROVE  /\ 1 \in 1..Len(q) /\ Head(q) = q[1]
         /\ \A i \in 1..Len(Tail(q)) : i + 1 \in 1..Len(q) /\ Tail(q)[i] = q[i + 1] /\ i + 1 # 1
BY SMT

\* The push adds a request that is not in the queue: it had no message.
LEMMA NetPush ==
  ASSUME BaseOK, Calling, Messages, Queue, Handled, NEW t \in Threads, PushRequest(t)
  PROVE  Queue' /\ Handled'
<1>1. pc[t] = "push" /\ UNCHANGED <<npc, netVars>>
  BY DEF PushRequest
<1>2. PICK r \in cur[t] : inflight' = Append(inflight, r)
  BY DEF PushRequest
<1>3. r \in Requests /\ msg[r] = "none" /\ cur[t] = {r}
  <2>1. pc[t] \in Unsubmitted /\ pc[t] \in Submitting \ {"next"}
    BY <1>1 DEF Unsubmitted, Submitting
  <2> QED BY <1>2, <2>1 DEF BaseOK, CallTypes, Messages, CurFresh, Calling, CurTaken
<1>4. msg'[r] = "queued" /\ \A q \in Requests : q # r => msg'[q] = msg[q]
  BY <1>3 DEF BaseOK, MemTypes, PushRequest, SetAll
<1>5. inflight \in Seq(Requests) /\ \A i \in 1..Len(inflight) : inflight[i] \in Requests /\ inflight[i] # r
  BY SMT, <1>3 DEF BaseOK, NetTypes, Queue
<1>6. /\ Len(inflight') = Len(inflight) + 1 /\ inflight'[Len(inflight) + 1] = r
      /\ \A i \in 1..Len(inflight) : inflight'[i] = inflight[i]
  BY SMT, <1>2, <1>3, <1>5, PutElems
<1>7. Len(inflight) \in Nat /\ \A i \in 1..Len(inflight') : i = Len(inflight) + 1 \/ i \in 1..Len(inflight)
  BY SMT, <1>5, <1>6
<1>8. Queue'
  <2>1. \A i \in 1..Len(inflight') : msg'[inflight'[i]] = "queued"
    BY SMT, <1>4, <1>5, <1>6, <1>7 DEF Queue
  <2>2. \A i, k \in 1..Len(inflight') : inflight'[i] = inflight'[k] => i = k
    BY SMT, <1>5, <1>6, <1>7 DEF Queue
  <2> QED BY <2>1, <2>2 DEF Queue
<1>9. Handled'
  <2>1. nreq \subseteq Requests
    BY DEF BaseOK, NetTypes
  <2> QED BY <1>1, <1>3, <1>4, <2>1 DEF Handled
<1> QED BY <1>8, <1>9

\* xio_run_loop_worker takes the first message of the queue.
LEMMA NetSend ==
  ASSUME BaseOK, Queue, Handled, SendOk \/ SendFails
  PROVE  Queue' /\ Handled'
<1>1. inflight \in Seq(Requests) /\ inflight # <<>> /\ inflight' = Tail(inflight) /\ npc = "drain"
  BY DEF BaseOK, NetTypes, SendOk, SendFails
<1>2. /\ 1 \in 1..Len(inflight) /\ Head(inflight) = inflight[1]
      /\ \A i \in 1..Len(inflight') : /\ i + 1 \in 1..Len(inflight) /\ i + 1 # 1
                                      /\ inflight'[i] = inflight[i + 1]
  BY <1>1, TakeElems
<1>3. \A i \in 1..Len(inflight) : inflight[i] \in Requests
  BY SMT, <1>1
<1>4. \E v \in {"wire", "handling"} : msg' = [msg EXCEPT ![Head(inflight)] = v]
  BY DEF SendOk, SendFails
<1>5. \A r \in Requests : r # Head(inflight) => msg'[r] = msg[r]
  BY <1>4 DEF BaseOK, MemTypes
<1>6. Queue'
  <2>1. \A i \in 1..Len(inflight') : msg'[inflight'[i]] = "queued"
    BY SMT, <1>2, <1>3, <1>5 DEF Queue
  <2>2. \A i, k \in 1..Len(inflight') : inflight'[i] = inflight'[k] => i = k
    <3> SUFFICES ASSUME NEW i \in 1..Len(inflight'), NEW k \in 1..Len(inflight'),
                        inflight'[i] = inflight'[k]
                 PROVE  i = k
      OBVIOUS
    <3>1. i + 1 = k + 1
      BY SMT, <1>2 DEF Queue
    <3> QED BY SMT, <3>1
  <2> QED BY <2>1, <2>2 DEF Queue
<1>7. Head(inflight) \in Requests
  BY <1>2, <1>3
<1>8. CASE SendOk
  BY <1>1, <1>6, <1>8 DEF SendOk, Handled
<1>9. CASE SendFails
  <2>1. nreq' = {Head(inflight)} /\ npc' = "release" /\ msg'[Head(inflight)] = "handling"
    BY <1>7, <1>9 DEF BaseOK, MemTypes, SendFails
  <2> QED BY <1>6, <1>7, <2>1 DEF Handled
<1> QED BY <1>8, <1>9

\* An answer takes a message off the wire.
LEMMA NetAnswered ==
  ASSUME BaseOK, Queue, Handled, NEW r \in Requests, Answered(r)
  PROVE  Queue' /\ Handled'
<1>1. /\ msg[r] = "wire" /\ InLoop /\ UNCHANGED inflight
      /\ \/ Handle(r, "data") \/ Handle(r, "error") \/ Handle(r, "EIO")
         \/ UNCHANGED <<npc, nreq>>
      /\ \E v \in {"lost", "handling"} : msg' = [msg EXCEPT ![r] = v]
  BY DEF Answered, OnResponse, OnBadResponse, OnMsgError, Handle
<1>2. \A q \in Requests : q # r => msg'[q] = msg[q]
  BY <1>1 DEF BaseOK, MemTypes
<1>3. Queue'
  <2>1. \A i \in 1..Len(inflight) : inflight[i] \in Requests
    BY SMT DEF BaseOK, NetTypes
  <2> QED BY <1>1, <1>2, <2>1 DEF Queue
<1>4. CASE UNCHANGED <<npc, nreq>>
  BY <1>1, <1>3, <1>4 DEF Handled, InLoop
<1>5. CASE \E res \in {"data", "error", "EIO"} : Handle(r, res)
  <2>1. nreq' = {r} /\ npc' = "complete" /\ nback' \in {"run", "bye"} /\ msg'[r] = "handling"
    BY <1>1, <1>5 DEF BaseOK, MemTypes, InLoop, Handle
  <2> QED BY <1>3, <2>1 DEF Handled
<1> QED BY <1>1, <1>4, <1>5

\* The slot goes back and the message is deleted.
LEMMA NetRelease ==
  ASSUME BaseOK, Queue, Handled, ReqQueueRelease
  PROVE  Queue' /\ Handled'
<1>1. npc = "release" /\ UNCHANGED <<inflight, nreq, nback>>
  BY DEF ReqQueueRelease
<1>2. PICK r \in Requests : nreq = {r}
  BY <1>1 DEF Handled
<1>3. msg[r] = "handling" /\ msg'[r] = "gone" /\ \A q \in Requests : q # r => msg'[q] = msg[q]
  BY <1>1, <1>2 DEF BaseOK, MemTypes, Handled, ReqQueueRelease, SetAll
<1>4. Queue'
  <2>1. \A i \in 1..Len(inflight) : inflight[i] \in Requests
    BY SMT DEF BaseOK, NetTypes
  <2> QED BY <1>1, <1>3, <2>1 DEF Queue
<1>5. CASE nback = "send"
  BY <1>1, <1>2, <1>3, <1>4, <1>5 DEF ReqQueueRelease, Handled
<1>6. CASE nback # "send"
  <2>1. npc' \in {"run", "bye"}
    BY <1>6 DEF BaseOK, NetTypes, ReqQueueRelease
  <2> QED BY <1>4, <2>1 DEF Handled
<1> QED BY <1>5, <1>6

\* The steps that change no message.
LEMMA NetOther ==
  ASSUME BaseOK, Queue, Handled, UNCHANGED <<nback, nreq, msg>>,
         \/ UNCHANGED <<inflight, npc>>
         \/ ShutdownJoin
         \/ LoopReturns \/ Callback \/ Drained \/ Disconnect
         \/ CompleteRequest \/ NotifyCompletion \/ AioSignalCompletion
  PROVE  Queue' /\ Handled'
<1>1. Queue'
  <2>1. inflight' = inflight \/ inflight' = <<>>
    BY DEF ShutdownJoin, LoopReturns, Callback, Drained, Disconnect, CompleteRequest,
                 NotifyCompletion, AioSignalCompletion
  <2>2. CASE inflight' = <<>>
    BY SMT, <2>2 DEF Queue
  <2>3. CASE inflight' = inflight
    BY <2>3 DEF Queue
  <2> QED BY <2>1, <2>2, <2>3
<1>2. \/ npc' = npc
      \/ npc' \in {"run", "bye", "drain", "disconnect", "exited"}
      \/ /\ npc \in {"complete", "callback", "signal", "notify"}
         /\ \/ npc' \in {"callback", "signal", "notify"}
            \/ npc' = "release" /\ nback # "send"
  BY DEF ShutdownJoin, LoopReturns, Callback, Drained, Disconnect, CompleteRequest,
         NotifyCompletion, AioSignalCompletion, AfterComplete, InLoop
<1>3. Handled'
  BY <1>2 DEF Handled
<1> QED BY <1>1, <1>3
\* The threads touch the queue and the messages only when they push a request.
LEMMA NetThread ==
  ASSUME BaseOK, Queue, Handled, NEW t \in Threads,
         \/ \E k \in Calls, R \in SUBSET Requests, tm \in Timed : StartCall(t, k, R, tm)
         \/ ThreadStep(t) \/ ThreadDisturbed(t),
         ~PushRequest(t)
  PROVE  Queue' /\ Handled'
<1>1. UNCHANGED <<inflight, npc, nback, nreq, msg>>
  BY DEF StartCall, ThreadStep, ThreadDisturbed, SubmitAioRequest, Submitted,
       ReqQueueWaitUntil, SlotWoken, Busy, XstopLoop, SuspendUntimed, SuspendTimed, AioFinish,
       AioWaitCompletion, WaitSignaled, ReleaseCompletion, SlotSpurious, SlotTimeout,
       SuspendSpurious, SuspendTimeout, WaitSpurious, WaitTimeout
<1> QED BY <1>1, NetOther

\* What the invariant says apart from the slots.
Core == BaseOK /\ Calling /\ Messages /\ Queue /\ Handled

\* The threads keep it.
LEMMA CoreThread ==
  ASSUME Core, BaseOK', NEW t \in Threads,
         \/ \E k \in Calls, R \in SUBSET Requests, tm \in Timed : StartCall(t, k, R, tm)
         \/ ThreadStep(t) \/ ThreadDisturbed(t)
  PROVE  Core'
<1> USE DEF Core
<1>1. Queue' /\ Handled'
  BY NetThread, NetPush
<1>2. ASSUME Quiet PROVE Calling' /\ Messages'
  BY <1>2, AdvanceKeeps DEF Quiet, SameMsgs
<1>3. CASE \E k \in Calls, R \in SUBSET Requests, tm \in Timed : StartCall(t, k, R, tm)
  BY <1>1, <1>3, CallStart
<1>4. CASE ThreadStep(t)
  BY <1>1, <1>2, <1>4, CallSubmit, CallSubmitted, CallBusy, CallPush, CallFinish, CallSlot, QuietThread
     DEF ThreadStep
<1>5. CASE ThreadDisturbed(t)
  BY <1>1, <1>2, <1>5, CallSlot, QuietThread DEF ThreadDisturbed
<1> QED BY <1>3, <1>4, <1>5

\* Every step that no thread takes is quiet, but for the release of a slot.
LEMMA OtherSteps ==
  ASSUME Core, ~ReqQueueRelease,
         \/ NetworkThread \/ PeerGone \/ (\E r \in Requests : Answered(r))
         \/ Shutdown \/ ShuttingDown \/ UNCHANGED vars
  PROVE  Quiet /\ Queue' /\ Handled'
<1> USE DEF Core
<1>1. Quiet
  BY QuietNetwork, QuietComplete DEF NetworkThread
<1>2. CASE SendOk \/ SendFails \/ \E r \in Requests : Answered(r)
  BY <1>1, <1>2, NetSend, NetAnswered
<1>3. CASE ~(SendOk \/ SendFails \/ \E r \in Requests : Answered(r))
  <2>1. UNCHANGED <<nback, nreq, msg>>
    BY <1>3 DEF NetworkThread, EvfdStopLoop, ConnectionTeardown, SessionTeardown, LoopReturns,
         CompleteRequest, Callback, AioSignalCompletion, NotifyCompletion, Drained, Disconnect,
         PeerGone, TeardownIn, Shutdown, ShuttingDown, ShutdownStop, ShutdownJoin, vars
  <2>2. \/ ShutdownJoin \/ LoopReturns \/ Callback \/ Drained \/ Disconnect
        \/ CompleteRequest \/ NotifyCompletion \/ AioSignalCompletion
        \/ UNCHANGED <<inflight, npc>>
    BY <1>3 DEF NetworkThread, EvfdStopLoop, ConnectionTeardown, SessionTeardown,
         PeerGone, TeardownIn, Shutdown, ShuttingDown, ShutdownStop, vars
  <2> QED BY <1>1, <2>1, <2>2, NetOther
<1> QED BY <1>2, <1>3

\* Every step keeps it.
LEMMA CoreStep == Core /\ [Next]_vars => Core'
<1> SUFFICES ASSUME Core, [Next]_vars PROVE Core'
  OBVIOUS
<1>1. BaseOK'
  BY BaseStep DEF Core
<1>2. CASE \E t \in Threads :
              \/ \E k \in Calls, R \in SUBSET Requests, tm \in Timed : StartCall(t, k, R, tm)
              \/ ThreadStep(t) \/ ThreadDisturbed(t)
  BY <1>1, <1>2, CoreThread
<1>3. CASE ReqQueueRelease
  BY <1>1, <1>3, CallRelease, NetRelease DEF Core
<1>4. ASSUME ~ReqQueueRelease,
             \/ NetworkThread \/ PeerGone \/ (\E r \in Requests : Answered(r))
             \/ Shutdown \/ ShuttingDown \/ UNCHANGED vars
      PROVE  Core'
  <2>1. Quiet /\ Queue' /\ Handled'
    BY <1>4, OtherSteps
  <2>2. Calling' /\ Messages'
    BY <2>1, AdvanceKeeps DEF Core, Quiet, SameMsgs
  <2> QED BY <1>1, <2>1, <2>2 DEF Core
<1> QED BY <1>2, <1>3, <1>4 DEF Next, Quiescent

=============================================================================
