------------------------ MODULE XioClientCallProofs ------------------------
(***************************************************************************)
(* Proofs about the network client, second part: what its invariant shows. *)
(*                                                                         *)
(* The slots of the request queue are accounted for (SlotsExact); a        *)
(* request completes once, because the count of its notifier is the number *)
(* of its requests without a result (Counts, Results); and a thread frees  *)
(* a request or a completion only when the network thread is done with it, *)
(* because it is told so only then (Kinds, Freed, Told).                   *)
(***************************************************************************)
EXTENDS XioClientProofs, FiniteSetTheorems

\* Steps go to Zenon unless they name SMT; the groups of variables.
USE Zenon
USE DEF callVars, netVars, memVars, cVars, endVars, rest

-----------------------------------------------------------------------------
(***************************************************************************)
(* The slots.                                                              *)
(***************************************************************************)
\* The sets that share the slots are finite.
LEMMA SlotSets ==
  ASSUME BaseOK
  PROVE  /\ IsFiniteSet(InFlight) /\ Cardinality(InFlight) \in Nat
         /\ IsFiniteSet(Waiting) /\ Cardinality(Waiting) \in Nat
         /\ IsFiniteSet(GivenUp) /\ Cardinality(GivenUp) \in Nat
<1>1. InFlight \subseteq Requests /\ GivenUp \subseteq Requests /\ Waiting \subseteq Threads
  BY SMT DEF BaseOK, CallTypes, InFlight, GivenUp, Waiting
<1> QED BY <1>1, FS_Subset, FS_CardinalityType, ClientAssumption

\* The account in a state where the sets and the counter are like before.
LEMMA SameAccount ==
  ASSUME SlotsExact, InFlightBounded, InFlight' = InFlight, Waiting' = Waiting,
         GivenUp' = GivenUp, nrReqQueue' = nrReqQueue
  PROVE  SlotsExact' /\ InFlightBounded'
BY DEF SlotsExact, InFlightBounded

\* Who has a slot, and who has lost one.
LEMMA SlotMembers ==
  ASSUME BaseOK, NEW r \in Requests
  PROVE  /\ r \in InFlight <=> \/ msg[r] \in Held
                               \/ \E u \in Threads : pc[u] = "push" /\ r \in cur[u]
         /\ r \in GivenUp <=> \/ mem[r] = "freed" /\ msg[r] = "none"
                              \/ \E u \in Threads : pc[u] = "busy" /\ r \in cur[u]
BY DEF InFlight, GivenUp, Held

\* The same after a step.
LEMMA SlotMembersNext ==
  ASSUME BaseOK', NEW r \in Requests
  PROVE  /\ r \in InFlight' <=> \/ msg'[r] \in Held
                                \/ \E u \in Threads : pc'[u] = "push" /\ r \in cur'[u]
         /\ r \in GivenUp' <=> \/ mem'[r] = "freed" /\ msg'[r] = "none"
                               \/ \E u \in Threads : pc'[u] = "busy" /\ r \in cur'[u]
BY DEF InFlight, GivenUp, Held

\* Both sets have requests only.
LEMMA SlotRequests ==
  ASSUME BaseOK, BaseOK'
  PROVE  /\ InFlight \subseteq Requests /\ InFlight' \subseteq Requests
         /\ GivenUp \subseteq Requests /\ GivenUp' \subseteq Requests
BY SMT DEF BaseOK, CallTypes, InFlight, GivenUp

\* A step in which no thread and no request gets or loses a slot.
LEMMA SlotsFrame ==
  ASSUME BaseOK, BaseOK', SlotsExact, InFlightBounded, nrReqQueue' = nrReqQueue,
         \A u \in Threads : /\ SameSlot(u)
                            /\ pc[u] \in {"push", "busy"} => cur'[u] = cur[u],
         \A r \in Requests : /\ msg'[r] \in Held <=> msg[r] \in Held
                             /\ (mem'[r] = "freed" /\ msg'[r] = "none")
                                  <=> (mem[r] = "freed" /\ msg[r] = "none")
  PROVE  SlotsExact' /\ InFlightBounded'
<1>1. Waiting' = Waiting
  BY DEF Waiting, SameSlot
<1>2. \A r \in Requests : r \in InFlight' <=> r \in InFlight
  BY SMT, SlotMembers, SlotMembersNext DEF SameSlot
<1>3. \A r \in Requests : r \in GivenUp' <=> r \in GivenUp
  BY SMT, SlotMembers, SlotMembersNext DEF SameSlot
<1>4. InFlight' = InFlight /\ GivenUp' = GivenUp
  BY <1>2, <1>3, SlotRequests
<1> QED BY <1>1, <1>4, SameAccount

\* The request the thread t submits is no other thread's and has no slot.
LEMMA OwnRequest ==
  ASSUME Core, NEW t \in Threads, pc[t] \in Unsubmitted
  PROVE  \E q \in Requests :
           /\ cur[t] = {q} /\ mem[q] = "live" /\ msg[q] = "none"
           /\ \A u \in Threads : u # t /\ pc[u] \in Unsubmitted => q \notin cur[u]
<1>1. pc[t] \in Submitting \ {"next"}
  BY DEF Submitting, Unsubmitted
<1>2. PICK q \in call[t] : cur[t] = {q}
  BY <1>1 DEF Core, Calling, CurTaken
<1>3. q \in Requests
  BY DEF Core, BaseOK, CallTypes
<1>4. mem[q] = "live" /\ msg[q] = "none"
  BY <1>2 DEF Core, Messages, CurFresh
<1> QED BY <1>2, <1>3, <1>4, CurApart DEF Core

\* A thread that did not have a slot gets one.
LEMMA GetSlot ==
  ASSUME Core, BaseOK', NEW t \in Threads, pc[t] \in {"slot", "slotWait", "slotWoken"},
         pc'[t] = "push", \A u \in Threads : u # t => pc'[u] = pc[u], UNCHANGED <<cur, msg, mem>>
  PROVE  GivenUp' = GivenUp /\ Cardinality(InFlight') = Cardinality(InFlight) + 1
<1>1. PICK q \in Requests :
        /\ cur[t] = {q} /\ mem[q] = "live" /\ msg[q] = "none"
        /\ \A u \in Threads : u # t /\ pc[u] \in Unsubmitted => q \notin cur[u]
  BY OwnRequest DEF Unsubmitted
<1>2. BaseOK
  BY DEF Core
<1>3. \A r \in Requests : r \in GivenUp' <=> r \in GivenUp
  BY SMT, <1>2, SlotMembers, SlotMembersNext
<1>4. q \notin InFlight
  BY <1>1, <1>2, SlotMembers DEF Held, Unsubmitted
<1>5. \A r \in Requests : r \in InFlight' <=> r \in InFlight \/ r = q
  BY SMT, <1>1, <1>2, SlotMembers, SlotMembersNext
<1>6. InFlight' = InFlight \cup {q} /\ GivenUp' = GivenUp
  BY <1>2, <1>3, <1>5, SlotRequests
<1> QED BY <1>2, <1>4, <1>6, SlotSets, FS_AddElement

\* A thread begins to wait for a slot, or ceases to.
LEMMA WaitSlot ==
  ASSUME BaseOK, NEW t \in Threads, \A u \in Threads : u # t => pc'[u] = pc[u]
  PROVE  /\ pc[t] \notin {"slotWait", "slotWoken"} /\ pc'[t] \in {"slotWait", "slotWoken"} =>
              Cardinality(Waiting') = Cardinality(Waiting) + 1
         /\ pc[t] \in {"slotWait", "slotWoken"} /\ pc'[t] \notin {"slotWait", "slotWoken"} =>
              Cardinality(Waiting') = Cardinality(Waiting) - 1
         /\ (pc[t] \in {"slotWait", "slotWoken"} <=> pc'[t] \in {"slotWait", "slotWoken"}) =>
              Waiting' = Waiting
<1>1. ASSUME pc[t] \notin {"slotWait", "slotWoken"}, pc'[t] \in {"slotWait", "slotWoken"}
      PROVE  Cardinality(Waiting') = Cardinality(Waiting) + 1
  <2>1. Waiting' = Waiting \cup {t} /\ t \notin Waiting
    BY <1>1 DEF Waiting
  <2> QED BY <2>1, SlotSets, FS_AddElement
<1>2. ASSUME pc[t] \in {"slotWait", "slotWoken"}, pc'[t] \notin {"slotWait", "slotWoken"}
      PROVE  Cardinality(Waiting') = Cardinality(Waiting) - 1
  <2>1. Waiting' = Waiting \ {t} /\ t \in Waiting
    BY <1>2 DEF Waiting
  <2> QED BY <2>1, SlotSets, FS_RemoveElement
<1>3. ASSUME pc[t] \in {"slotWait", "slotWoken"} <=> pc'[t] \in {"slotWait", "slotWoken"}
      PROVE  Waiting' = Waiting
  BY <1>3 DEF Waiting
<1> QED BY <1>1, <1>2, <1>3

\* A thread that waits for a slot gives up: the slot it has counted is lost.
LEMMA LoseSlot ==
  ASSUME Core, BaseOK', NEW t \in Threads, pc[t] \in {"slotWait", "slotWoken"},
         pc'[t] = "busy", \A u \in Threads : u # t => pc'[u] = pc[u], UNCHANGED <<cur, msg, mem>>
  PROVE  InFlight' = InFlight /\ Cardinality(GivenUp') = Cardinality(GivenUp) + 1
<1>1. PICK q \in Requests :
        /\ cur[t] = {q} /\ mem[q] = "live" /\ msg[q] = "none"
        /\ \A u \in Threads : u # t /\ pc[u] \in Unsubmitted => q \notin cur[u]
  BY OwnRequest DEF Unsubmitted
<1>2. BaseOK
  BY DEF Core
<1>3. \A r \in Requests : r \in InFlight' <=> r \in InFlight
  BY SMT, <1>2, SlotMembers, SlotMembersNext
<1>4. q \notin GivenUp
  BY <1>1, <1>2, SlotMembers DEF Unsubmitted
<1>5. \A r \in Requests : r \in GivenUp' <=> r \in GivenUp \/ r = q
  BY SMT, <1>1, <1>2, SlotMembers, SlotMembersNext
<1>6. GivenUp' = GivenUp \cup {q} /\ InFlight' = InFlight
  BY <1>2, <1>3, <1>5, SlotRequests
<1> QED BY <1>2, <1>4, <1>6, SlotSets, FS_AddElement

\* req_queue_wait_until: the counter goes down for a slot or for a wait; a thread
\* that is woken, or whose time is over, turns its wait into a slot or loses it.
LEMMA SlotsWait ==
  ASSUME Core, BaseOK', SlotsExact, InFlightBounded, NEW t \in Threads,
         ReqQueueWaitUntil(t) \/ SlotWoken(t) \/ SlotTimeout(t)
  PROVE  SlotsExact' /\ InFlightBounded'
<1>1. BaseOK /\ UNCHANGED <<cur, msg, mem>>
  BY DEF Core, ReqQueueWaitUntil, SlotWoken, SlotTimeout
<1>2. \A u \in Threads : u # t => pc'[u] = pc[u]
  BY <1>1 DEF BaseOK, CallTypes, Goto, ReqQueueWaitUntil, SlotWoken, SlotTimeout
<1>3. /\ \/ pc[t] = "slot" /\ nrReqQueue' = nrReqQueue - 1 /\ pc'[t] \in {"push", "slotWait"}
         \/ /\ pc[t] \in {"slotWait", "slotWoken"} /\ nrReqQueue' = nrReqQueue
            /\ pc'[t] \in {"push", "slotWait", "busy"}
      /\ pc'[t] = "push" => nrReqQueue' >= 0
  BY <1>1 DEF BaseOK, CallTypes, NetTypes, Goto, SlotFree, ReqQueueWaitUntil, SlotWoken, SlotTimeout
<1>4. /\ nrReqQueue \in Int /\ nrReqQueue' \in Int /\ QD \in Nat
      /\ Cardinality(InFlight) \in Nat /\ Cardinality(Waiting) \in Nat /\ Cardinality(GivenUp) \in Nat
  BY <1>1, SlotSets, ClientAssumption DEF BaseOK, NetTypes
<1>5. CASE pc'[t] = "push"
  <2>1. GivenUp' = GivenUp /\ Cardinality(InFlight') = Cardinality(InFlight) + 1
    BY <1>1, <1>2, <1>3, <1>5, GetSlot
  <2>2. CASE pc[t] = "slot"
    <3>1. Waiting' = Waiting
      BY SMT, <1>1, <1>2, <1>5, <2>2, WaitSlot
    <3> QED BY SMT, <1>3, <1>4, <1>5, <2>1, <2>2, <3>1 DEF SlotsExact, InFlightBounded
  <2>3. CASE pc[t] \in {"slotWait", "slotWoken"}
    <3>1. Cardinality(Waiting') = Cardinality(Waiting) - 1
      BY SMT, <1>1, <1>2, <1>5, <2>3, WaitSlot
    <3>2. Cardinality(Waiting) >= 1
      <4>1. t \in Waiting
        BY <2>3 DEF Waiting
      <4> QED BY SMT, <1>1, <1>4, <4>1, SlotSets, FS_EmptySet
    <3> QED BY SMT, <1>3, <1>4, <1>5, <2>1, <2>3, <3>1, <3>2 DEF SlotsExact, InFlightBounded
  <2> QED BY <1>3, <2>2, <2>3
<1>6. CASE pc'[t] = "slotWait"
  <2>1. InFlight' = InFlight /\ GivenUp' = GivenUp
    <3>1. \A r \in Requests : (r \in InFlight' <=> r \in InFlight) /\ (r \in GivenUp' <=> r \in GivenUp)
      BY SMT, <1>1, <1>2, <1>3, <1>6, SlotMembers, SlotMembersNext
    <3> QED BY <1>1, <3>1, SlotRequests
  <2>2. CASE pc[t] = "slot"
    <3>1. Cardinality(Waiting') = Cardinality(Waiting) + 1
      BY SMT, <1>1, <1>2, <1>6, <2>2, WaitSlot
    <3> QED BY SMT, <1>3, <1>4, <1>6, <2>1, <2>2, <3>1 DEF SlotsExact, InFlightBounded
  <2>3. CASE pc[t] \in {"slotWait", "slotWoken"}
    <3>1. Waiting' = Waiting
      BY SMT, <1>1, <1>2, <1>6, <2>3, WaitSlot
    <3> QED BY SMT, <1>3, <1>4, <1>6, <2>1, <2>3, <3>1 DEF SlotsExact, InFlightBounded
  <2> QED BY <1>3, <2>2, <2>3
<1>7. CASE pc'[t] = "busy"
  <2>1. pc[t] \in {"slotWait", "slotWoken"} /\ nrReqQueue' = nrReqQueue
    BY <1>3, <1>7
  <2>2. InFlight' = InFlight /\ Cardinality(GivenUp') = Cardinality(GivenUp) + 1
    BY SMT, <1>1, <1>2, <1>7, <2>1, LoseSlot
  <2>3. Cardinality(Waiting') = Cardinality(Waiting) - 1
    BY SMT, <1>1, <1>2, <1>7, <2>1, WaitSlot
  <2> QED BY SMT, <1>4, <2>1, <2>2, <2>3 DEF SlotsExact, InFlightBounded
<1> QED BY <1>3, <1>5, <1>6, <1>7

\* The thread that gave up deletes its request; one that has a slot pushes it.
LEMMA SlotsMove ==
  ASSUME Core, BaseOK', SlotsExact, InFlightBounded, NEW t \in Threads, Busy(t) \/ PushRequest(t)
  PROVE  SlotsExact' /\ InFlightBounded'
<1>1. /\ BaseOK /\ UNCHANGED <<cur, nrReqQueue>>
      /\ \/ pc[t] = "busy" /\ pc'[t] = "next" /\ UNCHANGED msg /\ mem' = SetAll(mem, cur[t], "freed")
         \/ pc[t] = "push" /\ pc'[t] = "wake" /\ UNCHANGED mem /\ msg' = SetAll(msg, cur[t], "queued")
  BY DEF Core, BaseOK, CallTypes, Goto, Busy, PushRequest
<1>2. \A u \in Threads : u # t => pc'[u] = pc[u]
  BY DEF Core, BaseOK, CallTypes, Goto, Busy, PushRequest
<1>3. PICK q \in Requests :
        /\ cur[t] = {q} /\ mem[q] = "live" /\ msg[q] = "none"
        /\ \A u \in Threads : u # t /\ pc[u] \in Unsubmitted => q \notin cur[u]
  BY <1>1, OwnRequest DEF Unsubmitted
<1>4. Waiting' = Waiting
  BY <1>1, <1>2, WaitSlot
<1>5. BaseOK /\ cur' = cur /\ nrReqQueue' = nrReqQueue
  BY <1>1
<1>6. CASE pc[t] = "busy"
  <2>1. msg' = msg /\ mem'[q] = "freed" /\ \A r \in Requests : r # q => mem'[r] = mem[r]
    BY <1>1, <1>3, <1>6 DEF SetAll
  <2>2. /\ \A u \in Threads : pc'[u] = "push" <=> pc[u] = "push"
        /\ \A u \in Threads : pc'[u] = "busy" <=> pc[u] = "busy" /\ u # t
    BY <1>1, <1>2, <1>6
  <2>3. \A r \in Requests : r \in InFlight' <=> r \in InFlight
    BY SMT, <1>5, <2>1, <2>2, SlotMembers, SlotMembersNext
  <2>4. \A r \in Requests : r \in GivenUp' <=> r \in GivenUp
    <3>1. q \in GivenUp /\ q \in GivenUp'
      BY <1>3, <1>5, <1>6, <2>1, SlotMembers, SlotMembersNext
    <3>2. ASSUME NEW r \in Requests, r # q
          PROVE  r \in GivenUp' <=> r \in GivenUp
      <4>1. r \notin cur[t]
        BY <1>3, <3>2
      <4> QED BY SMT, <1>5, <2>1, <2>2, <3>2, <4>1, SlotMembers, SlotMembersNext
    <3> QED BY <3>1, <3>2
  <2> QED BY SMT, <1>4, <1>5, <2>3, <2>4, SlotRequests, SameAccount
<1>7. CASE pc[t] = "push"
  <2>1. mem' = mem /\ msg'[q] = "queued" /\ \A r \in Requests : r # q => msg'[r] = msg[r]
    BY <1>1, <1>3, <1>7 DEF SetAll
  <2>2. /\ \A u \in Threads : pc'[u] = "busy" <=> pc[u] = "busy"
        /\ \A u \in Threads : pc'[u] = "push" <=> pc[u] = "push" /\ u # t
    BY SMT, <1>1, <1>2, <1>7
  <2>3. \A r \in Requests : r \in InFlight' <=> r \in InFlight
    <3>1. q \in InFlight /\ q \in InFlight'
      BY SMT, <1>3, <1>5, <1>7, <2>1, SlotMembers, SlotMembersNext DEF Held
    <3>2. ASSUME NEW r \in Requests, r # q
          PROVE  r \in InFlight' <=> r \in InFlight
      <4>1. r \notin cur[t]
        BY <1>3, <3>2
      <4> QED BY SMT, <1>5, <2>1, <2>2, <3>2, <4>1, SlotMembers, SlotMembersNext
    <3> QED BY <3>1, <3>2
  <2>4. \A r \in Requests : r \in GivenUp' <=> r \in GivenUp
    <3>1. mem[q] # "freed" /\ mem'[q] # "freed"
      BY <1>3, <2>1
    <3> QED BY SMT, <1>5, <2>1, <2>2, <3>1, SlotMembers, SlotMembersNext
  <2> QED BY <1>4, <1>5, <2>3, <2>4, SlotRequests, SameAccount
<1> QED BY <1>1, <1>6, <1>7

\* req_queue_release gives back the slot of the message that is handled.
LEMMA SlotsRelease ==
  ASSUME Core, BaseOK', SlotsExact, InFlightBounded, ReqQueueRelease
  PROVE  SlotsExact' /\ InFlightBounded'
<1>1. BaseOK /\ npc = "release" /\ UNCHANGED <<cur, mem>> /\ nrReqQueue' = nrReqQueue + 1
  BY DEF Core, ReqQueueRelease
<1>2. PICK q \in Requests : nreq = {q}
  BY <1>1 DEF Core, Handled
<1>3. msg[q] = "handling" /\ msg'[q] = "gone" /\ \A r \in Requests : r # q => msg'[r] = msg[r]
  BY <1>1, <1>2 DEF Core, BaseOK, MemTypes, Handled, ReqQueueRelease, SetAll
<1>4. \A u \in Threads : pc'[u] = pc[u] \/ (pc[u] = "slotWait" /\ pc'[u] = "slotWoken")
  BY <1>1 DEF BaseOK, CallTypes, Goto, NotifyOne, ReqQueueRelease
<1>5. Waiting' = Waiting
  BY <1>4 DEF Waiting
<1>6. \A u \in Threads : pc[u] = "push" => q \notin cur[u]
  BY <1>3 DEF Core, Messages, CurFresh, Unsubmitted
<1>7. \A r \in Requests : r \in GivenUp' <=> r \in GivenUp
  BY SMT, <1>1, <1>3, <1>4, SlotMembers, SlotMembersNext
<1>8. \A r \in Requests : r \in InFlight' <=> r \in InFlight /\ r # q
  BY SMT, <1>1, <1>3, <1>4, <1>6, SlotMembers, SlotMembersNext DEF Held
<1>9. q \in InFlight
  BY <1>1, <1>3, SlotMembers DEF Held
<1>10. InFlight' = InFlight \ {q} /\ GivenUp' = GivenUp
  BY <1>1, <1>7, <1>8, SlotRequests
<1>11. Cardinality(InFlight') = Cardinality(InFlight) - 1
  BY <1>1, <1>9, <1>10, SlotSets, FS_RemoveElement
<1>12. /\ nrReqQueue \in Int /\ QD \in Nat
       /\ Cardinality(InFlight) \in Nat /\ Cardinality(Waiting) \in Nat /\ Cardinality(GivenUp) \in Nat
  BY <1>1, SlotSets, ClientAssumption DEF BaseOK, NetTypes
<1> QED BY SMT, <1>1, <1>5, <1>10, <1>11, <1>12 DEF SlotsExact, InFlightBounded

\* A new call, a new request and the end of a call: no slot is involved.
LEMMA SlotsCall ==
  ASSUME Core, BaseOK', SlotsExact, InFlightBounded, NEW t \in Threads,
         \/ \E k \in Calls, R \in SUBSET Requests, tm \in Timed : StartCall(t, k, R, tm)
         \/ SubmitAioRequest(t) \/ Submitted(t) \/ AioFinish(t) \/ ReleaseCompletion(t)
  PROVE  SlotsExact' /\ InFlightBounded'
<1>1. BaseOK /\ nrReqQueue' = nrReqQueue /\ msg' = msg
  BY DEF Core, StartCall, SubmitAioRequest, Submitted, AioFinish, ReleaseCompletion
<1>2. /\ pc[t] \in {"idle", "next", "return", "completed"}
      /\ pc'[t] \in {"idle", "next", "slot", "waitC", "suspend"}
      /\ \A u \in Threads : u # t => pc'[u] = pc[u] /\ cur'[u] = cur[u]
  BY SMT, <1>1 DEF BaseOK, CallTypes, Goto, StartCall, SubmitAioRequest, Submitted, AioFinish, ReleaseCompletion
<1>3. \A u \in Threads : /\ SameSlot(u)
                         /\ pc[u] \in {"push", "busy"} => cur'[u] = cur[u]
  BY <1>2 DEF SameSlot
<1>4. \A r \in Requests : (mem'[r] = "freed" /\ msg'[r] = "none") <=> (mem[r] = "freed" /\ msg[r] = "none")
  <2>1. CASE AioFinish(t) \/ ReleaseCompletion(t)
    <3>1. \A r \in call[t] : msg[r] # "none"
      BY <2>1, CallFinish DEF Core
    <3>2. \A r \in Requests : r \notin call[t] => mem'[r] = mem[r]
      BY SMT, <1>1, <2>1 DEF BaseOK, MemTypes, AioFinish, ReleaseCompletion, SetAll
    <3> QED BY <1>1, <3>1, <3>2
  <2>2. CASE SubmitAioRequest(t)
    <3>1. PICK q \in todo[t] : mem' = [mem EXCEPT ![q] = "live"]
      BY <2>2 DEF SubmitAioRequest
    <3>2. q \in Requests /\ mem[q] = "none"
      BY <3>1 DEF Core, BaseOK, CallTypes, Messages, TodoFresh
    <3> QED BY SMT, <1>1, <3>1, <3>2 DEF BaseOK, MemTypes
  <2>3. CASE UNCHANGED mem
    BY <1>1, <2>3
  <2> QED BY <2>1, <2>2, <2>3 DEF StartCall, Submitted
<1> QED BY <1>1, <1>3, <1>4, SlotsFrame

\* Nor is one in a quiet step.
LEMMA SlotsQuiet ==
  ASSUME BaseOK, BaseOK', SlotsExact, InFlightBounded, Quiet
  PROVE  SlotsExact' /\ InFlightBounded'
<1>1. UNCHANGED <<cur, mem, nrReqQueue>> /\ \A u \in Threads : SameSlot(u)
  BY DEF Quiet
<1> QED BY <1>1, SlotsFrame DEF Quiet, SameMsgs

\* All the slots are free at first.
LEMMA SlotsInit == Init => SlotsExact /\ InFlightBounded
<1> SUFFICES ASSUME Init PROVE SlotsExact /\ InFlightBounded
  OBVIOUS
<1>1. InFlight = {} /\ Waiting = {} /\ GivenUp = {}
  BY DEF Init, InFlight, Waiting, GivenUp
<1> QED BY SMT, <1>1, FS_EmptySet, ClientAssumption DEF Init, SlotsExact, InFlightBounded

\* Every step keeps the account.
LEMMA SlotsStep == Core /\ SlotsExact /\ InFlightBounded /\ [Next]_vars => SlotsExact' /\ InFlightBounded'
<1> SUFFICES ASSUME Core, SlotsExact, InFlightBounded, [Next]_vars
             PROVE  SlotsExact' /\ InFlightBounded'
  OBVIOUS
<1>1. BaseOK /\ BaseOK'
  BY BaseStep DEF Core
<1>2. ASSUME NEW t \in Threads, ThreadStep(t) \/ ThreadDisturbed(t)
      PROVE  SlotsExact' /\ InFlightBounded'
  <2>1. CASE ThreadStep(t)
    BY <1>1, <2>1, SlotsCall, SlotsWait, SlotsMove, SlotsQuiet, QuietThread DEF ThreadStep
  <2>2. CASE ThreadDisturbed(t)
    BY <1>1, <2>2, SlotsWait, SlotsQuiet, QuietThread DEF ThreadDisturbed
  <2> QED BY <1>2, <2>1, <2>2
<1>3. CASE ReqQueueRelease
  BY <1>1, <1>3, SlotsRelease
<1>4. ASSUME ~ReqQueueRelease,
             \/ NetworkThread \/ PeerGone \/ (\E r \in Requests : Answered(r))
             \/ Shutdown \/ ShuttingDown \/ UNCHANGED vars
      PROVE  SlotsExact' /\ InFlightBounded'
  BY <1>1, <1>4, OtherSteps, SlotsQuiet
<1> QED BY <1>1, <1>2, <1>3, <1>4, SlotsCall DEF Next, Quiescent

\* The slots of the request queue are accounted for, for any number of threads,
\* requests and slots, any calls and any faults: nr_req_queue is the depth less
\* the requests in flight, the threads that wait and the threads that gave up.
THEOREM SlotsExactAlways == Spec => []SlotsExact
<1>1. Init => Core /\ SlotsExact /\ InFlightBounded
  BY BaseInit, CallInit, NetInit, SlotsInit DEF Core
<1>2. Core /\ SlotsExact /\ InFlightBounded /\ [Next]_vars => (Core /\ SlotsExact /\ InFlightBounded)'
  BY CoreStep, SlotsStep
<1> QED BY <1>1, <1>2, PTL DEF Spec

\* For the same clients, req_queue_wait_until lets no more than QD requests
\* through at a time.
THEOREM InFlightBoundedAlways == Spec => []InFlightBounded
<1>1. Init => Core /\ SlotsExact /\ InFlightBounded
  BY BaseInit, CallInit, NetInit, SlotsInit DEF Core
<1>2. Core /\ SlotsExact /\ InFlightBounded /\ [Next]_vars => (Core /\ SlotsExact /\ InFlightBounded)'
  BY CoreStep, SlotsStep
<1> QED BY <1>1, <1>2, PTL DEF Spec

-----------------------------------------------------------------------------
(***************************************************************************)
(* Completing a request.                                                   *)
(***************************************************************************)
\* The requests that the notifier of r still waits for.
Open(r) == {q \in group[r] : result[q] = "none"}

\* _count of a notifier is the number of its requests that are not complete.
Counts ==
  /\ count \in [Requests -> Nat]
  /\ \A r \in Requests : count[r] = Cardinality(Open(r))
  /\ \A r \in Requests : \A q \in group[r] : group[q] = group[r]
  /\ \A r \in Requests : group[r] # {} => r \in group[r]

\* The network thread has a message whose request it is going to complete.
ToComplete == npc = "complete" \/ (npc = "release" /\ nback = "send")

\* The network thread signals a completion.
Signaling == npc \in {"callback", "signal", "notify"}

\* A request has no result before its message is handled, has none until it is
\* completed, and has one when its completion is signaled.
Results ==
  /\ \A r \in Requests : msg[r] \in {"none", "queued", "wire", "lost"} => result[r] = "none"
  /\ \A r \in nreq : ToComplete => result[r] = "none" /\ nres # "none"
  /\ \A r \in nreq : Signaling => result[r] # "none" /\ cmem[r] # "none"

\* At first nothing is complete.
LEMMA CountsInit == Init => Counts /\ Results
<1> SUFFICES ASSUME Init PROVE Counts /\ Results
  OBVIOUS
<1>1. \A r \in Requests : Open(r) = {} /\ count[r] = 0 /\ group[r] = {}
  BY DEF Init, Open
<1>2. count \in [Requests -> Nat]
  BY DEF Init
<1>3. Counts
  BY <1>1, <1>2, FS_EmptySet DEF Counts
<1>4. Results
  BY DEF Init, Results, ToComplete, Signaling
<1> QED BY <1>3, <1>4

\* A request that is handled, or has been, belongs to a call.
LEMMA HasGroup ==
  ASSUME Core, Counts, NEW r \in Requests, msg[r] # "none"
  PROVE  r \in group[r] /\ mem[r] # "none"
BY DEF Core, Messages, NoGroup, MemFirst, Counts

\* A request without a call is untouched.
LEMMA Untouched ==
  ASSUME Core, Results, NEW r \in Requests, group[r] = {}
  PROVE  mem[r] = "none" /\ msg[r] = "none" /\ result[r] = "none"
BY DEF Core, Messages, NoGroup, MemFirst, Results

\* The notifier of a new call has all the requests of the call to wait for.
LEMMA CountsStart ==
  ASSUME Core, Counts, Results,
         NEW t \in Threads, NEW k \in Calls, NEW R \in SUBSET Requests, NEW tm \in Timed,
         StartCall(t, k, R, tm)
  PROVE  Counts'
<1>1. IsFiniteSet(R) /\ Cardinality(R) \in Nat
  BY FS_Subset, FS_CardinalityType, ClientAssumption
<1>2. /\ \A r \in R : group[r] = {} /\ group'[r] = R /\ count'[r] = Cardinality(R)
      /\ \A r \in Requests : r \notin R => group'[r] = group[r] /\ count'[r] = count[r]
      /\ result' = result
  BY DEF StartCall, SetAll, NotifierCount
<1>3. count' \in [Requests -> Nat]
  BY <1>1 DEF StartCall, SetAll, NotifierCount, Counts
<1>4. \A r \in R : result[r] = "none"
  BY <1>2, Untouched
<1>5. \A r \in R : Open(r)' = R
  BY <1>2, <1>4 DEF Open
<1>6. \A r \in Requests : r \notin R => Open(r)' = Open(r)
  BY <1>2 DEF Open
<1>7. \A r \in Requests : r \notin R => \A q \in group[r] : q \in Requests /\ q \notin R
  BY <1>2 DEF Core, BaseOK, MemTypes, Counts
<1>8. (\A r \in Requests : \A q \in group[r] : group[q] = group[r])'
  BY SMT, <1>2, <1>7 DEF Counts
<1>9. (\A r \in Requests : group[r] # {} => r \in group[r])'
  BY <1>2 DEF Counts
<1>10. (\A r \in Requests : count[r] = Cardinality(Open(r)))'
  BY SMT, <1>2, <1>5, <1>6 DEF Counts
<1> QED BY <1>3, <1>8, <1>9, <1>10 DEF Counts

\* notifier::signal counts the request that is complete off.
LEMMA CountsComplete ==
  ASSUME Core, Counts, Results, CompleteRequest
  PROVE  Counts'
<1>1. PICK r \in nreq : result' = [result EXCEPT ![r] = nres] /\ NotifierSignal(r)
  BY DEF CompleteRequest
<1>2. npc = "complete" /\ group' = group /\ r \in Requests
  BY DEF CompleteRequest, Core, BaseOK, NetTypes
<1>3. msg[r] # "none" /\ result[r] = "none" /\ nres # "none"
  BY <1>1, <1>2 DEF Core, Handled, Results, ToComplete
<1>4. result'[r] # "none" /\ \A q \in Requests : q # r => result'[q] = result[q]
  BY SMT, <1>1, <1>2, <1>3 DEF Core, BaseOK, MemTypes
<1>5. r \in group[r] /\ \A q \in Requests : group[q] \subseteq Requests
  BY <1>2, <1>3, HasGroup DEF Core, BaseOK, MemTypes
<1>6. \A q \in Requests : IsFiniteSet(Open(q)) /\ Open(q) \subseteq Requests
  <2>1. \A q \in Requests : Open(q) \subseteq Requests
    BY <1>5 DEF Open
  <2> QED BY <2>1, FS_Subset, ClientAssumption
<1>7. ASSUME NEW q \in Requests
      PROVE  count'[q] = Cardinality(Open(q)') /\ count'[q] \in Nat
  <2>1. CASE q \in group[r]
    <3>1. r \in Open(q) /\ Open(q)' = Open(q) \ {r}
      BY <1>2, <1>3, <1>4, <1>5, <2>1 DEF Counts, Open
    <3>2. /\ IsFiniteSet(Open(q)') /\ Cardinality(Open(q)') = Cardinality(Open(q)) - 1
      BY <1>6, <3>1, FS_RemoveElement
    <3>3. Cardinality(Open(q)') \in Nat
      BY <3>2, FS_CardinalityType
    <3>4. count'[q] = count[q] - 1
      BY <1>1, <2>1 DEF NotifierSignal
    <3> QED BY <3>2, <3>3, <3>4 DEF Counts
  <2>2. CASE q \notin group[r]
    <3>1. r \notin group[q]
      BY <1>2, <2>2 DEF Counts
    <3>2. Open(q)' = Open(q)
      BY SMT, <1>2, <1>4, <1>5, <3>1 DEF Open
    <3>3. count'[q] = count[q]
      BY <1>1, <2>2 DEF NotifierSignal
    <3> QED BY <3>2, <3>3 DEF Counts
  <2> QED BY <2>1, <2>2
<1>8. count' \in [Requests -> Nat]
  <2>1. count' = [q \in Requests |-> count'[q]]
    BY <1>1 DEF NotifierSignal
  <2> QED BY <1>7, <2>1
<1> QED BY SMT, <1>2, <1>7, <1>8 DEF Counts

\* Only these two steps touch a notifier.
LEMMA CountsStep ==
  ASSUME Core, Counts, Results, [Next]_vars
  PROVE  Counts'
<1>1. CASE UNCHANGED <<group, count, result>>
  <2>1. \A r : Open(r)' = Open(r)
    BY <1>1 DEF Open
  <2> QED BY <1>1, <2>1 DEF Counts
<1>2. ASSUME NEW t \in Threads, ThreadStep(t) \/ ThreadDisturbed(t)
      PROVE  UNCHANGED <<group, count, result>>
  BY <1>2 DEF ThreadStep, ThreadDisturbed, SubmitAioRequest, Submitted,
       ReqQueueWaitUntil, SlotWoken, Busy, PushRequest, XstopLoop, SuspendUntimed, SuspendTimed,
       AioFinish, AioWaitCompletion, WaitSignaled, ReleaseCompletion, SlotSpurious, SlotTimeout,
       SuspendSpurious, SuspendTimeout, WaitSpurious, WaitTimeout
<1>3. ASSUME \/ NetworkThread \/ PeerGone \/ (\E r \in Requests : Answered(r))
             \/ Shutdown \/ ShuttingDown \/ UNCHANGED vars,
             ~CompleteRequest
      PROVE  UNCHANGED <<group, count, result>>
  BY <1>3 DEF NetworkThread, EvfdStopLoop, ConnectionTeardown, SessionTeardown, LoopReturns,
       Callback, AioSignalCompletion, NotifyCompletion, ReqQueueRelease, SendOk, SendFails, Drained,
       Disconnect, PeerGone, TeardownIn, Answered, OnResponse, OnBadResponse, OnMsgError, Handle,
       Shutdown, ShuttingDown, ShutdownStop, ShutdownJoin, vars
<1> QED BY <1>1, <1>2, <1>3, CountsStart, CountsComplete DEF Next, Quiescent

\* The threads give no request a result; a request they push has none.
LEMMA ResultsThread ==
  ASSUME Core, Results, NEW t \in Threads,
         \/ \E k \in Calls, R \in SUBSET Requests, tm \in Timed : StartCall(t, k, R, tm)
         \/ ThreadStep(t) \/ ThreadDisturbed(t)
  PROVE  /\ Results' /\ UNCHANGED <<npc, netVars, result>>
<1>1. UNCHANGED <<npc, netVars, result>>
  BY DEF StartCall, ThreadStep, ThreadDisturbed, SubmitAioRequest, Submitted,
       ReqQueueWaitUntil, SlotWoken, Busy, PushRequest, XstopLoop, SuspendUntimed, SuspendTimed,
       AioFinish, AioWaitCompletion, WaitSignaled, ReleaseCompletion, SlotSpurious, SlotTimeout,
       SuspendSpurious, SuspendTimeout, WaitSpurious, WaitTimeout
<1>2. \/ cmem' = cmem
      \/ \E S : cmem' = SetAll(cmem, S, "live") \/ cmem' = SetAll(cmem, S, "freed")
  BY DEF StartCall, ThreadStep, ThreadDisturbed, SubmitAioRequest, Submitted,
       ReqQueueWaitUntil, SlotWoken, Busy, PushRequest, XstopLoop, SuspendUntimed, SuspendTimed,
       AioFinish, AioWaitCompletion, WaitSignaled, ReleaseCompletion, SlotSpurious, SlotTimeout,
       SuspendSpurious, SuspendTimeout, WaitSpurious, WaitTimeout
<1>3. \A r \in Requests : cmem[r] # "none" => cmem'[r] # "none"
  BY <1>2 DEF SetAll
<1>4. \A r \in Requests : msg'[r] \in {"none", "queued", "wire", "lost"} => result[r] = "none"
  <2>1. CASE PushRequest(t)
    <3>1. msg' = SetAll(msg, cur[t], "queued") /\ \A r \in cur[t] : msg[r] = "none"
      BY <2>1 DEF PushRequest, Core, Messages, CurFresh, Unsubmitted
    <3> QED BY <3>1 DEF SetAll, Results
  <2>2. CASE ~PushRequest(t)
    <3>1. msg' = msg
      BY <2>2 DEF StartCall, ThreadStep, ThreadDisturbed, SubmitAioRequest, Submitted,
       ReqQueueWaitUntil, SlotWoken, Busy, XstopLoop, SuspendUntimed, SuspendTimed,
       AioFinish, AioWaitCompletion, WaitSignaled, ReleaseCompletion, SlotSpurious, SlotTimeout,
       SuspendSpurious, SuspendTimeout, WaitSpurious, WaitTimeout
    <3> QED BY <3>1 DEF Results
  <2> QED BY <2>1, <2>2
<1>5. nreq \subseteq Requests
  BY DEF Core, BaseOK, NetTypes
<1> QED BY SMT, <1>1, <1>3, <1>4, <1>5 DEF Results, ToComplete, Signaling

\* The request whose message is handled has no result yet.
LEMMA ResultsHandle ==
  ASSUME Core, Results, NEW r \in Requests, NEW v, v # "none", msg[r] \in {"queued", "wire"},
         nreq' = {r}, nres' = v, msg' = [msg EXCEPT ![r] = "handling"],
         npc' \in {"complete", "release"}, result' = result
  PROVE  Results'
<1>1. result[r] = "none"
  BY DEF Results
<1>2. msg'[r] = "handling" /\ \A q \in Requests : q # r => msg'[q] = msg[q]
  BY DEF Core, BaseOK, MemTypes
<1> QED BY <1>1, <1>2 DEF Results, Signaling

\* The steps that begin to handle a message.
LEMMA ResultsAnswer ==
  ASSUME Core, Results, SendFails \/ \E r \in Requests : OnResponse(r) \/ OnMsgError(r)
  PROVE  Results'
<1>1. CASE SendFails
  <2>1. Head(inflight) \in Requests /\ msg[Head(inflight)] = "queued"
    BY SMT, <1>1, QueueTypes DEF Core, BaseOK, NetTypes, Queue, SendFails
  <2>2. /\ nreq' = {Head(inflight)} /\ nres' = "EIO" /\ npc' \in {"complete", "release"}
        /\ msg' = [msg EXCEPT ![Head(inflight)] = "handling"] /\ result' = result
    BY <1>1 DEF SendFails
  <2>3. msg[Head(inflight)] \in {"queued", "wire"} /\ "EIO" # "none"
    BY <2>1
  <2> QED BY <2>1, <2>2, <2>3, ResultsHandle
<1>2. ASSUME NEW r \in Requests, OnResponse(r) \/ OnMsgError(r)
      PROVE  Results'
  <2>1. msg[r] = "wire" /\ \E v \in {"data", "error", "EIO"} : Handle(r, v)
    BY <1>2 DEF OnResponse, OnMsgError
  <2>2. PICK v \in {"data", "error", "EIO"} : Handle(r, v)
    BY <2>1
  <2>3. /\ nreq' = {r} /\ nres' = v /\ npc' \in {"complete", "release"}
        /\ msg' = [msg EXCEPT ![r] = "handling"] /\ result' = result
    BY <2>2 DEF Handle
  <2>4. msg[r] \in {"queued", "wire"} /\ v # "none"
    BY <2>1
  <2> QED BY <2>3, <2>4, ResultsHandle
<1> QED BY <1>1, <1>2

\* The step that completes it.
LEMMA ResultsComplete ==
  ASSUME Core, Results, CompleteRequest
  PROVE  Results'
<1>1. PICK r \in nreq : /\ result' = [result EXCEPT ![r] = nres]
                        /\ npc' = IF WithCompletion(r) THEN "callback" ELSE AfterComplete
  BY DEF CompleteRequest
<1>2. npc = "complete" /\ UNCHANGED <<msg, nreq, nback, cmem>> /\ r \in Requests
  BY DEF CompleteRequest, Core, BaseOK, NetTypes
<1>3. nreq = {r} /\ nres # "none" /\ msg[r] \in {"gone", "handling"}
  BY <1>1, <1>2 DEF Core, Handled, Results, ToComplete
<1>4. result'[r] # "none" /\ \A q \in Requests : q # r => result'[q] = result[q]
  BY <1>1, <1>2, <1>3 DEF Core, BaseOK, MemTypes
<1>5. ~ToComplete' /\ (Signaling' => cmem[r] # "none")
  BY <1>1, <1>2 DEF ToComplete, Signaling, AfterComplete, WithCompletion
<1> QED BY <1>2, <1>3, <1>4, <1>5 DEF Results

\* The steps that leave the results alone and begin to handle no message.
LEMMA ResultsOther ==
  ASSUME Core, Results, ~CompleteRequest, ~SendFails,
         ~\E r \in Requests : OnResponse(r) \/ OnMsgError(r),
         \/ NetworkThread \/ PeerGone \/ (\E r \in Requests : Answered(r))
         \/ Shutdown \/ ShuttingDown \/ UNCHANGED vars
  PROVE  Results' /\ UNCHANGED <<netVars, result, cmem>> /\ (Signaling' => Signaling)
<1>1. UNCHANGED <<netVars, result, cmem>>
  BY DEF NetworkThread, EvfdStopLoop, ConnectionTeardown, SessionTeardown, LoopReturns,
       Callback, AioSignalCompletion, NotifyCompletion, ReqQueueRelease, SendOk, Drained,
       Disconnect, PeerGone, TeardownIn, Answered, OnBadResponse,
       Shutdown, ShuttingDown, ShutdownStop, ShutdownJoin, vars
<1>2. \/ npc' = npc
      \/ npc' \in {"run", "bye", "drain", "disconnect", "exited"}
      \/ Signaling /\ npc' = AfterComplete
      \/ Signaling /\ Signaling'
      \/ npc = "release" /\ nback = "send" /\ npc' = "complete"
      \/ npc = "release" /\ nback # "send" /\ npc' = nback
  BY DEF NetworkThread, EvfdStopLoop, ConnectionTeardown, SessionTeardown, LoopReturns,
       Callback, AioSignalCompletion, NotifyCompletion, ReqQueueRelease, SendOk, Drained,
       Disconnect, PeerGone, TeardownIn, Answered, OnBadResponse, Signaling,
       Shutdown, ShuttingDown, ShutdownStop, ShutdownJoin, vars
<1>3. nback \in {"run", "bye", "send"} /\ nreq \subseteq Requests
  BY DEF Core, BaseOK, NetTypes
<1>4. (ToComplete' => ToComplete) /\ (Signaling' => Signaling)
  BY <1>1, <1>2, <1>3 DEF ToComplete, Signaling, AfterComplete
<1>5. ASSUME NEW r \in Requests, msg'[r] \in {"none", "queued", "wire", "lost"}
      PROVE  msg[r] \in {"none", "queued", "wire", "lost"}
  <2>1. CASE ReqQueueRelease
    BY <1>5, <2>1 DEF ReqQueueRelease, SetAll
  <2>2. CASE SendOk
    <3>1. Head(inflight) \in Requests /\ msg[Head(inflight)] = "queued"
      BY SMT, <2>2, QueueTypes DEF Core, BaseOK, NetTypes, Queue, SendOk
    <3> QED BY <1>5, <2>2, <3>1 DEF SendOk, Core, BaseOK, MemTypes
  <2>3. CASE \E q \in Requests : OnBadResponse(q)
    BY SMT, <1>5, <2>3 DEF OnBadResponse, Core, BaseOK, MemTypes
  <2>4. CASE UNCHANGED msg
    BY <1>5, <2>4
  <2> QED BY <2>1, <2>2, <2>3, <2>4 DEF NetworkThread, EvfdStopLoop, ConnectionTeardown, SessionTeardown,
       LoopReturns, Callback, AioSignalCompletion, NotifyCompletion, Drained,
       Disconnect, PeerGone, TeardownIn, Answered,
       Shutdown, ShuttingDown, ShutdownStop, ShutdownJoin, vars
<1> QED BY <1>1, <1>3, <1>4, <1>5 DEF Results

\* Every step keeps the results.
LEMMA ResultsStep ==
  ASSUME Core, Results, [Next]_vars
  PROVE  Results'
BY ResultsThread, ResultsAnswer, ResultsComplete, ResultsOther DEF Next, Quiescent

\* The invariant of the completions.
Completing == Core /\ Counts /\ Results

LEMMA CompletingAlways == Spec => []Completing
<1>1. Init => Completing
  BY BaseInit, CallInit, NetInit, CountsInit DEF Core, Completing
<1>2. Completing /\ [Next]_vars => Completing'
  BY CoreStep, CountsStep, ResultsStep DEF Completing
<1> QED BY <1>1, <1>2, PTL DEF Spec

\* For any client, whatever fails, a request is completed once: when the network
\* thread completes one it has no result and its notifier still waits for it, so
\* the assert on _count of notifier::signal holds.
THEOREM CompletesOnceAlways == Spec => []CompletesOnce
<1>1. ASSUME Completing PROVE CompletesOnce
  <2>1. ASSUME NEW r \in nreq, npc = "complete"
        PROVE  count[r] > 0 /\ result[r] = "none"
    <3>1. r \in Requests /\ result[r] = "none" /\ msg[r] # "none"
      BY <1>1, <2>1 DEF Completing, Core, BaseOK, NetTypes, Handled, Results, ToComplete
    <3>2. r \in Open(r) /\ Open(r) \subseteq Requests
      BY <1>1, <3>1, HasGroup DEF Open, Completing, Core, BaseOK, MemTypes
    <3>3. IsFiniteSet(Open(r)) /\ Cardinality(Open(r)) # 0
      BY <3>2, FS_Subset, FS_EmptySet, ClientAssumption
    <3> QED BY SMT, <1>1, <3>1, <3>3 DEF Completing, Counts
  <2> QED BY <2>1 DEF CompletesOnce
<1> QED BY <1>1, CompletingAlways, PTL

\* Every variable of the client keeps its type; in particular no notifier counts
\* below zero.
THEOREM ClientTypes == Spec => []TypeOK
<1>1. ASSUME Completing PROVE TypeOK
  BY <1>1 DEF Completing, Core, BaseOK, CallTypes, NetTypes, MemTypes, Counts, TypeOK
<1> QED BY <1>1, CompletingAlways, PTL

-----------------------------------------------------------------------------
(***************************************************************************)
(* Telling the threads.                                                    *)
(***************************************************************************)
\* Only aio_suspend of a single read is called with a timeout, and no wait that
\* does not look again at what it waits for, which are those with a timeout and
\* those for a completion, wakes up spuriously.
Patient ==
  /\ TRUE \in Timed => Calls \subseteq {"read"}
  /\ "spurious" \in Faults => TRUE \notin Timed /\ "readcb" \notin Calls

\* Where a thread waits for a completion, or has.
AtCompletion == {"waitC", "lockC", "waitingC", "completed"}

\* What the kind of a call says of the thread that makes it.
Kinds ==
  /\ \A t \in Threads : timed[t] => kind[t] = "read" /\ TRUE \in Timed
  /\ \A t \in Threads : kind[t] = "readcb" => "readcb" \in Calls
  /\ \A t \in Threads : pc[t] = "suspended" => timed[t]
  /\ \A t \in Threads : kind[t] # "readv" => \A r, q \in call[t] : r = q
  /\ \A t \in Threads : pc[t] \in AtCompletion => kind[t] = "readcb"

\* The request is complete and its callback is over.
Over(r) == result[r] # "none" /\ ~(r \in nreq /\ Signaling)

\* What is known of a request that has been freed, or whose completion has been
\* freed or signaled.
Freed ==
  /\ \A r \in Requests : mem[r] = "freed" => result[r] # "none" \/ msg[r] = "none"
  /\ \A r \in Requests : cmem[r] = "freed" => Over(r)
  /\ \A r \in Requests : signaled[r] => Over(r)
  /\ \A r \in Requests : group[r] = {} => ~onWait[r] /\ cmem[r] = "none"

\* What a thread has been told: before it waits for a completion only the network
\* thread sets _on_wait, when the callback is over.
Told ==
  /\ \A t \in Threads : pc[t] \in Submitting \cup {"waitC"} =>
       \A r \in call[t] : onWait[r] => Over(r)
  /\ \A t \in Threads : pc[t] = "completed" => \A r \in call[t] : Over(r)
  /\ \A t \in Threads : pc[t] = "return" => \A r \in call[t] : result[r] # "none"

\* Nobody has been told anything at first.
LEMMA ToldInit == Init => Kinds /\ Freed /\ Told
<1> SUFFICES ASSUME Init PROVE Kinds /\ Freed /\ Told
  OBVIOUS
<1>1. /\ \A t \in Threads : /\ pc[t] = "idle" /\ timed[t] = FALSE
                            /\ kind[t] = "read" /\ call[t] = {}
      /\ \A r \in Requests : /\ mem[r] = "none" /\ cmem[r] = "none"
                             /\ signaled[r] = FALSE /\ onWait[r] = FALSE
  BY DEF Init
<1>2. Kinds
  BY <1>1 DEF Kinds, AtCompletion
<1>3. Freed
  BY <1>1 DEF Freed
<1>4. Told
  BY <1>1 DEF Told
<1> QED BY <1>2, <1>3, <1>4

\* What is complete and over stays so.
Stays ==
  \A r \in Requests : /\ result[r] # "none" => result'[r] # "none"
                      /\ Over(r) => Over(r)'

\* Once a request is complete and its callback is over, that stays so.
LEMMA OverStays ==
  ASSUME Completing, [Next]_vars, NEW r \in Requests
  PROVE  /\ result[r] # "none" => result'[r] # "none"
         /\ Over(r) => Over(r)'
<1> USE DEF Completing
<1>1. CASE \E t \in Threads :
              \/ \E k \in Calls, R \in SUBSET Requests, tm \in Timed : StartCall(t, k, R, tm)
              \/ ThreadStep(t) \/ ThreadDisturbed(t)
  <2>1. UNCHANGED <<npc, netVars, result>>
    BY <1>1, ResultsThread
  <2> QED BY <2>1 DEF Over, Signaling
<1>2. CASE CompleteRequest
  <2>1. PICK q \in nreq : result' = [result EXCEPT ![q] = nres]
    BY <1>2 DEF CompleteRequest
  <2>2. npc = "complete" /\ nreq' = nreq
    BY <1>2 DEF CompleteRequest
  <2>3. nres # "none" /\ nreq = {q} /\ result[q] = "none"
    BY <2>1, <2>2 DEF Core, Handled, Results, ToComplete
  <2> QED BY <2>1, <2>2, <2>3 DEF Core, BaseOK, MemTypes, Over
<1>3. CASE SendFails \/ \E q \in Requests : OnResponse(q) \/ OnMsgError(q)
  <2>1. result' = result /\ npc' \in {"release", "complete"}
    BY <1>3 DEF SendFails, OnResponse, OnMsgError, Handle
  <2> QED BY <2>1 DEF Over, Signaling
<1>4. ASSUME ~CompleteRequest, ~(SendFails \/ \E q \in Requests : OnResponse(q) \/ OnMsgError(q)),
             \/ NetworkThread \/ PeerGone \/ (\E q \in Requests : Answered(q))
             \/ Shutdown \/ ShuttingDown \/ UNCHANGED vars
      PROVE  /\ result[r] # "none" => result'[r] # "none"
             /\ Over(r) => Over(r)'
  <2>1. UNCHANGED <<netVars, result>> /\ (Signaling' => Signaling)
    BY <1>4, ResultsOther
  <2> QED BY <2>1 DEF Over
<1> QED BY <1>1, <1>2, <1>3, <1>4 DEF Next, Quiescent

\* The kind of a call, when no call begins.
LEMMA KindsKept ==
  ASSUME Kinds, UNCHANGED <<call, kind, timed>>,
         \A u \in Threads : /\ pc'[u] = "suspended" => pc[u] = "suspended" \/ timed[u]
                            /\ pc'[u] \in AtCompletion => pc[u] \in AtCompletion \/ kind[u] = "readcb"
  PROVE  Kinds'
BY DEF Kinds

\* What the threads have been told, when a step tells none of them anything.
LEMMA ToldKept ==
  ASSUME BaseOK, Told, UNCHANGED <<call, onWait>>,
         Stays,
         \A u \in Threads :
           /\ pc'[u] \in Submitting \cup {"waitC"} => pc[u] \in Submitting \cup {"waitC"}
           /\ pc'[u] = "completed" => pc[u] = "completed"
           /\ pc'[u] = "return" => pc[u] = "return"
  PROVE  Told'
<1>1. \A u \in Threads : call[u] \subseteq Requests
  BY DEF BaseOK, CallTypes
<1> QED BY <1>1 DEF Told, Stays

\* What is known of the freed requests, when a step frees and signals nothing.
LEMMA FreedKept ==
  ASSUME Freed, UNCHANGED <<cmem, signaled, onWait, group>>,
         Stays,
         \A r \in Requests : mem'[r] = "freed" /\ msg'[r] # "none" =>
                               (mem[r] = "freed" /\ msg[r] # "none") \/ result[r] # "none"
  PROVE  Freed'
BY DEF Freed, Stays

\* A new call: its requests are untouched.
LEMMA ToldStart ==
  ASSUME Completing, Patient, Kinds, Freed, Told, Stays,
         NEW t \in Threads, NEW k \in Calls, NEW R \in SUBSET Requests, NEW tm \in Timed,
         StartCall(t, k, R, tm)
  PROVE  Kinds' /\ Freed' /\ Told'
<1>1. /\ pc'[t] = "next" /\ call'[t] = R /\ kind'[t] = k /\ timed'[t] = tm
      /\ \A u \in Threads : u # t => /\ pc'[u] = pc[u] /\ call'[u] = call[u]
                                     /\ kind'[u] = kind[u] /\ timed'[u] = timed[u]
  BY DEF Completing, Core, BaseOK, CallTypes, StartCall, Goto
<1>2. /\ \A r \in R : group[r] = {} /\ group'[r] = R
      /\ \A r \in Requests : r \notin R => group'[r] = group[r] /\ cmem'[r] = cmem[r]
      /\ UNCHANGED <<mem, msg, onWait, signaled>>
  BY DEF StartCall, SetAll
<1>3. \A r \in R : result[r] = "none" /\ onWait[r] = FALSE
  BY <1>2, Untouched DEF Completing, Core, BaseOK, MemTypes, Freed
<1>4. \A r \in R : cmem'[r] # "freed"
  BY <1>2 DEF StartCall, SetAll, Freed
<1>5. tm => k = "read" /\ TRUE \in Timed
  BY ClientAssumption DEF Patient
<1>6. k # "readv" => \A r, q \in R : r = q
  <2>1. IsFiniteSet(R) /\ (k # "readv" => Cardinality(R) = 1)
    BY FS_Subset, ClientAssumption DEF StartCall
  <2>2. ASSUME k # "readv", NEW r \in R, NEW q \in R
        PROVE  r = q
    BY SMT, <2>1, <2>2, FS_Singleton
  <2> QED BY <2>2
<1>7. Kinds'
  <2>1. /\ (\A u \in Threads : timed[u] => kind[u] = "read" /\ TRUE \in Timed)'
        /\ (\A u \in Threads : kind[u] = "readcb" => "readcb" \in Calls)'
    BY <1>1, <1>5 DEF Kinds
  <2>2. (\A u \in Threads : pc[u] = "suspended" => timed[u])'
    BY <1>1 DEF Kinds
  <2>3. (\A u \in Threads : kind[u] # "readv" => \A r, q \in call[u] : r = q)'
    BY <1>1, <1>6 DEF Kinds
  <2>4. (\A u \in Threads : pc[u] \in AtCompletion => kind[u] = "readcb")'
    BY <1>1 DEF Kinds, AtCompletion
  <2> QED BY <2>1, <2>2, <2>3, <2>4 DEF Kinds
<1>8. Freed'
  <2>1. (\A r \in Requests : mem[r] = "freed" => result[r] # "none" \/ msg[r] = "none")'
    BY <1>2 DEF Freed, Stays
  <2>2. (\A r \in Requests : cmem[r] = "freed" => Over(r))'
    BY <1>2, <1>4 DEF Freed, Stays
  <2>3. (\A r \in Requests : signaled[r] => Over(r))'
    BY <1>2 DEF Freed, Stays
  <2>4. (\A r \in Requests : group[r] = {} => ~onWait[r] /\ cmem[r] = "none")'
    BY <1>2 DEF Freed
  <2> QED BY <2>1, <2>2, <2>3, <2>4 DEF Freed
<1>9. Told'
  <2>1. \A u \in Threads : call[u] \subseteq Requests
    BY DEF Completing, Core, BaseOK, CallTypes
  <2>2. (\A u \in Threads : pc[u] \in Submitting \cup {"waitC"} =>
           \A r \in call[u] : onWait[r] => Over(r))'
    BY <1>1, <1>2, <1>3, <2>1 DEF Told, Stays
  <2>3. (\A u \in Threads : pc[u] = "completed" => \A r \in call[u] : Over(r))'
    BY <1>1, <2>1 DEF Told, Stays
  <2>4. (\A u \in Threads : pc[u] = "return" => \A r \in call[u] : result[r] # "none")'
    BY <1>1, <2>1 DEF Told, Stays
  <2> QED BY <2>2, <2>3, <2>4 DEF Told
<1> QED BY <1>7, <1>8, <1>9

\* A thread that submits its requests, or begins to wait or waits again, is told
\* nothing.
LEMMA ToldSubmit ==
  ASSUME Completing, Kinds, Freed, Told, Stays, NEW t \in Threads,
         \/ SubmitAioRequest(t) \/ Submitted(t) \/ ReqQueueWaitUntil(t) \/ SlotWoken(t)
         \/ Busy(t) \/ PushRequest(t) \/ XstopLoop(t) \/ SuspendTimed(t)
         \/ SlotSpurious(t) \/ SlotTimeout(t) \/ SuspendTimeout(t)
         \/ (WaitSignaled(t) /\ pc'[t] # "completed")
  PROVE  Kinds' /\ Freed' /\ Told'
<1>1. UNCHANGED <<call, kind, timed, onWait, cmem, signaled, group>>
  BY DEF SubmitAioRequest, Submitted, ReqQueueWaitUntil, SlotWoken, Busy, PushRequest,
       XstopLoop, SuspendTimed, SlotSpurious, SlotTimeout, SuspendTimeout, WaitSignaled
<1>2. /\ \A u \in Threads : u # t => pc'[u] = pc[u]
      /\ \/ pc[t] \in Submitting /\ pc'[t] \in Submitting
         \/ pc[t] = "next" /\ pc'[t] \in {"idle", "suspend"}
         \/ pc[t] = "next" /\ pc'[t] = "waitC" /\ kind[t] = "readcb"
         \/ pc[t] = "suspend" /\ timed[t] /\ pc'[t] = "suspended"
         \/ pc[t] = "suspended" /\ pc'[t] = "suspend"
         \/ pc[t] = "lockC" /\ pc'[t] = "waitingC"
  <2>1. pc \in [Threads -> ThreadLabels] /\ (pc[t] = "suspended" => kind[t] # "readv")
    BY DEF Completing, Core, BaseOK, CallTypes, Kinds
  <2> QED BY <2>1 DEF SubmitAioRequest, Submitted, ReqQueueWaitUntil, SlotWoken, Busy, PushRequest,
       XstopLoop, SuspendTimed, SlotSpurious, SlotTimeout, SuspendTimeout,
       WaitSignaled, Goto, Submitting, Unsubmitted
<1>3. Kinds'
  BY <1>1, <1>2, KindsKept DEF AtCompletion, Submitting, Unsubmitted
<1>4. BaseOK
  BY DEF Completing, Core
<1>5. Told'
  BY <1>1, <1>2, <1>4, ToldKept DEF Submitting, Unsubmitted
<1>6. ASSUME NEW r \in Requests, mem'[r] = "freed", msg'[r] # "none"
      PROVE  mem[r] = "freed" /\ msg[r] # "none"
  <2>1. \A q \in cur[t] : pc[t] \in Unsubmitted => mem[q] = "live" /\ msg[q] = "none"
    BY DEF Completing, Core, Messages, CurFresh
  <2>2. CASE Busy(t)
    BY <1>6, <2>1, <2>2 DEF Busy, SetAll, Unsubmitted
  <2>3. CASE PushRequest(t)
    BY <1>6, <2>1, <2>3 DEF PushRequest, SetAll, Unsubmitted
  <2>4. CASE SubmitAioRequest(t)
    BY <1>4, <1>6, <2>4 DEF SubmitAioRequest, BaseOK, MemTypes
  <2>5. CASE UNCHANGED <<mem, msg>>
    BY <1>6, <2>5
  <2> QED BY <2>2, <2>3, <2>4, <2>5 DEF Submitted, ReqQueueWaitUntil, SlotWoken,
       XstopLoop, SuspendTimed, SlotSpurious, SlotTimeout, SuspendTimeout, WaitSignaled
<1>7. Freed'
  BY <1>1, <1>6, FreedKept
<1> QED BY <1>3, <1>5, <1>7

\* aio_suspend returns when the count of the notifier is zero: all its requests
\* are complete.
LEMMA ToldReturn ==
  ASSUME Completing, Kinds, Freed, Told, Stays, NEW t \in Threads, SuspendUntimed(t)
  PROVE  Kinds' /\ Freed' /\ Told'
<1>1. UNCHANGED <<call, kind, timed, onWait, cmem, signaled, group, mem, msg>>
  BY DEF SuspendUntimed
<1>2. pc'[t] = "return" /\ \A u \in Threads : u # t => pc'[u] = pc[u]
  BY DEF Completing, Core, BaseOK, CallTypes, SuspendUntimed, Goto
<1>3. Kinds'
  BY <1>1, <1>2, KindsKept DEF AtCompletion
<1>4. Freed'
  BY <1>1, FreedKept
<1>5. ASSUME NEW r \in call[t]
      PROVE  result[r] # "none"
  <2>1. r \in Requests /\ count[r] = 0 /\ group[r] = call[t]
    BY DEF Completing, Core, BaseOK, CallTypes, Calling, Grouped, SuspendUntimed
  <2>2. IsFiniteSet(Open(r))
    <3>1. Open(r) \subseteq Requests
      BY <2>1 DEF Open, Completing, Core, BaseOK, CallTypes
    <3> QED BY <3>1, FS_Subset, ClientAssumption
  <2>3. Open(r) = {}
    BY <2>1, <2>2, FS_EmptySet DEF Completing, Counts
  <2> QED BY <2>1, <2>3 DEF Open
<1>6. \A u \in Threads : call[u] \subseteq Requests
  BY DEF Completing, Core, BaseOK, CallTypes
<1>7. Told'
  BY <1>1, <1>2, <1>5, <1>6 DEF Told, Stays, Submitting, Unsubmitted
<1> QED BY <1>3, <1>4, <1>7

\* A thread frees what it has been told is complete.
LEMMA ToldFinish ==
  ASSUME Completing, Kinds, Freed, Told, Stays, NEW t \in Threads,
         AioFinish(t) \/ ReleaseCompletion(t)
  PROVE  Kinds' /\ Freed' /\ Told'
<1>1. /\ UNCHANGED <<call, kind, timed, onWait, signaled, group, msg>>
      /\ mem' = SetAll(mem, call[t], "freed")
      /\ cmem' = cmem \/ (pc[t] = "completed" /\ cmem' = SetAll(cmem, call[t], "freed"))
  BY DEF AioFinish, ReleaseCompletion
<1>2. /\ pc[t] \in {"return", "completed"} /\ pc'[t] = "idle"
      /\ \A u \in Threads : u # t => pc'[u] = pc[u]
  BY DEF Completing, Core, BaseOK, CallTypes, AioFinish, ReleaseCompletion, Goto
<1>3. Kinds'
  BY <1>1, <1>2, KindsKept DEF AtCompletion
<1>4. BaseOK
  BY DEF Completing, Core
<1>5. Told'
  BY <1>1, <1>2, <1>4, ToldKept DEF Submitting, Unsubmitted
<1>6. /\ \A r \in call[t] : result[r] # "none"
      /\ pc[t] = "completed" => \A r \in call[t] : Over(r)
  BY <1>2 DEF Told, Over
<1>7. Freed'
  <2>1. (\A r \in Requests : mem[r] = "freed" => result[r] # "none" \/ msg[r] = "none")'
    BY <1>1, <1>6 DEF Freed, Stays, SetAll
  <2>2. (\A r \in Requests : cmem[r] = "freed" => Over(r))'
    BY <1>1, <1>6 DEF Freed, Stays, SetAll
  <2>3. (\A r \in Requests : signaled[r] => Over(r))'
    BY <1>1 DEF Freed, Stays
  <2>4. (\A r \in Requests : group[r] = {} => ~onWait[r] /\ cmem[r] = "none")'
    <3>1. \A r \in call[t] : group[r] # {}
      BY DEF Completing, Core, Calling, Grouped
    <3> QED BY <1>1, <3>1 DEF Freed, SetAll
  <2> QED BY <2>1, <2>2, <2>3, <2>4 DEF Freed
<1> QED BY <1>3, <1>5, <1>7

\* aio_wait_completion returns at once when _on_wait or _signaled is set: the
\* network thread has set it.
LEMMA ToldWait ==
  ASSUME Completing, Kinds, Freed, Told, Stays, NEW t \in Threads,
         AioWaitCompletion(t) \/ (WaitSignaled(t) /\ pc'[t] = "completed")
  PROVE  Kinds' /\ Freed' /\ Told'
<1>1. UNCHANGED <<call, kind, timed, cmem, signaled, group, mem, msg>>
  BY DEF AioWaitCompletion, WaitSignaled
<1>2. PICK r \in Requests :
        /\ r \in call[t]
        /\ onWait' = onWait \/ onWait' = [onWait EXCEPT ![r] = TRUE]
        /\ pc'[t] = "completed" => (pc[t] = "waitC" /\ onWait[r]) \/ signaled[r]
        /\ pc'[t] \in {"completed", "lockC"}
  <2>1. CASE AioWaitCompletion(t)
    <3>1. PICK r \in call[t] : /\ onWait' = [onWait EXCEPT ![r] = TRUE]
                               /\ Goto(t, IF onWait[r] THEN "completed" ELSE "lockC")
      BY <2>1 DEF AioWaitCompletion
    <3>2. pc[t] = "waitC" /\ r \in Requests
      BY <2>1 DEF Completing, Core, BaseOK, CallTypes, AioWaitCompletion
    <3>3. pc'[t] = IF onWait[r] THEN "completed" ELSE "lockC"
      BY <3>1 DEF Completing, Core, BaseOK, CallTypes, Goto
    <3> QED BY <3>1, <3>2, <3>3
  <2>2. CASE WaitSignaled(t) /\ pc'[t] = "completed"
    <3>1. PICK r \in call[t] : signaled[r]
      BY <2>2 DEF Completing, Core, BaseOK, CallTypes, WaitSignaled, Goto
    <3>2. onWait' = onWait /\ r \in Requests
      BY <2>2 DEF Completing, Core, BaseOK, CallTypes, WaitSignaled
    <3> QED BY <2>2, <3>1, <3>2
  <2> QED BY <2>1, <2>2
<1>3. pc[t] \in {"waitC", "lockC"} /\ \A u \in Threads : u # t => pc'[u] = pc[u]
  BY DEF Completing, Core, BaseOK, CallTypes, AioWaitCompletion, WaitSignaled, Goto
<1>4. Kinds'
  BY <1>1, <1>2, <1>3, KindsKept DEF AtCompletion
<1>5. call[t] = {r} /\ \A u \in Threads : u # t => r \notin call[u]
  BY <1>2, <1>3 DEF Kinds, AtCompletion, Completing, Core, Calling, Apart
<1>6. pc'[t] = "completed" => Over(r)
  BY <1>2, <1>3 DEF Told, Freed
<1>7. group[r] # {} /\ \A q \in Requests : q # r => onWait'[q] = onWait[q]
  BY <1>2 DEF Completing, Core, Calling, Grouped, BaseOK, MemTypes
<1>8. Freed'
  <2>1. (\A q \in Requests : mem[q] = "freed" => result[q] # "none" \/ msg[q] = "none")'
    BY <1>1 DEF Freed, Stays
  <2>2. (\A q \in Requests : cmem[q] = "freed" => Over(q))'
    BY <1>1 DEF Freed, Stays
  <2>3. (\A q \in Requests : signaled[q] => Over(q))'
    BY <1>1 DEF Freed, Stays
  <2>4. (\A q \in Requests : group[q] = {} => ~onWait[q] /\ cmem[q] = "none")'
    BY <1>1, <1>7 DEF Freed
  <2> QED BY <2>1, <2>2, <2>3, <2>4 DEF Freed
<1>9. Told'
  <2>1. \A u \in Threads : call[u] \subseteq Requests
    BY DEF Completing, Core, BaseOK, CallTypes
  <2>2. (\A u \in Threads : pc[u] \in Submitting \cup {"waitC"} =>
           \A q \in call[u] : onWait[q] => Over(q))'
    <3>1. pc'[t] \notin Submitting \cup {"waitC"}
      BY <1>2 DEF Submitting, Unsubmitted
    <3>2. \A u \in Threads : u # t => \A q \in call[u] : q \in Requests /\ onWait'[q] = onWait[q]
      BY <1>5, <1>7, <2>1
    <3> QED BY <1>1, <1>3, <3>1, <3>2 DEF Told, Stays
  <2>3. (\A u \in Threads : pc[u] = "completed" => \A q \in call[u] : Over(q))'
    BY <1>1, <1>3, <1>5, <1>6, <2>1 DEF Told, Stays
  <2>4. (\A u \in Threads : pc[u] = "return" => \A q \in call[u] : result[q] # "none")'
    BY <1>1, <1>2, <1>3, <2>1 DEF Told, Stays
  <2> QED BY <2>2, <2>3, <2>4 DEF Told
<1> QED BY <1>4, <1>8, <1>9

\* The last request that a timed aio_suspend waits for wakes it; the call has no
\* other.
LEMMA ToldComplete ==
  ASSUME Completing, Kinds, Freed, Told, Stays, CompleteRequest
  PROVE  Kinds' /\ Freed' /\ Told'
<1>1. PICK r \in nreq : result' = [result EXCEPT ![r] = nres] /\ NotifierSignal(r)
  BY DEF CompleteRequest
<1>2. /\ UNCHANGED <<call, kind, timed, onWait, cmem, signaled, group, mem, msg>>
      /\ npc = "complete" /\ r \in Requests
  BY DEF CompleteRequest, Completing, Core, BaseOK, NetTypes
<1>3. result'[r] # "none"
  BY <1>1, <1>2 DEF Completing, Core, BaseOK, MemTypes, Results, ToComplete
<1>4. \A u \in Threads : \/ pc'[u] = pc[u]
                         \/ pc[u] = "suspended" /\ pc'[u] = "return" /\ r \in call[u]
  BY <1>1 DEF NotifierSignal
<1>5. Kinds'
  BY <1>2, <1>4, KindsKept DEF AtCompletion
<1>6. Freed'
  BY <1>2, FreedKept
<1>7. \A u \in Threads : pc[u] = "suspended" => \A q, p \in call[u] : q = p
  BY DEF Kinds
<1>8. \A u \in Threads : call[u] \subseteq Requests
  BY DEF Completing, Core, BaseOK, CallTypes
<1>9. Told'
  <2>1. (\A u \in Threads : pc[u] \in Submitting \cup {"waitC"} =>
           \A q \in call[u] : onWait[q] => Over(q))'
    BY <1>2, <1>4, <1>8 DEF Told, Stays, Submitting, Unsubmitted
  <2>2. (\A u \in Threads : pc[u] = "completed" => \A q \in call[u] : Over(q))'
    BY <1>2, <1>4, <1>8 DEF Told, Stays
  <2>3. (\A u \in Threads : pc[u] = "return" => \A q \in call[u] : result[q] # "none")'
    BY SMT, <1>2, <1>3, <1>4, <1>7, <1>8 DEF Told, Stays
  <2> QED BY <2>1, <2>2, <2>3 DEF Told
<1> QED BY <1>5, <1>6, <1>9

\* aio_signal_completion, the compare-and-swap: a thread that comes later finds
\* the request complete and the callback over.
LEMMA ToldSignal ==
  ASSUME Completing, Kinds, Freed, Told, Stays, AioSignalCompletion
  PROVE  Kinds' /\ Freed' /\ Told'
<1>1. PICK r \in nreq : /\ onWait' = [onWait EXCEPT ![r] = TRUE]
                        /\ npc' = IF onWait[r] THEN "notify" ELSE AfterComplete
  BY DEF AioSignalCompletion
<1>2. /\ UNCHANGED <<pc, call, kind, timed, cmem, signaled, group, mem, msg, nreq, result>>
      /\ npc = "signal" /\ r \in Requests
  BY DEF AioSignalCompletion, Completing, Core, BaseOK, NetTypes
<1>3. result[r] # "none" /\ msg[r] # "none" /\ ~Over(r)
  BY <1>1, <1>2 DEF Completing, Results, Signaling, Core, Handled, Over
<1>4. ~onWait[r] => Over(r)'
  BY <1>1, <1>2, <1>3 DEF Over, Signaling, AfterComplete
<1>5. \A q \in Requests : q # r => onWait'[q] = onWait[q]
  BY <1>1 DEF Completing, Core, BaseOK, MemTypes
<1>6. Kinds'
  BY <1>2, KindsKept
<1>7. Freed'
  <2>1. group[r] # {}
    BY <1>2, <1>3, HasGroup DEF Completing
  <2>2. (\A q \in Requests : mem[q] = "freed" => result[q] # "none" \/ msg[q] = "none")'
    BY <1>2 DEF Freed
  <2>3. (\A q \in Requests : cmem[q] = "freed" => Over(q))'
    BY <1>2 DEF Freed, Stays
  <2>4. (\A q \in Requests : signaled[q] => Over(q))'
    BY <1>2 DEF Freed, Stays
  <2>5. (\A q \in Requests : group[q] = {} => ~onWait[q] /\ cmem[q] = "none")'
    BY <1>2, <1>5, <2>1 DEF Freed
  <2> QED BY <2>2, <2>3, <2>4, <2>5 DEF Freed
<1>8. Told'
  <2>1. \A u \in Threads : call[u] \subseteq Requests
    BY DEF Completing, Core, BaseOK, CallTypes
  <2>2. (\A u \in Threads : pc[u] \in Submitting \cup {"waitC"} =>
           \A q \in call[u] : onWait[q] => Over(q))'
    BY <1>2, <1>3, <1>4, <1>5, <2>1 DEF Told, Stays
  <2>3. (\A u \in Threads : pc[u] = "completed" => \A q \in call[u] : Over(q))'
    BY <1>2, <2>1 DEF Told, Stays
  <2>4. (\A u \in Threads : pc[u] = "return" => \A q \in call[u] : result[q] # "none")'
    BY <1>2 DEF Told
  <2> QED BY <2>2, <2>3, <2>4 DEF Told
<1> QED BY <1>6, <1>7, <1>8

\* The rest of it: the thread that waits for the completion is woken.
LEMMA ToldNotify ==
  ASSUME Completing, Kinds, Freed, Told, Stays, NotifyCompletion
  PROVE  Kinds' /\ Freed' /\ Told'
<1>1. /\ UNCHANGED <<call, kind, timed, cmem, onWait, group, mem, msg, nreq, result>>
      /\ npc = "notify" /\ npc' = AfterComplete /\ signaled' = SetAll(signaled, nreq, TRUE)
  BY DEF NotifyCompletion
<1>2. PICK r \in Requests : nreq = {r}
  BY <1>1 DEF Completing, Core, Handled
<1>3. Over(r)'
  BY <1>1, <1>2 DEF Completing, Results, Signaling, AfterComplete, Over
<1>4. \A u \in Threads : \/ pc'[u] = pc[u]
                         \/ pc[u] = "waitingC" /\ pc'[u] = "completed" /\ r \in call[u]
  BY <1>2 DEF NotifyCompletion
<1>5. Kinds'
  BY <1>1, <1>4, KindsKept DEF AtCompletion
<1>6. Freed'
  <2>1. \A q \in Requests : q # r => signaled'[q] = signaled[q]
    BY <1>1, <1>2 DEF SetAll
  <2>2. (\A q \in Requests : mem[q] = "freed" => result[q] # "none" \/ msg[q] = "none")'
    BY <1>1 DEF Freed
  <2>3. (\A q \in Requests : cmem[q] = "freed" => Over(q))'
    BY <1>1 DEF Freed, Stays
  <2>4. (\A q \in Requests : signaled[q] => Over(q))'
    BY <1>3, <2>1 DEF Freed, Stays
  <2>5. (\A q \in Requests : group[q] = {} => ~onWait[q] /\ cmem[q] = "none")'
    BY <1>1 DEF Freed
  <2> QED BY <2>2, <2>3, <2>4, <2>5 DEF Freed
<1>7. \A u \in Threads : pc[u] = "waitingC" => \A q, p \in call[u] : q = p
  BY DEF Kinds, AtCompletion
<1>8. Told'
  <2>1. \A u \in Threads : call[u] \subseteq Requests
    BY DEF Completing, Core, BaseOK, CallTypes
  <2>2. (\A u \in Threads : pc[u] \in Submitting \cup {"waitC"} =>
           \A q \in call[u] : onWait[q] => Over(q))'
    BY <1>1, <1>4, <2>1 DEF Told, Stays, Submitting, Unsubmitted
  <2>3. (\A u \in Threads : pc[u] = "completed" => \A q \in call[u] : Over(q))'
    BY <1>1, <1>3, <1>4, <1>7, <2>1 DEF Told, Stays
  <2>4. (\A u \in Threads : pc[u] = "return" => \A q \in call[u] : result[q] # "none")'
    BY <1>1, <1>4 DEF Told
  <2> QED BY <2>2, <2>3, <2>4 DEF Told
<1> QED BY <1>5, <1>6, <1>8

\* Nothing else tells a thread anything.
LEMMA ToldOther ==
  ASSUME Completing, Kinds, Freed, Told, Stays,
         ~CompleteRequest, ~AioSignalCompletion, ~NotifyCompletion,
         \/ NetworkThread \/ PeerGone \/ (\E r \in Requests : Answered(r))
         \/ Shutdown \/ ShuttingDown \/ UNCHANGED vars
  PROVE  Kinds' /\ Freed' /\ Told'
<1>1. UNCHANGED <<call, kind, timed, onWait, cmem, signaled, group, mem>>
  BY DEF NetworkThread, EvfdStopLoop, ConnectionTeardown, SessionTeardown, LoopReturns,
       Callback, ReqQueueRelease, SendOk, SendFails, Drained,
       Disconnect, PeerGone, TeardownIn, Answered, OnResponse, OnBadResponse, OnMsgError, Handle,
       Shutdown, ShuttingDown, ShutdownStop, ShutdownJoin, vars
<1>2. \A u \in Threads : pc'[u] = pc[u] \/ (pc[u] = "slotWait" /\ pc'[u] = "slotWoken")
  <2>1. CASE ReqQueueRelease
    BY <2>1 DEF Completing, Core, BaseOK, CallTypes, ReqQueueRelease, NotifyOne, Goto
  <2>2. CASE ~ReqQueueRelease
    BY <2>2 DEF NetworkThread, EvfdStopLoop, ConnectionTeardown, SessionTeardown, LoopReturns,
       Callback, SendOk, SendFails, Drained,
       Disconnect, PeerGone, TeardownIn, Answered, OnResponse, OnBadResponse, OnMsgError, Handle,
       Shutdown, ShuttingDown, ShutdownStop, ShutdownJoin, vars
  <2> QED BY <2>1, <2>2
<1>3. Kinds'
  BY <1>1, <1>2, KindsKept DEF AtCompletion
<1>4. Told'
  BY <1>1, <1>2, ToldKept DEF Completing, Core, Submitting, Unsubmitted
<1>5. \A r \in Requests : msg'[r] # "none" => msg[r] # "none"
  <2>1. CASE ReqQueueRelease
    <3>1. \A r \in nreq : msg[r] = "handling"
      BY <2>1 DEF Completing, Core, Handled, ReqQueueRelease
    <3> QED BY <2>1, <3>1 DEF ReqQueueRelease, SetAll
  <2>2. CASE ~ReqQueueRelease
    BY <2>2, OtherSteps DEF Completing, Quiet, SameMsgs
  <2> QED BY <2>1, <2>2
<1>6. Freed'
  BY <1>1, <1>5, FreedKept
<1> QED BY <1>3, <1>4, <1>6

\* The whole invariant.
Telling == Completing /\ Kinds /\ Freed /\ Told

\* The threads of a patient client keep it.
LEMMA ToldThread ==
  ASSUME Telling, Patient, Stays, NEW t \in Threads, ThreadStep(t) \/ ThreadDisturbed(t)
  PROVE  Kinds' /\ Freed' /\ Told'
<1> USE DEF Telling
<1>1. ~SuspendSpurious(t) /\ ~WaitSpurious(t)
  BY DEF Patient, Kinds, AtCompletion, SuspendSpurious, WaitSpurious
<1>2. ~WaitTimeout(t)
  BY DEF Kinds, AtCompletion, WaitTimeout
<1>3. CASE ThreadStep(t)
  BY <1>3, ToldSubmit, ToldReturn, ToldFinish, ToldWait DEF ThreadStep
<1>4. CASE ThreadDisturbed(t)
  BY <1>1, <1>2, <1>4, ToldSubmit DEF ThreadDisturbed
<1> QED BY <1>3, <1>4

\* In a patient client it holds in every state.
LEMMA TellingAlways ==
  ASSUME Patient
  PROVE  Spec => []Telling
<1>1. Init => Telling
  BY BaseInit, CallInit, NetInit, CountsInit, ToldInit DEF Core, Completing, Telling
<1>2. ASSUME Telling, [Next]_vars
      PROVE  Telling'
  <2>1. Completing'
    BY <1>2, CoreStep, CountsStep, ResultsStep DEF Completing, Telling
  <2>2. Stays
    BY <1>2, OverStays DEF Stays, Telling
  <2>3. Kinds' /\ Freed' /\ Told'
    BY <1>2, <2>2, ToldStart, ToldThread, ToldComplete, ToldSignal, ToldNotify, ToldOther
       DEF Telling, Next, Quiescent
  <2> QED BY <2>1, <2>3 DEF Telling
<1> QED BY <1>1, <1>2, PTL DEF Spec

\* For any patient client, whatever fails, the network thread touches a request
\* or a completion only while it is allocated, although the threads free both as
\* soon as aio_suspend and aio_wait_completion return.
THEOREM NoUseAfterFreeAlways ==
  ASSUME Patient
  PROVE  Spec => []NoUseAfterFree
<1>1. ASSUME Telling PROVE NoUseAfterFree
  <2> USE <1>1 DEF Telling, Completing, Core
  <2>1. ASSUME NEW r \in Requests, msg[r] # "none", result[r] = "none"
        PROVE  mem[r] = "live"
    BY <2>1 DEF BaseOK, MemTypes, Messages, MemFirst, Freed
  <2>2. \A r \in Requests : msg[r] \in {"queued", "wire"} => mem[r] = "live"
    BY <2>1 DEF Results
  <2>3. \A r \in nreq : ToComplete => mem[r] = "live"
    <3>1. ASSUME NEW r \in nreq, ToComplete
          PROVE  r \in Requests /\ msg[r] # "none" /\ result[r] = "none"
      BY <3>1 DEF BaseOK, NetTypes, Handled, Results, ToComplete
    <3> QED BY <2>1, <3>1
  <2>4. \A r \in nreq : Signaling => cmem[r] = "live"
    BY DEF BaseOK, NetTypes, MemTypes, Results, Freed, Over
  <2> QED BY <2>2, <2>3, <2>4 DEF NoUseAfterFree, ToComplete, Signaling
<1> QED BY <1>1, TellingAlways, PTL

\* For the same clients, aio_suspend and aio_suspendv return, other than with EAGAIN,
\* only when every request of the call is complete.
THEOREM SuspendTellsTruthAlways ==
  ASSUME Patient
  PROVE  Spec => []SuspendTellsTruth
<1>1. ASSUME Telling PROVE SuspendTellsTruth
  BY <1>1 DEF Telling, Told, Over, SuspendTellsTruth
<1> QED BY <1>1, TellingAlways, PTL

\* For the same clients, aio_wait_completion returns 0 only when the request is
\* complete and the application's callback is over: the network thread has left it.
THEOREM WaitTellsTruthAlways ==
  ASSUME Patient
  PROVE  Spec => []WaitTellsTruth
<1>1. ASSUME Telling PROVE WaitTellsTruth
  BY <1>1 DEF Telling, Told, Over, Signaling, WaitTellsTruth
<1> QED BY <1>1, TellingAlways, PTL
=============================================================================
