# TLA+ models and proofs of gobjfs

gobjfs is an object file system for SSDs: an asynchronous I/O engine on top of
Linux aio, a C/C++ file API, and a client and a server that carry reads over the
Accelio transport.  This directory holds TLA+ modules that model it, TLC
configurations that check them on small instances, and proofs of the main
invariants that TLAPS checks for every number of threads, jobs, connections,
requests, slots and descriptors, and every buffer.
`PROJECT.json` lists every component, run, property, theorem and hazard, and maps
each definition to the lines it models.

    tlc -workers 2 -config executor_requests.cfg MCIOExecutor
    tlapm IOExecutorProofs.tla

## 1. Inventory

| Part | Source | State | Operations | Hard because |
|---|---|---|---|---|
| I/O engine | `IOExecutor.cpp/.h`, `FilerJob`, `Executor.h` | request queue, fd queue, their size counters, the free contexts (an integer and a semaphore), `state_`, two job counters | `submitTask`, `ProcessRequestQueue`, `ProcessCompletions`, `ProcessCallbacks`, `ProcessFdQueue`, `stop` | client threads submit for each other under one mutex; counters updated apart from what they count; partial and fatal `io_submit`; shutdown |
| Synchronisation wrappers | `util/SemaphoreWrapper`, `ConditionWrapper.h`, `ShutdownNotifier`, `TimerNotifier` | semaphore value, waiters | pause, wakeup, send, recv | waits without predicates |
| File API | `gIOExecFile.cpp/.h` | handles of services, files and pipes; batches | init, open, read, write, delete, close, destroy, getstats | who closes a descriptor, who frees a batch, what one return code says of several fragments |
| Network client | `NetworkXioClient`, `gobjfs_client.cpp`, `context.h` | request slots, the queue of messages, eventfd, notifiers, completions | `aio_readv`, `aio_readcb`, `aio_suspend(v)`, `aio_wait_completion`, network loop, session events, `shutdown` | two threads own each request in turn; slots, timeouts, spurious wake-ups; disconnects |
| Network server | `NetworkXioServer`, `NetworkXioWorkQueue.h`, `NetworkXioIOHandler`, `gobjfs_server.cpp` | connections and their reference counts, work queue, thread pool, finished queue | session events, `on_request`, worker threads, completion threads, reply loop, `shutdown` | three kinds of threads hand a request on; the last reference frees the connection |
| EPoller | `util/EPoller.h`, `EventFD.h` | registered events, number of threads inside `run` | `run`, `addEvent`, `dropEvent`, `shutdown` | shutdown against threads that leave by themselves |
| Memory pools | `Mempool.cpp`, `gMempool.cpp` | free list, statistics | alloc, free | lock-free list |
| Statistics, OS utilities | `util/Stats.h`, `os_utils`, `CpuStats` | running mean, buckets | update, merge, round | edges: zero, limits of the types |
| Wire protocol | `NetworkXioProtocol.h`, the vendored msgpack | the parser's position, state and open containers | `pack_msg`, `unpack_msg`, `context::execute`, `push_item` | buffers cut at any byte; lengths, widths and signs at their limits; containers without bounds checks |
| Configuration, logging | `gparse`, `gobjfs_getenv.h` | none | parse | - |

How they interact.  An application calls the file API, which makes `FilerJob`s and
calls `submitTask(job, blocking)` of the executor chosen by a hash of the name.
The completion thread, or the fdQueue thread for deletes and unaligned writes,
writes the status of a job to the pipe (`IOExecEventFd`) its caller reads.  The
network server is such an application: a worker thread submits a read, a
completion thread per connection reads the pipe, and the network thread sends the
reply.  The network client talks to the server only through the transport; the
header of every request and reply is a `NetworkXioMsg` packed with msgpack.

What makes each part correct: the engine neither loses, duplicates nor invents a
report, a context or a queue element, and it stops when told to; the client
tells a caller that a request is complete only when it is, never touches what the
caller may have freed, and always wakes whom it must; the server frees a
connection once, after its last request, and answers every request it accepted;
the file API uses and closes a descriptor only while it stands for the file it was
opened for; a header that arrives whole is understood exactly and any other is
refused.

`PROJECT.json` lists under `hazards` the places of the code where these can go
wrong and a test would hardly show it.

## 2. Modules

| Module | Models |
|---|---|
| `IOService` | what the engine promises: a job is refused or accepted, an accepted job is reported once, and the engine closes when nothing is left |
| `IOExecutor` | the engine, all threads, and its refinement of `IOService` |
| `MCIOExecutor` | symmetry sets for TLC |
| `IOExecutorProofs`, `IOExecutorQueueProofs`, `IOExecutorServiceProofs` | theorems about `IOExecutor`; the last one that it implements `IOService` |
| `FileApi`, `MCFileApi` | the file API, composed with `IOService` |
| `FileApiProofs` | theorems about `FileApi` |
| `XioClient`, `MCXioClient` | the network client |
| `XioClientProofs`, `XioClientCallProofs` | theorems about `XioClient` |
| `XioServer`, `MCXioServer` | the network server |
| `XioServerProofs` | theorems about `XioServer` |
| `MsgPack`, `MsgPackObject` | the MessagePack packer, as functions from values to bytes; the second has the recursive packer of an object of any type, which `NetworkXioMsg` does not use |
| `MsgUnpack` | the MessagePack parser, one action per branch of its loop |
| `Wire`, `MCWire` | `NetworkXioMsg` over both |
| `WireProofs` | theorems about `MsgUnpack` and `Wire` |

### IOExecutor

Each thread has a label: `pc[t]` for client threads and the completion thread,
`fdPc` for the fdQueue thread, `stopPc` for the thread in `stop()`.  A step is one
access to shared state; consecutive accesses are merged only where no other thread
acts on the difference.  `doPostProcessingOfJob` is two steps, because a client can
read the status that `reset()` has written before `incrementOps` counts the job:
`PrqFail`, `Callback` and `FdConsume` write, `PrqFailCount`, `CallbackCount` and
`FdCounted` count.

| State | Code |
|---|---|
| `requestQueue`, `requestQueueSize`, `fdQueue`, `fdQueueSize` | the lock-free queues and their separate atomic counters |
| `numAvailable`, `ctxCond` | `FilerCtx::numAvailable_` and the semaphore of the same contexts |
| `mutex` | `submitterCond_.mutex_`, held during `ProcessRequestQueue` |
| `batch`, `toFail`, `failing`, `numTries` | locals of `ProcessRequestQueue`, which one thread runs at a time |
| `numQueued`, `numCompleted` | the statistics on which the completion thread decides to exit |
| `shutdown`, `events` | the shutdown eventfd and what `epoll_wait` returned |
| `loc`, `res`, `status` | where a job is, what the kernel said, what was written to its pipe |

`submitTask` is `CheckState`, then `Request*` or `Fd*` steps (`CheckRoom`, `Pause`
and `SpuriousWakeup` are the full-queue path).  `Prq*` is `ProcessRequestQueue`,
run by client threads and by the completion thread: wait for a context, collect
while there are contexts and requests, `io_submit` in rounds, fail what is left,
notify.  `EpollWait`, `WakeupEvent`, `CtxEvent`, `Callback*` are the completion
thread, `Fd*` of section ProcessFdQueue the fdQueue thread, `stop` and `Stop*` the
shutdown.  The kernel is external: `io_submit` takes all, some or none, or fails;
an accepted request completes in any order with any result of `IoResults`.

`Config::noSubmitterThread_` is true in every configuration the API can make, so
the separate submitter thread is not modelled.  Asserts are compiled out of the
default build and are therefore properties, not guards.  The API passes
`blocking = false` for reads and writes and `true` for deletes; `BlockingModes`
also lets requests block, as `submitTask` allows.

### XioClient

`pc[t]` is an application thread in `aio_readv`/`aio_read`/`aio_readcb` and the
wait that follows; `npc` is the network thread (`run`: inside
`xio_context_run_loop`; `drain`: sending; `complete`, `callback`, `signal`,
`notify`, `release`: completing one message; `bye`: the last loop after
`xio_disconnect`); `sdPc` is the thread in `shutdown()`.  `msg`, `mem` and `cmem`
say where the message is and whether the `aio_request` and the completion are
allocated; `group` and `count` are the notifier the requests of one call share.
The transport is external: it answers, reports an error, or delivers something
that cannot be unpacked; it may disconnect; `stopLoop` makes the current or the
next loop return.  `Faults` selects what may go wrong.  Each request is used once,
which bounds the model; two threads can still make several calls.

### XioServer

`npc` is the network thread (`create`/`created`: starting the pool; `run`: inside
`xio_context_run_loop`; `schedule`: between the two statements of `work_schedule`
that other threads can tell apart; `join`: in the destructor of a handler; `drain`:
sending replies; `exit`, `reset`, `exited`: the end of `run()`).  `wpc[w]` is a
worker thread, `hpc[c]` the completion thread of the handler of connection `c`,
`sdPc` the thread in `shutdown()`.

| State | Code |
|---|---|
| `conn`, `refcnt`, `doneReqs` | `NetworkXioClientData`: `ncd_disconnected`, `ncd_refcnt`, `ncd_done_reqs` |
| `live`, `owner` | the allocated `NetworkXioRequest`s and their `pClientData` |
| `inflight`, `finished`, `evfd` | the queues of the work queue and its eventfd |
| `nrThreads`, `nrQueued`, `recent` | `nr_threads_`, `nr_queued_work` (never decremented), `thread_life_period_` in the future |
| `pipe`, `hreq`, `hstop` | the event pipe of a handler, the request its thread finishes, its shutdown notifier |
| `io` | the reads the engine has accepted |

A request moves from `nreq` (network thread) to `inflight`, to `wreq` of a worker,
and either to `finished` at once or to `io`, `pipe`, `hreq` and `finished`; then to
`doneReqs` until the transport has sent the reply.  The transport completes the
replies of a connection in order (`OnMsgSendComplete`, `sent` replies to go), or drops
them: `run()` sets `on_msg_error` to NULL, so a reply that fails after it was handed
over is never heard of again, its request stays allocated and `ncd_refcnt` never
reaches 0 (`ReplyDropped`, `Dropped`).  What a request asks for is
abstracted to whether it is finished now or handed to the engine; an engine may
refuse any read.  When `run()` destroys the engine while as many reads are in it as
an executor has contexts (`EngineDepth`), `IOExecutor::stop()` can wait for ever, and
`run()` with it, under `mutex_` (`EngineStuck`, label `noContext`); otherwise the
engine ends.  `FreeRequest` frees the last request of a connection and the connection
in one step; the code deletes the connection first and the request right after it,
which nothing can observe.  Everything under `inflight_lock`, and likewise under
`finished_lock`, is one step.  Two things follow from the code and not from the
model: the pool created with several threads shrinks at once, because
`thread_life_period_` starts in the past, and a worker looks at `stopping` only
after a wait.  After `ContextReset` the code of `shutdown()` may use a context that
is gone (`shutdown_context`); the other runs follow the behaviours in which it
survives that.

### FileApi

The engine of this module is `IOService`, the abstract specification that
`IOExecutor` implements: `Engine!Call`, `Accept`, `Refuse`, `Report` and `Close`
are conjuncts of its actions.  What it adds is what the file API and the tail of
`doPostProcessingOfJob` share: the table of descriptors (`desc`), in which open()
takes the lowest free number, as the kernel does.

| State | Code |
|---|---|
| `hfd`, `hstate` | `IOExecFileInt::fd` and the life of the handle |
| `ev`, `evfd`, `pipe` | `IOExecEventFdInt`, its two descriptors and what the pipe holds |
| `bstate`, `tb`, `idx`, `retcode` | the batch of a call, and the locals of `IOExecFileOp` |
| `jfd`, `jclose`, `jstate` | `FilerJob::fd_`, `closeFileHandle_` and where the job is |
| `post` | the job each completion thread and each fdQueue thread is finishing (`Posters`; `Unaligned` writes and deletes are the fdQueue's) |

`MakeJob`, `SubmitTask`, `RefuseTask` and `SkipFragment` are the loop of
`IOExecFileOp`; `ForgetFd` and `ReadByNameReturns` are the end of a read by name,
two steps because the job may finish, close the descriptor and let another thread
reopen the number between them.  `Reset` writes the status and waits while the pipe
is full; `CloseJobFd` closes whatever the job's number stands for then.  The
application is external: it frees a batch when it has read the status of its
fragments, closes a handle when no job of it is outstanding, and destroys the
service when no call runs and no delete is under way.

### MsgPack, MsgUnpack, Wire

A 64-bit integer is its eight bytes, so that widths and signs are exact.
`MsgUnpack` follows `msgpack::detail::context`: `cs`, `trail` and `stack` are
`m_cs`, `m_trail` and `m_stack`, `off` is `m_current`, `len` the end of the bytes
there are.  `Header` is the branch on the selector, `Scalar`, `FixExt`, `Value`,
`BodyLength` and `Aggregate` are the branches after the trailing bytes, `Push*` are
the turns of the loop of `push_item`.  `unpack_imp` runs the parser once over the
buffer it is given, which may end anywhere; the resumable `unpacker`, which gobjfs
does not use, is not modelled.  `Wire` adds
`NetworkXioMsg`: eight fields packed as one array, and a conversion that stores the
fields one by one until one does not fit its type.

## 3. Runs

| Run | Instance | Result |
|---|---|---|
| `executor_requests` | 2 client threads, 3 requests, 1 context, a queue that is full with one request, blocking calls, retries until the tries run out, fairness | accounting of contexts, stack arrays never overrun, one report per job; every queued request is reported; `submitTask` returns or sleeps for room |
| `executor_failures` | 2 contexts, two rounds, every result of `io_submit` | sizes exact, no request stranded |
| `executor_stop` | 1 client thread, 2 requests on 2 contexts, a delete and an unaligned write, both queues full with one job, `stop()` at any moment its preconditions allow, fairness | the two job counters differ by the jobs in hand and the reports not yet counted; the refinement of `IOService`; every queued job is reported; `stop()` returns |
| `client_slots` | 2 threads, 3 requests, 1 slot, all calls, timed or not; failing sends, lost replies, timeouts, spurious wake-ups | slots exact and bounded, each request completes once |
| `client_calls` | 2 threads, 2 requests, 1 slot, waits without timeout; failing sends, message errors, disconnect, `shutdown()`, fairness | nothing used after it is freed, the waits tell the truth, calls return, queued messages are dealt with, `shutdown()` returns |
| `server_requests` | 2 connections, 3 requests, a pool of at most 2 threads created with 2; failing sends, dropped replies, handlers without pipe or thread, spurious wake-ups | each request has one holder, reference counts exact, a connection outlives its requests and its thread, the pool keeps a thread |
| `server_stop` | 2 connections, 2 requests, 2 threads, 2 contexts in the engine, dropped replies, `shutdown()` at any moment, fairness | accepted requests end and lost connections are freed unless `shutdown()` is called or the transport drops a reply of the connection; `shutdown()` returns unless every context is taken when the engine is stopped |
| `file_api` | 2 threads, 2 handles, 4 descriptors, a batch of three fragments (one empty, one unaligned), a read by name, a delete, 2 executors with two threads each, a pipe for one status, fairness | descriptors are what their users think they are, each is closed by one party, batches live long enough, every accepted job is heard of, the service ends |
| `wire` | headers with each field at the limits of its encodings, other objects of every type and form, cut at every byte, fairness | the parser stays within its bytes and its containers, parses exactly what was packed, messages survive the round trip, a cut or foreign header is refused, `opcode_` and `errval_` fit their 32 bits, every call returns |
| `exit_with_submitter` | `stop()` during `submitTask` | violated: the completion thread exits with an accepted job outstanding |
| `fatal_submit` | `io_submit` fails for good | violated: the rest of the batch is reported and deleted twice |
| `shutdown_context` | server `shutdown()` while a reply is being sent | violated: the network thread destroys the context `shutdown()` uses next |

The violated runs are disagreements between the code and what its comments, asserts
or headers say; `findings` quotes them.

`StopRequires` names what the caller of `stop()` has to wait for so that it works:
no thread inside `submitTask`, an idle fdQueue, a free context.  The code asks for
none of them; `executor_stop` shows that the three together are enough, and
`exit_with_submitter` that the first is needed.  Without the second (a delete and
`StopRequires` without `fdIdle`) the fdQueue thread leaves with the delete still
queued, and `stop()` waits for it for ever.  Without the third (one request, `Depth`
1 and `StopRequires` without `ctxFree`) the completion thread waits for a context
that only it could return.

More facts of the code lie outside what the passing runs establish.

- A blocking `submitTask` that found its queue full sleeps on a condition variable
  without a predicate, after a test of the size without the lock
  (`IOExecutor.cpp:650` and `:682`).  The notification may be over by then, and if no
  later job leaves the queue the thread sleeps for ever.  The model has this
  behaviour, and no property excludes it: `SubmitReturns` lets a call end in that
  sleep, since no line of the repository promises the wake-up.
- After a short `pwrite` the fdQueue thread reports `-errno` although no call has
  failed, which can be 0 (`FdRetcodes`); no property says what it should report.
- After a partial `io_submit` the engine gives back contexts the kernel still uses.
  `CtxAccounting` is checked and proved for whole submissions; `executor_failures`
  has partial and fatal ones and checks the queues alone.
- A reply the transport drops keeps its request and its connection allocated for
  ever, and a server whose engine is stopped with every context taken never returns
  from `shutdown()`: the exceptions in the three properties of `server_stop` are
  these.
- A timed `aio_wait_completion` that gives up leaves `_on_wait` set, so that the next
  one on the same completion returns 0 at once with the request still in flight;
  `client_calls` waits without a timeout.
- A read by name whose batch has two fragments with data hands one descriptor to two
  jobs, each of which closes it, and one whose fragments are all empty leaves the
  descriptor to nobody; `file_api` reads by name with one fragment that has data, as
  the network server does.

Bounds.  One context, two threads and three requests are the smallest case in which a
thread finds another's requests in front of its own, contexts run out inside a batch,
and a thread needs the mutex while its holder waits for a context; two
contexts are needed for partial submissions and for stopping with I/O in flight.  The
fdQueue, which shares only the job counters with the requests, is left to
`executor_failures` and `executor_stop`, so no run has two client threads and a full
fdQueue; the theorems do.
`MaxRequestQueueSize` 0 or 1 makes the limit bind at once; one or two rounds of
`io_submit` stand for five.  One slot and two threads are the smallest case in
which `nr_req_queue` becomes negative.  `client_slots` turns the deadlock check off
because a lost reply leaves a wait without timeout waiting for ever, as in the
code.  In `client_calls` the number of threads that wait for a slot never exceeds
the slots: more could keep the count negative by themselves until their 60 seconds
are over, and a later thread is then refused although nothing is in flight.  Two
workers and two requests are the smallest case in which the server's pool both
shrinks and grows again; two connections let one be freed while the other is busy.
Four descriptors are two for the pipe and two for files: every `open()` after a
`close()` reuses a number.  A pipe for one status makes both executors wait for the
application.  The inputs of `wire` are the limits of the packer's tests (2^5, 2^7,
2^8, 2^15, 2^16, 2^31, 2^32, 2^63, and one less), names of 1, 31, 32, 255 and 256
bytes, and containers of 0 to 16 items on both sides of the short form, nested up
to four deep.
`RequestsEnd` and `DisconnectedIsFreed` except a server that is shutting down: the
code loses what is queued then.

Fairness is weak throughout: a thread that can go on does (the scheduler), the
kernel completes what it accepted, the transport answers or reports an error for
what was sent (the server's transport may drop a reply instead), `shutdown` and `stop`
go on once called, a call of the parser runs
until it returns, and the application that uses the file API keeps reading its pipe
(one that does not stops the executor, as in the code).  Nothing is assumed about
whether clients call, the peer disconnects, a timer fires or a wait times out.

Every property has a mutant in `PROJECT.json`: a faulty variant of a definition,
written just before it in the module, that makes the run fail.

## 4. Proofs

The theorems about `IOExecutor` hold of its `Spec` for every finite set of threads
and jobs and every depth, limit and number of rounds, with or without `stop()` at
any moment; those about `XioServer` for every finite set of connections, requests
and workers, every size of the pool, every choice of faults, with or without
`shutdown()`; those about `XioClient` for every finite set of threads and requests,
every depth of the request queue, every kind of call, with or without `shutdown()`,
a disconnect or any other fault; those about `FileApi` for any sets of threads,
handles, batches of any shape, deletes and executors, and every number of descriptors
and size of the pipe; those about `MsgUnpack` and `Wire` for every set of buffers,
and every cut.  The constants' assumptions are
`ClientAssumption`, `ServerAssumption`, `ApiAssumption`, `FragmentAssumption`,
`InputAssumption` and those of `IOExecutor`; TLC evaluates them in every run.

| Theorem | States |
|---|---|
| `TypeCorrect` | `[]TypeOK` |
| `ReportedOnceCorrect` | `[]ReportedOnce`: a job is reported at most once, exactly when the engine lets go of it |
| `CtxAccountingCorrect` | `[]CtxAccounting`: the two counts of free contexts are exact up to the step under way |
| `CtxBoundsCorrect` | `[]CtxBounds`: the asserts of `FilerCtx` |
| `BatchFitsCorrect` | `[]BatchFits`: the stack arrays of `ProcessRequestQueue` are never overrun |
| `SizesExactCorrect` | `[]SizesExact`: the queue sizes are exact up to the threads between a count and its push |
| `NoStrandedRequestCorrect` | `[]NoStrandedRequest`: every queued request has a thread bound to take one |
| `ServiceImplemented` | `ImplementsService`: the engine refines `IOService` |
| `CountsExactCorrect` | `[]CountsExact`: `numQueued_` and `numCompleted_` differ by the jobs in the engine's hands and the reports not counted yet |
| `RequestsOwnedOnce` | `[]OwnedOnce`: a request of the server is with one thread, queue or engine while it is allocated, and with none after |
| `RefcountIsExact` | `[]RefcountExact`: `ncd_refcnt` is the number of the connection's allocated requests |
| `ConnectionOutlivesRequests` | `[]ConnectionOutlives`: a connection is freed after its last request and its thread |
| `PoolIsExact` | `[]PoolExact`: `nr_threads_` is the number of threads and the pool keeps one |
| `ServerTypes` | `[]TypeOK` of the server; neither counter goes below zero |
| `SlotsExactAlways` | `[]SlotsExact`: `nr_req_queue` is the depth less the requests in flight, the threads that wait for a slot and the slots lost by those that gave up |
| `InFlightBoundedAlways` | `[]InFlightBounded`: no more requests are in flight than the depth |
| `CompletesOnceAlways` | `[]CompletesOnce`: a request that is completed has no result yet and its notifier still waits for it |
| `ClientTypes` | `[]TypeOK` of the client; no notifier counts below zero |
| `NoUseAfterFreeAlways` | `[]NoUseAfterFree`: the network thread touches a request or a completion only while it is allocated |
| `SuspendTellsTruthAlways` | `[]SuspendTellsTruth`: `aio_suspend` and `aio_suspendv` return only when every request of the call is complete |
| `WaitTellsTruthAlways` | `[]WaitTellsTruth`: `aio_wait_completion` returns 0 only when the request is complete and the callback is over |
| `TypesAlways` | `[]TypeOK` of the file API; no job is made with `FD_INVALID` |
| `BatchLiveAlways` | `[]BatchLive`: no batch is freed while the loop of `IOExecFileOp` reads it or a job has a buffer of it |
| `DescriptorsHeldAlways` | `[]DescriptorsHeld`: whoever uses a descriptor number finds the file it was opened for |
| `ClosedByOneAlways` | `[]ClosedByOne`: one party is left to close the descriptor of every open file |
| `ApiUsesService` | `[]EngineReady`: the file API never asks of the engine what `IOService` does not grant: a job it makes is new, one it submits is its own and the engine is not closed, one that is reported was accepted |
| `ParserStaysWithinBytes` | `[]WithinBytes`: the parser never passes the bytes it was given |
| `ContainersHaveRoom` | `[]RoomForItem`: a container has room for every item it waits for |
| `UnpackedFieldsInRange` | `[]FieldsInRange`: `opcode_` and `errval_` of a message that is accepted fit 32 bits |

### The engine

All but `TypeCorrect` assume `Reliable`: `io_submit` takes the whole batch or asks for
a retry.  The assumption is necessary: with a partial or a fatal result the code
breaks `ReportedOnce` (`fatal_submit`) and `CtxBounds`.

The argument.  `TypeInv` adds to `TypeOK` that a thread inside `submitTask` has a
job.  None of the properties is inductive by itself, because each depends on which
thread is where and on where each job is.  `Coherent` says this: `LockInv` (the
labels of `ProcessRequestQueue` belong to the holder of the mutex), `HeldInv` (a
job being submitted is with one thread), `QueueInv` (the queues hold each queued
job once), `BatchInv` (the locals of `ProcessRequestQueue` are the jobs at
`batch`), and the reports.  On top of it `CtxInv` (with `numAvailable >= 0`),
`RqSizeInv` and `FdSizeInv` count, with `FiniteSetTheorems` for the cardinalities,
and `TurnInv` gives `NoStrandedRequest`: the mutex holder that has collected
nothing yet is still committed, and it stops collecting only when the queue is
empty or contexts are out, in which case the threads that pushed the remaining
requests are still waiting for the mutex.  Each step lemma has one case per
action; actions that leave the relevant state alone go through frame lemmas
(`StillCtx`, `StillRq`, `StillTurn`, `HopCoherent`).

`ServiceImplemented` also assumes `Orderly`: `stop()` is called when no thread is
inside `submitTask`.  Without it the completion thread may exit between a thread's
check of `state_` and its count of the job (`exit_with_submitter`).  The two other
preconditions of the run `executor_stop`, an idle fdQueue and a free context, are
needed for `stop()` to return and not for the refinement.  The argument first puts
every step into one of eight forms (`StepForms`): for a client of the engine nothing
happens, a job is called, refused, accepted, counted, pushed or reported, or the
completion thread exits.  `ServiceInv` is inductive with `Coherent`: `CountInv` says
that `numQueued_` is the number of reports, counted in `numCompleted_` or still to be
counted by the thread that made them, and of jobs taken and not reported; `QuietInv` that no thread is past the check of `state_` once `stop()` has
begun; `ExitInv` that nothing is counted after the completion thread has exited.
`CountInv` is why comparing two statistics is a sound test for being done, and
`QuietInv` why it stays sound.  `Refines` then maps each form to its step of
`IOService` or to none; what closes the engine is exactly the exit of the completion
thread.  `IOService` states no fairness, so this is the whole refinement.

`CountsExactCorrect` is `CountInv` alone, which is inductive with `Coherent` and does
not need `Orderly`: the counts stay exact whenever `stop()` is called.

### The server

A request changes hands without a lock of its own, so no property of it is
inductive alone.  `BaseOK` gives the types with the counters only known to be
integers, and `Control` ties labels to requests: a worker has a request exactly
while it processes one, and likewise the handler's thread and the network thread.
`Held` is the heart of it.  `Place(r, k)` numbers the eight places a request can be
in; `Placed` says that an allocated request is in exactly one and a freed one in
none, and `Once` that no queue has it twice, no two workers share it and a
connection's queues hold only its own requests.  Each action that moves a request
is an instance of `Move`, `Enter` or `Leave`; `Elsewhere` shows that nothing else
has moved.  `HoldersCounted` turns places into the cardinality of `OwnedOnce`.
`Counted` adds to `RefcountExact` that a freed connection has a count of zero and
no thread, which is what `ConnectionOutlives` needs; it uses `Held`, because the
count must drop for the right connection.  `PoolExact` is inductive by itself;
`Starting` is needed only to bound `nrThreads` while the pool is created.

### The client

A request belongs to its thread until it is pushed, to the network thread until it
completes, and to its thread again.  `Core` says so for every request at once.
`BaseOK` is the types; `Calling` says that the calls of the threads are disjoint,
that the requests of a call share one notifier and which of them are still to be
submitted; `Messages` which requests have memory and which a message; `Queue` that
`inflight_reqs` holds each queued message once; `Handled` which message the network
thread has, and that of a request that could not be sent the message is gone before
the request completes.  An action disturbs few of these, and frame lemmas
(`CallingFrame` and its like) carry the rest.

With `Core`, `SlotsExact` and `InFlightBounded` are inductive together: each slot
changes hands by adding or removing one element of `InFlight`, `Waiting` or
`GivenUp`.  For `CompletesOnce` the notifier has to be counted: `Counts` says that
`count` is the number of the requests of the group without a result, `Results` that
a request with a message the network thread has not completed has none.

What a thread is told rests on `Told`: a thread past its wait has only requests that
are over, a completion is signaled only when its request is, and a thread that found
`_on_wait` set by the other party may go on.  `Freed` says that what is freed is
over, `Kinds` that completions belong to the calls that have one.  `NoUseAfterFree`
and both truths follow.  These three theorems assume `Patient`: no timeouts except in
`aio_suspend` of a single read, and no spurious wake-ups in the waits that have a
timeout or are for a completion (the others look again).  The assumption is
necessary.  A spurious wake-up of a timed `aio_suspend`, or of an
`aio_wait_completion` without timeout, is taken for the end of the request, because
neither looks again at what it waits for; a timed `aio_suspendv` that gives up
returns the error of one failed request while others are in flight; and a timed
`aio_wait_completion` that gives up lets the next one return at once.  In each case
the caller frees requests that the network thread still completes.

### The file API

`Core` is inductive.  `Calls` says what the label of a thread tells of its handle, its
batch and its job; `Alone` that no two calls share a batch, nor the handle of a read by
name; `Ahead` that the fragments in front of a thread are new; `Stages` how far a job is
in the executor and what has been read of it; `Made` which handle, descriptor and batch
a job was made for, and that a freed batch has all its statuses read.  `OneDelete` and
`Opened` are the small facts that these need.  `TypesAlways` and `BatchLiveAlways`
follow from `Core` alone; `ApiUsesService` adds `Ended`, that a service being destroyed
has no call in it and a closed engine no accepted job.  Each action is first described point by
point (`SubmitEffect` and its like: which function changes where, with `Now` and
`Shut`), and the steps of every invariant use these descriptions.

`BatchLiveAlways` assumes `EndsWithData`: the last fragment of every batch has data.
The assumption is necessary.  The loop of `IOExecFileOp` still looks at an empty
fragment behind the last job, and by then the application may have read every status
and freed the batch; with the batch `<<f1, Empty>>` TLC finds `BatchLive` violated.

Who closes a descriptor is decided by what `submitTask` returned to a read by name, a
moment after the job may have closed it, and neither property is inductive with `Core`
alone.  `Ownership` says how both sides agree.  `ReadsByName`: the handle of a read by
name has only the job of its batch.  `Told`: `retcode` is "0"
exactly when that job has been accepted, so the handle forgets its number exactly when
the job closes it.  `Shared`: a job that leaves the closing to its handle has the
handle's descriptor, and the handle is open until the application has read its status.  `Owned`: `Keeps(h)` and `Closes(j)` each have a
number that stands for their file, and every open file has one of them; with
`ReadsByName`, never both.  `DescriptorsHeldAlways` and `ClosedByOneAlways` read this
off.  They assume `OneFragment`: a batch read by name has one fragment with data, as
those of the network server have.  The assumption is necessary.  With two, each job
closes the descriptor, and TLC finds `DescriptorsHeld` violated; with none, nobody
does.  `MCFileApi` assumes both conditions, so TLC checks that the instance of the run
meets them.

### The parser and the message

`ParseInv` is `ParseTypeOK`, `WithinBytes`, `RoomForItem` and `LengthBytes`: a state
that waits for a length waits for one, two or four bytes, without which the length
would not be known to be a number.  `Tables` checks the two tables of selectors
against each other, `LoadNat` the lengths.

`FieldsInv` adds to `FieldsInRange` that the message is as it was constructed until it
is converted, and that the range holds after a conversion that failed half way, too;
`ConvertedFits` is what the tests of `convert_integer` amount to, `NoopFits` covers a
header with fewer fields than the message has.

### Only proved

The types of the engine, the server and the parser, which no run checks separately;
`CtxBounds` and `EngineReady`.

### Only model-checked

Liveness (fairness and `ENABLED` are out of the prover's reach); `ParsedExactly` and
`MsgRoundTrip` (what the packer and the parser compute is an induction over data); what
holds under partial and fatal submissions.

## 5. Not modelled

EPoller (`EPoller.h`) is included by no source file, test or benchmark, so no
program reaches a state of it.  The memory pools are `posix_memalign` and a
lock-free queue of boost: what is hard there is in the library.  Statistics are
floating-point averages; configuration and logging are boost and glog; the
benchmarks and examples drive the API.

Most of the lines of the repository are the vendored msgpack: headers that a script
generates for every number of template arguments, adaptors for containers the
protocol does not use, a second library in C, and copies of boost's preprocessor
and predef.
gobjfs itself is about 12 000 of the 90 000 lines.  Of the library, only packing a
`NetworkXioMsg` and parsing one buffer are modelled.  The parser reads any header, so
its branches for binary, extension and map objects are there although no message of
gobjfs has one, and the packers of those objects only make inputs for it.  The map
covers a few per cent of all the lines: the rest of the library has no behaviour in
this system.

In the engine: `execute()`, the submitter thread, CPU affinity and the statistics
other than the two counters.  `Executor::state_` is a plain variable written and
read by several threads; the model lets every read see the last write.  In
`IOExecutor` the pipe to the client has unlimited room; `FileApi` gives it a limit.

In the file API: the creation of the service, truncation and synchronous deletion
(one system call each), `IOExecGetStats`, and a `pipe()` that fails, after which the
code closes two descriptors that were never set.

In the wire protocol: the getters and setters, `clear()` (no caller), conversions of
floats, and `unpack_limit`, whose defaults are the largest values of the fields they
limit.

In the client: the creation of contexts and the statistics.  In the server: the
buffers of the memory pool (which `run()` releases before the engine has stopped),
failures to allocate a connection or a thread, exceptions of `run()` before its loop
(`gobjfs_xio_server_start` then waits for ever), replies that the transport
completes out of order (`on_msg_send_complete` takes the oldest), and reads of size
0, for which the engine makes no job.  After `shutdown()` the handlers of
connections that were never closed still hold the server's eventfd.

## 6. What could follow

1. Client, transport and server end to end against an abstract specification of a
   read.
2. What a batch with a handle may conclude from the one return code of its fragments.
