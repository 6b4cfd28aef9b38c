# Ice and IceStorm: a TLA+ verification project

This directory specifies and checks the concurrent core of two programs of the
repository. The first is the Ice run time (`cpp/src/Ice`): the thread pool that
runs everything, and the path of an invocation through proxies, request
handlers, connections and the retry queue. The second is IceStorm
(`cpp/src/IceStorm`), the replicated publish/subscribe service: a monitor shared
by publishers, callbacks and timers; a leader election; and a database whose
winner is decided by a logical time stamp. They are where the hardest control
of the repository is: threads that hand leadership to each other, both ends of
a connection that close at once, requests that are repeated only if that cannot
run them twice, replicas that crash. File names below are relative to those two
directories.

## 1. Inventory

| Component | State it keeps | Operations | Talks to | What is hard |
|---|---|---|---|---|
| Subscriber (`Subscriber.cpp`) | event queue, count of outstanding requests, online/offline/error/reaped state, retry count | `queue`, `flush` of five kinds, `sent`/`completed`/`exception` callbacks, `doFlush`, `error`, `reap`, `resetIfReaped`, `shutdown` | called by topics, the Ice run time and the batch timer | callbacks in any order with new publications, synchronous sends, late failures, a monitor wait that must be notified |
| Topic, publication (`TopicI.cpp`) | list of subscribers, cached-read lock | `publish`, `reap` | subscribers; the master replica | `queue` and `reap` are two critical sections |
| Election (`NodeI.cpp`) | state, coordinator, group, members, `_max`, generation, update counter, five timer tasks | `check`, `merge`, `mergeContinue`, `timeout`, `invitation`, `accept`, `ready`, `recovery`, `startUpdate`, `updateMaster`, `startObserverUpdate` | the other nodes (oneway and twoway calls), topic manager, observers | the lock is released around every call; invitations are forwarded, duplicated, late; tasks of an old election fire in a new one |
| Replicated topics (`TopicManagerI.cpp`, `TopicI.cpp`) | database of topics and subscribers, its in-memory copy, last log update (LLU) | `create`, `destroy`, `subscribeAndGetPublisher`, `unsubscribe`, `link`, `unlink`, `reap`, their observer counterparts, `observerInit`, `initMaster`, `sync` | observers, election | updates of different topics run concurrently; a slave may be initialized twice; crash between commit and replication |
| Observers (`Observers.cpp`) | proxies of the slaves that follow this master | `init`, the four update calls, `wait`, `check` | the slaves | one of several calls fails |
| Thread pool (`ThreadPool.cpp`, `Selector.cpp`) | threads, the leader, counts of busy threads, list of selected handlers, work queue | `run`, `ioCompleted`, `promoteFollower`, `followerWait`, `dispatch`, `update`, `finish`, `destroy` | connections (event handlers), the application | leadership given in three places, raw pointers of an old select, growing against shrinking, destruction while threads sleep or join |
| Connection (`ConnectionI.cpp`) | `_state`, `_exception`, send queue, requests waiting for a reply, dispatch count | `sendAsyncRequest`, `message`, `parseMessage`, `sendResponse`, `close`, `monitor`, `timedOut`, `asyncRequestCanceled`, `finish` | its peer, the thread pool, invocations | both ends close at once, partial writes, replies and closures that cross, closures that wait for dispatches |
| Invocation and retry (`OutgoingAsync.cpp`, `Proxy.cpp`, `ProxyFactory.cpp`, `RetryQueue.cpp`) | handler, `_sent`, retry count, cancellation handler | `invokeImpl`, `exception`, `response`, `retry`, `cancel` | request handlers, connections, the timer | the retry decision rests on what the connection recorded; cancellation races with every move of the request |
| Request handlers (`ConnectRequestHandler.cpp`, `ConnectionRequestHandler.cpp`, `RequestHandlerFactory.cpp`) | queue of requests, the connection, `_exception` | `sendAsyncRequest`, `setConnection`, `setException`, `flushRequests` | proxies, factory, connection | a flush that finds the connection closing; threads that wait for the flush |
| Transient topics | list of subscribers | as topics, without replication | subscribers | as topics |
| Service, Instance, Admin, IceStormDB | wiring | start, stop, command line | all | little |

The rest of the repository (object adapters, references and locators, IceGrid,
Glacier2, IceDiscovery, IceBox, IceBridge, the transports, the Slice compilers
and the other language mappings) is listed in `PROJECT.json` under `components`,
each with the reason it is not modelled.

How the parts meet. A thread of the pool runs `ConnectionI::message()` and calls
`ioCompleted()` when its IO is done: `ThreadPool` models that contract from the
side of the pool, for handlers of which only the IO and the life time matter;
`Invocation` models it from the side of the connection, whose sections are
atomic because the connection is locked and which may run in any order because
the pool has several threads. IceStorm sees invocations through their callbacks:
a call succeeds, fails before or after it was executed, or is late, which is
what `Call` allows.

What makes each component correct:

* **Thread pool** - one leader at most, busy threads counted exactly, a handler
  served by one thread at a time when it must be, no use of a finished handler,
  never a pool that nobody leads while there is something to select, every work
  item and all data served, destruction ends.
* **Invocation** - a call completes once and does complete, returns a result only
  if a servant ran it, a call that is not idempotent runs at most once, a request
  is always with exactly one party that will complete it, a graceful closure
  loses no dispatched request and ends on both sides.
* **Subscriber** - no window slot is leaked or freed twice, no queued event is
  forgotten, events keep their order, an offline subscriber keeps no stale
  events, the queue limit holds, the assertions in the code hold, one thread
  reports a failed subscriber, shutdown returns.
* **Election** - a group has one coordinator, a group serves only after all
  nodes have once met, the membership does not change under an update, a node
  whose coordinator is gone leaves, elections end.
* **Replication** - disk and memory of a slave agree, a slave has what its
  master has, what a client was told is there survives an election, the
  database is well formed.

`PROJECT.json` lists the hazards, each at its line, with the properties that
would notice.

## 2. Modules

| Module | Contents |
|---|---|
| `ThreadPool` | one pool, its selector, its handlers and the application's calls |
| `Call` | the abstract specification of invocations as their caller sees them |
| `Invocation` | calls through one proxy: invocations, retry queue, request handlers, connections with both ends, cancellation; implements `Call` |
| `Subscriber` | one subscriber of any kind, its publishers, callbacks, timer and shutdown |
| `SubscriberProofs` | proofs about `Subscriber`: types, the window, the queue, the reaping and the shutdown |
| `Election` | N `NodeI` objects, their threads and messages |
| `Replication` | N replicas: database, memory, stamps, updates in progress, observers |
| `ThreadPoolProofs`, `ThreadPoolHandlerProofs` | proofs about `ThreadPool`: threads, lead and counts; handlers and work items |
| `InvocationProofs`, `InvocationCallProofs` | proofs about `Invocation`: who owns a call; what a servant may be asked, and the refinement of `Call` |
| `ElectionProofs` | proofs about `Election` |
| `ReplicationProofs`, `ReplicationMirrorProofs` | proofs about `Replication`: disk and memory, types and bounds; what a slave has and its master has |
| `MCThreadPool`, `MCInvocation`, `MCSubscriber`, `MCElection`, `MCReplication` | model values, instances and symmetry sets for TLC |

An operator introduced by a comment that begins with "Mutant" is a plausible
mistake; it is defined just before the operator it imitates and is used
nowhere. `PROJECT.json` pairs each property with such a mistake, and TLC finds
the property violated when the one replaces the other.

### ThreadPool

The epoll build (Linux) is modelled. Each section that holds the pool's mutex is
one action, and so are a call of `select()`, the IO of a handler and the code of
the application, between which all threads interleave:

* the loop of `run()`: `GetNextHandler` (take the next selected handler, or
  promote and become a follower), `Follow`, `FollowerWait`, `Shrink` and
  `TimedOutWanted` (the idle time-out of a follower), `Select`, `SelectTimesOut`,
  `FinishSelect`, `MessageDone`, `Die` and `Exit`;
* the handlers: `Message` (IO of a connection), `IoCompleted` (which may grow
  the pool and hands on the leadership), `TakeItem` and the `Execute...` actions of
  the work queue, `UserReturn`;
* calls from outside: `Dispatch`, `Update`, `Finish`, `Destroy`; `Arrive` is data
  from the peer.

`ioCompleted` is merged with the end of the IO: both run under the lock of the
connection. Variables carry the names of the members (`promote`, `inUse`,
`inUseIO`, `handlers` from `_nextHandler` on, `ready`, `selectNow`,
`interrupted`). A notification is the choice of a waiting thread to wake up;
which one is not determined. `Destroy` happens once all handlers are finished,
as `Instance::destroy()` arranges by waiting for the connections first. A thread
identity is free again once its thread was joined. One configuration is a
record (sizes, `Serialize`, `ThreadIdleTime`, `ServerIdleTime`, and whether the
system may refuse a thread) chosen in `Init`.

Abstracted: one socket operation (Read) per handler; thread priorities,
warnings, observers; the order in which epoll reports handlers is any order.

### Invocation and Call

`Call` says what an invocation promises: it begins once, ends once, returns only
if a servant ran it, and is run at most once unless it is idempotent. A call that
failed or was canceled may still run later. `Invocation` implements it
(`CallRefined`): `status` is mapped from `phase`, `runs` counts the connections over
which a servant was given the request.

An action of `Invocation` is what a thread does while it holds the lock of the
connection, of the connect request handler or of the retry queue. Variables:
per call `phase`, `handler`, `sent` (`_sent`), `cnt` (`_cnt`), `canceler`
(`_cancellationHandler`) and `cancel` (how far `cancel()` is); per proxy `rh`
(`_requestHandler`); the factory's `_handlers`; per connection the progress and
the queue of its connect request handler, and for each end `state`, `out`
(`_sendStreams`), `async` (`_asyncRequests`), `disp` (what `_dispatchCount` counts),
`shut` (`_shutdownInitiated`); `wire` is what is in flight.

* the invocation: `Invoke`, `GetRequestHandler`, then one action per outcome of
  `sendAsyncRequest()`: `SendQueued`, `Send`, `SendRetried`, `SendRefused`,
  `SendCanceled`. `InvokeException` and `NotifyException` are the two ways a
  failure comes back, in the loop of `invokeImpl()` and through `exception()`;
  both decide with `Retries`;
* the connect request handler: `ConnectDone`, `ConnectFailed`, `FlushNext`,
  `FlushDone`;
* a connection end: `WriteReady`, `WriteLost`, `ReadLost`, `ReceiveRequest`,
  `ReceiveReply`, `ReceiveClose`, `DispatchDone`, `Finish`; closures:
  `CloseGracefully`, `CloseIdle`, `CloseForcefully`, `TimedOut`;
* the retry queue: `RunRetry`, `RemoveRetry`; one task runs at a time because the
  timer has one thread;
* cancellation: `Cancel` reads the handler, `CancelRequest` calls it later, with the
  cases `CancelQueued`, `CancelHeld`, `CancelRetry`, `CancelIgnored`.

Abstracted: a request handler is identified with its connection (a connect
handler is replaced by the connection handler when it is `up`); a message is
read whole; a write stops at the end of a message, or in it, which is the same
as not having written it; what a socket has not read is lost when it is closed;
the exception of a server end is not kept, because nothing reads it; the reuse
of an active connection by a new handler is atomic. `BothReady` says whether one
select may report a socket writable and readable at once (see the findings).

### Subscriber

Every public operation of a subscriber holds its monitor throughout, so each
is one action; the interleavings are those between operations. Variables carry
the names of the members (`state`, `events`, `outstanding`, `currentRetry`,
`shutdown`), plus: `due` (whether `_next` has passed), `inflight` (requests the
run time owes a callback), `flushTask` (a batch flush is scheduled), `waiter`
(the thread in `shutdown()`), `pc` (a publisher between `queue()` and `reap()`).
An event is the number of its publication.

* `queue()` is four actions, by outcome: `QueueAccept`, `QueueFull`,
  `QueueDiscard`, `QueueError`. A call with k events against the queue limit is
  resolved in one step, with both overflow policies (`Enqueued`, `Overflow`).
* `flush()` is one operator per class (`FlushOneway`, `FlushTwoway`,
  `FlushBatch`, `FlushLink`). A oneway request that is written at once takes
  no slot; which are is a choice.
* `error()` is the operator `error(hard)`, with the retry rule (`MayRetry`),
  the discard interval (`WithinInterval`) and the notification.
* A failed request is `Exception`; it frees its slot or not as the callbacks of
  each class do (`ExceptionDecrements`).

Abstracted: the QoS dictionary (its outcome is the kind and `RetryCount`), the
proxy given to the publisher, instrumentation. The clock is reduced to `due`,
which `Expire` sets at any time.

### Election

One record per node holds the members of `NodeI` and, for each of its threads,
where it is. An action is one critical section of the node's monitor, or one
remote call executed at the other node:

* timer thread: `CheckStart`, `CheckCall`, `CheckEnd`, `MergeFires`,
  `MergeBegins`, `MergeResumes`, `MergeContinues`, `Sync`, `InitMaster`,
  `CallReady`, `MasterReady`, `TimeoutStart`, `TimeoutCall`, `TimeoutRecovers`.
  The timer runs one task at a time (`Ice/Timer.cpp`). Taking a task off the
  queue and its first critical section are one step, except for `merge()`,
  which `recovery()` may cancel in between;
* dispatch threads: `Invitation`, `InvitationResumes`, `Reorganizes`,
  `AcceptFailed`, `Accept`, and `ready()` executed inside `CallReady`;
* client threads: `StartUpdate`, `FinishUpdate`, `ObserverUpdate`,
  `MajorityLost`, `Forward`, `ForwardFails`;
* `RecoveryResumes` for the threads that wait in `recovery()`, and `Restart`.

Invitations and accepts are oneway: they arrive in any order, late, or not at
all. Invitations are also forwarded. A twoway call that fails may have been
executed. The code's assertions do not stop the model: it describes the build
without them, in which the program goes on.

Abstracted: the name of a group is the number of the merge that created it and
the private group of a recovery is 0, because no other node can know its name;
a generation is identified with its group; the counters that only end a wait
early are left out; `destroy()` is not modelled.

### Replication

One record per replica holds the database (a set of keys: a placeholder per
topic, and one key per subscriber), the memory, the stamp, the observers, and
the updates in progress. A client update is `Enter` (the object of the topic
is found, `startUpdate()` succeeds), `Commit` (under the lock of the topic or,
for `create`, of the topic manager), `Send` (the observers are locked), one
`Reply` per observer and `Finish`. The steps of different updates interleave as
far as those locks allow. A subscribe whose topic was destroyed while it waited
for the lock carries a `dead` flag and changes the database, as the code does.

Elections are module Election reduced to who joins whom: `Elect` takes a
majority into a new group in one step, `SyncAndInit` is the data part of
`mergeContinue()` with `initMaster()`, `InitSlave` one `init()` call at a slave,
`ReadyAll` the ready calls. `init()` calls are messages: one sent by a
coordinator that has given up since is still executed. `Restart` reloads memory
from the database and, as the constructor of `TopicManagerImpl` does, sets the
stamp to {0, 0}. Two history variables (`by` of a node and `stamped`) record
which group initialized a slave and which groups used a generation; no action
reads them.

Abstracted: the contents of records, LMDB (a transaction is atomic and does not
fail), read-only operations.

## 3. Runs

| Run | Instance | Result |
|---|---|---|
| `pool_safety` | 1 handler, pools of 1, 1..2 and 2..3 threads, with and without `Serialize`, idle time-outs and refused threads; 2 chunks of data, 1 dispatch | nine properties hold |
| `pool_live` | pools of 1 and of 1..2 threads | `WorkDone`, `DataServed`, `PoolTerminates` hold under fairness |
| `invocation_safety` | two calls (one idempotent), two connections, five scenarios of closures, faults, retries and cancellations | `CloseConnRepeatable`, `OneOwner` and the refinement `CallRefined` hold |
| `invocation_live` | three scenarios, both operations of a socket may be ready at once | `CallsComplete`, `CloseCompletes` hold under fairness |
| `subscriber_safety` | five kinds, retryCount 0, queue limit 3, RemoveSubscriber policy, 2 publishers, 7 events in calls of 1 or 2, one event above the cost of a link | all safety properties hold |
| `subscriber_retry` | oneway, twoway, ordered, link; retryCount 2, queue limit 2, DropEvents, 7 events | `QueueBounded`, `NoSilentLoss` and, under fairness, `ShutdownReturns` and `QueuedEventLeaves` hold |
| `election_safety` | 3 nodes: from nothing with 2 checks and a failed call; on duty with a check, a failure, updates and a forwarded call | `NoServiceBeforeFullGroup`, `GroupAgreement`, `MembershipStable` hold |
| `election_live` | 3 nodes on duty, one restart, one check | `OrphansLeave` holds under fairness |
| `replication_mirror` | 3 nodes, one topic, one subscriber, 3 updates, two elections after the first, 1 failure, 1 restart | `DiskIsMemory`, `SlaveMirrors` hold |
| `invocation_at_most_once`, `invocation_cancel`, `replication_latest` | the smallest that shows it | violated: see the findings |

Why the bounds are enough to be interesting. *ThreadPool*: with one handler
and the work queue the list of a select holds two entries, so one can be handled
while the other waits in the list of another thread; two threads make leader
and follower, the third a follower next to a thread that grows the pool.
*Invocation*: two calls share a connection (one waits behind the other in the
send queue, in the connect handler's queue or in a flush); a second connection
receives what the first gives back, and is not closed or broken while calls are
in progress (faults hit `c # MaxConns`), so that the number of connections needs
no further bound. A scenario limits the kinds of faults and the retry intervals
(none, one immediate, one delayed), not their number or order. Faults stop once
the calls are over. *Subscriber*: a window of 2 is
full with two requests, so both a full window and room in it occur with events
queued; 7 events exceed queue limit plus window; two publishers are needed to
have one between `queue()` and `reap()` while another fails. *Election*: three
nodes is the minimum the service accepts, and the first size at which a majority
is not everyone; two checks make two competing merges, whose invitations meet;
one failure is enough to make a node leave a group the others remain in, or an
accept fail late. *Replication*: three groups let a slave receive `init()` from
two coordinators; one restart makes a stamp go back; three updates are a
topic, its subscriber and the removal of either. Bounds are constants whose
names begin with `Max`, the records of `Bounds` (Election) and of `Scenarios`
(Invocation); when they are used up there may be nothing left to do, so deadlock
is not checked.

Nodes and threads are interchangeable for the safety runs (ids only break ties,
and the models take either side of a tie), as are topics and publishers; the
liveness runs use no symmetry.

### Fairness

*ThreadPool*: a thread of the pool that can go on does (`RunStep`): a notified
follower resumes, `select()` returns when something is ready, the application's
calls return. No time-out is assumed to happen, and nothing of `Arrive`,
`Dispatch`, `Update`, `Finish` or `Destroy`.
*Invocation*: one weak fairness condition on all steps of the run time together:
some thread goes on as long as one can. No step of the run time can be repeated
for ever for one call or connection, so this starves none. It includes that
servants and callbacks return and that a reset is noticed, and nothing of the
application, of closures or of faults.
*Subscriber*: the run time eventually completes every request (the send
timeout closes a connection that does not answer), the timer runs what is due,
a notified thread resumes, a publisher finishes its call. Nothing is assumed of
publishers, of the clock (`Expire`) or of shutdown. *Election*: the timer
thread, dispatch threads and waiting threads proceed and updates finish; no
message need ever be delivered, and nothing fair is assumed of failures.

### Findings

1. `invocation_at_most_once`: `message()` writes the rest of a request and then
   reads (`ConnectionI.cpp:1619` and `:1633`). If the read fails, the connection
   is closed before `sendNextMessage()` marks the request as sent; the retry
   decision takes it for one that was never written and repeats it. The server
   may have executed it: the connection is lost between the two system calls,
   with the request in it. The properties of `invocation_safety` are checked
   with `BothReady = FALSE`, where the request is always marked; those of
   `invocation_live` hold in either case. The theorem `MostOnce` says that this is
   the only way: with one operation at a time a call runs at most once.
2. `invocation_cancel`: a cancellation that finds the connection closed, the
   connection attempt failed or its retry task running does nothing, on the
   grounds that the call is notified of a failure. That failure may be retried,
   and the call goes on although `cancel()` has returned.
3. `replication_latest`: the stamp is reset at every start, so a restarted
   replica with the newest database gives it up for an older one and an
   acknowledged topic is lost.

Earlier versions of the models, and the same models with other constants, show
six more, which no run of the present list repeats:

* a batch subscriber with a retryCount whose flush fails keeps its slot
  (`Subscriber.cpp:107`, `error(false, ex)`); once online again it never schedules
  another flush (`NoStuckQueue` fails with `Kinds = {"batch"}`, `RetryCount = 1`);
* the last queued events of a link are dropped by its cost rule inside `flush()`
  and nobody notifies the thread in `shutdown()` (`ShutdownReturns` fails with
  `Kinds = {"link"}` and costly events);
* `Subscriber::shutdown()` waits while requests are outstanding *and* the queue
  is not empty, so it returns with undelivered requests, against the release
  notes (CHANGELOG-3.3.md:439);
* `timeout()` of a replica recovers on an answer it got without the lock; if an
  invitation was accepted meanwhile the node reorganizes with itself as
  coordinator and stays there, and the assertion at `NodeI.cpp:808` is false;
* `subscribeAndGetPublisher()` and `link()` of a topic do not test `_destroyed`: a
  subscriber record without its topic stays in the database;
* the update with the later stamp of two may reach the observers first: a create
  holds the lock of the topic manager, a destroy only that of its topic, and the
  observers lock once per call (`Observers.cpp:134`). A slave lost between the two
  has the master's stamp without the create; as the next coordinator it takes its
  own database for the latest, and the created topic, acknowledged and on the
  disks of a majority, is lost without any restart (`LatestDatabaseState` fails
  with `Topics = {t1, t2}`, `MaxOps = 3`, `MaxFailures = 2`, `MaxRestarts = 0`).

One more race is visible in the code and outside the model: two cancellations
of a call that waits in the connect request handler (the application's and the
invocation time-out's). The second does not find the request and calls the
connection, which is still null (`ConnectRequestHandler.cpp:94`).

The conditions in `SlaveMirrors` record two more limits of the replication: an
`init()` call is accepted by any reorganizing slave whoever sent it
(`NodeI.cpp:1085`), and two coordinators may compute the same generation since
only the slaves' stamps are looked at (`NodeI.cpp:563-637`). Without either
condition TLC finds a slave that differs from its master.

## 4. Proofs

Every theorem holds for all values of the constants of its module, subject to
the assumptions the module names. Each proof starts from `Spec => []I` for an
inductive invariant `I`, whose step is one lemma per action (or per group of
actions that share a section of the code).

| Theorem | Module | Statement |
|---|---|---|
| `PoolInvariant`, `CoreInvariant` | `ThreadPool*Proofs` | the inductive invariants `Inv` and `CoreInv` |
| `TypeCorrect` | `ThreadPoolHandlerProofs` | `Spec => []TypeOK` |
| `OneLeaderAlways` | `ThreadPoolProofs` | `Spec => []OneLeader` |
| `CountsExact` | `ThreadPoolProofs` | `Spec => []InUseAccounted` |
| `NoWakeupLost` | `ThreadPoolProofs` | `Spec => []NoLostWakeup` |
| `NoThreadAfterDestroy` | `ThreadPoolProofs` | `Spec => ThreadsImmutable` (an action property) |
| `OneThreadPerHandler` | `ThreadPoolHandlerProofs` | `Spec => []HandlerExclusive` |
| `NoHandlerDangles` | `ThreadPoolHandlerProofs` | `Spec => []NoDanglingHandler` |
| `AssertionsHold` | `ThreadPoolHandlerProofs` | `Spec => []PoolAssertions` |
| `ThreadLeft` | `ThreadPoolHandlerProofs` | `Spec => []PoolNotExhausted` |
| `OwnerInvariant`, `CallInvariant` | `Invocation*Proofs` | the inductive invariants `OwnerInv` and `CallInv` |
| `TypeCorrect` | `InvocationProofs` | `Spec => []TypeOK` |
| `SingleOwner` | `InvocationProofs` | `Spec => []OneOwner` |
| `CloseRepeatable` | `InvocationCallProofs` | `Spec => []CloseConnRepeatable` |
| `MostOnce` | `InvocationCallProofs` | `Spec => [](~BothReady => AtMostOnce)` |
| `CallImplemented` | `InvocationCallProofs` | `ASSUME ~BothReady PROVE Spec => CallRefined` |
| `TypeCorrect` | `SubscriberProofs` | `Spec => []TypeOK`; `_outstanding` stays within `0.._maxOutstanding` |
| `QueueNeverStuck` | `SubscriberProofs` | `NoBatchRetry /\ Spec => []NoStuckQueue` |
| `WindowAccounted` | `SubscriberProofs` | `NoBatchRetry /\ Spec => []OutstandingAccounted` |
| `BatchAssertion` | `SubscriberProofs` | `NoBatchRetry /\ Spec => []BatchNotEmpty` |
| `DeliveredInOrder` | `SubscriberProofs` | `Spec => []SentInOrder` |
| `QueueWithinLimit` | `SubscriberProofs` | `Spec => []QueueBounded` |
| `NothingLostSilently` | `SubscriberProofs` | `Spec => NoSilentLoss` (an action property) |
| `ReapFindsError`, `RemovedOnce` | `SubscriberProofs` | `Spec => []ReapAssertion`, `Spec => []ReapedOnce` |
| `ShutdownLeavesNothing` | `SubscriberProofs` | `Spec => []ShutdownDrains` |
| `ElectionInvariant` | `ElectionProofs` | the inductive invariant `Inv` |
| `TypeCorrect` | `ElectionProofs` | `Spec => []TypeOK` |
| `FullGroupFirst` | `ElectionProofs` | `Spec => []NoServiceBeforeFullGroup` |
| `OneCoordinator` | `ElectionProofs` | `Spec => []GroupAgreement` |
| `GroupHeldByUpdates` | `ElectionProofs` | `Spec => MembershipStable` (an action property) |
| `ReplicationInvariant` | `ReplicationProofs` | the inductive invariant `Inv` |
| `SlaveOnDisk` | `ReplicationProofs` | `Spec => []DiskIsMemory` |
| `TypeCorrect` | `ReplicationProofs` | `Spec => []TypeOK` |
| `SlaveFollows` | `ReplicationMirrorProofs` | `Spec => []SlaveMirrors` |
| `OneMasterOfGroup` | `ReplicationMirrorProofs` | two masters of one group are one node |

### Assumptions

Those of the modules, which TLC evaluates in every run: finite sets of threads,
handlers and nodes (at least three nodes), natural bounds (the one on elections positive: the group a
run starts in was elected), sizes of a pool as
`ThreadPool`'s constructor leaves them, a subscriber's window that is positive
and a queue limit that is a natural or none, and not 0 under DropEvents, the
idempotent calls among the calls, and at least one connection. Two hypotheses
are stated in the theorems because the code does not guarantee them:

* `NoBatchRetry` (batch subscribers have retryCount 0), for the first of the
  further findings;
* `~BothReady` (a select tells a connection of one operation at a time), for
  `MostOnce` and `CallImplemented`. With two, `AtMostOnce` is false: that is the run
  `invocation_at_most_once`. Nothing else about invocations needs it.

### Arguments

*ThreadPool.* `OneLeader` is not inductive: a thread must also be known to be in
the pool and at a place where it can have the lead. `CoreInv` has `ThreadInv`
(where a thread can be, and with which handler), `LeaderInv` (there is a leader or
a promotion is pending, only a leader selects, and a leader gives the lead up
when it enters the application), `CountInv` (`inUseIO` and `inUse` are the
cardinalities of two sets of threads, no IO while the leader selects),
`SpareInv` (a thread is free or the pool is at its limit), `NoLostWakeup`, and
`JoinInv` (a thread to join has left, and is joined once). The lemma behind all
actions that end a round of `run()` is one step, `Round`; the others are `Move`,
`Completes` and a few of their own. `HandlerInv` speaks of handlers: `ListOK` (the
list of a select names each handler once, none that a thread reads, none that is
finished, and a connection behind the work queue in the list is not the one the
first work item finishes), `IOInv`, `ReadyInv` and `EventsInv` (what is reported
ready has something to read), `FinishInv` (a handler is finished by one work item,
after it was unregistered), `DestroyInv` and `ExclusiveInv` (in a pool that
serializes, a connection in the application is disabled). The attempt to prove
`NoLostWakeup` showed an error of the model: a notification was chosen among the
threads waiting before the step and could be lost on the thread that took the
step itself; `Notify` now chooses among those that wait after it.

*Invocation.* Two invariants. `OwnerInv`: `PlaceInv` (the phase and the handler of a
call determine which container has it, and no other has), `QueueInv` (no call is
twice in a queue), `CancelInv` (a cancellation asks a handler that is still
connecting only for calls in its queue, otherwise the code would use a null
connection) and `LinkInv` (what a request handler knows of its connection);
`OneOwner` follows. `CallInv` adds what the two ends know of each other.
`ServerInv` is about what a server wrote and has to write: a close message is the
last one, nothing is dispatched behind it and the replies of all the servant ran
are in front of it (`Told`), so that a client that reads it waits for no
request that was run: this is the promise on which the retry after
CloseConnectionException rests, and gives `CloseConnRepeatable`. `ClientInv` is
about the flag `_sent`: a request is given to a connection once (`GivenInv`), one
not marked as sent was never written (`SentInv`, under `~BothReady`), and a
connection whose servant may run a call that is not idempotent either still has
it or the call is over (`HeldInv`). `OnceInv`, that such a call is in the reach of
one servant only, is inductive with these two; `AtMostOnce` follows by counting.
For the refinement, `InitRefines` maps the initial states, and `NextRefines` shows
that each step is an invocation's beginning, its failure, its return, a run of a
servant, or a stutter of `Call` (`RunRefines` uses `OnceInv`, `ReturnRefines` that a
reply is only written for what was run). `Call` has no fairness, so this is the
whole refinement.

*Subscriber.* `TypeOK` is not inductive: a callback decrements `outstanding`, and
nothing in the types says that it is positive. `TypeInv` adds `WindowInv`:
callbacks to come never exceed `outstanding`, and equal it for every kind but
batch. `NoStuckQueue` is not inductive either: whether a queue with
events has a callback to come depends on slots being accounted exactly, which in
turn, for a batch, depends on a scheduled task never finding the queue empty and
on a failed batch never coming back. `QueueInv` is the conjunction of
`OutstandingAccounted`, `NoStuckQueue`, `OfflineQueueEmpty`, `BatchNotEmpty` and
`BatchNeverOffline`; `QueueStep` proves it from `TypeInv` and `NoBatchRetry`. The
rest needs no hypothesis: `OrderInv` (queued events are in order, after the last
one sent and up to the last one published), `ReapInv` (threads that report a failed
subscriber are at most the resets, plus one while it is reaped) and `DrainInv`
(queued events always have a slot of the window taken, so `shutdown()` cannot
miss them; nothing is queued afterwards).

*Election.* Two nodes of a group agree on the coordinator because everything that
can make a group known does: a member, an invitation in transit or in dispatch,
and the merge about to create it *claim* the group for a coordinator.
`ClaimInv` says that all claims to a group name one coordinator; only a merge makes
one that is not copied, and its name is new. `ServeInv` follows `_max` through the
timer thread: past the test of `mergeContinue()` it is complete, or the set in hand
is. `MergeInv` (each merge took a check of its own) bounds the names. The proof of
the types showed that `_max` may be N + 1: an invitation forwarded by an old
coordinator can reach the node that sent it, whose `invitation()` does not test
whether it is its own, and its accept is counted. The code compares `_max` with
`!=` (`NodeI.cpp:544`), so such a node asks for full participation again;
`NoServiceBeforeFullGroup` therefore says `_max >= N`.

*Replication.* `DiskIsMemory` speaks of slaves on duty, and a node becomes one by
a ready call of a coordinator that counts it among its observers. `InitedInv` says
that such a node, still reorganizing in that group, has executed `init()` since
it started; `GroupInv` that no group has two coordinators in `mergeContinue()`;
`Well` what is true of each node alone.

The bounds in its `TypeOK` are not inductive, since a stamp may be remembered
anywhere (a list of slaves that accepted, an `init()` that is late, a call to an
observer) and is incremented later. `BoundInv` bounds every stamp there is by what
the counters leave: `TopGen` is the number of elections without the coordinators
that have yet to stamp theirs, `TopIter` the number of updates without those that
have yet to be committed. An election raises the first only when its coordinator
leaves the sync, and that is the step that makes a generation one beyond the
newest; a commit raises the second by the one it adds to the iteration. The
lemma `BoundStep` carries all that is kept over when the two rise. Before this
proof `TypeOK` allowed one generation more than there can be.

`SlaveMirrors` speaks of a moment with no update on its way; its invariant says of
every topic and at every moment why a slave and its master may differ.
`Mirrored` has two parts: without an update that holds the lock of the topic, they
agree; with one that was sent, the slave has what the update does once it is not
among those still called. What keeps this true is that the update of another
master never reaches the slave: `Dated` and `StampInv` say that whatever a node
on duty has, compares or commits carries the generation its group has stamped
(a group stamps once), `LeadInv` that a group has one coordinator and is on duty
with it, and `OnlyGroup` then identifies the sender by the generation that
`startObserverUpdate()` compares. `ContentInv` is where the content comes from:
while a coordinator waits for its slaves, what `init()` carries in its name, and
what a slave initialized by it has, is what the coordinator has in memory. The
condition `by` of `SlaveMirrors` is used just there, `OnlyGroup` just at an
observer's call: the two places of the code where the check is missing. `Locked`
(a topic is locked by one update from its commit to its end) stands for the locks
of `TopicI.cpp` and `TopicManagerI.cpp`. `OneMasterOfGroup` follows from `LeadInv`
and `StampInv`.

### Model-checked only

* Liveness under fairness (`WorkDone`, `DataServed`, `PoolTerminates`, `CallsComplete`,
  `CloseCompletes`, `ShutdownReturns`, `QueuedEventLeaves`, `OrphansLeave`): outside
  the prover.

Every safety property of a passing run is a theorem, and so are the action
properties and the refinement of `Call`.

No module uses a RECURSIVE operator, so all are open to proof.

## 5. Not modelled, and the plan

Nothing that this model can state and the prover can reach is left unproved; new
proofs come with new parts of the model.

To model next: the late accept failure and the skipped check of the election
(hazards at `NodeI.cpp:825` and `:310`); batch and oneway invocations and the collocated handler;
bidirectional connections, heartbeats and the holding state; the activation and
deactivation of object adapters, which composes closures with dispatches;
`Glacier2/RequestQueue.cpp` and `IceGrid/Allocatable.cpp`.

Left out for good: wire encoding, the command line tools, the Slice compilers,
metrics, transports over third-party libraries, and the other language
mappings, none of which has behaviour over time that a model of this size would
say anything about.
