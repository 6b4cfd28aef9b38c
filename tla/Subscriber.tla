------------------------------ MODULE Subscriber ------------------------------
(***************************************************************************)
(* One IceStorm subscriber: cpp/src/IceStorm/Subscriber.cpp.               *)
(*                                                                         *)
(* A subscriber owns a queue of events (_events) and a count of requests   *)
(* handed to the Ice run time whose callback has not run (_outstanding).   *)
(* Publisher threads call queue() and, when it returns false, reap(); the  *)
(* Ice run time calls sent(), completed() or exception(); the batch timer  *)
(* calls doFlush(); the service calls shutdown().  Every one of those      *)
(* holds the subscriber's monitor from its first line to its last, so each *)
(* is one action here; the interleavings are those between them.           *)
(*                                                                         *)
(* Five kinds of subscriber share the state and differ in flush(): oneway, *)
(* twoway, ordered (a twoway that keeps one request outstanding), batch    *)
(* and link.  The kind is chosen in Init, as Subscriber::create() does.    *)
(***************************************************************************)
EXTENDS Integers, Sequences, FiniteSets

CONSTANTS
    Kinds,           \* the kinds of subscriber considered
    WindowSize,      \* requests a oneway or twoway may have outstanding (5)
    RetryCount,      \* the "retryCount" QoS; -1 retries for ever
    QueueMax,        \* Send.QueueSizeMax; -1 is no limit
    DropEvents,      \* Send.QueueSizeMaxPolicy = DropEvents
    Costly,          \* events whose cost exceeds the cost of a link
    Publishers,      \* threads that call queue()
    MaxEvents,       \* bound: events published
    MaxBatch,        \* bound: events in one call of queue()
    MaxResets        \* bound: calls of resetIfReaped()

AllKinds == {"oneway", "twoway", "ordered", "batch", "link"}

ASSUME KindsAssumption == Kinds \subseteq AllKinds
ASSUME WindowAssumption == WindowSize \in Nat \ {0}
ASSUME RetryAssumption == RetryCount \in Nat \cup {-1}
\* Dropping from an empty queue (a maximum of 0) is undefined in C++.
ASSUME QueueMaxAssumption ==
    /\ DropEvents \in BOOLEAN
    /\ QueueMax \in Nat \cup {-1}
    /\ DropEvents => QueueMax # 0
ASSUME BoundsAssumption ==
    MaxEvents \in Nat /\ MaxBatch \in Nat /\ MaxResets \in Nat

VARIABLES
    kind,            \* the class of the object and its QoS
    state,           \* _state
    events,          \* _events, as the publication numbers of the events
    outstanding,     \* _outstanding
    currentRetry,    \* _currentRetry
    due,             \* Time::now() >= _next
    shutdown,        \* _shutdown
    inflight,        \* requests the run time still owes a callback for
    flushTask,       \* a FlushTimerTask is scheduled with the batch timer
    waiter,          \* the thread in shutdown()
    pc,              \* where each publisher thread is
    published,       \* number of events queue() was called with
    lastSent,        \* last event given to the Ice run time
    resets           \* number of calls of resetIfReaped()

vars == <<kind, state, events, outstanding, currentRetry, due, shutdown,
          inflight, flushTask, waiter, pc, published, lastSent, resets>>

-----------------------------------------------------------------------------
(* What the constructors fix for each kind.                                *)

MaxOutstanding ==
    IF kind \in {"oneway", "twoway"} THEN WindowSize ELSE 1

RetryLimit == IF kind = "link" THEN -1 ELSE RetryCount

MayRetry == RetryLimit = -1 \/ currentRetry < RetryLimit

Init ==
    /\ kind \in Kinds
    /\ state = "Online"
    /\ events = << >>
    /\ outstanding = 0
    /\ currentRetry = 0
    /\ due = TRUE
    /\ shutdown = FALSE
    /\ inflight = 0
    /\ flushTask = FALSE
    /\ waiter = "none"
    /\ pc = [p \in Publishers |-> "idle"]
    /\ published = 0
    /\ lastSent = 0
    /\ resets = 0

-----------------------------------------------------------------------------
(* The monitor: _lock.notify() wakes the thread in shutdown(), if waiting. *)

Notify == waiter' = IF waiter = "waiting" THEN "notified" ELSE waiter

NotifyIf(cond) == IF cond THEN Notify ELSE UNCHANGED waiter

-----------------------------------------------------------------------------
(* flush().  Each takes the queue q and the counts o and i as the caller   *)
(* left them, and determines events', outstanding', inflight', flushTask'  *)
(* and lastSent'.  None is called unless the subscriber is online.         *)

Last(q, n, default) == IF n = 0 THEN default ELSE q[n]

(* Mutant: one more event is erased.                                       *)
RestSkips(q, n) == SubSeq(q, n + 2, Len(q))

Rest(q, n) == SubSeq(q, n + 1, Len(q))

(* Mutant: the window is one request too large.                            *)
RoomWide(o) == MaxOutstanding + 1 - o

Room(o) == MaxOutstanding - o

(* The loop stops at an empty queue or a full window.  A request written   *)
(* at once (sentSynchronously) is not counted and has no further callback; *)
(* n events leave the queue, a of them asynchronously.                     *)
FlushOneway(q, o, i) ==
    \E n \in 0..Len(q) : \E a \in 0..n :
        /\ a <= Room(o)
        /\ n = Len(q) \/ a = Room(o)
        /\ Room(o) = 0 => n = 0
        /\ events' = Rest(q, n)
        /\ outstanding' = o + a
        /\ inflight' = i + a
        /\ lastSent' = Last(q, n, lastSent)
        /\ UNCHANGED flushTask

FlushTwoway(q, o, i) ==
    LET n == IF Len(q) <= Room(o) THEN Len(q) ELSE Room(o)
    IN  /\ events' = Rest(q, n)
        /\ outstanding' = o + n
        /\ inflight' = i + n
        /\ lastSent' = Last(q, n, lastSent)
        /\ UNCHANGED flushTask

(* A batch is not sent here: the timer task will call doFlush().           *)
FlushBatch(q, o, i) ==
    LET schedule == q # << >> /\ o = 0
    IN  /\ events' = q
        /\ outstanding' = IF schedule THEN 1 ELSE o
        /\ flushTask' = (flushTask \/ schedule)
        /\ inflight' = i
        /\ UNCHANGED lastSent

(* A link forwards the whole queue at once, less the events whose cost is  *)
(* above the cost of the link.                                             *)
FlushLink(q, o, i) ==
    LET cheap == {k \in 1..Len(q) : q[k] \notin Costly}
        send  == o = 0 /\ cheap # {}
    IN  /\ events' = IF o > 0 THEN q ELSE << >>
        /\ outstanding' = IF send THEN 1 ELSE o
        /\ inflight' = IF send THEN i + 1 ELSE i
        /\ IF send
           THEN \E k \in cheap : (\A j \in cheap : j <= k) /\ lastSent' = q[k]
           ELSE UNCHANGED lastSent
        /\ UNCHANGED flushTask

Flush(q, o, i) ==
    \/ kind = "oneway" /\ FlushOneway(q, o, i)
    \/ kind \in {"twoway", "ordered"} /\ FlushTwoway(q, o, i)
    \/ kind = "batch" /\ FlushBatch(q, o, i)
    \/ kind = "link" /\ FlushLink(q, o, i)

-----------------------------------------------------------------------------
(* error(dec, e).  The callers determine outstanding', inflight' and       *)
(* flushTask' (dec is whether outstanding was decremented).                *)

QueueAfterError == << >>

ErrorOut ==
    /\ events' = QueueAfterError
    /\ state' = "Error"
    /\ UNCHANGED <<currentRetry, due>>

GoOffline ==
    /\ events' = QueueAfterError
    /\ state' = "Offline"
    /\ currentRetry' = currentRetry + 1
    /\ due' = FALSE

(* Mutant: a subscriber already in error is treated like any other.        *)
NeverFailed == FALSE

AlreadyFailed == state \in {"Error", "Reaped"}

(* Several requests may fail together: one failure counts per interval.    *)
WithinInterval(hard) == ~hard /\ state = "Offline" /\ ~due

(* Mutant: the thread in shutdown() is not told that the queue was cleared. *)
ErrorSilent == UNCHANGED waiter

ErrorNotifies == NotifyIf(shutdown)

error(hard) ==
    /\ \/ /\ AlreadyFailed \/ WithinInterval(hard)
          /\ NotifyIf(AlreadyFailed /\ shutdown)
          /\ UNCHANGED <<events, state, currentRetry, due>>
       \/ /\ ~AlreadyFailed /\ ~WithinInterval(hard)
          /\ IF ~hard /\ MayRetry THEN GoOffline ELSE ErrorOut
          /\ ErrorNotifies
    /\ UNCHANGED lastSent

-----------------------------------------------------------------------------
(* The calls of a publisher thread p: queue(), then reap() when queue()    *)
(* returned false.  Events are numbered in the order queue() saw them.     *)

New(k) == [j \in 1..k |-> published + j]

(* Mutant: one event too many is accepted.                                 *)
OverflowLate(k) == QueueMax >= 0 /\ Len(events) + k > QueueMax + 1

Overflow(k) == QueueMax >= 0 /\ Len(events) + k > QueueMax

(* Mutant: new events are put in front.                                    *)
EnqueuedFront(k) == New(k) \o events

(* Mutant: nothing is popped at the limit.                                 *)
EnqueuedAll(k) == events \o New(k)

(* The queue after the loop over the new events under DropEvents: the      *)
(* oldest ones are popped.                                                 *)
Enqueued(k) ==
    LET q == events \o New(k)
    IN  IF Overflow(k) THEN SubSeq(q, Len(q) - QueueMax + 1, Len(q)) ELSE q

Publish(p, k) ==
    /\ pc[p] = "idle"
    /\ ~shutdown
    /\ published + k <= MaxEvents
    /\ published' = published + k

(* queue() returned false: TopicImpl::publish() goes on to reap(), while   *)
(* the per-subscriber publisher object ignores the result.                 *)
QueueFalse(p) == pc' \in {pc, [pc EXCEPT ![p] = "reap"]}

QueueAccept(p, k) ==
    /\ Publish(p, k)
    /\ state = "Online" \/ (state = "Offline" /\ due)
    /\ DropEvents \/ ~Overflow(k)
    /\ state' = "Online"
    /\ Flush(Enqueued(k), outstanding, inflight)
    /\ UNCHANGED <<kind, currentRetry, due, shutdown, waiter, pc, resets>>

QueueFull(p, k) ==
    /\ Publish(p, k)
    /\ state = "Online" \/ (state = "Offline" /\ due)
    /\ ~DropEvents /\ Overflow(k)
    /\ ErrorOut
    /\ QueueFalse(p)
    /\ UNCHANGED <<kind, outstanding, shutdown, inflight, flushTask, waiter,
                   lastSent, resets>>

(* Events are dropped while reaped or within the discard interval, and by  *)
(* a link when they were forwarded to this instance by another one.        *)
QueueDiscard(p, k) ==
    /\ Publish(p, k)
    /\ state = "Reaped" \/ (state = "Offline" /\ ~due) \/ kind = "link"
    /\ UNCHANGED <<kind, state, events, outstanding, currentRetry, due,
                   shutdown, inflight, flushTask, waiter, pc, lastSent, resets>>

QueueError(p, k) ==
    /\ Publish(p, k)
    /\ state = "Error"
    /\ QueueFalse(p)
    /\ UNCHANGED <<kind, state, events, outstanding, currentRetry, due,
                   shutdown, inflight, flushTask, waiter, lastSent, resets>>

(* Mutant: every thread that saw the error reports it.                     *)
ReapAlways == AlreadyFailed

(* reap() is true for the thread that finds the subscriber in error: that  *)
(* thread removes it from the topic, or asks the master to ("report").     *)
ReapWins == state = "Error"

Reap(p) ==
    /\ pc[p] = "reap"
    /\ state' = IF ReapWins THEN "Reaped" ELSE state
    /\ pc' = [pc EXCEPT ![p] = IF ReapWins THEN "report" ELSE "idle"]
    /\ UNCHANGED <<kind, events, outstanding, currentRetry, due, shutdown,
                   inflight, flushTask, waiter, published, lastSent, resets>>

(* The rest of TopicImpl::publish(), outside the subscriber's monitor.     *)
Report(p) ==
    /\ pc[p] = "report"
    /\ pc' = [pc EXCEPT ![p] = "idle"]
    /\ UNCHANGED <<kind, state, events, outstanding, currentRetry, due,
                   shutdown, inflight, flushTask, waiter, published, lastSent,
                   resets>>

(* TopicImpl::update(), when a new master still lists the subscriber.      *)
ResetIfReaped ==
    /\ state = "Reaped"
    /\ ~shutdown
    /\ resets < MaxResets
    /\ state' = "Error"
    /\ resets' = resets + 1
    /\ UNCHANGED <<kind, events, outstanding, currentRetry, due, shutdown,
                   inflight, flushTask, waiter, pc, published, lastSent>>

-----------------------------------------------------------------------------
(* Callbacks of the Ice run time.                                          *)

(* A request succeeded: its slot is freed and, if flushes, the queue looked *)
(* at again.  flush() of a oneway may itself leave nothing to wait for.    *)
Succeeded(flushes) ==
    /\ inflight > 0
    /\ IF flushes /\ state = "Online"
       THEN /\ Flush(events, outstanding - 1, inflight - 1)
            /\ NotifyIf(kind = "oneway" /\ events' = << >> /\ outstanding' = 0 /\ shutdown)
       ELSE /\ outstanding' = outstanding - 1
            /\ inflight' = inflight - 1
            /\ NotifyIf(events = << >> /\ outstanding = 1 /\ shutdown)
            /\ UNCHANGED <<events, flushTask, lastSent>>
    /\ UNCHANGED <<kind, state, due, shutdown, pc, published, resets>>

(* Mutant: a reply frees a slot of the window and does not refill it.      *)
CompletedNoFlush ==
    /\ kind \in {"twoway", "ordered", "link"}
    /\ Succeeded(FALSE)
    /\ currentRetry' = 0

(* Subscriber::completed() with a reply, for twoway, ordered and link.     *)
Completed ==
    /\ kind \in {"twoway", "ordered", "link"}
    /\ Succeeded(events # << >>)
    /\ currentRetry' = 0

(* SubscriberOneway::sent(false).  The queue is only flushed once every    *)
(* outstanding request has been written.                                   *)
SentOneway ==
    /\ kind = "oneway"
    /\ Succeeded(outstanding = 1 /\ events # << >>)
    /\ UNCHANGED currentRetry

(* Mutant: what was queued while the batch was written is not scheduled.   *)
SentBatchNoFlush ==
    /\ kind = "batch"
    /\ Succeeded(FALSE)
    /\ UNCHANGED currentRetry

(* SubscriberBatch::sent(false).                                           *)
SentBatch ==
    /\ kind = "batch"
    /\ Succeeded(events # << >>)
    /\ UNCHANGED currentRetry

(* Mutant: a oneway does not decrement either.                             *)
ExceptionTwowayOnly == kind \in {"twoway", "ordered", "link"}

(* The exception callback.  Only the batch one leaves _outstanding alone.  *)
ExceptionDecrements == kind # "batch"

Exception(hard) ==
    /\ inflight > 0
    /\ inflight' = inflight - 1
    /\ outstanding' = IF ExceptionDecrements THEN outstanding - 1 ELSE outstanding
    /\ error(hard)
    /\ UNCHANGED <<kind, shutdown, flushTask, pc, published, resets>>

-----------------------------------------------------------------------------
(* SubscriberBatch::doFlush(), run by the batch timer: the batch is        *)
(* written at once, written later (a callback will come), or refused.      *)

(* Mutant: the task is scheduled repeatedly instead of once.               *)
TaskRepeats == UNCHANGED flushTask

TaskDone == flushTask' = FALSE

DoFlushNotOnline ==
    /\ flushTask
    /\ state # "Online"
    /\ TaskDone
    /\ UNCHANGED <<kind, state, events, outstanding, currentRetry, due,
                   shutdown, inflight, waiter, pc, published, lastSent, resets>>

DoFlushSend ==
    /\ flushTask
    /\ state = "Online"
    /\ TaskDone
    /\ events' = << >>
    /\ lastSent' = Last(events, Len(events), lastSent)
    /\ \/ /\ outstanding' = outstanding - 1        \* sent synchronously
          /\ NotifyIf(shutdown /\ outstanding = 1)
          /\ UNCHANGED inflight
       \/ /\ inflight' = inflight + 1
          /\ UNCHANGED <<outstanding, waiter>>
    /\ UNCHANGED <<kind, state, currentRetry, due, shutdown, pc, published,
                   resets>>

DoFlushRefused(hard) ==
    /\ flushTask
    /\ state = "Online"
    /\ TaskDone
    /\ error(hard)
    /\ UNCHANGED <<kind, outstanding, shutdown, inflight, pc, published, resets>>

-----------------------------------------------------------------------------
(* The discard interval of an offline subscriber elapses.                  *)
Expire ==
    /\ ~due
    /\ due' = TRUE
    /\ UNCHANGED <<kind, state, events, outstanding, currentRetry, shutdown,
                   inflight, flushTask, waiter, pc, published, lastSent, resets>>

(* Mutant: the last outstanding request is not waited for.                 *)
MustWaitMany == outstanding > 1 /\ events # << >>

(* Subscriber::shutdown().  The adapters are gone by now: no dispatch is   *)
(* in progress and none will start.                                        *)
MustWait == outstanding > 0 /\ events # << >>

Shutdown ==
    /\ ~shutdown
    /\ \A p \in Publishers : pc[p] = "idle"
    /\ shutdown' = TRUE
    /\ waiter' = IF MustWait THEN "waiting" ELSE "done"
    /\ UNCHANGED <<kind, state, events, outstanding, currentRetry, due,
                   inflight, flushTask, pc, published, lastSent, resets>>

ShutdownWakes ==
    /\ waiter = "notified"
    /\ waiter' = IF MustWait THEN "waiting" ELSE "done"
    /\ UNCHANGED <<kind, state, events, outstanding, currentRetry, due,
                   shutdown, inflight, flushTask, pc, published, lastSent,
                   resets>>

-----------------------------------------------------------------------------

Queue(p, k) ==
    \/ QueueAccept(p, k)
    \/ QueueFull(p, k)
    \/ QueueDiscard(p, k)
    \/ QueueError(p, k)

Callback ==
    \/ Completed
    \/ SentOneway
    \/ SentBatch
    \/ \E hard \in BOOLEAN : Exception(hard)

DoFlush ==
    \/ DoFlushNotOnline
    \/ DoFlushSend
    \/ \E hard \in BOOLEAN : DoFlushRefused(hard)

Next ==
    \/ \E p \in Publishers, k \in 1..MaxBatch : Queue(p, k)
    \/ \E p \in Publishers : Reap(p) \/ Report(p)
    \/ ResetIfReaped
    \/ Callback
    \/ DoFlush
    \/ Expire
    \/ Shutdown
    \/ ShutdownWakes

Spec == Init /\ [][Next]_vars

(* The run time completes every request (the send timeout bounds the wait  *)
(* for a reply), the timer runs what is due, a notified thread resumes.    *)
Fairness ==
    /\ WF_vars(Callback)
    /\ WF_vars(DoFlush)
    /\ WF_vars(ShutdownWakes)
    /\ \A p \in Publishers : WF_vars(Reap(p)) /\ WF_vars(Report(p))

FairSpec == Spec /\ Fairness

-----------------------------------------------------------------------------
(* Properties.                                                             *)

(* The type of every variable; the range of outstanding is what sent(),    *)
(* completed() and error() assert.                                         *)
TypeOK ==
    /\ kind \in Kinds
    /\ state \in {"Online", "Offline", "Error", "Reaped"}
    /\ events \in Seq(Nat \ {0})
    /\ outstanding \in 0..MaxOutstanding
    /\ currentRetry \in Nat
    /\ due \in BOOLEAN
    /\ shutdown \in BOOLEAN
    /\ inflight \in Nat
    /\ flushTask \in BOOLEAN
    /\ waiter \in {"none", "waiting", "notified", "done"}
    /\ pc \in [Publishers -> {"idle", "reap", "report"}]
    /\ published \in Nat
    /\ lastSent \in Nat
    /\ resets \in Nat

(* What will call back into the subscriber: requests in flight, and the    *)
(* scheduled flush of a batch.                                             *)
Pending == inflight + (IF flushTask THEN 1 ELSE 0)

(* _outstanding counts exactly the calls back that are still to come: the  *)
(* window never leaks a slot and no callback finds it at zero.  A batch    *)
(* subscriber that failed keeps its slot: exception() does not decrement.  *)
OutstandingAccounted ==
    /\ Pending <= outstanding
    /\ kind # "batch" \/ state = "Online" => outstanding = Pending

(* An online subscriber with queued events has a call back to come that    *)
(* will look at the queue again: no event waits for a publication that     *)
(* may never happen.                                                       *)
NoStuckQueue == state = "Online" /\ events # << >> => Pending > 0

(* Events reach the transport in the order queue() accepted them: flush()  *)
(* sends from the head, queue() appends, nothing is put back.              *)
SentInOrder ==
    /\ \A j \in 1..Len(events) : lastSent < events[j] /\ events[j] <= published
    /\ \A j, k \in 1..Len(events) : j < k => events[j] < events[k]

(* The limit of Send.QueueSizeMax is never exceeded, whichever policy.     *)
QueueBounded == QueueMax >= 0 => Len(events) <= QueueMax

(* The assertion of reap(): a thread whose queue() returned false finds    *)
(* the subscriber still in error, whatever ran in between.                 *)
ReapAssertion == \A p \in Publishers : pc[p] = "reap" => state \in {"Error", "Reaped"}

(* Of the threads that saw the error, one removes the subscriber; another  *)
(* only after resetIfReaped() put the subscriber back in error.            *)
ReapedOnce ==
    Cardinality({p \in Publishers : pc[p] = "report"}) <= resets + 1

(* The assertion of doFlush(): a batch is never empty.                     *)
BatchNotEmpty == flushTask /\ state = "Online" => events # << >>

(* An event leaves the queue of an online subscriber only by being sent,   *)
(* by the DropEvents policy at the limit, or by the cost rule of a link.   *)
Leaves(e) ==
    \/ lastSent' >= e
    \/ state' # "Online"
    \/ DropEvents /\ Overflow(published' - published)
    \/ kind = "link" /\ e \in Costly

NoSilentLoss ==
    [][\A j \in 1..Len(events) :
           (\E k \in 1..Len(events') : events'[k] = events[j]) \/ Leaves(events[j])]_vars

(* shutdown() returns only once nothing is left in the queue.              *)
ShutdownDrains == waiter = "done" => events = << >>

(* shutdown() returns.                                                     *)
ShutdownReturns == shutdown ~> waiter = "done"

(* A queued event does not stay queued for ever.                           *)
QueuedEventLeaves ==
    \A e \in 1..MaxEvents :
        (\E j \in 1..Len(events) : events[j] = e)
            ~> ~(\E j \in 1..Len(events) : events[j] = e)
=============================================================================
