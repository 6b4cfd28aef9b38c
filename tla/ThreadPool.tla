----------------------------- MODULE ThreadPool -----------------------------
(***************************************************************************)
(* The leader/follower thread pool of the Ice run time, as built for epoll:*)
(* cpp/src/Ice/ThreadPool.cpp and cpp/src/Ice/Selector.cpp.                *)
(*                                                                         *)
(* One thread at a time, the leader, waits in select().  The handlers that *)
(* select() reports form a list (_handlers); the leader takes the first    *)
(* one, hands the rest to a promoted follower, performs the IO and, once   *)
(* the IO is done, calls the application.  A handler is a connection or    *)
(* the pool's own work queue.  Every section of code that holds the pool's *)
(* mutex is one action; select(), the IO and the application's code run    *)
(* between them.  Read is the only socket operation considered.            *)
(***************************************************************************)
EXTENDS Integers, Sequences, FiniteSets, FiniteSetsExt

CONSTANTS
    Threads,         \* identities of threads; one is free again once joined
    Handlers,        \* event handlers of connections
    Configs,         \* configurations of the pool considered
    MaxData,         \* bound: chunks of data that arrive for each handler
    MaxDispatch      \* bound: work items queued with dispatch()

WorkQueue == "workQueue"     \* _workQueue, itself an event handler
NoHandler == "none"
EventHandlers == Handlers \cup {WorkQueue}

ASSUME HandlersAssumption ==
    {WorkQueue, NoHandler} \cap Handlers = {} /\ IsFiniteSet(Handlers)
ASSUME ThreadsAssumption == IsFiniteSet(Threads)
\* size, sizeMax and sizeIO as the constructor adjusts them; idle is
\* ThreadIdleTime > 0, serverIdle is ServerIdleTime > 0, and with startFails
\* the system may refuse to create a thread.
ASSUME ConfigsAssumption ==
    Configs \subseteq [size : Nat \ {0}, sizeMax : Nat \ {0}, sizeIO : Nat \ {0},
                       serialize : BOOLEAN, idle : BOOLEAN, serverIdle : BOOLEAN,
                       startFails : BOOLEAN]
ASSUME SizesAssumption ==
    \A c \in Configs : /\ c.size <= c.sizeMax
                       /\ c.sizeIO <= c.sizeMax
                       /\ c.sizeMax <= Cardinality(Threads)
ASSUME BoundsAssumption == MaxData \in Nat /\ MaxDispatch \in Nat

VARIABLES
    conf,            \* the configuration, chosen by the constructor
    pc,              \* where each thread is
    cur,             \* current._handler of each thread
    leader,          \* current._leader of each thread
    ioCompleted,     \* current._ioCompleted of each thread
    item,            \* the work item each thread executes
    threads,         \* _threads
    promote,         \* _promote
    inUse,           \* _inUse
    inUseIO,         \* _inUseIO
    handlers,        \* _handlers from _nextHandler to the end
    workItems,       \* _workItems
    destroyed,       \* _destroyed
    registered,      \* handlers with _registered set
    disabled,        \* handlers with _disabled set
    ready,           \* handlers with _ready set
    events,          \* what the last select() returned
    selectNow,       \* _selectNow
    interrupted,     \* _interrupted
    hstate,          \* open, closing (finish() called) or finished
    data,            \* chunks of data not read yet
    arrived,         \* chunks of data that arrived so far
    dispatched       \* number of calls of dispatch()

threadVars == <<pc, cur, leader, ioCompleted, item>>
poolVars == <<threads, promote, inUse, inUseIO, handlers>>
selectorVars == <<registered, disabled, ready, events, selectNow, interrupted>>
handlerVars == <<hstate, data, arrived>>
vars == <<conf, threadVars, poolVars, workItems, destroyed, selectorVars,
          handlerVars, dispatched>>

NoItem == [kind |-> "none", arg |-> "none"]
DispatchItem == [kind |-> "dispatch", arg |-> "none"]
ShutdownItem == [kind |-> "shutdown", arg |-> "none"]
DestroyedItem == [kind |-> "destroyed", arg |-> "none"]
FinishedItem(h) == [kind |-> "finished", arg |-> h]
JoinItem(t) == [kind |-> "join", arg |-> t]
Items == {NoItem, DispatchItem, ShutdownItem, DestroyedItem}
         \cup {FinishedItem(h) : h \in Handlers} \cup {JoinItem(t) : t \in Threads}

PCs == {"none", "idle", "wait", "select", "selected", "timedOut", "io", "exec",
        "user", "dying", "done", "exiting", "exited"}

TypeOK ==
    /\ conf \in Configs
    /\ pc \in [Threads -> PCs]
    /\ cur \in [Threads -> EventHandlers \cup {NoHandler}]
    /\ leader \in [Threads -> BOOLEAN]
    /\ ioCompleted \in [Threads -> BOOLEAN]
    /\ item \in [Threads -> Items]
    /\ threads \in SUBSET Threads
    /\ promote \in BOOLEAN /\ destroyed \in BOOLEAN
    /\ inUse \in Int /\ inUseIO \in Nat
    /\ handlers \in Seq(EventHandlers)
    /\ workItems \in Seq(Items)
    /\ registered \in SUBSET EventHandlers
    /\ disabled \in SUBSET Handlers
    /\ ready \in SUBSET EventHandlers
    /\ events \in SUBSET Handlers
    /\ selectNow \in BOOLEAN /\ interrupted \in BOOLEAN
    /\ hstate \in [Handlers -> {"open", "closing", "finished"}]
    /\ data \in [Handlers -> 0..MaxData]
    /\ arrived \in [Handlers -> 0..MaxData]
    /\ dispatched \in 0..MaxDispatch

Init ==
    /\ conf \in Configs
    /\ \E S \in SUBSET Threads :
         /\ Cardinality(S) = conf.size
         /\ threads = S
         /\ pc = [t \in Threads |-> IF t \in S THEN "idle" ELSE "none"]
    /\ cur = [t \in Threads |-> NoHandler]
    /\ leader = [t \in Threads |-> FALSE]
    /\ ioCompleted = [t \in Threads |-> FALSE]
    /\ item = [t \in Threads |-> NoItem]
    /\ promote = TRUE /\ inUse = 0 /\ inUseIO = 0
    /\ handlers = <<>> /\ workItems = <<>> /\ destroyed = FALSE
    /\ registered = EventHandlers
    /\ disabled = {} /\ ready = {} /\ events = {}
    /\ selectNow = FALSE /\ interrupted = FALSE
    /\ hstate = [h \in Handlers |-> "open"]
    /\ data = [h \in Handlers |-> 0]
    /\ arrived = [h \in Handlers |-> 0]
    /\ dispatched = 0

-----------------------------------------------------------------------------
(* The selector. *)

(* _readyHandlers, for given _ready, _registered and _disabled: *)
(* checkReady() follows every change of one of the three.       *)
ReadyHandlers(rdy, reg, dis) == (rdy \cap reg) \ dis

(* _selecting: between startSelect() and finishSelect(). *)
Selecting == \E t \in Threads : pc[t] \in {"select", "selected", "timedOut"}

(* checkReady(h), after the change: a handler found ready interrupts a     *)
(* select in progress.                                                     *)
CheckReady(h, rdy, reg, dis) ==
    interrupted' = (interrupted \/ (Selecting /\ h \in ReadyHandlers(rdy, reg, dis)))

(* Mutant: a work item that arrives during a select does not interrupt it. *)
QueueNoWakeup(i) ==
    /\ workItems' = Append(workItems, i)
    /\ ready' = IF Len(workItems) = 0 THEN ready \cup {WorkQueue} ELSE ready
    /\ UNCHANGED interrupted

(* The pool's work queue: ThreadPoolWorkQueue::queue(), *)
(* called with the pool locked.                          *)
Queue(i) ==
    /\ workItems' = Append(workItems, i)
    /\ ready' = IF Len(workItems) = 0 THEN ready \cup {WorkQueue} ELSE ready
    /\ IF WorkQueue \notin ready /\ WorkQueue \in ready'
       THEN CheckReady(WorkQueue, ready', registered, disabled)
       ELSE UNCHANGED interrupted

(* The orders in which the handlers of S may be listed. *)
Orders(S) == {s \in [1..Cardinality(S) -> S] : \A i, j \in DOMAIN s : s[i] = s[j] => i = j}

(* Mutant: the handlers that were ready without the select come first. *)
HandlerListsReadyFirst(E, R) == {o \o p : p \in Orders(E \ R), o \in Orders(R)}

(* finishSelect(): the list of the handlers E that select() reported, then *)
(* of those, R, that were ready without it.                                *)
HandlerLists(E, R) == UNION {{p \o o : o \in Orders(R)} : p \in Orders(E \ R)}

-----------------------------------------------------------------------------
(* Condition variable of the pool. *)

(* notify(): one waiting thread, if there is one, runs again.  f is the pc *)
(* of all threads apart from that.                                         *)
Notify(f) ==
    LET waiting == {t \in Threads : f[t] = "wait"}
    IN IF waiting = {} THEN {f} ELSE {[f EXCEPT ![w] = "idle"] : w \in waiting}

(* Mutant: a follower does not wait for a promotion. *)
MayLeadUnpromoted(io) == io # conf.sizeIO /\ ~(handlers = <<>> /\ io > 0)

(* What a follower waits for. *)
MayLead(io) == promote /\ io # conf.sizeIO /\ ~(handlers = <<>> /\ io > 0)

(* Thread t leads: the end of a round of run(), from "Get the next ready   *)
(* handler".  io is _inUseIO and list is _handlers from _nextHandler.      *)
GetNextHandler(t, io, list) ==
    LET usable == {i \in DOMAIN list : list[i] \in registered \ disabled'}
        rest   == IF usable = {} THEN <<>> ELSE SubSeq(list, Min(usable), Len(list))
        more   == rest # <<>> /\ Tail(rest) # <<>>
        give   == more /\ io + 1 < conf.sizeIO
    IN \/ /\ rest # <<>>
          /\ cur' = [cur EXCEPT ![t] = Head(rest)]
          /\ ioCompleted' = [ioCompleted EXCEPT ![t] = FALSE]
          /\ handlers' = Tail(rest)
          /\ inUseIO' = IF conf.sizeMax > 1 THEN io + 1 ELSE io
          /\ promote' = (conf.sizeMax > 1 /\ give)
          /\ leader' = [leader EXCEPT ![t] = ~(conf.sizeMax > 1 /\ give)]
          /\ LET f == [pc EXCEPT ![t] = "io"]
             IN IF conf.sizeMax > 1 /\ give THEN pc' \in Notify(f) ELSE pc' = f
          /\ UNCHANGED <<interrupted, selectNow>>
       \/ /\ rest = <<>> /\ io > 0
          /\ cur' = [cur EXCEPT ![t] = NoHandler]
          /\ handlers' = <<>>
          /\ inUseIO' = io
          /\ promote' = TRUE
          /\ leader' = [leader EXCEPT ![t] = FALSE]
          /\ pc' = [pc EXCEPT ![t] = "idle"]
          /\ UNCHANGED <<ioCompleted, interrupted, selectNow>>
       \/ /\ rest = <<>> /\ io = 0
          /\ cur' = [cur EXCEPT ![t] = NoHandler]
          /\ handlers' = <<>>
          /\ inUseIO' = io
          /\ promote' = FALSE
          /\ leader' = [leader EXCEPT ![t] = TRUE]
          /\ interrupted' = FALSE
          /\ selectNow' = (ReadyHandlers(ready, registered, disabled') # {})
          /\ pc' = [pc EXCEPT ![t] = "select"]
          /\ UNCHANGED ioCompleted

(* followerWait(): lead, or wait on the condition variable. *)
FollowerWait(t, io) ==
    \/ MayLead(io) /\ GetNextHandler(t, io, handlers)
    \/ /\ ~MayLead(io)
       /\ pc' = [pc EXCEPT ![t] = "wait"]
       /\ cur' = [cur EXCEPT ![t] = NoHandler]
       /\ inUseIO' = io
       /\ IF disabled' = disabled THEN UNCHANGED interrupted
          ELSE CheckReady(cur[t], ready, registered, disabled')
       /\ UNCHANGED <<leader, ioCompleted, promote, handlers, selectNow>>

-----------------------------------------------------------------------------
(* ThreadPool::run(). *)

(* A thread that has no handler and does not lead enters followerWait(), *)
(* or leaves the condition variable because it was notified.             *)
Follow(t) ==
    /\ pc[t] = "idle"
    /\ UNCHANGED disabled
    /\ FollowerWait(t, inUseIO)
    /\ UNCHANGED <<conf, item, threads, inUse, workItems, destroyed,
                   registered, ready, events, handlerVars, dispatched>>

(* timedWait() times out and the thread is not wanted: it leaves the pool. *)
Shrink(t) ==
    /\ pc[t] = "wait" /\ conf.idle /\ ~destroyed /\ ~MayLead(inUseIO)
    /\ \E n \in Threads : pc[n] = "none"     \* bound: a spare identity
    /\ threads' = threads \ {t}
    /\ Queue(JoinItem(t))
    /\ pc' = [pc EXCEPT ![t] = "exiting"]
    /\ UNCHANGED <<conf, cur, leader, ioCompleted, item, promote, inUse, inUseIO,
                   handlers, destroyed, registered, disabled, events, selectNow,
                   handlerVars, dispatched>>

(* timedWait() times out and the thread is wanted after all. *)
TimedOutWanted(t) ==
    /\ pc[t] = "wait" /\ conf.idle /\ MayLead(inUseIO)
    /\ UNCHANGED disabled
    /\ GetNextHandler(t, inUseIO, handlers)
    /\ UNCHANGED <<conf, item, threads, inUse, workItems, destroyed,
                   registered, ready, events, handlerVars, dispatched>>

(* The thread of a joined work item has returned from run(). *)
Exit(t) ==
    /\ pc[t] = "exiting"
    /\ pc' = [pc EXCEPT ![t] = "exited"]
    /\ UNCHANGED <<conf, cur, leader, ioCompleted, item, poolVars, workItems,
                   destroyed, selectorVars, handlerVars, dispatched>>

(* Selector::select() returns: epoll reports every enabled handler whose   *)
(* socket holds data; what a transceiver has buffered is not in its socket.*)
Select(t) ==
    /\ pc[t] = "select"
    /\ LET readable == {h \in (registered \cap Handlers) \ disabled : data[h] > 0}
       IN \E E \in SUBSET readable :
            /\ readable \ ready \subseteq E
            /\ E # {} \/ interrupted \/ selectNow
            /\ events' = E
    /\ pc' = [pc EXCEPT ![t] = "selected"]
    /\ UNCHANGED <<conf, cur, leader, ioCompleted, item, poolVars, workItems,
                   destroyed, registered, disabled, ready, selectNow, interrupted,
                   handlerVars, dispatched>>

(* select() times out after ServerIdleTime ... *)
SelectTimesOut(t) ==
    /\ pc[t] = "select" /\ conf.serverIdle /\ ~selectNow /\ ~interrupted
    /\ \A h \in (registered \cap Handlers) \ disabled : data[h] = 0
    /\ pc' = [pc EXCEPT ![t] = "timedOut"]
    /\ UNCHANGED <<conf, cur, leader, ioCompleted, item, poolVars, workItems,
                   destroyed, selectorVars, handlerVars, dispatched>>

(* ... and the thread selects again; an idle server is shut down. *)
SelectTimeout(t) ==
    /\ pc[t] = "timedOut"
    /\ pc' = [pc EXCEPT ![t] = "select"]
    /\ \/ ~destroyed /\ inUse = 0 /\ Queue(ShutdownItem)
       \/ (destroyed \/ inUse > 0) /\ UNCHANGED <<workItems, ready, interrupted>>
    /\ UNCHANGED <<conf, cur, leader, ioCompleted, item, poolVars, destroyed,
                   registered, disabled, events, selectNow, handlerVars, dispatched>>

(* finishSelect() and the rest of the round. *)
FinishSelect(t) ==
    /\ pc[t] = "selected"
    /\ events' = {}
    /\ UNCHANGED disabled
    /\ \E list \in HandlerLists(events, ReadyHandlers(ready, registered, disabled)) :
         GetNextHandler(t, inUseIO, list)
    /\ UNCHANGED <<conf, item, threads, inUse, workItems, destroyed, registered,
                   ready, handlerVars, dispatched>>

(* Mutant: the IO count is decremented even after ioCompleted(). *)
IOAfterMessageTwice(t) == IF conf.sizeMax > 1 THEN inUseIO - 1 ELSE inUseIO

(* _inUseIO once message() has returned: the thread was still doing IO *)
(* unless the handler called ioCompleted().                            *)
IOAfterMessage(t) ==
    IF conf.sizeMax > 1 /\ ~ioCompleted[t] THEN inUseIO - 1 ELSE inUseIO

(* Mutant: the handler stays disabled. *)
DisabledAfterMessageNone(t) == disabled

(* The handlers that are disabled then. *)
DisabledAfterMessage(t) ==
    IF conf.sizeMax > 1 /\ ioCompleted[t] /\ conf.serialize
    THEN disabled \ {cur[t]} ELSE disabled

(* message() has returned.  Without ioCompleted() the thread was still     *)
(* doing IO; with it, it was in use and its handler may have been disabled.*)
MessageDone(t) ==
    /\ pc[t] = "done"
    /\ inUse' = IF conf.sizeMax > 1 /\ ioCompleted[t] THEN inUse - 1 ELSE inUse
    /\ disabled' = DisabledAfterMessage(t)
    /\ \/ leader[t] /\ GetNextHandler(t, IOAfterMessage(t), handlers)
       \/ ~leader[t] /\ FollowerWait(t, IOAfterMessage(t))
    /\ item' = [item EXCEPT ![t] = NoItem]
    /\ UNCHANGED <<conf, threads, workItems, destroyed, registered, ready, events,
                   handlerVars, dispatched>>

(* Mutant: a thread that ends stays counted. *)
DieStillInUse(t) ==
    /\ pc[t] = "dying"
    /\ pc' = [pc EXCEPT ![t] = "exited"]
    /\ UNCHANGED <<conf, cur, leader, ioCompleted, item, poolVars, workItems,
                   destroyed, selectorVars, handlerVars, dispatched>>

(* The ThreadPoolDestroyedException reaches run(): the thread ends. *)
Die(t) ==
    /\ pc[t] = "dying"
    /\ inUse' = inUse - 1
    /\ pc' = [pc EXCEPT ![t] = "exited"]
    /\ UNCHANGED <<conf, cur, leader, ioCompleted, item, threads, promote, inUseIO,
                   handlers, workItems, destroyed, selectorVars, handlerVars,
                   dispatched>>

-----------------------------------------------------------------------------
(* Mutant: only more handlers to serve wake a follower. *)
WakesFollowerNoSelect(t, io) ==
    /\ handlers # <<>>
    /\ IF leader[t] THEN io < conf.sizeIO ELSE promote

(* ioCompleted() by thread t, which leaves io threads doing IO, notifies a *)
(* follower: from promoteFollower() if t leads.                            *)
WakesFollower(t, io) ==
    /\ handlers # <<>> \/ io = 0
    /\ IF leader[t] THEN io < conf.sizeIO ELSE promote

(* Mutant: the pool also grows once it is destroyed. *)
GrowsAlways(used) == used < conf.sizeMax /\ used = Cardinality(threads)

(* Mutant: the pool grows up to SizeMax - 1 threads. *)
GrowsTooLittle(used) ==
    ~destroyed /\ used < conf.sizeMax - 1 /\ used = Cardinality(threads)

(* ioCompleted() starts a thread when the last one gets in use. *)
Grows(used) == ~destroyed /\ used < conf.sizeMax /\ used = Cardinality(threads)

(* Mutant: ioCompleted() does not disable the handler. *)
DisabledByDispatchNone(t) == disabled

(* The handlers that are disabled while thread t dispatches. *)
DisabledByDispatch(t) ==
    IF conf.serialize /\ ~destroyed THEN disabled \cup ({cur[t]} \ {WorkQueue}) ELSE disabled

(* ThreadPool::ioCompleted(), called by the handler of thread t, which then *)
(* is at `next'.                                                            *)
IoCompleted(t, next) ==
    LET io   == inUseIO - 1
        used == inUse + 1
        f    == [pc EXCEPT ![t] = next]
    IN /\ ioCompleted' = [ioCompleted EXCEPT ![t] = TRUE]
       /\ IF conf.sizeMax = 1
          THEN /\ pc' = f
               /\ UNCHANGED <<leader, poolVars, disabled>>
          ELSE /\ inUseIO' = io
               /\ inUse' = used
               /\ disabled' = DisabledByDispatch(t)
               /\ promote' = (promote \/ leader[t])
               /\ leader' = [leader EXCEPT ![t] = FALSE]
               /\ \E g \in (IF WakesFollower(t, io) THEN Notify(f) ELSE {f}) :
                    \/ ~Grows(used) /\ pc' = g /\ UNCHANGED threads
                    \/ Grows(used) /\ conf.startFails /\ pc' = g /\ UNCHANGED threads
                    \/ /\ Grows(used)
                       /\ \E n \in Threads :
                            /\ pc[n] = "none"
                            /\ threads' = threads \cup {n}
                            /\ pc' = [g EXCEPT ![n] = "idle"]
               /\ UNCHANGED handlers

(* message() of a connection, with its connection locked: nothing if the   *)
(* handler is no longer registered; else a chunk is read, and the call of  *)
(* ready() tells whether the transceiver has buffered the rest.  A chunk   *)
(* that completes a message is dispatched after ioCompleted().             *)
Message(t) ==
    /\ pc[t] = "io" /\ cur[t] # WorkQueue
    /\ LET h == cur[t]
       IN \/ /\ h \notin registered
             /\ pc' = [pc EXCEPT ![t] = "done"]
             /\ UNCHANGED <<leader, ioCompleted, poolVars, ready, interrupted,
                            disabled, data>>
          \/ /\ h \in registered
             /\ data' = [data EXCEPT ![h] = @ - 1]
             /\ ready' \in {ready \ {h}}
                           \cup (IF data[h] > 1 THEN {ready \cup {h}} ELSE {})
             /\ \/ /\ pc' = [pc EXCEPT ![t] = "done"]
                   /\ UNCHANGED <<leader, ioCompleted, poolVars, disabled>>
                \/ IoCompleted(t, "user")
             /\ CheckReady(h, ready', registered, disabled')
    /\ UNCHANGED <<conf, cur, item, workItems, destroyed, registered, events,
                   selectNow, hstate, arrived, dispatched>>

(* Mutant: the work queue stays ready when its last item is taken. *)
ReadyAfterTakeAlways == ready

(* The ready handlers once the first work item is taken. *)
ReadyAfterTake ==
    IF Len(workItems) <= 1 /\ ~destroyed THEN ready \ {WorkQueue} ELSE ready

(* ThreadPoolWorkQueue::message(): take the first work item. *)
TakeItem(t) ==
    /\ pc[t] = "io" /\ cur[t] = WorkQueue
    /\ IF workItems # <<>>
       THEN /\ item' = [item EXCEPT ![t] = Head(workItems)]
            /\ workItems' = Tail(workItems)
       ELSE /\ item' = [item EXCEPT ![t] = DestroyedItem]
            /\ UNCHANGED workItems
    /\ ready' = ReadyAfterTake
    /\ pc' = [pc EXCEPT ![t] = "exec"]
    /\ UNCHANGED <<conf, cur, leader, ioCompleted, poolVars, destroyed, registered,
                   disabled, events, selectNow, interrupted, handlerVars, dispatched>>

(* execute() of a work item that calls the application: ioCompleted()      *)
(* first, or, with no work item left, the exception that ends the thread.  *)
ExecuteBlocking(t) ==
    /\ pc[t] = "exec" /\ item[t].kind # "join"
    /\ IoCompleted(t, IF item[t] = DestroyedItem THEN "dying" ELSE "user")
    /\ UNCHANGED <<conf, cur, item, workItems, destroyed, registered, ready, events,
                   selectNow, interrupted, handlerVars, dispatched>>

(* A connection without callbacks finishes without ioCompleted(). *)
ExecuteFinished(t) ==
    /\ pc[t] = "exec" /\ item[t].kind = "finished"
    /\ hstate' = [hstate EXCEPT ![item[t].arg] = "finished"]
    /\ pc' = [pc EXCEPT ![t] = "done"]
    /\ UNCHANGED <<conf, cur, leader, ioCompleted, item, poolVars, workItems,
                   destroyed, selectorVars, data, arrived, dispatched>>

(* JoinThreadWorkItem: blocks until the thread has ended. *)
ExecuteJoin(t) ==
    /\ pc[t] = "exec" /\ item[t].kind = "join"
    /\ pc[item[t].arg] = "exited"
    /\ pc' = [pc EXCEPT ![t] = "done", ![item[t].arg] = "none"]
    /\ UNCHANGED <<conf, cur, leader, ioCompleted, item, poolVars, workItems,
                   destroyed, selectorVars, handlerVars, dispatched>>

(* The application's code returns. *)
UserReturn(t) ==
    /\ pc[t] = "user"
    /\ pc' = [pc EXCEPT ![t] = "done"]
    /\ hstate' = IF item[t].kind = "finished"
                 THEN [hstate EXCEPT ![item[t].arg] = "finished"] ELSE hstate
    /\ UNCHANGED <<conf, cur, leader, ioCompleted, item, poolVars, workItems,
                   destroyed, selectorVars, data, arrived, dispatched>>

-----------------------------------------------------------------------------
(* Calls from other threads. *)

(* ThreadPool::dispatch(). *)
Dispatch ==
    /\ ~destroyed
    /\ dispatched < MaxDispatch
    /\ dispatched' = dispatched + 1
    /\ Queue(DispatchItem)
    /\ UNCHANGED <<conf, threadVars, poolVars, destroyed, registered, disabled,
                   events, selectNow, handlerVars>>

(* ThreadPool::update(): a connection on hold stops reading, and resumes. *)
Update(h) ==
    /\ ~destroyed /\ hstate[h] = "open"
    /\ \/ h \in registered /\ registered' = registered \ {h}
       \/ h \notin registered /\ registered' = registered \cup {h}
    /\ CheckReady(h, ready, registered', disabled)
    /\ UNCHANGED <<conf, threadVars, poolVars, workItems, destroyed, disabled, ready,
                   events, selectNow, handlerVars, dispatched>>

(* ThreadPool::finish(): unregister the handler, queue its finished(). *)
Finish(h) ==
    /\ ~destroyed /\ hstate[h] = "open"
    /\ hstate' = [hstate EXCEPT ![h] = "closing"]
    /\ registered' = registered \ {h}
    /\ Queue(FinishedItem(h))
    /\ UNCHANGED <<conf, threadVars, poolVars, destroyed, disabled, events,
                   selectNow, data, arrived, dispatched>>

(* Mutant: destroy() does not make the work queue ready. *)
DestroyNoWakeup ==
    /\ ~destroyed
    /\ \A h \in Handlers : hstate[h] = "finished"
    /\ destroyed' = TRUE
    /\ UNCHANGED <<conf, threadVars, poolVars, workItems, selectorVars, handlerVars,
                   dispatched>>

(* ThreadPool::destroy(), which Instance::destroy() calls once all the     *)
(* connections are finished.                                               *)
Destroy ==
    /\ ~destroyed
    /\ \A h \in Handlers : hstate[h] = "finished"
    /\ destroyed' = TRUE
    /\ ready' = ready \cup {WorkQueue}
    /\ IF WorkQueue \in ready THEN UNCHANGED interrupted
       ELSE CheckReady(WorkQueue, ready', registered, disabled)
    /\ UNCHANGED <<conf, threadVars, poolVars, workItems, registered, disabled,
                   events, selectNow, handlerVars, dispatched>>

(* The peer sends a chunk of data. *)
Arrive(h) ==
    /\ hstate[h] = "open"
    /\ arrived[h] < MaxData
    /\ arrived' = [arrived EXCEPT ![h] = @ + 1]
    /\ data' = [data EXCEPT ![h] = @ + 1]
    /\ UNCHANGED <<conf, threadVars, poolVars, workItems, destroyed, selectorVars,
                   hstate, dispatched>>

RunStep(t) ==
    \/ Follow(t) \/ Exit(t) \/ Select(t) \/ FinishSelect(t) \/ MessageDone(t)
    \/ Die(t) \/ Message(t) \/ TakeItem(t) \/ ExecuteBlocking(t)
    \/ ExecuteFinished(t) \/ ExecuteJoin(t) \/ UserReturn(t) \/ SelectTimeout(t)

Next ==
    \/ \E t \in Threads : RunStep(t) \/ Shrink(t) \/ TimedOutWanted(t) \/ SelectTimesOut(t)
    \/ Dispatch \/ Destroy
    \/ \E h \in Handlers : Update(h) \/ Finish(h) \/ Arrive(h)

Spec == Init /\ [][Next]_vars

(* Threads of the pool are scheduled and the application's calls return;   *)
(* time-outs, and the calls of other threads, need not happen.             *)
Fairness == \A t \in Threads : WF_vars(RunStep(t))

FairSpec == Spec /\ Fairness

-----------------------------------------------------------------------------
(* Properties. *)

(* There is one leader, or a promotion is pending, never both and never    *)
(* neither: promoteFollower() asserts it, and a pool with neither would    *)
(* never select again.                                                     *)
OneLeader ==
    ~destroyed =>
    Cardinality({t \in threads : leader[t]}) = IF promote THEN 0 ELSE 1

(* _inUseIO and _inUse count the threads that do IO and those that are in  *)
(* the application, through growth, shrinking, exceptions and early        *)
(* returns; so the assertions of ioCompleted() and run() hold.             *)
InUseAccounted ==
    conf.sizeMax > 1 =>
    /\ inUseIO = Cardinality({t \in threads : cur[t] # NoHandler /\ ~ioCompleted[t]})
    /\ inUse = Cardinality({t \in threads : pc[t] # "exited" /\ cur[t] # NoHandler /\ ioCompleted[t]})
    /\ inUseIO <= conf.sizeIO
    /\ inUse <= Cardinality(threads) /\ Cardinality(threads) <= conf.sizeMax

(* Two threads never do IO on one handler; in a pool that serializes, two  *)
(* threads never work for one connection at all, although the list that    *)
(* select() returned may be stale when it is used.                         *)
HandlerExclusive ==
    \A t, u \in threads :
        t # u /\ cur[t] = cur[u] /\ cur[t] # NoHandler =>
        /\ ioCompleted[t] \/ ioCompleted[u]
        /\ conf.serialize => cur[t] = WorkQueue

(* _handlers and the events of select() are raw pointers: neither refers   *)
(* to a handler whose finished() has run, which may have been freed.       *)
NoDanglingHandler ==
    \A h \in Handlers :
        hstate[h] = "finished" => /\ h \notin events
                                  /\ \A i \in DOMAIN handlers : handlers[i] # h

(* The assertions of followerWait() and ThreadPoolWorkQueue::message(): a  *)
(* thread that gives up waiting leaves a thread in the pool, and one that  *)
(* finds no work item was woken by destroy().                              *)
PoolAssertions ==
    \A t \in Threads :
        /\ pc[t] = "wait" /\ ~destroyed /\ ~MayLead(inUseIO) => Cardinality(threads) > 1
        /\ item[t] = DestroyedItem => destroyed

(* While fewer than SizeMax threads are in the application, some thread of *)
(* the pool is left to select and to do IO, however the pool grew and      *)
(* shrank before.                                                          *)
PoolNotExhausted ==
    ~destroyed /\ ~conf.startFails /\ conf.sizeMax > 1 /\ inUse < conf.sizeMax =>
    \E t \in threads : ~(cur[t] # NoHandler /\ ioCompleted[t])

(* A follower that may lead is not left asleep while other threads are in  *)
(* the application: a thread, notified or new, is about to take the lead.  *)
NoLostWakeup ==
    MayLead(inUseIO) /\ (\E t \in Threads : pc[t] = "wait") =>
    \E t \in Threads : pc[t] = "idle"

(* "_threads is immutable after destroy() has been called", which          *)
(* joinWithAllThreads() relies on to read it without the lock.             *)
ThreadsImmutable == [][destroyed => threads' = threads]_vars

(* A connection that is finished by finish() is eventually told so, and    *)
(* no work item stays in the queue.                                        *)
WorkDone ==
    /\ \A h \in Handlers : hstate[h] = "closing" ~> hstate[h] = "finished"
    /\ []<>(workItems = <<>>)

(* Data that has arrived for a connection is eventually read, unless the   *)
(* connection stops reading.                                               *)
DataServed ==
    \A h \in Handlers :
        data[h] > 0 /\ h \in registered ~> data[h] = 0 \/ h \notin registered

(* joinWithAllThreads() returns: destroy() ends every thread, and every    *)
(* thread that left the pool before has been joined.                       *)
PoolTerminates ==
    destroyed ~> (workItems = <<>> /\ \A t \in Threads : pc[t] \in {"none", "exited"})
=============================================================================
