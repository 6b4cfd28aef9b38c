----------------------------- MODULE Invocation -----------------------------
(***************************************************************************)
(* The path of a twoway invocation of the Ice core through one proxy that  *)
(* caches its connection: ProxyOutgoingAsyncBase (OutgoingAsync.cpp), the  *)
(* request handlers and their factory, the two ConnectionI objects at the  *)
(* ends of every TCP connection, the retry decision (Proxy.cpp,            *)
(* ProxyFactory.cpp), the retry queue with the timer thread that runs it,  *)
(* and cancellation.  An action is one critical section: what a thread     *)
(* does while it holds the lock of the connection, of the request handler  *)
(* or of the queue.  What a servant did is the history variable ran.       *)
(***************************************************************************)
EXTENDS Integers, Sequences, FiniteSets, SequencesExt

CONSTANTS Calls,          \* the invocations the application can make
          Idempotent,     \* those whose operation is marked idempotent
          Scenarios,      \* what happens in an instance: see ScenarioAssumption
          MaxConns,       \* bound: connections opened; the last one does not fail
          BothReady       \* may a select report a socket writable and readable at once?

FaultKinds == {"close", "idle", "force", "timeout", "reset", "refuse"}

(* A scenario: the calls that are made, those that may be canceled,        *)
(* _retryIntervals, and the closures and failures that can happen.         *)
ASSUME CallsAssumption == Idempotent \subseteq Calls
ASSUME ScenarioAssumption ==
  \A s \in Scenarios : /\ s.calls \subseteq Calls /\ s.cancelable \subseteq s.calls
                       /\ s.intervals \in Seq(Nat) /\ s.faults \subseteq FaultKinds
ASSUME BoundAssumption == MaxConns \in Nat \ {0} /\ BothReady \in BOOLEAN

Conns == 1..MaxConns
None == 0                       \* no request handler
Ends == {"client", "server"}
Peer(e) == IF e = "client" THEN "server" ELSE "client"

(* ConnectionI::State, from StateActive on; NotUp covers what comes before. *)
NotUp == 0
Active == 1
Closing == 2
ClosingPending == 3
Closed == 4
Finished == 5

Request(k) == [type |-> "request", call |-> k]
Reply(k) == [type |-> "reply", call |-> k]
Close == [type |-> "close"]
(* The client sends requests, the server replies to them. *)
MessagesOf(e) ==
  {Close} \cup {IF e = "client" THEN Request(k) ELSE Reply(k) : k \in Calls}
Streams == [Conns -> [Ends -> Seq(UNION {MessagesOf(e) : e \in Ends})]]

(* The exceptions the retry decision tells apart. *)
Exceptions == {"none", "lost", "closeConnection", "manual", "timeout"}

(* What _cancellationHandler can be: nothing, the request handler of a     *)
(* connection, the connection, or a task of the retry queue.               *)
NoHandler == [kind |-> "none"]
RetryTask(n) == [kind |-> "task", task |-> n]
ConnectHandler(c) == [kind |-> "connect", conn |-> c]
ConnectionHandler(c) == [kind |-> "connection", conn |-> c]
CancelHandlers == {NoHandler} \cup [kind : {"connect", "connection"}, conn : Conns]
                  \cup [kind : {"task"}, task : Nat]

(* cancel() was not called, found no handler and stored its exception, is  *)
(* calling a handler (the other values), or has returned.                  *)
NotCanceled == [kind |-> "no"]
Stored == [kind |-> "stored"]
Returned == [kind |-> "returned"]

VARIABLES
  scenario,   \* the scenario, which never changes
  \* the invocation object
  phase,      \* where its thread or its owner is
  handler,    \* _handler
  sent,       \* _sent
  cnt,        \* _cnt
  canceler,   \* _cancellationHandler
  cancel,     \* the progress of cancel()
  \* the retry queue and the timer thread
  tasks,      \* the tasks made for the call; the last one waits when the phase is "retry"
  running,    \* the task the timer runs, and whether _requests still has it
  \* the proxy, the request handlers and their factory
  rh,         \* _requestHandler of the proxy
  factory,    \* _handlers of the RequestHandlerFactory
  link,       \* progress of the ConnectRequestHandler
  flushFailed,\* its _exception, once it has a connection
  connq,      \* its _requests
  \* the two ConnectionI of a connection
  state,      \* _state
  exc,        \* _exception of the client; the one of the server decides nothing
  out,        \* _sendStreams
  async,      \* _asyncRequests of the client
  disp,       \* the calls _dispatchCount counts
  shut,       \* _shutdownInitiated
  \* the network and the servants
  wire,       \* what an end has written and the other has not read
  broken,     \* the connection was reset
  ran         \* the requests the servant of a connection was given

callVars == <<phase, handler, sent, cnt, canceler, cancel, tasks>>
proxyVars == <<rh, factory, link, flushFailed, connq>>
endVars == <<state, exc, out, async, disp, shut>>
netVars == <<wire, broken, ran>>
vars == <<scenario, callVars, running, proxyVars, endVars, netVars>>

NoTask == [call |-> "none", task |-> 0, listed |-> FALSE]

(* "invoke" and "send" are the two halves of the loop of invokeImpl();     *)
(* "wait" is blocked in initialized() until the handler has flushed its    *)
(* queue, "queued" waits for the connection, "held" is with the            *)
(* connection, "retry" is in the retry queue.                              *)
Phases == {"idle", "invoke", "send", "wait", "queued", "held", "retry", "ok", "failed"}

TypeOK ==
  /\ scenario \in Scenarios
  /\ phase \in [Calls -> Phases]
  /\ handler \in [Calls -> Conns \cup {None}]
  /\ sent \in [Calls -> BOOLEAN]
  /\ cnt \in [Calls -> 0..Len(scenario.intervals) + 1]
  /\ canceler \in [Calls -> CancelHandlers]
  /\ cancel \in [Calls -> {NotCanceled, Stored, Returned} \cup CancelHandlers]
  /\ running = NoTask \/ running \in [call : Calls, task : Nat, listed : BOOLEAN]
  /\ tasks \in [Calls -> Nat]
  /\ rh \in Conns \cup {None} /\ factory \in Conns \cup {None}
  /\ link \in [Conns -> {"unused", "connecting", "flushing", "up", "failed"}]
  /\ flushFailed \in [Conns -> BOOLEAN]
  /\ connq \in [Conns -> Seq(Calls)]
  /\ state \in [Conns -> [Ends -> NotUp..Finished]]
  /\ exc \in [Conns -> Exceptions]
  /\ out \in Streams /\ wire \in Streams
  /\ \A c \in Conns, e \in Ends :
       out[c][e] \in Seq(MessagesOf(e)) /\ wire[c][e] \in Seq(MessagesOf(e))
  /\ async \in [Conns -> SUBSET Calls] /\ ran \in [Conns -> SUBSET Calls]
  /\ disp \in [Conns -> [Ends -> SUBSET Calls]]
  /\ shut \in [Conns -> [Ends -> BOOLEAN]]
  /\ broken \in [Conns -> BOOLEAN]

Init ==
  /\ scenario \in Scenarios
  /\ phase = [k \in Calls |-> "idle"]
  /\ handler = [k \in Calls |-> None]
  /\ sent = [k \in Calls |-> FALSE]
  /\ cnt = [k \in Calls |-> 0]
  /\ canceler = [k \in Calls |-> NoHandler]
  /\ cancel = [k \in Calls |-> NotCanceled]
  /\ tasks = [k \in Calls |-> 0]
  /\ running = NoTask
  /\ rh = None /\ factory = None
  /\ link = [c \in Conns |-> "unused"]
  /\ flushFailed = [c \in Conns |-> FALSE]
  /\ connq = [c \in Conns |-> <<>>]
  /\ state = [c \in Conns |-> [e \in Ends |-> NotUp]]
  /\ exc = [c \in Conns |-> "none"]
  /\ out = [c \in Conns |-> [e \in Ends |-> <<>>]]
  /\ async = [c \in Conns |-> {}]
  /\ disp = [c \in Conns |-> [e \in Ends |-> {}]]
  /\ shut = [c \in Conns |-> [e \in Ends |-> FALSE]]
  /\ wire = [c \in Conns |-> [e \in Ends |-> <<>>]]
  /\ broken = [c \in Conns |-> FALSE]
  /\ ran = [c \in Conns |-> {}]

-----------------------------------------------------------------------------
(* The retry decision. *)

(* ObjectPrx::_handleException: can the request be repeated at all? *)
Repeatable(k, ex) == ~sent[k] \/ k \in Idempotent \/ ex = "closeConnection"

RetryIntervals == scenario.intervals

(* ProxyFactory::checkRetryAfterException: the limit of the retries, which *)
(* a CloseConnectionException may pass by one.                             *)
WithinLimit(k, ex) ==
  \/ cnt[k] < Len(RetryIntervals)
  \/ cnt[k] = Len(RetryIntervals) /\ ex = "closeConnection"

NeverRetried == {"manual", "canceled"}

Retries(k, ex) == Repeatable(k, ex) /\ ex \notin NeverRetried /\ WithinLimit(k, ex)

(* The interval of the next retry. *)
Interval(k) == IF cnt[k] < Len(RetryIntervals) THEN RetryIntervals[cnt[k] + 1] ELSE 0

\* Mutant: the handler that failed stays.
ForgetHandlerNot(c) == rh' = rh

(* _updateRequestHandler(previous, 0): forget the handler if the proxy     *)
(* still has the one that failed.                                          *)
ForgetHandler(c) == rh' = IF rh = c THEN None ELSE rh

(* ProxyOutgoingAsyncBase::exception() of every call of S: the retry       *)
(* queue takes the call, or the call is over.  All of S used handler c.    *)
NotifyException(S, c, ex) ==
  LET again == {k \in S : Retries(k, ex)}
  IN /\ phase' = [k \in Calls |-> CASE k \in again -> "retry"
                                    [] k \in S \ again -> "failed"
                                    [] OTHER -> phase[k]]
     /\ tasks' = [k \in Calls |-> IF k \in again THEN tasks[k] + 1 ELSE tasks[k]]
     /\ cnt' = [k \in Calls |-> IF k \in again THEN cnt[k] + 1 ELSE cnt[k]]
     /\ canceler' = [k \in Calls |-> CASE k \in again -> RetryTask(tasks[k] + 1)
                                       [] k \in S \ again -> NoHandler
                                       [] OTHER -> canceler[k]]
     /\ IF S # {} THEN ForgetHandler(c) ELSE UNCHANGED rh

(* exceptionImpl(): the call is over. *)
Complete(k, result) ==
  /\ phase' = [phase EXCEPT ![k] = result]
  /\ canceler' = [canceler EXCEPT ![k] = NoHandler]

(* RetryQueue::add: a new task is the cancellation handler of the call. *)
NewTask(k) ==
  /\ tasks' = [tasks EXCEPT ![k] = @ + 1]
  /\ canceler' = [canceler EXCEPT ![k] = RetryTask(tasks[k] + 1)]

(* invokeImpl() caught an exception of sendAsyncRequest(): it tries again  *)
(* at once, leaves the call to the retry queue, or gives up.  h is the     *)
(* cancellation handler the attempt left behind.                           *)
InvokeException(k, c, ex, h) ==
  /\ ForgetHandler(c)
  /\ IF Retries(k, ex)
     THEN /\ cnt' = [cnt EXCEPT ![k] = @ + 1]
          /\ phase' = [phase EXCEPT ![k] = IF Interval(k) > 0 THEN "retry" ELSE "invoke"]
          /\ IF Interval(k) > 0
             THEN NewTask(k)
             ELSE canceler' = [canceler EXCEPT ![k] = h] /\ UNCHANGED tasks
     ELSE Complete(k, "failed") /\ UNCHANGED <<cnt, tasks>>

-----------------------------------------------------------------------------
(* The two ends of a connection. *)

(* setState(state, ex): only the first exception is kept. *)
SetException(c, e, ex) ==
  exc' = [exc EXCEPT ![c] = IF e = "client" /\ @ = "none" THEN ex ELSE @]

CloseWith(c, e, ex) ==
  /\ state' = [state EXCEPT ![c][e] = Closed]
  /\ SetException(c, e, ex)

(* A write or a read of this end may fail. *)
Unreachable(c, e) == broken[c] \/ state[c][Peer(e)] = Finished

(* sendMessage() for the messages ms, n of them written without blocking:  *)
(* nothing is written while earlier messages wait.                         *)
Write(c, e, ms, n) ==
  /\ out[c][e] # <<>> => n = 0
  /\ wire' = [wire EXCEPT ![c][e] = @ \o SubSeq(ms, 1, n)]
  /\ out' = [out EXCEPT ![c][e] = @ \o SubSeq(ms, n + 1, Len(ms))]

(* sendMessage() throws after writing n of the messages ms. *)
WriteFails(c, e, ms, n) ==
  /\ Unreachable(c, e) /\ out[c][e] = <<>> /\ n < Len(ms)
  /\ wire' = [wire EXCEPT ![c][e] = @ \o SubSeq(ms, 1, n)]
  /\ UNCHANGED out

(* The end is in state st once it has sent ms; a close message that is     *)
(* written makes the close pending, a failure closes the connection.       *)
SendAll(c, e, ms, st) ==
  \E n \in 0..Len(ms) :
    \/ /\ Write(c, e, ms, n)
       /\ state' = [state EXCEPT ![c][e] =
                      IF Contains(ms, Close) /\ n = Len(ms) THEN ClosingPending ELSE st]
    \/ /\ WriteFails(c, e, ms, n)
       /\ state' = [state EXCEPT ![c][e] = Closed]

(* initiateShutdown() sends the close message once nothing is dispatched.  *)
MayShutdown(st, count) == st = Closing /\ count = {}

ShutdownMessage(c, e, st, count) ==
  IF MayShutdown(st, count) /\ ~shut[c][e] THEN <<Close>> ELSE <<>>

(* setState(StateClosing, ex): the first step of a graceful closure. *)
GracefulClose(c, e, ex) ==
  /\ state[c][e] = Active
  /\ SendAll(c, e, ShutdownMessage(c, e, Closing, disp[c][e]), Closing)
  /\ SetException(c, e, ex)
  /\ shut' = [shut EXCEPT ![c][e] = MayShutdown(Closing, disp[c][e])]
  /\ UNCHANGED <<callVars, running, proxyVars, async, disp, broken, ran>>

(* The bounds of an instance: the closures and faults of the scenario      *)
(* happen, to any connection but the last, while some call is not over.    *)
Over(k) == phase[k] \in {"ok", "failed"}

MayEnd(c, fault) == fault \in scenario.faults /\ c # MaxConns /\ \E k \in scenario.calls : ~Over(k)

(* close(Gracefully), or destroy() by the deactivation of the adapter.     *)
CloseGracefully(c, e) == MayEnd(c, "close") /\ GracefulClose(c, e, "manual")

(* monitor() closes an idle connection. *)
CloseIdle(c, e) ==
  /\ MayEnd(c, "idle")
  /\ out[c][e] = <<>> /\ disp[c][e] = {} /\ (e = "client" => async[c] = {})
  /\ GracefulClose(c, e, "timeout")

(* close(Forcefully). *)
CloseForcefully(c, e) ==
  /\ MayEnd(c, "force") /\ state[c][e] \in Active..ClosingPending
  /\ CloseWith(c, e, "manual")
  /\ UNCHANGED <<callVars, running, proxyVars, out, async, disp, shut, netVars>>

(* timedOut(), scheduled while a write or the end of a closure is pending, *)
(* and monitor() when the peer sent no heartbeat during an invocation.     *)
TimedOut(c, e) ==
  /\ MayEnd(c, "timeout") /\ state[c][e] \in Active..ClosingPending
  /\ \/ out[c][e] # <<>> \/ state[c][e] = ClosingPending
     \/ state[c][e] = Active /\ e = "client" /\ async[c] # {}
  /\ CloseWith(c, e, "timeout")
  /\ UNCHANGED <<callVars, running, proxyVars, out, async, disp, shut, netVars>>

(* The network resets the connection.  What is in flight may still arrive. *)
Reset(c) ==
  /\ MayEnd(c, "reset") /\ ~broken[c] /\ state[c]["client"] # NotUp
  /\ broken' = [broken EXCEPT ![c] = TRUE]
  /\ UNCHANGED <<callVars, running, proxyVars, endVars, wire, ran>>

(* message() finds the socket writable: the head of _sendStreams is        *)
(* written and sendNextMessage() goes on until a write blocks.  A request  *)
(* that is out is marked sent; the last message of a closure makes the     *)
(* close pending.                                                          *)
SentRequests(c, ms) == {k \in async[c] : Contains(ms, Request(k))}

\* Mutant: only sendMessage() marks a request as sent.
MarkSentNot(S) == sent' = sent

MarkSent(S) == sent' = [k \in Calls |-> sent[k] \/ k \in S]

WriteReady(c, e) ==
  /\ state[c][e] \in Active..ClosingPending /\ out[c][e] # <<>>
  /\ \E n \in 1..Len(out[c][e]) :
       LET done == SubSeq(out[c][e], 1, n)
       IN /\ wire' = [wire EXCEPT ![c][e] = @ \o done]
          /\ out' = [out EXCEPT ![c][e] = SubSeq(@, n + 1, Len(@))]
          /\ IF e = "client" THEN MarkSent(SentRequests(c, done)) ELSE UNCHANGED sent
          /\ state' = [state EXCEPT ![c][e] =
                         IF n = Len(out[c][e]) /\ @ = Closing /\ shut[c][e]
                         THEN ClosingPending ELSE @]
  /\ UNCHANGED <<phase, handler, cnt, canceler, cancel, tasks, running, proxyVars,
                 exc, async, disp, shut, broken, ran>>

(* The write fails: the messages stay in _sendStreams for finish(). *)
WriteLost(c, e) ==
  /\ state[c][e] \in Active..ClosingPending /\ out[c][e] # <<>> /\ Unreachable(c, e)
  /\ CloseWith(c, e, "lost")
  /\ UNCHANGED <<callVars, running, proxyVars, out, async, disp, shut, netVars>>

(* The read fails.  message() writes before it reads: when both operations *)
(* were ready, the head of _sendStreams may be written in full and is      *)
(* still not marked as sent, because sendNextMessage() is not called.      *)
ReadLost(c, e) ==
  /\ state[c][e] \in Active..ClosingPending /\ Unreachable(c, e)
  /\ CloseWith(c, e, "lost")
  /\ \/ UNCHANGED wire
     \/ /\ BothReady /\ out[c][e] # <<>>
        /\ wire' = [wire EXCEPT ![c][e] = Append(@, Head(out[c][e]))]
  /\ UNCHANGED <<callVars, running, proxyVars, out, async, disp, shut, broken, ran>>

(* message() reads the next message of the peer. *)
Receive(c, e, m) ==
  /\ state[c][e] \in Active..ClosingPending
  /\ wire[c][Peer(e)] # <<>> /\ m = Head(wire[c][Peer(e)])
  /\ wire' = [wire EXCEPT ![c][Peer(e)] = Tail(@)]

(* parseMessage(), closeConnectionMsg: the peer waits for this end to      *)
(* close, which TcpTransceiver::closing(false) does at once.               *)
ReceiveClose(c, e) ==
  /\ Receive(c, e, Close)
  /\ CloseWith(c, e, "closeConnection")
  /\ UNCHANGED <<callVars, running, proxyVars, out, async, disp, shut, broken, ran>>

\* Mutant: a request is dispatched while the connection is closing.
AcceptsClosing(c) == state[c]["server"] <= Closing

(* parseMessage(), requestMsg: ignored once this end is closing, "client   *)
(* will retry"; otherwise dispatched.                                      *)
Accepts(c) == state[c]["server"] < Closing

ReceiveRequest(c, k) ==
  /\ Receive(c, "server", Request(k))
  /\ IF Accepts(c)
     THEN /\ disp' = [disp EXCEPT ![c]["server"] = @ \cup {k}]
          /\ ran' = [ran EXCEPT ![c] = @ \cup {k}]
     ELSE UNCHANGED <<disp, ran>>
  /\ UNCHANGED <<callVars, running, proxyVars, state, exc, out, async, shut, broken>>

(* parseMessage(), replyMsg: the reply of a canceled request is ignored;   *)
(* otherwise the call is over and its callback runs.                       *)
ReceiveReply(c, k) ==
  /\ Receive(c, "client", Reply(k))
  /\ IF k \in async[c]
     THEN /\ async' = [async EXCEPT ![c] = @ \ {k}]
          /\ disp' = [disp EXCEPT ![c]["client"] = @ \cup {k}]
          /\ Complete(k, "ok")
     ELSE UNCHANGED <<async, disp, phase, canceler>>
  /\ UNCHANGED <<handler, sent, cnt, cancel, tasks, running, proxyVars, state, exc, out, shut,
                 broken, ran>>

\* Mutant: every end of a dispatch is answered.
ResponseMessagesBothEnds(c, e, k) ==
  IF state[c][e] >= Closed THEN <<>>
  ELSE <<Reply(k)>> \o ShutdownMessage(c, e, state[c][e], disp[c][e] \ {k})

\* Mutant: the last dispatch does not start the shutdown.
ResponseMessagesOnly(c, e, k) ==
  IF state[c][e] < Closed /\ e = "server" THEN <<Reply(k)>> ELSE <<>>

(* sendResponse() by the servant, or the end of a callback in dispatch():  *)
(* the dispatch is over, the reply goes out unless the connection is       *)
(* closed, and a closure that waited for the dispatch starts.              *)
ResponseMessages(c, e, k) ==
  IF state[c][e] >= Closed THEN <<>>
  ELSE (IF e = "server" THEN <<Reply(k)>> ELSE <<>>)
       \o ShutdownMessage(c, e, state[c][e], disp[c][e] \ {k})

DispatchDone(c, e, k) ==
  /\ k \in disp[c][e]
  /\ disp' = [disp EXCEPT ![c][e] = @ \ {k}]
  /\ SendAll(c, e, ResponseMessages(c, e, k), state[c][e])
  /\ shut' = [shut EXCEPT ![c][e] = @ \/ Contains(ResponseMessages(c, e, k), Close)]
  /\ UNCHANGED <<callVars, running, proxyVars, exc, async, broken, ran>>

(* finish(): the socket is closed, with what it has not read, and every    *)
(* request that the connection still has gets its exception.               *)
Finish(c, e) ==
  /\ state[c][e] = Closed
  /\ state' = [state EXCEPT ![c][e] = Finished]
  /\ out' = [out EXCEPT ![c][e] = <<>>]
  /\ wire' = [wire EXCEPT ![c][Peer(e)] = <<>>]
  /\ IF e = "client"
     THEN /\ NotifyException(async[c], c, exc[c])
          /\ async' = [async EXCEPT ![c] = {}]
     ELSE UNCHANGED <<phase, cnt, canceler, tasks, rh, async>>
  /\ UNCHANGED <<handler, sent, cancel, running, factory, link, flushFailed, connq,
                 exc, disp, shut, broken, ran>>

-----------------------------------------------------------------------------
(* The invocation and its request handler. *)

(* The caller starts the invocation. *)
Invoke(k) ==
  /\ k \in scenario.calls /\ phase[k] = "idle"
  /\ phase' = [phase EXCEPT ![k] = "invoke"]
  /\ UNCHANGED <<handler, sent, cnt, canceler, cancel, tasks, running, proxyVars, endVars, netVars>>

(* The handler an attempt uses: the one the proxy has, the one the factory *)
(* is connecting, or a new one, which is given a connection that is        *)
(* already active or opens the next one.                                   *)
Fresh == {c \in Conns : link[c] = "unused"}
Reusable == {c \in Conns : state[c]["client"] = Active}

Candidates == CASE rh # None -> {rh}
                [] rh = None /\ factory # None -> {factory}
                [] rh = None /\ factory = None /\ Reusable # {} -> Reusable
                [] OTHER -> {c \in Fresh : \A d \in Fresh : c <= d}

GetRequestHandler(k) ==
  /\ phase[k] = "invoke"
  /\ \E c \in Candidates :
       /\ handler' = [handler EXCEPT ![k] = c]
       /\ rh' = c
       /\ IF link[c] = "unused"
          THEN factory' = c /\ link' = [link EXCEPT ![c] = "connecting"]
          ELSE UNCHANGED <<factory, link>>
  /\ phase' = [phase EXCEPT ![k] = "send"]
  /\ sent' = [sent EXCEPT ![k] = FALSE]
  /\ UNCHANGED <<cnt, canceler, cancel, tasks, running, flushFailed, connq, endVars, netVars>>

(* The handler is a ConnectRequestHandler that is not initialized, whose   *)
(* sendAsyncRequest() calls cancelable() first.                            *)
Uninitialized(c) == link[c] # "up" \/ flushFailed[c]

(* cancelable() throws what cancel() stored before there was a handler,    *)
(* which is never retried.                                                 *)
SendCanceled(k) ==
  LET c == handler[k]
  IN /\ phase[k] = "send" /\ cancel[k] = Stored
     /\ Uninitialized(c) \/ exc[c] = "none"
     /\ cancel' = [cancel EXCEPT ![k] = Returned]
     /\ ForgetHandler(c)
     /\ Complete(k, "failed")
     /\ UNCHANGED <<handler, sent, cnt, tasks, running, factory, link, flushFailed, connq,
                    endVars, netVars>>

(* ConnectRequestHandler::sendAsyncRequest: the request waits for the      *)
(* connection, or its thread for the end of the flush.                     *)
SendQueued(k) ==
  LET c == handler[k]
  IN /\ phase[k] = "send" /\ cancel[k] # Stored
     /\ canceler' = [canceler EXCEPT ![k] = ConnectHandler(c)]
     /\ \/ /\ link[c] = "connecting"
           /\ connq' = [connq EXCEPT ![c] = Append(@, k)]
           /\ phase' = [phase EXCEPT ![k] = "queued"]
        \/ /\ link[c] = "flushing"
           /\ phase' = [phase EXCEPT ![k] = "wait"]
           /\ UNCHANGED connq
     /\ UNCHANGED <<handler, sent, cnt, cancel, tasks, running, rh, factory, link, flushFailed,
                    endVars, netVars>>

(* The connection could not be established: initialized() throws. *)
SendRefused(k) ==
  LET c == handler[k]
  IN /\ phase[k] = "send" /\ cancel[k] # Stored /\ link[c] = "failed"
     /\ InvokeException(k, c, "lost", ConnectHandler(c))
     /\ UNCHANGED <<handler, sent, cancel, running, factory, link, flushFailed, connq,
                    endVars, netVars>>

(* ConnectionI::sendAsyncRequest of a connection that has an exception:    *)
(* RetryException, the handler is forgotten and the loop goes round.       *)
SendRetried(k) ==
  LET c == handler[k]
  IN /\ phase[k] \in {"send", "wait"} /\ link[c] = "up" /\ exc[c] # "none"
     /\ Uninitialized(c) => cancel[k] # Stored
     /\ ForgetHandler(c)
     /\ phase' = [phase EXCEPT ![k] = "invoke"]
     /\ canceler' = [canceler EXCEPT ![k] = IF Uninitialized(c) THEN ConnectHandler(c) ELSE @]
     /\ UNCHANGED <<handler, sent, cnt, cancel, tasks, running, factory, link, flushFailed, connq,
                    endVars, netVars>>

(* ConnectionI::sendAsyncRequest: the request is written or queued, and    *)
(* registered for its reply.                                               *)
ConnectionTakes(k, c) ==
  /\ async' = [async EXCEPT ![c] = @ \cup {k}]
  /\ phase' = [phase EXCEPT ![k] = "held"]
  /\ canceler' = [canceler EXCEPT ![k] = ConnectionHandler(c)]
  /\ \E n \in 0..1 : /\ Write(c, "client", <<Request(k)>>, n)
                     /\ sent' = [sent EXCEPT ![k] = n = 1]
  /\ UNCHANGED <<cnt, tasks, rh, state, exc>>

Send(k) ==
  LET c == handler[k]
  IN /\ phase[k] \in {"send", "wait"} /\ cancel[k] # Stored
     /\ link[c] = "up" /\ exc[c] = "none"
     /\ \/ ConnectionTakes(k, c)
        \/ /\ WriteFails(c, "client", <<Request(k)>>, 0)
           /\ CloseWith(c, "client", "lost")
           /\ InvokeException(k, c, "lost", ConnectionHandler(c))
           /\ UNCHANGED <<sent, async>>
     /\ UNCHANGED <<handler, cancel, running, factory, link, flushFailed, connq, disp, shut,
                    broken, ran>>

-----------------------------------------------------------------------------
(* The connect request handler. *)

(* setConnection(): both ends are validated and the queue is flushed. *)
ConnectDone(c) ==
  /\ link[c] = "connecting"
  /\ link' = [link EXCEPT ![c] = "flushing"]
  /\ state' = [state EXCEPT ![c] = [e \in Ends |-> Active]]
  /\ UNCHANGED <<callVars, running, rh, factory, flushFailed, connq, exc, out, async,
                 disp, shut, netVars>>

(* setException(): the factory forgets the handler before the queued       *)
(* requests are told.                                                      *)
ConnectFailed(c) ==
  /\ MayEnd(c, "refuse") /\ link[c] = "connecting"
  /\ link' = [link EXCEPT ![c] = "failed"]
  /\ factory' = IF factory = c THEN None ELSE factory
  /\ NotifyException(ToSet(connq[c]), c, "lost")
  /\ connq' = [connq EXCEPT ![c] = <<>>]
  /\ UNCHANGED <<handler, sent, cancel, running, flushFailed, endVars, netVars>>

(* flushRequests() sends the next request of the queue.  A connection that *)
(* is closing already makes it drop the handler and retry the request.     *)
FlushNext(c) ==
  /\ link[c] = "flushing" /\ connq[c] # <<>>
  /\ connq' = [connq EXCEPT ![c] = Tail(@)]
  /\ LET k == Head(connq[c])
     IN \/ /\ exc[c] = "none"
           /\ ConnectionTakes(k, c)
           /\ UNCHANGED <<factory, flushFailed>>
        \/ /\ exc[c] = "none"
           /\ WriteFails(c, "client", <<Request(k)>>, 0)
           /\ CloseWith(c, "client", "lost")
           /\ NotifyException({k}, c, "lost")
           /\ flushFailed' = [flushFailed EXCEPT ![c] = TRUE]
           /\ UNCHANGED <<factory, sent, async>>
        \/ /\ exc[c] # "none"
           /\ factory' = IF factory = c THEN None ELSE factory
           /\ flushFailed' = [flushFailed EXCEPT ![c] = TRUE]
           /\ ForgetHandler(c)
           /\ phase' = [phase EXCEPT ![k] = "retry"]
           /\ NewTask(k)
           /\ UNCHANGED <<sent, cnt, state, exc, out, async, wire>>
  /\ UNCHANGED <<handler, cancel, running, link, disp, shut, broken, ran>>

(* The queue is flushed: the handler is initialized and no longer the one  *)
(* the factory hands out.                                                  *)
FlushDone(c) ==
  /\ link[c] = "flushing" /\ connq[c] = <<>>
  /\ link' = [link EXCEPT ![c] = "up"]
  /\ factory' = IF factory = c THEN None ELSE factory
  /\ UNCHANGED <<callVars, running, rh, flushFailed, connq, endVars, netVars>>

-----------------------------------------------------------------------------
(* The retry queue. *)

(* The timer thread runs the task: retry() calls invokeImpl(). *)
RunRetry(k) ==
  /\ phase[k] = "retry" /\ running = NoTask
  /\ running' = [call |-> k, task |-> tasks[k], listed |-> TRUE]
  /\ phase' = [phase EXCEPT ![k] = "invoke"]
  /\ UNCHANGED <<handler, sent, cnt, canceler, cancel, tasks, proxyVars, endVars, netVars>>

InInvokeImpl(k) == phase[k] \in {"invoke", "send", "wait"}

(* invokeImpl() has returned: RetryQueue::remove takes the task out. *)
RemoveRetry ==
  /\ running # NoTask /\ ~InInvokeImpl(running.call)
  /\ running' = NoTask
  /\ UNCHANGED <<callVars, proxyVars, endVars, netVars>>

-----------------------------------------------------------------------------
(* Cancellation, by the application or by the invocation timeout. *)

(* OutgoingAsyncBase::cancel reads the handler under the lock of the call, *)
(* and stores the cancellation if there is none yet ...                    *)
Cancel(k) ==
  /\ k \in scenario.cancelable /\ cancel[k] = NotCanceled /\ phase[k] # "idle" /\ ~Over(k)
  /\ cancel' = [cancel EXCEPT ![k] = IF canceler[k] = NoHandler THEN Stored ELSE canceler[k]]
  /\ UNCHANGED <<phase, handler, sent, cnt, canceler, tasks, running, proxyVars, endVars, netVars>>

(* ... and calls it without the lock.  A cancellation is not retried. *)
Abort(k) == NotifyException({k}, handler[k], "canceled")

\* Mutant: the canceled request stays in the queue.
CancelQueuedKept(k, c) ==
  /\ cancel[k] = ConnectHandler(c) /\ link[c] = "connecting"
  /\ Abort(k)
  /\ UNCHANGED <<connq, out, async, running>>

(* ConnectRequestHandler::asyncRequestCanceled, up to the call of the      *)
(* connection: the request is taken out of the queue.                      *)
CancelQueued(k, c) ==
  /\ cancel[k] = ConnectHandler(c) /\ link[c] = "connecting"
  /\ \E i \in DOMAIN connq[c] :
       connq[c][i] = k /\ connq' = [connq EXCEPT ![c] = RemoveAt(@, i)]
  /\ Abort(k)
  /\ UNCHANGED <<out, async, running>>

(* ConnectionI::asyncRequestCanceled: a request that is being written      *)
(* stays in _sendStreams without its call, any other is erased.            *)
Waiting(k, c) == {i \in DOMAIN out[c]["client"] : i > 1 /\ out[c]["client"][i] = Request(k)}

CancelHeld(k, c) ==
  /\ \/ cancel[k] = ConnectionHandler(c)
     \/ cancel[k] = ConnectHandler(c) /\ link[c] = "up" /\ ~flushFailed[c]
  /\ state[c]["client"] < Closed /\ k \in async[c]
  /\ \/ \E i \in Waiting(k, c) : out' = [out EXCEPT ![c]["client"] = RemoveAt(@, i)]
     \/ Waiting(k, c) = {} /\ UNCHANGED out
  /\ async' = [async EXCEPT ![c] = @ \ {k}]
  /\ Abort(k)
  /\ UNCHANGED <<connq, running>>

(* RetryTask::asyncRequestCanceled: RetryQueue::cancel erases the task     *)
(* from _requests; the call is over if the timer had not started it.       *)
Scheduled(k) == phase[k] = "retry" /\ cancel[k] = RetryTask(tasks[k])

Running(k) == running.call = k /\ cancel[k] = RetryTask(running.task) /\ running.listed

CancelRetry(k) ==
  /\ \/ Scheduled(k) /\ Abort(k) /\ UNCHANGED running
     \/ /\ Running(k)
        /\ running' = [running EXCEPT !.listed = FALSE]
        /\ UNCHANGED <<phase, cnt, canceler, tasks, rh>>
  /\ UNCHANGED <<connq, out, async>>

(* The handler no longer has the request, or leaves it to a notification   *)
(* that is on its way: nothing happens.                                    *)
CancelIgnored(k) ==
  /\ \/ \E c \in Conns :
          \/ cancel[k] = ConnectHandler(c) /\ link[c] = "failed"
          \/ cancel[k] = ConnectHandler(c) /\ link[c] = "up"
             /\ (flushFailed[c] \/ state[c]["client"] >= Closed \/ k \notin async[c])
          \/ cancel[k] = ConnectionHandler(c)
             /\ (state[c]["client"] >= Closed \/ k \notin async[c])
     \/ cancel[k].kind = "task" /\ ~Scheduled(k) /\ ~Running(k)
  /\ UNCHANGED <<phase, cnt, canceler, tasks, rh, connq, out, async, running>>

CancelRequest(k) ==
  /\ \/ \E c \in Conns : CancelQueued(k, c) \/ CancelHeld(k, c)
     \/ CancelRetry(k)
     \/ CancelIgnored(k)
  /\ cancel' = [cancel EXCEPT ![k] = Returned]
  /\ UNCHANGED <<handler, sent, factory, link, flushFailed, state, exc, disp, shut, netVars>>

-----------------------------------------------------------------------------
(* A step of the run time, as opposed to one of the application, of the    *)
(* operator or of the network: threads run, a select reports what is       *)
(* ready, a connection attempt ends, a reset is noticed, servants and      *)
(* callbacks return.                                                       *)
CallStep(k) ==
  \/ GetRequestHandler(k) \/ SendCanceled(k) \/ SendQueued(k) \/ SendRefused(k)
  \/ SendRetried(k) \/ Send(k) \/ RunRetry(k) \/ CancelRequest(k)

EndStep(c, e) ==
  \/ WriteReady(c, e) \/ WriteLost(c, e) \/ ReadLost(c, e) \/ ReceiveClose(c, e)
  \/ Finish(c, e) \/ \E k \in Calls : DispatchDone(c, e, k)

ConnStep(c) ==
  \/ ConnectDone(c) \/ ConnectFailed(c) \/ FlushNext(c) \/ FlushDone(c)
  \/ \E k \in Calls : ReceiveRequest(c, k) \/ ReceiveReply(c, k)

RunTime ==
  /\ \/ \E k \in Calls : CallStep(k)
     \/ \E c \in Conns : ConnStep(c) \/ \E e \in Ends : EndStep(c, e)
     \/ RemoveRetry
  /\ UNCHANGED scenario

Fault(c, e) ==
  CloseGracefully(c, e) \/ CloseIdle(c, e) \/ CloseForcefully(c, e) \/ TimedOut(c, e)

Environment ==
  /\ \/ \E k \in Calls : Invoke(k) \/ Cancel(k)
     \/ \E c \in Conns : Reset(c) \/ \E e \in Ends : Fault(c, e)
  /\ UNCHANGED scenario

Next == RunTime \/ Environment

Spec == Init /\ [][Next]_vars

(* Some thread of the run time goes on as long as one can.  Nothing is     *)
(* assumed about which: no step of a call or of a connection can be        *)
(* repeated for ever, so none of them starves.                             *)
FairSpec == Spec /\ WF_vars(RunTime)

-----------------------------------------------------------------------------
(* Properties *)

(* The calls as their caller and the servants see them. *)
Status(k) == IF Over(k) THEN phase[k] ELSE IF phase[k] = "idle" THEN "idle" ELSE "pending"

Executions(k) == Cardinality({c \in Conns : k \in ran[c]})

C == INSTANCE Call WITH status <- [k \in Calls |-> Status(k)],
                        runs <- [k \in Calls |-> Executions(k)]

(* The retry queue, the request handlers and the connections implement the *)
(* specification of a call: it completes once, it returns a result only if *)
(* a servant ran it, and a call that is not idempotent runs at most once,  *)
(* however connections close, break and are replaced.                      *)
CallRefined == C!Spec

(* "By sending a close connection message, the server guarantees that all  *)
(* outstanding requests can safely be repeated" (Proxy.cpp): no request    *)
(* that is outstanding on a connection closed by its server was            *)
(* dispatched.                                                             *)
CloseConnRepeatable ==
  \A c \in Conns : exc[c] = "closeConnection" => async[c] \cap ran[c] = {}

(* Who has to complete a call: its thread or the timer's, a request        *)
(* handler that connects, the retry queue, or a connection that has not    *)
(* finished.                                                               *)
Owners(k) ==
  {c \in Conns : k \in async[c] /\ state[c]["client"] \in Active..Closed}
  \cup {MaxConns + c : c \in {d \in Conns : Contains(connq[d], k)}}

(* A pending call always has exactly one owner that will complete it: it   *)
(* is not lost and not completed twice when it moves between the handler,  *)
(* the connection and the retry queue.                                     *)
OneOwner ==
  \A k \in Calls :
    /\ phase[k] = "held" => Owners(k) = {handler[k]}
    /\ phase[k] = "queued" => Owners(k) = {MaxConns + handler[k]}
    /\ phase[k] \notin {"held", "queued"} => Owners(k) = {}

(* Every invocation completes. *)
CallsComplete == \A k \in Calls : phase[k] # "idle" ~> Over(k)

(* A closure ends: once one end is closing both finish, whoever closes     *)
(* first and even if both close at the same time.                          *)
CloseCompletes ==
  \A c \in Conns : (\E e \in Ends : state[c][e] >= Closing)
                     ~> (\A e \in Ends : state[c][e] = Finished)

(* At-most-once: a call that is not idempotent is not run twice. *)
AtMostOnce == \A k \in Calls \ Idempotent : Executions(k) <= 1

(* "A canceled invocation is considered to be completed, meaning           *)
(* isCompleted returns true" (AsyncResult.h): once cancel() has returned,  *)
(* the call is over.                                                       *)
CancelCompletes == \A k \in Calls : cancel[k] = Returned => Over(k)

=============================================================================
