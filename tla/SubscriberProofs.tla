--------------------------- MODULE SubscriberProofs ---------------------------
(***************************************************************************)
(* Theorems about Subscriber, for every value of its constants.            *)
(*                                                                         *)
(* WindowInv is the invariant that makes the type of outstanding           *)
(* inductive: a callback or a timer task can only run while a slot of the  *)
(* window is taken, so the count it decrements is positive.                *)
(***************************************************************************)
EXTENDS Subscriber, SequenceTheorems, FiniteSetTheorems, TLAPS

Window(o, i) ==
    /\ i + (IF flushTask THEN 1 ELSE 0) <= o
    /\ kind # "batch" => o = i /\ ~flushTask

WindowInv == Window(outstanding, inflight)

TypeInv == TypeOK /\ WindowInv

-----------------------------------------------------------------------------
(* Facts about the operators on the queue.                                 *)

(* The rest of a queue is a queue. *)
LEMMA RestType ==
    ASSUME NEW q \in Seq(Nat \ {0}), NEW n \in 0..Len(q)
    PROVE  /\ Rest(q, n) \in Seq(Nat \ {0})
           /\ n = Len(q) => Rest(q, n) = << >>
           /\ \A d \in Nat : Last(q, n, d) \in Nat
<1>1. Rest(q, n) \in Seq(Nat \ {0})
  BY DEF Rest
<1>2. n = Len(q) => Rest(q, n) = << >>
  BY DEF Rest
<1>3. \A d \in Nat : Last(q, n, d) \in Nat
  BY DEF Last
<1> QED BY <1>1, <1>2, <1>3

(* What queue() leaves in the queue is a sequence of publication numbers. *)
LEMMA EnqueuedType ==
    ASSUME TypeOK, NEW k \in Nat
    PROVE  Enqueued(k) \in Seq(Nat \ {0})
<1>1. New(k) \in Seq(Nat \ {0})
  BY DEF New, TypeOK
<1> DEFINE q == events \o New(k)
<1>2. q \in Seq(Nat \ {0}) /\ Len(q) = Len(events) + Len(New(k))
  BY <1>1 DEF TypeOK
<1>3. Len(New(k)) = k
  BY DEF New
<1>4. CASE Overflow(k)
  <2>1. QueueMax \in Nat /\ QueueMax <= Len(q) /\ Len(q) \in Nat
    BY <1>2, <1>3, <1>4, QueueMaxAssumption DEF Overflow
  <2>2. SubSeq(q, Len(q) - QueueMax + 1, Len(q)) \in Seq(Nat \ {0})
    BY <1>2, <2>1
  <2> QED BY <2>2, <1>4 DEF Enqueued
<1>5. CASE ~Overflow(k)
  BY <1>2, <1>5 DEF Enqueued
<1> QED BY <1>4, <1>5

(* The window of a subscriber has at least one slot. *)
LEMMA MaxOutstandingType ==
    MaxOutstanding \in Nat \ {0}
BY WindowAssumption DEF MaxOutstanding

(* flush() keeps the types and the accounting of the window. *)
LEMMA FlushType ==
    ASSUME TypeOK, NEW q \in Seq(Nat \ {0}), NEW o \in 0..MaxOutstanding,
           NEW i \in Nat, Window(o, i), kind' = kind, Flush(q, o, i)
    PROVE  /\ events' \in Seq(Nat \ {0})
           /\ outstanding' \in 0..MaxOutstanding
           /\ inflight' \in Nat
           /\ flushTask' \in BOOLEAN
           /\ lastSent' \in Nat
           /\ WindowInv'
<1> USE MaxOutstandingType
<1>1. CASE kind = "oneway" /\ FlushOneway(q, o, i)
  <2>1. PICK n \in 0..Len(q) : \E a \in 0..n :
            /\ a <= Room(o)
            /\ events' = Rest(q, n)
            /\ outstanding' = o + a
            /\ inflight' = i + a
            /\ lastSent' = Last(q, n, lastSent)
            /\ UNCHANGED flushTask
    BY <1>1 DEF FlushOneway
  <2> QED BY <2>1, <1>1, RestType DEF Room, TypeOK, WindowInv, Window
<1>2. CASE kind \in {"twoway", "ordered"} /\ FlushTwoway(q, o, i)
  <2> DEFINE n == IF Len(q) <= Room(o) THEN Len(q) ELSE Room(o)
  <2>1. n \in 0..Len(q) /\ n <= MaxOutstanding - o
    BY DEF Room
  <2>2. /\ events' = Rest(q, n)
        /\ outstanding' = o + n
        /\ inflight' = i + n
        /\ lastSent' = Last(q, n, lastSent)
        /\ UNCHANGED flushTask
    BY <1>2 DEF FlushTwoway
  <2> HIDE DEF n
  <2>3. o = i /\ ~flushTask
    BY <1>2 DEF Window
  <2>4. events' \in Seq(Nat \ {0}) /\ lastSent' \in Nat
    BY <2>1, <2>2, RestType DEF TypeOK
  <2>5. outstanding' \in 0..MaxOutstanding /\ inflight' \in Nat
    BY <2>1, <2>2
  <2>6. flushTask' \in BOOLEAN /\ WindowInv'
    BY <2>1, <2>2, <2>3 DEF TypeOK, WindowInv, Window
  <2> QED BY <2>4, <2>5, <2>6
<1>3. CASE kind = "batch" /\ FlushBatch(q, o, i)
  BY <1>3 DEF FlushBatch, TypeOK, WindowInv, Window
<1>4. CASE kind = "link" /\ FlushLink(q, o, i)
  <2>1. MaxOutstanding = 1
    BY <1>4 DEF MaxOutstanding
  <2>2. o = i /\ ~flushTask
    BY <1>4 DEF Window
  <2>3. events' \in Seq(Nat \ {0}) /\ lastSent' \in Nat
    BY <1>4 DEF FlushLink, TypeOK
  <2>f. flushTask' = FALSE
    BY <1>4, <2>2 DEF FlushLink, TypeOK
  <2>4. outstanding' \in 0..1 /\ inflight' \in 0..1 /\ inflight' = outstanding'
    <3> DEFINE send == o = 0 /\ {k \in 1..Len(q) : q[k] \notin Costly} # {}
    <3>1. /\ outstanding' = IF send THEN 1 ELSE o
          /\ inflight' = IF send THEN i + 1 ELSE i
      BY <1>4 DEF FlushLink
    <3>2. o \in 0..1
      BY <2>1
    <3>3. send => o = 0
      OBVIOUS
    <3> HIDE DEF send
    <3> QED BY <3>1, <3>2, <3>3, <2>2
  <2>5. flushTask' \in BOOLEAN /\ WindowInv'
    <3>1. \A x \in 0..1 : x + 0 <= x
      OBVIOUS
    <3> QED BY <3>1, <2>4, <2>f DEF WindowInv, Window
  <2> QED BY <2>1, <2>3, <2>4, <2>5
<1> QED BY <1>1, <1>2, <1>3, <1>4 DEF Flush

-----------------------------------------------------------------------------
(* The inductive step for the types, one step per action.                  *)

(* error() keeps the types of what it changes. *)
LEMMA ErrorType ==
    ASSUME TypeOK, NEW hard \in BOOLEAN, error(hard)
    PROVE  /\ events' \in Seq(Nat \ {0})
           /\ state' \in {"Online", "Offline", "Error", "Reaped"}
           /\ currentRetry' \in Nat
           /\ due' \in BOOLEAN
           /\ waiter' \in {"none", "waiting", "notified", "done"}
           /\ lastSent' \in Nat
<1>1. waiter' \in {"none", "waiting", "notified", "done"}
  BY DEF error, ErrorNotifies, NotifyIf, Notify, TypeOK
<1>2. lastSent' \in Nat
  BY DEF error, TypeOK
<1>3. CASE UNCHANGED <<events, state, currentRetry, due>>
  BY <1>1, <1>2, <1>3 DEF TypeOK
<1>4. CASE GoOffline
  <2>1. due' = FALSE /\ events' = << >> /\ state' = "Offline"
    BY <1>4 DEF GoOffline, QueueAfterError
  <2>2. currentRetry' \in Nat
    BY <1>4 DEF GoOffline, TypeOK
  <2>3. due' \in BOOLEAN
    BY <2>1
  <2>4. events' \in Seq(Nat \ {0})
    BY <2>1
  <2> QED BY <1>1, <1>2, <2>1, <2>2, <2>3, <2>4
<1>5. CASE ErrorOut
  BY <1>1, <1>2, <1>5 DEF ErrorOut, QueueAfterError, TypeOK
<1> QED BY <1>3, <1>4, <1>5 DEF error

(* A callback that succeeds keeps the types and the window. *)
LEMMA SucceededType ==
    ASSUME TypeInv, NEW flushes \in BOOLEAN, Succeeded(flushes), currentRetry' \in Nat
    PROVE  TypeInv'
<1> USE MaxOutstandingType
<1>1. /\ outstanding - 1 \in 0..MaxOutstanding
      /\ inflight - 1 \in Nat
      /\ Window(outstanding - 1, inflight - 1)
  BY DEF TypeInv, TypeOK, WindowInv, Window, Succeeded
<1>2. /\ events' \in Seq(Nat \ {0})
      /\ outstanding' \in 0..MaxOutstanding
      /\ inflight' \in Nat
      /\ flushTask' \in BOOLEAN
      /\ lastSent' \in Nat
      /\ WindowInv'
  <2>1. CASE flushes /\ state = "Online"
    <3>1. Flush(events, outstanding - 1, inflight - 1) /\ kind' = kind
      BY <2>1 DEF Succeeded
    <3> QED BY <3>1, <1>1, FlushType DEF TypeInv, TypeOK
  <2>2. CASE ~(flushes /\ state = "Online")
    BY <1>1, <2>2 DEF Succeeded, TypeInv, TypeOK, WindowInv, Window
  <2> QED BY <2>1, <2>2
<1>3. waiter' \in {"none", "waiting", "notified", "done"}
  BY DEF Succeeded, NotifyIf, Notify, TypeInv, TypeOK
<1>4. UNCHANGED <<kind, state, due, shutdown, pc, published, resets>>
  BY DEF Succeeded
<1>5. MaxOutstanding' = MaxOutstanding
  BY <1>4 DEF MaxOutstanding
<1> QED BY <1>2, <1>3, <1>4, <1>5 DEF TypeInv, TypeOK

(* Every step keeps the types and the window. *)
LEMMA TypeStep ==
    TypeInv /\ [Next]_vars => TypeInv'
<1> SUFFICES ASSUME TypeInv, [Next]_vars PROVE TypeInv'
  OBVIOUS
<1> USE MaxOutstandingType
<1>k. ASSUME kind' = kind PROVE MaxOutstanding' = MaxOutstanding
  BY <1>k DEF MaxOutstanding
<1>1. ASSUME NEW p \in Publishers, NEW k \in 1..MaxBatch, Queue(p, k)
      PROVE  TypeInv'
  <2>1. k \in Nat /\ published' \in Nat
    BY <1>1, BoundsAssumption
       DEF Queue, QueueAccept, QueueFull, QueueDiscard, QueueError, Publish, TypeInv, TypeOK
  <2>2. CASE QueueAccept(p, k)
    <3>1. kind' = kind /\ Enqueued(k) \in Seq(Nat \ {0})
      BY <2>1, <2>2, EnqueuedType DEF QueueAccept, TypeInv
    <3>2. /\ events' \in Seq(Nat \ {0})
          /\ outstanding' \in 0..MaxOutstanding
          /\ inflight' \in Nat
          /\ flushTask' \in BOOLEAN
          /\ lastSent' \in Nat
          /\ WindowInv'
      BY <2>2, <3>1, FlushType DEF QueueAccept, TypeInv, TypeOK, WindowInv
    <3> QED BY <2>1, <2>2, <3>2, <1>k DEF QueueAccept, TypeInv, TypeOK
  <2>3. CASE QueueFull(p, k)
    BY <2>1, <2>3, <1>k
       DEF QueueFull, QueueFalse, ErrorOut, QueueAfterError, TypeInv, TypeOK, WindowInv, Window
  <2>4. CASE QueueDiscard(p, k)
    BY <2>1, <2>4, <1>k DEF QueueDiscard, TypeInv, TypeOK, WindowInv, Window
  <2>5. CASE QueueError(p, k)
    BY <2>1, <2>5, <1>k DEF QueueError, QueueFalse, TypeInv, TypeOK, WindowInv, Window
  <2> QED BY <1>1, <2>2, <2>3, <2>4, <2>5 DEF Queue
<1>2. ASSUME NEW p \in Publishers, Reap(p) \/ Report(p)
      PROVE  TypeInv'
  BY <1>2, <1>k DEF Reap, Report, TypeInv, TypeOK, WindowInv, Window
<1>3. CASE ResetIfReaped
  BY <1>3, <1>k DEF ResetIfReaped, TypeInv, TypeOK, WindowInv, Window
<1>4. CASE Completed
  <2>1. currentRetry' \in Nat /\ Succeeded(events # << >>)
    BY <1>4 DEF Completed
  <2> QED BY <2>1, SucceededType
<1>5. CASE SentOneway
  <2>1. currentRetry' \in Nat /\ Succeeded(outstanding = 1 /\ events # << >>)
    BY <1>5 DEF SentOneway, TypeInv, TypeOK
  <2> QED BY <2>1, SucceededType
<1>6. CASE SentBatch
  <2>1. currentRetry' \in Nat /\ Succeeded(events # << >>)
    BY <1>6 DEF SentBatch, TypeInv, TypeOK
  <2> QED BY <2>1, SucceededType
<1>7. ASSUME NEW hard \in BOOLEAN, Exception(hard)
      PROVE  TypeInv'
  <2>1. error(hard) /\ UNCHANGED <<kind, shutdown, flushTask, pc, published, resets>>
    BY <1>7 DEF Exception
  <2>2. /\ outstanding' \in 0..MaxOutstanding
        /\ inflight' \in Nat
        /\ WindowInv'
    BY <1>7, <2>1 DEF Exception, ExceptionDecrements, TypeInv, TypeOK, WindowInv, Window
  <2> QED BY <2>1, <2>2, <1>k, ErrorType DEF TypeInv, TypeOK
<1>8. CASE DoFlushNotOnline
  <2>1. /\ flushTask' = FALSE
        /\ UNCHANGED <<kind, state, events, outstanding, currentRetry, due, shutdown,
                       inflight, waiter, pc, published, lastSent, resets>>
    BY <1>8 DEF DoFlushNotOnline, TaskDone
  <2>2. WindowInv'
    BY <2>1 DEF TypeInv, TypeOK, WindowInv, Window
  <2> QED BY <2>1, <2>2, <1>k DEF TypeInv, TypeOK
<1>9. CASE DoFlushSend
  <2>1. UNCHANGED <<kind, state, currentRetry, due, shutdown, pc, published, resets>>
    BY <1>9 DEF DoFlushSend
  <2>2. events' \in Seq(Nat \ {0}) /\ lastSent' \in Nat
    <3>1. events' = << >> /\ lastSent' = Last(events, Len(events), lastSent)
      BY <1>9 DEF DoFlushSend
    <3>2. events \in Seq(Nat \ {0}) /\ Len(events) \in 0..Len(events) /\ lastSent \in Nat
      BY DEF TypeInv, TypeOK
    <3> QED BY <3>1, <3>2, RestType
  <2>3. waiter' \in {"none", "waiting", "notified", "done"}
    BY <1>9 DEF DoFlushSend, NotifyIf, Notify, TypeInv, TypeOK
  <2>4. /\ outstanding' \in 0..MaxOutstanding
        /\ inflight' \in Nat
        /\ flushTask' = FALSE
        /\ WindowInv'
    BY <1>9, <2>1 DEF DoFlushSend, TaskDone, TypeInv, TypeOK, WindowInv, Window
  <2> QED BY <2>1, <2>2, <2>3, <2>4, <1>k DEF TypeInv, TypeOK
<1>10. ASSUME NEW hard \in BOOLEAN, DoFlushRefused(hard)
       PROVE  TypeInv'
  <2>1. error(hard) /\ UNCHANGED <<kind, outstanding, shutdown, inflight, pc, published, resets>>
    BY <1>10 DEF DoFlushRefused
  <2>2. flushTask' = FALSE /\ WindowInv'
    BY <1>10, <2>1 DEF DoFlushRefused, TaskDone, TypeInv, TypeOK, WindowInv, Window
  <2> QED BY <2>1, <2>2, <1>k, ErrorType DEF TypeInv, TypeOK
<1>11. CASE Expire
  BY <1>11, <1>k DEF Expire, TypeInv, TypeOK, WindowInv, Window
<1>12. CASE Shutdown \/ ShutdownWakes
  <2>1. /\ waiter' \in {"none", "waiting", "notified", "done"}
        /\ shutdown' \in BOOLEAN
        /\ UNCHANGED <<kind, state, events, outstanding, currentRetry, due,
                       inflight, flushTask, pc, published, lastSent, resets>>
    BY <1>12 DEF Shutdown, ShutdownWakes, TypeInv, TypeOK
  <2>2. WindowInv'
    BY <2>1 DEF TypeInv, WindowInv, Window
  <2> QED BY <2>1, <2>2, <1>k DEF TypeInv, TypeOK
<1>13. CASE UNCHANGED vars
  BY <1>13, <1>k DEF vars, TypeInv, TypeOK, WindowInv, Window
<1> QED BY <1>1, <1>2, <1>3, <1>4, <1>5, <1>6, <1>7, <1>8, <1>9, <1>10, <1>11, <1>12, <1>13
        DEF Next, Callback, DoFlush

(* The initial states have the types. *)
LEMMA InitType == Init => TypeInv
<1> SUFFICES ASSUME Init PROVE TypeOK /\ WindowInv
  BY DEF TypeInv
<1>1. TypeOK
  <2>1. /\ due \in BOOLEAN /\ shutdown \in BOOLEAN /\ flushTask \in BOOLEAN
        /\ pc \in [Publishers -> {"idle", "reap", "report"}]
        /\ kind \in Kinds
    BY DEF Init
  <2>2. outstanding \in 0..MaxOutstanding /\ events \in Seq(Nat \ {0})
    BY MaxOutstandingType DEF Init
  <2> QED BY <2>1, <2>2 DEF Init, TypeOK
<1>2. WindowInv
  BY DEF Init, WindowInv, Window
<1> QED BY <1>1, <1>2

(* The type invariant holds for every kind of subscriber and every QoS:    *)
(* in particular _outstanding stays within the window, which is what the   *)
(* assertions of sent(), completed() and error() test.                     *)
THEOREM TypeCorrect == Spec => []TypeOK
<1>2. TypeInv => TypeOK
  BY DEF TypeInv
<1> QED BY <1>2, InitType, TypeStep, PTL DEF Spec

-----------------------------------------------------------------------------
(* The queue of an online subscriber is always looked after.               *)

(* The QoS of a batch subscriber does not ask for retries.  Without this   *)
(* the property is false: a batch that failed keeps its slot, and a        *)
(* subscriber that is online again never flushes.                          *)
NoBatchRetry == "batch" \in Kinds => RetryCount = 0

(* error() leaves nothing queued that could be delivered, out of context,  *)
(* when the subscriber is online again.                                    *)
OfflineQueueEmpty == state # "Online" => events = << >>

BatchNeverOffline == kind = "batch" => state # "Offline"

QueueInv ==
    /\ OutstandingAccounted
    /\ NoStuckQueue
    /\ OfflineQueueEmpty
    /\ BatchNotEmpty
    /\ BatchNeverOffline

Accounted(o, i) == o = i + (IF flushTask THEN 1 ELSE 0)

TaskFor(q) == flushTask => q # << >>

(* flush() of an online subscriber whose slots are all accounted for       *)
(* leaves them accounted for, and leaves events only with a call to come.  *)
LEMMA FlushQueue ==
    ASSUME TypeOK, NEW q \in Seq(Nat \ {0}), NEW o \in 0..MaxOutstanding,
           NEW i \in Nat, Window(o, i), kind' = kind, Flush(q, o, i),
           Accounted(o, i), TaskFor(q)
    PROVE  /\ outstanding' = Pending'
           /\ events' # << >> => Pending' > 0
           /\ flushTask' => events' # << >>
<1> USE MaxOutstandingType
<1>1. CASE kind = "oneway" /\ FlushOneway(q, o, i)
  <2>1. PICK n \in 0..Len(q), a \in Nat :
            /\ a <= Room(o)
            /\ n = Len(q) \/ a = Room(o)
            /\ events' = Rest(q, n)
            /\ outstanding' = o + a
            /\ inflight' = i + a
    BY <1>1 DEF FlushOneway
  <2>2. flushTask' = FALSE
    BY <1>1 DEF Window, FlushOneway, TypeOK
  <2>i. o = i
    BY <1>1 DEF Window
  <2>3. Pending' = inflight'
    BY <2>1, <2>2 DEF Pending
  <2>4. events' # << >> => outstanding' > 0
    BY <2>1, RestType DEF Room
  <2>5. outstanding' = inflight'
    BY <2>1, <2>i
  <2> QED BY <2>2, <2>3, <2>4, <2>5
<1>2. CASE kind \in {"twoway", "ordered"} /\ FlushTwoway(q, o, i)
  <2> DEFINE n == IF Len(q) <= Room(o) THEN Len(q) ELSE Room(o)
  <2>1. n \in 0..Len(q) /\ (n = Len(q) \/ n = Room(o))
    BY DEF Room
  <2>2. events' = Rest(q, n) /\ outstanding' = o + n /\ inflight' = i + n
    BY <1>2 DEF FlushTwoway
  <2> HIDE DEF n
  <2>3. o = i /\ flushTask' = FALSE
    BY <1>2 DEF Window, FlushTwoway, TypeOK
  <2>4. Pending' = inflight'
    BY <2>1, <2>2, <2>3 DEF Pending
  <2>5. events' # << >> => outstanding' > 0
    BY <2>1, <2>2, RestType DEF Room
  <2> QED BY <2>2, <2>3, <2>4, <2>5
<1>3. CASE kind = "batch" /\ FlushBatch(q, o, i)
  <2>1. events' = q /\ inflight' = i
    BY <1>3 DEF FlushBatch
  <2>2. CASE q # << >> /\ o = 0
    <3>1. outstanding' = 1 /\ flushTask' = TRUE
      BY <1>3, <2>2 DEF FlushBatch
    <3>2. i = 0
      BY <2>2 DEF Accounted
    <3> QED BY <2>1, <2>2, <3>1, <3>2 DEF Pending
  <2>3. CASE ~(q # << >> /\ o = 0)
    <3>1. outstanding' = o /\ flushTask' = flushTask
      BY <1>3, <2>3 DEF FlushBatch, TypeOK
    <3>2. Pending' = o
      BY <2>1, <3>1 DEF Pending, Accounted
    <3>3. events' # << >> => o > 0
      BY <2>1, <2>3
    <3>4. flushTask' => events' # << >>
      BY <2>1, <3>1 DEF TaskFor
    <3> QED BY <3>1, <3>2, <3>3, <3>4
  <2> QED BY <2>2, <2>3
<1>4. CASE kind = "link" /\ FlushLink(q, o, i)
  <2> DEFINE send == o = 0 /\ {k \in 1..Len(q) : q[k] \notin Costly} # {}
  <2>1. /\ events' = IF o > 0 THEN q ELSE << >>
        /\ outstanding' = IF send THEN 1 ELSE o
        /\ inflight' = IF send THEN i + 1 ELSE i
    BY <1>4 DEF FlushLink
  <2>2. send => o = 0
    OBVIOUS
  <2> HIDE DEF send
  <2>3. flushTask' = FALSE
    BY <1>4 DEF Window, FlushLink, TypeOK
  <2>i. o = i
    BY <1>4 DEF Window
  <2>4. outstanding' = inflight' /\ inflight' \in Nat
    <3>1. CASE send
      BY <3>1, <2>1, <2>2, <2>i
    <3>2. CASE ~send
      BY <3>2, <2>1, <2>i
    <3> QED BY <3>1, <3>2
  <2>n. inflight' \in Nat
    BY <2>4
  <2>5. Pending' = inflight'
    <3>1. Pending' = inflight' + 0
      BY <2>3 DEF Pending
    <3>2. \A x \in Nat : x + 0 = x
      OBVIOUS
    <3> QED BY <3>1, <3>2, <2>n, Zenon
  <2>6. events' # << >> => outstanding' > 0
    BY <2>1, <2>2
  <2> QED BY <2>3, <2>4, <2>5, <2>6
<1> QED BY <1>1, <1>2, <1>3, <1>4 DEF Flush

(* What queue() hands to flush() is never empty. *)
LEMMA EnqueuedNotEmpty ==
    ASSUME TypeOK, NEW k \in Nat \ {0}, DropEvents \/ ~Overflow(k)
    PROVE  Enqueued(k) # << >>
<1> DEFINE q == events \o New(k)
<1>1. New(k) \in Seq(Nat \ {0})
  BY DEF New, TypeOK
<1>l. Len(New(k)) = k
  BY DEF New
<1>e. events \in Seq(Nat \ {0}) /\ Len(events) \in Nat
  BY DEF TypeOK
<1>q. q \in Seq(Nat \ {0}) /\ Len(q) = Len(events) + Len(New(k))
  BY <1>1, <1>e
<1>2. q \in Seq(Nat \ {0}) /\ Len(q) = Len(events) + k /\ Len(q) > 0
  BY <1>q, <1>e, <1>l
<1>3. CASE Overflow(k)
  <2>1. QueueMax \in Nat \ {0} /\ QueueMax <= Len(q) /\ Len(q) \in Nat
    BY <1>2, <1>3, QueueMaxAssumption DEF Overflow
  <2>2. Len(SubSeq(q, Len(q) - QueueMax + 1, Len(q))) = QueueMax
    BY <1>2, <2>1
  <2> QED BY <2>1, <2>2, <1>3 DEF Enqueued
<1>4. CASE ~Overflow(k)
  BY <1>2, <1>4 DEF Enqueued
<1> QED BY <1>3, <1>4

(* Leaving the online state is always done with an empty queue. *)
LEMMA ErrorQueue ==
    ASSUME TypeOK, OfflineQueueEmpty, BatchNeverOffline, NoBatchRetry,
           NEW hard \in BOOLEAN, error(hard), kind' = kind
    PROVE  /\ state' # "Online"
           /\ events' = << >>
           /\ BatchNeverOffline'
<1>1. CASE AlreadyFailed \/ WithinInterval(hard)
  BY <1>1 DEF error, AlreadyFailed, WithinInterval, OfflineQueueEmpty, BatchNeverOffline
<1>2. CASE ~AlreadyFailed /\ ~WithinInterval(hard)
  <2>1. CASE ~hard /\ MayRetry
    <3>1. GoOffline
      BY <1>2, <2>1 DEF error
    <3>2. kind # "batch"
      BY <2>1, RetryAssumption DEF MayRetry, RetryLimit, NoBatchRetry, TypeOK
    <3> QED BY <3>1, <3>2 DEF GoOffline, QueueAfterError, BatchNeverOffline
  <2>2. CASE ~(~hard /\ MayRetry)
    BY <1>2, <2>2 DEF error, ErrorOut, QueueAfterError, BatchNeverOffline
  <2> QED BY <2>1, <2>2
<1> QED BY <1>1, <1>2

(* A successful callback keeps the queue looked after. *)
LEMMA SucceededQueue ==
    ASSUME TypeInv, QueueInv, NEW flushes \in BOOLEAN, Succeeded(flushes),
           events # << >> => flushes \/ outstanding > 1
    PROVE  QueueInv'
<1> USE MaxOutstandingType
<1>1. /\ outstanding - 1 \in 0..MaxOutstanding
      /\ inflight - 1 \in Nat
      /\ Window(outstanding - 1, inflight - 1)
  BY DEF TypeInv, TypeOK, WindowInv, Window, Succeeded
<1>2. kind' = kind /\ state' = state
  BY DEF Succeeded
<1>3. BatchNeverOffline'
  BY <1>2 DEF QueueInv, BatchNeverOffline
<1>4. CASE flushes /\ state = "Online"
  <2>1. Flush(events, outstanding - 1, inflight - 1)
    BY <1>4 DEF Succeeded
  <2>2. Accounted(outstanding - 1, inflight - 1) /\ TaskFor(events)
    BY <1>4 DEF QueueInv, OutstandingAccounted, Pending, Accounted, TaskFor, BatchNotEmpty,
                TypeInv, TypeOK
  <2>3. /\ outstanding' = Pending'
        /\ events' # << >> => Pending' > 0
        /\ flushTask' => events' # << >>
    BY <1>1, <1>2, <2>1, <2>2, FlushQueue DEF TypeInv, TypeOK
  <2>4. outstanding' \in Int
    BY <1>1, <1>2, <2>1, FlushType DEF TypeInv, TypeOK
  <2> QED BY <1>2, <1>3, <1>4, <2>3, <2>4
          DEF QueueInv, OutstandingAccounted, NoStuckQueue, OfflineQueueEmpty, BatchNotEmpty
<1>5. CASE ~(flushes /\ state = "Online")
  <2>1. /\ outstanding' = outstanding - 1
        /\ inflight' = inflight - 1
        /\ UNCHANGED <<events, flushTask>>
    BY <1>5 DEF Succeeded
  <2>2. OutstandingAccounted'
    BY <2>1, <1>2 DEF QueueInv, OutstandingAccounted, Pending, TypeInv, TypeOK
  <2>3. NoStuckQueue'
    BY <2>1, <2>2, <1>2, <1>5
       DEF QueueInv, OutstandingAccounted, NoStuckQueue, TypeInv, TypeOK
  <2> QED BY <1>2, <1>3, <2>1, <2>2, <2>3 DEF QueueInv, OfflineQueueEmpty, BatchNotEmpty
<1> QED BY <1>4, <1>5

(* Every step keeps the queue looked after. *)
LEMMA QueueStep ==
    NoBatchRetry /\ TypeInv /\ QueueInv /\ [Next]_vars => QueueInv'
<1> SUFFICES ASSUME NoBatchRetry, TypeInv, QueueInv, [Next]_vars PROVE QueueInv'
  OBVIOUS
<1> USE DEF QueueInv
<1>1. ASSUME NEW p \in Publishers, NEW k \in 1..MaxBatch, Queue(p, k)
      PROVE  QueueInv'
  <2>1. k \in Nat \ {0}
    BY BoundsAssumption
  <2>2. CASE QueueAccept(p, k)
    <3>1. kind' = kind /\ state' = "Online" /\ Flush(Enqueued(k), outstanding, inflight)
      BY <2>2 DEF QueueAccept
    <3>2. Enqueued(k) \in Seq(Nat \ {0}) /\ Enqueued(k) # << >>
      BY <2>1, <2>2, EnqueuedType, EnqueuedNotEmpty DEF QueueAccept, TypeInv
    <3>3. kind # "batch" \/ state = "Online"
      BY <2>2 DEF QueueAccept, BatchNeverOffline
    <3>4. Accounted(outstanding, inflight) /\ TaskFor(Enqueued(k))
      BY <3>2, <3>3 DEF OutstandingAccounted, Pending, Accounted, TaskFor
    <3>5. /\ outstanding' = Pending'
          /\ events' # << >> => Pending' > 0
          /\ flushTask' => events' # << >>
      BY <3>1, <3>2, <3>4, FlushQueue DEF TypeInv, TypeOK, WindowInv
    <3>6. outstanding' \in Int
      BY <3>1, <3>2, FlushType DEF TypeInv, TypeOK, WindowInv
    <3> QED BY <3>1, <3>5, <3>6
            DEF OutstandingAccounted, NoStuckQueue, OfflineQueueEmpty, BatchNotEmpty, BatchNeverOffline
  <2>3. CASE QueueFull(p, k)
    BY <2>3 DEF QueueFull, ErrorOut, QueueAfterError, OutstandingAccounted, Pending,
                NoStuckQueue, OfflineQueueEmpty, BatchNotEmpty, BatchNeverOffline, TypeInv, TypeOK
  <2>4. CASE QueueDiscard(p, k) \/ QueueError(p, k)
    BY <2>4 DEF QueueDiscard, QueueError, OutstandingAccounted, Pending, NoStuckQueue,
                OfflineQueueEmpty, BatchNotEmpty, BatchNeverOffline
  <2> QED BY <1>1, <2>2, <2>3, <2>4 DEF Queue
<1>2. ASSUME NEW p \in Publishers, Reap(p) \/ Report(p)
      PROVE  QueueInv'
  BY <1>2 DEF Reap, Report, ReapWins, OutstandingAccounted, Pending, NoStuckQueue,
              OfflineQueueEmpty, BatchNotEmpty, BatchNeverOffline, TypeInv, TypeOK
<1>3. CASE ResetIfReaped
  BY <1>3 DEF ResetIfReaped, OutstandingAccounted, Pending, NoStuckQueue,
              OfflineQueueEmpty, BatchNotEmpty, BatchNeverOffline, TypeInv, TypeOK
<1>4. CASE Completed
  BY <1>4, SucceededQueue DEF Completed
<1>5. CASE SentOneway
  <2>1. outstanding \in Nat /\ outstanding > 0
    BY <1>5 DEF SentOneway, Succeeded, TypeInv, TypeOK, WindowInv, Window, MaxOutstanding
  <2> DEFINE flushes == outstanding = 1 /\ events # << >>
  <2>2. Succeeded(flushes) /\ flushes \in BOOLEAN
    BY <1>5 DEF SentOneway
  <2>3. events # << >> => flushes \/ outstanding > 1
    BY <2>1
  <2> HIDE DEF flushes
  <2> QED BY <2>2, <2>3, SucceededQueue
<1>6. CASE SentBatch
  BY <1>6, SucceededQueue DEF SentBatch
<1>7. ASSUME NEW hard \in BOOLEAN, Exception(hard) \/ DoFlushRefused(hard)
      PROVE  QueueInv'
  <2>1. error(hard) /\ kind' = kind
    BY <1>7 DEF Exception, DoFlushRefused
  <2>2. state' # "Online" /\ events' = << >> /\ BatchNeverOffline'
    BY <2>1, ErrorQueue DEF TypeInv
  <2>3. OutstandingAccounted'
    BY <1>7, <2>1, <2>2 DEF Exception, DoFlushRefused, TaskDone, ExceptionDecrements,
       OutstandingAccounted, Pending, TypeInv, TypeOK, WindowInv, Window
  <2> QED BY <2>2, <2>3 DEF NoStuckQueue, OfflineQueueEmpty, BatchNotEmpty
<1>8. CASE DoFlushNotOnline
  <2>1. /\ flushTask' = FALSE
        /\ state # "Online"
        /\ UNCHANGED <<kind, state, events, outstanding, inflight>>
    BY <1>8 DEF DoFlushNotOnline, TaskDone
  <2>2. OutstandingAccounted'
    BY <1>8, <2>1 DEF DoFlushNotOnline, OutstandingAccounted, Pending, TypeInv, TypeOK,
                      WindowInv, Window
  <2> QED BY <2>1, <2>2 DEF NoStuckQueue, OfflineQueueEmpty, BatchNotEmpty, BatchNeverOffline
<1>9. CASE DoFlushSend
  <2>1. /\ flushTask' = FALSE
        /\ state = "Online"
        /\ events' = << >>
        /\ UNCHANGED <<kind, state>>
    BY <1>9 DEF DoFlushSend, TaskDone
  <2>2. OutstandingAccounted'
    BY <1>9, <2>1 DEF DoFlushSend, OutstandingAccounted, Pending, TypeInv, TypeOK
  <2> QED BY <2>1, <2>2 DEF NoStuckQueue, OfflineQueueEmpty, BatchNotEmpty, BatchNeverOffline
<1>10. CASE Expire \/ Shutdown \/ ShutdownWakes \/ UNCHANGED vars
  BY <1>10 DEF Expire, Shutdown, ShutdownWakes, vars, OutstandingAccounted, Pending,
               NoStuckQueue, OfflineQueueEmpty, BatchNotEmpty, BatchNeverOffline
<1> QED BY <1>1, <1>2, <1>3, <1>4, <1>5, <1>6, <1>7, <1>8, <1>9, <1>10
        DEF Next, Callback, DoFlush

(* The queue invariant holds of every behaviour. *)
LEMMA QueueInvariant == NoBatchRetry /\ Spec => []QueueInv
<1>1. Init => TypeInv /\ QueueInv
  <2> SUFFICES ASSUME Init PROVE TypeInv /\ QueueInv
    OBVIOUS
  <2>1. TypeInv
    BY InitType
  <2>2. QueueInv
    BY DEF Init, QueueInv, OutstandingAccounted, Pending, NoStuckQueue, OfflineQueueEmpty,
           BatchNotEmpty, BatchNeverOffline
  <2> QED BY <2>1, <2>2
<1>2. ASSUME NoBatchRetry PROVE Spec => []QueueInv
  <2>1. TypeInv /\ QueueInv /\ [Next]_vars => (TypeInv /\ QueueInv)'
    BY <1>2, TypeStep, QueueStep
  <2> QED BY <1>1, <2>1, PTL DEF Spec
<1> QED BY <1>2

(* With no retries for a batch subscriber, an online subscriber with       *)
(* events in its queue always has a callback or a timer task to come that  *)
(* looks at the queue: Subscriber.cpp never strands an event.              *)
THEOREM QueueNeverStuck == NoBatchRetry /\ Spec => []NoStuckQueue
<1>1. QueueInv => NoStuckQueue
  BY DEF QueueInv
<1> QED BY <1>1, QueueInvariant, PTL

(* Under the same condition no slot of the window is ever leaked.          *)
THEOREM WindowAccounted == NoBatchRetry /\ Spec => []OutstandingAccounted
<1>1. QueueInv => OutstandingAccounted
  BY DEF QueueInv
<1> QED BY <1>1, QueueInvariant, PTL

(* Under the same condition doFlush() never finds an empty batch.          *)
THEOREM BatchAssertion == NoBatchRetry /\ Spec => []BatchNotEmpty
<1>1. QueueInv => BatchNotEmpty
  BY DEF QueueInv
<1> QED BY <1>1, QueueInvariant, PTL

-----------------------------------------------------------------------------
(* The queue of a subscriber, and its removal.  Neither needs a condition  *)
(* on the QoS.                                                             *)

(* The queue q is in publication order, after the event last and up to pub. *)
Ordered(q, last, pub) ==
    /\ \A j \in 1..Len(q) : last < q[j] /\ q[j] <= pub
    /\ \A j, k \in 1..Len(q) : j < k => q[j] < q[k]

(* SentInOrder, with what makes it inductive: an event that was sent was    *)
(* published, so the events that are still to come are numbered after it.  *)
OrderInv == Ordered(events, lastSent, published) /\ lastSent <= published

(* What a flush of the queue q may do to the event e. *)
KeptOrSent(q, e) ==
    \/ \E k \in 1..Len(events') : events'[k] = e
    \/ lastSent' >= e
    \/ kind = "link" /\ e \in Costly

-----------------------------------------------------------------------------
(* Facts about the operators on the queue.                                 *)

(* Removing n events from the head keeps the order, and what is left comes *)
(* after the last event that was removed.                                  *)
LEMMA RestOrder ==
    ASSUME NEW q \in Seq(Nat \ {0}), NEW n \in 0..Len(q), NEW pub \in Nat,
           NEW last \in Nat, Ordered(q, last, pub), last <= pub
    PROVE  /\ Ordered(Rest(q, n), Last(q, n, last), pub)
           /\ Last(q, n, last) <= pub /\ last <= Last(q, n, last)
           /\ Len(Rest(q, n)) <= Len(q)
           /\ \A j \in 1..Len(q) : \/ Last(q, n, last) >= q[j]
                                   \/ \E k \in 1..Len(Rest(q, n)) : Rest(q, n)[k] = q[j]
<1>1. /\ Len(Rest(q, n)) = Len(q) - n
      /\ \A j \in 1..Len(q) - n : Rest(q, n)[j] = q[j + n]
  <2>1. n \in Nat /\ n <= Len(q) /\ Len(q) \in Nat
    OBVIOUS
  <2> DEFINE a == n + 1
             z == Len(q)
  <2>2. a \in Int /\ z \in Int /\ (\A i \in a..z : q[i] \in Nat) /\ Rest(q, n) = SubSeq(q, a, z)
    BY <2>1 DEF Rest
  <2>3. z - a + 1 = z - n /\ (IF a <= z THEN z - a + 1 ELSE 0) = z - n
    BY <2>1
  <2>4. \A j \in 1..z - n : a + j - 1 = j + n
    BY <2>1
  <2> HIDE DEF a, z
  <2>5. /\ Len(SubSeq(q, a, z)) = IF a <= z THEN z - a + 1 ELSE 0
        /\ \A j \in 1..z - a + 1 : SubSeq(q, a, z)[j] = q[a + j - 1]
    BY <2>2, SubSeqProperties
  <2>6. Len(Rest(q, n)) = z - n /\ \A j \in 1..z - n : Rest(q, n)[j] = q[j + n]
    BY <2>2, <2>3, <2>4, <2>5
  <2> QED BY <2>6 DEF z
<1>2. \A j \in 1..Len(q) : q[j] \in Nat
  OBVIOUS
<1>3. CASE n = 0
  <2>1. Last(q, n, last) = last
    BY <1>3 DEF Last
  <2>2. /\ Len(Rest(q, n)) = Len(q)
        /\ \A j \in 1..Len(q) : Rest(q, n)[j] = q[j]
    BY <1>1, <1>2, <1>3
  <2> QED BY <2>1, <2>2 DEF Ordered
<1>4. CASE n # 0
  <2>1. Last(q, n, last) = q[n] /\ n \in 1..Len(q)
    BY <1>4 DEF Last
  <2>2. \A j \in 1..Len(q) - n : j + n \in 1..Len(q) /\ n < j + n
    BY <2>1
  <2>3. Ordered(Rest(q, n), q[n], pub)
    <3>1. ASSUME NEW j \in 1..Len(q) - n
          PROVE  q[n] < Rest(q, n)[j] /\ Rest(q, n)[j] <= pub
      BY <1>1, <2>1, <2>2 DEF Ordered
    <3>2. ASSUME NEW i \in 1..Len(q) - n, NEW j \in 1..Len(q) - n, i < j
          PROVE  Rest(q, n)[i] < Rest(q, n)[j]
      <4>1. i + n \in 1..Len(q) /\ j + n \in 1..Len(q) /\ i + n < j + n
        BY <2>1, <2>2, <3>2
      <4> QED BY <1>1, <4>1 DEF Ordered
    <3> QED BY <1>1, <3>1, <3>2 DEF Ordered
  <2>4. q[n] <= pub /\ last <= q[n]
    BY <1>2, <2>1 DEF Ordered
  <2>5. ASSUME NEW j \in 1..Len(q)
        PROVE  \/ q[n] >= q[j]
               \/ \E k \in 1..Len(Rest(q, n)) : Rest(q, n)[k] = q[j]
    <3>1. CASE j <= n
      BY <1>2, <2>1, <3>1 DEF Ordered
    <3>2. CASE j > n
      <4>1. j - n \in 1..Len(Rest(q, n)) /\ (j - n) + n = j
        BY <1>1, <2>1, <3>2
      <4> QED BY <1>1, <4>1
    <3> QED BY <3>1, <3>2, <2>1
  <2> QED BY <1>1, <2>1, <2>3, <2>4, <2>5
<1> QED BY <1>3, <1>4

(* The queue that queue() hands to flush() is in order, holds every event  *)
(* that was queued unless the limit is passed, and respects the limit.     *)
LEMMA EnqueuedOrder ==
    ASSUME TypeOK, OrderInv, NEW k \in Nat
    PROVE  /\ Ordered(Enqueued(k), lastSent, published + k)
           /\ QueueMax >= 0 /\ (DropEvents \/ ~Overflow(k)) => Len(Enqueued(k)) <= QueueMax
           /\ ~Overflow(k) =>
                \A j \in 1..Len(events) : \E i \in 1..Len(Enqueued(k)) : Enqueued(k)[i] = events[j]
<1> DEFINE q == events \o New(k)
<1>1. /\ New(k) \in Seq(Nat \ {0})
      /\ Len(New(k)) = k
      /\ \A j \in 1..k : New(k)[j] = published + j
  BY DEF New, TypeOK
<1>2. events \in Seq(Nat \ {0}) /\ Len(events) \in Nat /\ published \in Nat /\ lastSent \in Nat
  BY DEF TypeOK
<1>3. /\ q \in Seq(Nat \ {0})
      /\ Len(q) = Len(events) + k
      /\ \A j \in 1..Len(events) : q[j] = events[j]
      /\ \A j \in Len(events) + 1..Len(q) : q[j] = published + (j - Len(events))
  <2>0. \A j \in 1..Len(events) + Len(New(k)) :
           q[j] = IF j <= Len(events) THEN events[j] ELSE New(k)[j - Len(events)]
    BY <1>1, <1>2, ConcatProperties
  <2>1. q \in Seq(Nat \ {0}) /\ Len(q) = Len(events) + Len(New(k))
    BY <1>1, <1>2, ConcatProperties
  <2> HIDE DEF q
  <2>2. ASSUME NEW j \in 1..Len(events) PROVE q[j] = events[j]
    <3>1. j \in 1..Len(events) + Len(New(k)) /\ j <= Len(events)
      BY <1>1, <1>2
    <3> QED BY <2>0, <3>1
  <2>3. ASSUME NEW j \in Len(events) + 1..Len(q)
        PROVE  q[j] = published + (j - Len(events))
    <3>1. q[j] = New(k)[j - Len(events)]
      BY <1>1, <1>2, <2>0, <2>1
    <3>2. j - Len(events) \in 1..k
      BY <1>1, <1>2, <2>1
    <3> QED BY <1>1, <3>1, <3>2
  <2> QED BY <2>1, <2>2, <2>3, <1>1
<1> HIDE DEF q
<1>4. Ordered(q, lastSent, published + k)
  <2>1. \A j \in 1..Len(events) : events[j] \in Nat /\ lastSent < events[j] /\ events[j] <= published
    BY <1>2 DEF OrderInv, Ordered
  <2>2. \A i, j \in 1..Len(events) : i < j => events[i] < events[j]
    BY DEF OrderInv, Ordered
  <2>3. lastSent <= published
    BY DEF OrderInv
  <2>4. ASSUME NEW j \in 1..Len(q) PROVE lastSent < q[j] /\ q[j] <= published + k
    <3>1. CASE j \in 1..Len(events)
      <4>1. q[j] = events[j]
        BY <1>3, <3>1
      <4> QED BY <1>2, <2>1, <3>1, <4>1
    <3>2. CASE j \in Len(events) + 1..Len(q)
      <4>1. q[j] = published + (j - Len(events)) /\ j - Len(events) \in 1..k
        BY <1>2, <1>3, <3>2
      <4> QED BY <1>2, <2>3, <4>1
    <3> QED BY <1>2, <1>3, <3>1, <3>2
  <2>5. ASSUME NEW i \in 1..Len(q), NEW j \in 1..Len(q), i < j PROVE q[i] < q[j]
    <3>1. CASE j \in 1..Len(events)
      <4>1. i \in 1..Len(events)
        BY <1>2, <2>5, <3>1
      <4>2. q[i] = events[i] /\ q[j] = events[j]
        BY <1>3, <3>1, <4>1
      <4> QED BY <2>2, <2>5, <3>1, <4>1, <4>2
    <3>2. CASE i \in 1..Len(events) /\ j \in Len(events) + 1..Len(q)
      <4>1. q[j] = published + (j - Len(events)) /\ j - Len(events) \in 1..k
        BY <1>2, <1>3, <3>2
      <4>2. q[i] = events[i] /\ events[i] \in Nat /\ events[i] <= published
        BY <1>3, <2>1, <3>2
      <4>3. published < published + (j - Len(events))
        BY <1>2, <4>1
      <4> QED BY <1>2, <4>1, <4>2, <4>3
    <3>3. CASE i \in Len(events) + 1..Len(q) /\ j \in Len(events) + 1..Len(q)
      <4>1. q[i] = published + (i - Len(events)) /\ q[j] = published + (j - Len(events))
        BY <1>3, <3>3
      <4>2. i - Len(events) < j - Len(events) /\ i - Len(events) \in Nat /\ j - Len(events) \in Nat
        BY <1>2, <1>3, <2>5, <3>3
      <4> QED BY <1>2, <4>1, <4>2
    <3> QED BY <1>2, <1>3, <2>5, <3>1, <3>2, <3>3
  <2> QED BY <2>4, <2>5 DEF Ordered
<1>5. CASE ~Overflow(k)
  <2>1. Enqueued(k) = q
    BY <1>5 DEF Enqueued, q
  <2>2. QueueMax >= 0 => Len(q) <= QueueMax
    BY <1>2, <1>3, <1>5, QueueMaxAssumption DEF Overflow
  <2>3. \A j \in 1..Len(events) : j \in 1..Len(q)
    BY <1>2, <1>3
  <2> QED BY <1>3, <1>4, <2>1, <2>2, <2>3
<1>6. CASE Overflow(k)
  <2> DEFINE d == Len(q) - QueueMax
  <2>1. QueueMax \in Nat /\ d \in 1..Len(q)
    BY <1>2, <1>3, <1>6, QueueMaxAssumption DEF Overflow
  <2>2. Enqueued(k) = Rest(q, d)
    BY <1>6 DEF Enqueued, Rest, q
  <2>3. /\ Len(Rest(q, d)) = Len(q) - d
        /\ \A j \in 1..Len(q) - d : Rest(q, d)[j] = q[j + d]
    BY <1>3, <2>1 DEF Rest
  <2>4. Ordered(Rest(q, d), lastSent, published + k)
    <3>1. \A j \in 1..Len(q) - d : j + d \in 1..Len(q)
      BY <1>3, <2>1
    <3>2. ASSUME NEW j \in 1..Len(q) - d
          PROVE  lastSent < Rest(q, d)[j] /\ Rest(q, d)[j] <= published + k
      BY <1>4, <2>3, <3>1 DEF Ordered
    <3>3. ASSUME NEW i \in 1..Len(q) - d, NEW j \in 1..Len(q) - d, i < j
          PROVE  Rest(q, d)[i] < Rest(q, d)[j]
      <4>1. i + d \in 1..Len(q) /\ j + d \in 1..Len(q) /\ i + d < j + d
        BY <2>1, <3>1, <3>3
      <4> QED BY <1>4, <2>3, <4>1 DEF Ordered
    <3> QED BY <2>3, <3>2, <3>3 DEF Ordered
  <2>5. Len(Rest(q, d)) <= QueueMax
    BY <1>3, <2>1, <2>3
  <2> QED BY <1>6, <2>2, <2>4, <2>5
<1> QED BY <1>5, <1>6

(* flush() keeps the order: what it sends precedes what it leaves queued,   *)
(* and each event of the queue is kept, sent, or too costly for the link.  *)
LEMMA FlushOrder ==
    ASSUME TypeOK, NEW q \in Seq(Nat \ {0}), NEW o \in 0..MaxOutstanding,
           NEW i \in Nat, Window(o, i), Flush(q, o, i),
           published' \in Nat, Ordered(q, lastSent, published'), lastSent <= published'
    PROVE  /\ OrderInv'
           /\ Len(events') <= Len(q)
           /\ \A j \in 1..Len(q) : KeptOrSent(q, q[j])
<1> USE MaxOutstandingType
<1>0. lastSent \in Nat
  BY DEF TypeOK
<1>1. ASSUME NEW n \in 0..Len(q), events' = Rest(q, n), lastSent' = Last(q, n, lastSent)
      PROVE  /\ OrderInv'
             /\ Len(events') <= Len(q)
             /\ \A j \in 1..Len(q) : KeptOrSent(q, q[j])
  <2>1. /\ Ordered(Rest(q, n), Last(q, n, lastSent), published')
        /\ Last(q, n, lastSent) <= published'
        /\ Len(Rest(q, n)) <= Len(q)
        /\ \A j \in 1..Len(q) : \/ Last(q, n, lastSent) >= q[j]
                                 \/ \E k \in 1..Len(Rest(q, n)) : Rest(q, n)[k] = q[j]
    BY <1>0, RestOrder
  <2>2. OrderInv' /\ Len(events') <= Len(q)
    BY <1>1, <2>1 DEF OrderInv, Ordered
  <2>3. \A j \in 1..Len(q) : KeptOrSent(q, q[j])
    BY <1>1, <2>1 DEF KeptOrSent
  <2> QED BY <2>2, <2>3
<1>2. ASSUME events' = q, lastSent' = lastSent
      PROVE  /\ OrderInv'
             /\ Len(events') <= Len(q)
             /\ \A j \in 1..Len(q) : KeptOrSent(q, q[j])
  BY <1>2 DEF OrderInv, KeptOrSent
<1>3. CASE kind = "oneway" /\ FlushOneway(q, o, i)
  BY <1>1, <1>3 DEF FlushOneway
<1>4. CASE kind \in {"twoway", "ordered"} /\ FlushTwoway(q, o, i)
  <2> DEFINE n == IF Len(q) <= Room(o) THEN Len(q) ELSE Room(o)
  <2>1. n \in 0..Len(q)
    BY DEF Room
  <2>2. events' = Rest(q, n) /\ lastSent' = Last(q, n, lastSent)
    BY <1>4 DEF FlushTwoway
  <2> HIDE DEF n
  <2> QED BY <1>1, <2>1, <2>2
<1>5. CASE kind = "batch" /\ FlushBatch(q, o, i)
  BY <1>2, <1>5 DEF FlushBatch
<1>6. CASE kind = "link" /\ FlushLink(q, o, i)
  <2> DEFINE cheap == {k \in 1..Len(q) : q[k] \notin Costly}
  <2>1. CASE o > 0
    <3>1. events' = q /\ lastSent' = lastSent
      BY <1>6, <2>1 DEF FlushLink
    <3> QED BY <1>2, <3>1
  <2>2. CASE o = 0 /\ cheap = {}
    <3>1. events' = << >> /\ lastSent' = lastSent
      BY <1>6, <2>2 DEF FlushLink
    <3> QED BY <1>0, <1>6, <2>2, <3>1 DEF OrderInv, Ordered, KeptOrSent
  <2>3. CASE o = 0 /\ cheap # {}
    <3>1. PICK k \in cheap : (\A j \in cheap : j <= k) /\ lastSent' = q[k]
      BY <1>6, <2>3 DEF FlushLink
    <3>2. events' = << >>
      BY <1>6, <2>3 DEF FlushLink
    <3>3. q[k] \in Nat /\ q[k] <= published'
      BY <3>1 DEF Ordered
    <3>4. ASSUME NEW j \in 1..Len(q), q[j] \notin Costly PROVE q[j] <= q[k]
      <4>1. j \in cheap /\ j <= k /\ q[j] \in Nat
        BY <3>1, <3>4
      <4> QED BY <3>1, <3>3, <4>1 DEF Ordered
    <3>5. \A j \in 1..Len(q) : q[j] \in Nat
      OBVIOUS
    <3> QED BY <1>6, <3>1, <3>2, <3>3, <3>4, <3>5 DEF OrderInv, Ordered, KeptOrSent
  <2> QED BY <2>1, <2>2, <2>3
<1> QED BY <1>3, <1>4, <1>5, <1>6 DEF Flush

-----------------------------------------------------------------------------
(* The inductive step for the order, the limit and the fate of an event.   *)

(* No event of the queue is lost in this step. *)
NoLossStep ==
    \A j \in 1..Len(events) :
        (\E k \in 1..Len(events') : events'[k] = events[j]) \/ Leaves(events[j])

QueueOrder == OrderInv /\ QueueBounded

(* A step that leaves the queue and what was sent alone. *)
LEMMA QueueUntouched ==
    ASSUME TypeOK, QueueOrder, UNCHANGED <<events, lastSent>>, published' \in Nat,
           published <= published'
    PROVE  QueueOrder' /\ NoLossStep
<1>1. \A j \in 1..Len(events) : events[j] \in Nat
  BY DEF TypeOK
<1>2. lastSent \in Nat /\ published \in Nat
  BY DEF TypeOK
<1>3. OrderInv'
  BY <1>1, <1>2 DEF QueueOrder, OrderInv, Ordered
<1> QED BY <1>3 DEF QueueOrder, QueueBounded, NoLossStep

(* A step that empties the queue: of a subscriber that leaves the online   *)
(* state, or that has sent everything.                                     *)
LEMMA QueueCleared ==
    ASSUME TypeOK, QueueOrder, events' = << >>, UNCHANGED published,
           \/ state' # "Online" /\ lastSent' = lastSent
           \/ lastSent' = Last(events, Len(events), lastSent)
    PROVE  QueueOrder' /\ NoLossStep
<1>1. \A j \in 1..Len(events) : events[j] \in Nat
  BY DEF TypeOK
<1>2. lastSent \in Nat /\ published \in Nat /\ Len(events) \in Nat
  BY DEF TypeOK
<1>3. QueueBounded'
  BY DEF QueueBounded
<1>4. CASE state' # "Online" /\ lastSent' = lastSent
  BY <1>2, <1>3, <1>4 DEF QueueOrder, OrderInv, Ordered, NoLossStep, Leaves
<1>5. CASE lastSent' = Last(events, Len(events), lastSent)
  <2>1. /\ Last(events, Len(events), lastSent) <= published
        /\ \A j \in 1..Len(events) : \/ Last(events, Len(events), lastSent) >= events[j]
                                     \/ \E k \in 1..Len(Rest(events, Len(events))) :
                                          Rest(events, Len(events))[k] = events[j]
    <3>1. events \in Seq(Nat \ {0}) /\ Len(events) \in 0..Len(events)
      BY <1>2 DEF TypeOK
    <3>2. Ordered(events, lastSent, published) /\ lastSent <= published
      BY DEF QueueOrder, OrderInv
    <3> QED BY <1>2, <3>1, <3>2, RestOrder
  <2>2. Rest(events, Len(events)) = << >>
    BY <1>2, RestType DEF TypeOK
  <2>3. \A j \in 1..Len(events) : lastSent' >= events[j]
    BY <1>5, <2>1, <2>2
  <2> QED BY <1>3, <1>5, <2>1, <2>3 DEF QueueOrder, OrderInv, Ordered, NoLossStep, Leaves
<1> QED BY <1>4, <1>5

(* error() leaves the queue alone or empties it, and is then not online.   *)
LEMMA ErrorOrder ==
    ASSUME TypeOK, QueueOrder, NEW hard \in BOOLEAN, error(hard), UNCHANGED published
    PROVE  QueueOrder' /\ NoLossStep
<1>1. lastSent' = lastSent /\ published' \in Nat /\ published <= published'
  BY DEF error, TypeOK
<1>2. events' = events \/ (events' = << >> /\ state' # "Online")
  BY DEF error, GoOffline, ErrorOut, QueueAfterError
<1> QED BY <1>1, <1>2, QueueUntouched, QueueCleared

(* A callback that succeeds. *)
LEMMA SucceededOrder ==
    ASSUME TypeInv, QueueOrder, NEW flushes \in BOOLEAN, Succeeded(flushes)
    PROVE  QueueOrder' /\ NoLossStep
<1> USE MaxOutstandingType
<1>1. /\ outstanding - 1 \in 0..MaxOutstanding
      /\ inflight - 1 \in Nat
      /\ Window(outstanding - 1, inflight - 1)
  BY DEF TypeInv, TypeOK, WindowInv, Window, Succeeded
<1>2. published' = published /\ published \in Nat
  BY DEF Succeeded, TypeInv, TypeOK
<1>3. CASE flushes /\ state = "Online"
  <2>1. Flush(events, outstanding - 1, inflight - 1)
    BY <1>3 DEF Succeeded
  <2>2. /\ OrderInv'
        /\ Len(events') <= Len(events)
        /\ \A j \in 1..Len(events) : KeptOrSent(events, events[j])
    BY <1>1, <1>2, <2>1, FlushOrder DEF TypeInv, TypeOK, QueueOrder, OrderInv
  <2>3. Len(events') \in Nat
    BY <1>1, <2>1, FlushType, <1>3 DEF TypeInv, TypeOK, Succeeded
  <2>4. QueueBounded'
    BY <2>2, <2>3, QueueMaxAssumption DEF QueueOrder, QueueBounded, TypeInv, TypeOK
  <2>5. NoLossStep
    BY <2>2 DEF NoLossStep, KeptOrSent, Leaves
  <2> QED BY <2>2, <2>4, <2>5 DEF QueueOrder
<1>4. CASE ~(flushes /\ state = "Online")
  <2>1. UNCHANGED <<events, lastSent>>
    BY <1>4 DEF Succeeded
  <2> QED BY <1>2, <2>1, QueueUntouched DEF TypeInv
<1> QED BY <1>3, <1>4

(* Every step keeps the order and the limit, and loses no event. *)
LEMMA OrderStep ==
    TypeInv /\ QueueOrder /\ [Next]_vars => QueueOrder' /\ NoLossStep
<1> SUFFICES ASSUME TypeInv, QueueOrder, [Next]_vars PROVE QueueOrder' /\ NoLossStep
  OBVIOUS
<1>0. TypeOK /\ published \in Nat
  BY DEF TypeInv, TypeOK
<1>1. ASSUME NEW p \in Publishers, NEW k \in 1..MaxBatch, Queue(p, k)
      PROVE  QueueOrder' /\ NoLossStep
  <2>1. k \in Nat /\ published' = published + k
    BY <1>1, BoundsAssumption
       DEF Queue, QueueAccept, QueueFull, QueueDiscard, QueueError, Publish
  <2>2. CASE QueueAccept(p, k)
    <3>1. /\ Flush(Enqueued(k), outstanding, inflight) /\ kind' = kind
          /\ DropEvents \/ ~Overflow(k)
      BY <2>2 DEF QueueAccept
    <3>2. Enqueued(k) \in Seq(Nat \ {0})
      BY <1>0, <2>1, EnqueuedType
    <3>3. /\ Ordered(Enqueued(k), lastSent, published')
          /\ QueueMax >= 0 => Len(Enqueued(k)) <= QueueMax
          /\ ~Overflow(k) =>
               \A j \in 1..Len(events) :
                  \E i \in 1..Len(Enqueued(k)) : Enqueued(k)[i] = events[j]
      BY <1>0, <2>1, <3>1, EnqueuedOrder DEF QueueOrder
    <3>4. published' \in Nat /\ lastSent <= published'
      BY <1>0, <2>1 DEF QueueOrder, OrderInv, TypeOK
    <3>5. /\ OrderInv'
          /\ Len(events') <= Len(Enqueued(k))
          /\ \A i \in 1..Len(Enqueued(k)) : KeptOrSent(Enqueued(k), Enqueued(k)[i])
      BY <1>0, <3>1, <3>2, <3>3, <3>4, FlushOrder DEF TypeInv, TypeOK, WindowInv
    <3>6. Len(events') \in Nat
      BY <1>0, <3>1, <3>2, FlushType DEF TypeInv, TypeOK, WindowInv
    <3>7. QueueBounded'
      BY <3>2, <3>3, <3>5, <3>6, QueueMaxAssumption DEF QueueBounded
    <3>8. ASSUME NEW j \in 1..Len(events)
          PROVE  (\E i \in 1..Len(events') : events'[i] = events[j]) \/ Leaves(events[j])
      <4>1. CASE Overflow(k)
        <5>1. published' - published = k
          BY <1>0, <2>1
        <5> QED BY <3>1, <4>1, <5>1 DEF Leaves
      <4>2. CASE ~Overflow(k)
        BY <3>3, <3>5, <4>2 DEF KeptOrSent, Leaves
      <4> QED BY <4>1, <4>2
    <3> QED BY <3>5, <3>7, <3>8 DEF QueueOrder, NoLossStep
  <2>3. CASE QueueFull(p, k)
    <3>1. events' = << >> /\ state' # "Online" /\ lastSent' = lastSent
      BY <2>3 DEF QueueFull, ErrorOut, QueueAfterError
    <3>2. OrderInv'
      BY <1>0, <2>1, <3>1 DEF QueueOrder, OrderInv, Ordered, TypeOK
    <3>3. QueueBounded' /\ NoLossStep
      BY <3>1 DEF QueueBounded, NoLossStep, Leaves
    <3> QED BY <3>2, <3>3 DEF QueueOrder
  <2>4. CASE QueueDiscard(p, k) \/ QueueError(p, k)
    <3>1. UNCHANGED <<events, lastSent>> /\ published' \in Nat /\ published <= published'
      BY <1>0, <2>1, <2>4 DEF QueueDiscard, QueueError
    <3> QED BY <1>0, <3>1, QueueUntouched
  <2> QED BY <1>1, <2>2, <2>3, <2>4 DEF Queue
<1>2. ASSUME UNCHANGED <<events, lastSent, published>>
      PROVE  QueueOrder' /\ NoLossStep
  BY <1>0, <1>2, QueueUntouched
<1>3. ASSUME NEW p \in Publishers, Reap(p) \/ Report(p)
      PROVE  QueueOrder' /\ NoLossStep
  BY <1>2, <1>3 DEF Reap, Report
<1>4. CASE ResetIfReaped \/ DoFlushNotOnline \/ Expire \/ Shutdown \/ ShutdownWakes
  BY <1>2, <1>4 DEF ResetIfReaped, DoFlushNotOnline, Expire, Shutdown, ShutdownWakes
<1>5. CASE Completed \/ SentOneway \/ SentBatch
  BY <1>5, SucceededOrder DEF Completed, SentOneway, SentBatch
<1>6. ASSUME NEW hard \in BOOLEAN, Exception(hard) \/ DoFlushRefused(hard)
      PROVE  QueueOrder' /\ NoLossStep
  <2>1. error(hard) /\ UNCHANGED published
    BY <1>6 DEF Exception, DoFlushRefused
  <2> QED BY <1>0, <2>1, ErrorOrder
<1>7. CASE DoFlushSend
  <2>1. /\ events' = << >> /\ UNCHANGED published
        /\ lastSent' = Last(events, Len(events), lastSent)
    BY <1>7 DEF DoFlushSend
  <2> QED BY <1>0, <2>1, QueueCleared
<1>8. CASE UNCHANGED vars
  BY <1>2, <1>8 DEF vars
<1> QED BY <1>1, <1>3, <1>4, <1>5, <1>6, <1>7, <1>8 DEF Next, Callback, DoFlush

(* The order and the limit hold of every behaviour. *)
LEMMA QueueOrderInvariant == Spec => [](TypeInv /\ QueueOrder)
<1>1. Init => TypeInv /\ QueueOrder
  <2> SUFFICES ASSUME Init PROVE QueueOrder
    BY InitType
  <2> QED BY DEF Init, QueueOrder, OrderInv, Ordered, QueueBounded
<1>2. TypeInv /\ QueueOrder /\ [Next]_vars => (TypeInv /\ QueueOrder)'
  BY TypeStep, OrderStep
<1> QED BY <1>1, <1>2, PTL DEF Spec

(* Every subscriber, whatever its kind and QoS, gives its events to the    *)
(* Ice run time in the order queue() accepted them.                        *)
THEOREM DeliveredInOrder == Spec => []SentInOrder
<1>1. QueueOrder => SentInOrder
  BY DEF QueueOrder, OrderInv, Ordered, SentInOrder
<1> QED BY <1>1, QueueOrderInvariant, PTL

(* The queue never holds more than Send.QueueSizeMax events, under either  *)
(* policy and through any interleaving of publishers and callbacks.        *)
THEOREM QueueWithinLimit == Spec => []QueueBounded
<1>1. QueueOrder => QueueBounded
  BY DEF QueueOrder
<1> QED BY <1>1, QueueOrderInvariant, PTL

(* No step of an online subscriber makes an event disappear from its queue *)
(* other than by sending it, by the policy of a full queue, or by the cost *)
(* rule of a link.                                                         *)
THEOREM NothingLostSilently == Spec => NoSilentLoss
<1>1. TypeInv /\ QueueOrder /\ [Next]_vars => [NoLossStep]_vars
  BY OrderStep
<1>2. [][NoLossStep]_vars => NoSilentLoss
  BY DEF NoLossStep, NoSilentLoss
<1> QED BY <1>1, <1>2, QueueOrderInvariant, PTL DEF Spec

-----------------------------------------------------------------------------
(* Removal of a subscriber in error.                                       *)

Reporters == {p \in Publishers : pc[p] = "report"}

(* Only the thread that moves the subscriber from Error to Reaped reports   *)
(* it, and only resetIfReaped() goes back: while the subscriber is not     *)
(* reaped, every reporter is accounted for by a reset.                     *)
ReapInv ==
    /\ ReapAssertion
    /\ IsFiniteSet(Reporters)
    /\ Cardinality(Reporters) <= IF state = "Reaped" THEN resets + 1 ELSE resets

(* A step that leaves the threads and the resets alone, and the state too  *)
(* once the subscriber has failed.                                         *)
LEMMA ReapUntouched ==
    ASSUME TypeOK, ReapInv, UNCHANGED <<pc, resets>>, state' = "Reaped" <=> state = "Reaped",
           state = "Error" => state' = "Error"
    PROVE  ReapInv'
<1>1. Reporters' = Reporters
  BY DEF Reporters
<1>2. ReapAssertion'
  BY DEF ReapInv, ReapAssertion
<1> QED BY <1>1, <1>2 DEF ReapInv

(* Every step keeps the reporters accounted for. *)
LEMMA ReapStep ==
    TypeInv /\ ReapInv /\ [Next]_vars => ReapInv'
<1> SUFFICES ASSUME TypeInv, ReapInv, [Next]_vars PROVE ReapInv'
  OBVIOUS
<1>0. TypeOK
  BY DEF TypeInv
<1>t. /\ state \in {"Online", "Offline", "Error", "Reaped"}
      /\ pc \in [Publishers -> {"idle", "reap", "report"}]
      /\ resets \in Nat
  BY DEF TypeInv, TypeOK
<1>c. IsFiniteSet(Reporters) /\ Cardinality(Reporters) \in Nat
  BY FS_CardinalityType DEF ReapInv
<1>1. ASSUME NEW p \in Publishers, NEW k \in 1..MaxBatch, Queue(p, k)
      PROVE  ReapInv'
  <2>1. CASE QueueAccept(p, k) \/ QueueDiscard(p, k)
    <3>1. /\ UNCHANGED <<pc, resets>>
          /\ state' = "Reaped" <=> state = "Reaped"
          /\ state = "Error" => state' = "Error"
      BY <2>1 DEF QueueAccept, QueueDiscard
    <3> QED BY <1>0, <3>1, ReapUntouched
  <2>2. CASE QueueFull(p, k) \/ QueueError(p, k)
    <3>1. pc[p] = "idle" /\ pc' \in {pc, [pc EXCEPT ![p] = "reap"]}
      BY <2>2 DEF QueueFull, QueueError, Publish, QueueFalse
    <3>2. state' = "Error" /\ state # "Reaped" /\ resets' = resets
      BY <2>2 DEF QueueFull, QueueError, ErrorOut
    <3>3. Reporters' = Reporters
      BY <1>t, <3>1 DEF Reporters
    <3> QED BY <3>2, <3>3 DEF ReapInv, ReapAssertion
  <2> QED BY <1>1, <2>1, <2>2 DEF Queue
<1>2. ASSUME NEW p \in Publishers, Reap(p)
      PROVE  ReapInv'
  <2>1. pc[p] = "reap" /\ state \in {"Error", "Reaped"} /\ resets' = resets
    BY <1>2 DEF Reap, ReapInv, ReapAssertion
  <2>2. CASE state = "Error"
    <3>1. state' = "Reaped" /\ pc' = [pc EXCEPT ![p] = "report"]
      BY <1>2, <2>2 DEF Reap, ReapWins
    <3>2. Reporters' = Reporters \cup {p}
      BY <1>t, <3>1 DEF Reporters
    <3>3. IsFiniteSet(Reporters') /\ Cardinality(Reporters') <= Cardinality(Reporters) + 1
      BY <1>c, <3>2, FS_AddElement
    <3>4. ReapAssertion'
      BY <3>1 DEF ReapAssertion
    <3>5. Cardinality(Reporters') \in Nat
      BY <3>3, FS_CardinalityType
    <3>6. Cardinality(Reporters') <= resets' + 1
      BY <1>c, <1>t, <2>1, <2>2, <3>3, <3>5 DEF ReapInv
    <3> QED BY <3>1, <3>3, <3>4, <3>6 DEF ReapInv
  <2>3. CASE state = "Reaped"
    <3>1. state' = "Reaped" /\ pc' = [pc EXCEPT ![p] = "idle"]
      BY <1>2, <2>3 DEF Reap, ReapWins
    <3>2. Reporters' = Reporters
      BY <1>t, <2>1, <3>1 DEF Reporters
    <3> QED BY <2>1, <2>3, <3>1, <3>2 DEF ReapInv, ReapAssertion
  <2> QED BY <2>1, <2>2, <2>3
<1>3. ASSUME NEW p \in Publishers, Report(p)
      PROVE  ReapInv'
  <2>1. pc' = [pc EXCEPT ![p] = "idle"] /\ UNCHANGED <<state, resets>>
    BY <1>3 DEF Report
  <2>2. Reporters' \subseteq Reporters
    BY <1>t, <2>1 DEF Reporters
  <2>3. IsFiniteSet(Reporters') /\ Cardinality(Reporters') <= Cardinality(Reporters)
    BY <1>c, <2>2, FS_Subset
  <2>4. ReapAssertion'
    BY <1>t, <2>1 DEF ReapInv, ReapAssertion
  <2>5. Cardinality(Reporters') \in Nat
    BY <2>3, FS_CardinalityType
  <2> QED BY <1>c, <1>t, <2>1, <2>3, <2>4, <2>5 DEF ReapInv
<1>4. CASE ResetIfReaped
  <2>1. state = "Reaped" /\ state' = "Error" /\ resets' = resets + 1 /\ UNCHANGED pc
    BY <1>4 DEF ResetIfReaped
  <2>2. Reporters' = Reporters
    BY <2>1 DEF Reporters
  <2> QED BY <1>c, <1>t, <2>1, <2>2 DEF ReapInv, ReapAssertion
<1>5. CASE Completed \/ SentOneway \/ SentBatch
  <2>1. UNCHANGED <<state, pc, resets>>
    BY <1>5 DEF Completed, SentOneway, SentBatch, Succeeded
  <2> QED BY <1>0, <2>1, ReapUntouched
<1>6. ASSUME NEW hard \in BOOLEAN, Exception(hard) \/ DoFlushRefused(hard)
      PROVE  ReapInv'
  <2>1. error(hard) /\ UNCHANGED <<pc, resets>>
    BY <1>6 DEF Exception, DoFlushRefused
  <2>2. /\ state' = "Reaped" <=> state = "Reaped"
        /\ state = "Error" => state' = "Error"
    BY <2>1 DEF error, AlreadyFailed, GoOffline, ErrorOut, WithinInterval
  <2> QED BY <1>0, <2>1, <2>2, ReapUntouched
<1>7. CASE DoFlushNotOnline \/ DoFlushSend \/ Expire \/ Shutdown \/ ShutdownWakes \/ UNCHANGED vars
  <2>1. UNCHANGED <<state, pc, resets>>
    BY <1>7 DEF DoFlushNotOnline, DoFlushSend, Expire, Shutdown, ShutdownWakes, vars
  <2> QED BY <1>0, <2>1, ReapUntouched
<1> QED BY <1>1, <1>2, <1>3, <1>4, <1>5, <1>6, <1>7 DEF Next, Callback, DoFlush

(* The invariant of the removal holds of every behaviour. *)
LEMMA ReapInvariant == Spec => [](TypeInv /\ ReapInv)
<1>1. Init => TypeInv /\ ReapInv
  <2> SUFFICES ASSUME Init PROVE ReapInv
    BY InitType
  <2>1. Reporters = {} /\ ReapAssertion /\ state = "Online" /\ resets = 0
    BY DEF Init, Reporters, ReapAssertion
  <2> QED BY <2>1, FS_EmptySet DEF ReapInv
<1>2. TypeInv /\ ReapInv /\ [Next]_vars => (TypeInv /\ ReapInv)'
  BY TypeStep, ReapStep
<1> QED BY <1>1, <1>2, PTL DEF Spec

(* The assertion of reap() never fails: between the queue() that returned  *)
(* false and reap(), nothing takes the subscriber out of error.            *)
THEOREM ReapFindsError == Spec => []ReapAssertion
<1>1. ReapInv => ReapAssertion
  BY DEF ReapInv
<1> QED BY <1>1, ReapInvariant, PTL

(* However many publishers see the error at once, one of them removes the  *)
(* subscriber; a second one only after resetIfReaped().                    *)
THEOREM RemovedOnce == Spec => []ReapedOnce
<1>1. TypeInv /\ ReapInv => ReapedOnce
  <2> SUFFICES ASSUME TypeInv, ReapInv PROVE ReapedOnce
    OBVIOUS
  <2>1. Cardinality(Reporters) \in Nat /\ resets \in Nat
    BY FS_CardinalityType DEF ReapInv, TypeInv, TypeOK
  <2>2. Cardinality(Reporters) <= resets + 1
    BY <2>1 DEF ReapInv
  <2> QED BY <2>2 DEF ReapedOnce, Reporters
<1> QED BY <1>1, ReapInvariant, PTL

-----------------------------------------------------------------------------
(* shutdown() waits for the queue.                                         *)

(* Queued events always have a slot of the window that is taken, so that   *)
(* the test of shutdown() cannot miss them; once it has returned, nothing  *)
(* is queued any more because queue() refuses.                             *)
DrainInv ==
    /\ OfflineQueueEmpty
    /\ events # << >> => outstanding > 0
    /\ waiter # "none" => shutdown
    /\ waiter = "done" => events = << >>

(* flush() leaves events only in a window with a slot taken. *)
LEMMA FlushDrain ==
    ASSUME TypeOK, NEW q \in Seq(Nat \ {0}), NEW o \in 0..MaxOutstanding,
           NEW i \in Nat, Window(o, i), kind' = kind, Flush(q, o, i)
    PROVE  /\ events' # << >> => outstanding' > 0
           /\ q = << >> => events' = << >>
<1> USE MaxOutstandingType
<1>1. CASE kind = "oneway" /\ FlushOneway(q, o, i)
  <2>1. PICK n \in 0..Len(q), a \in Nat :
            /\ n = Len(q) \/ a = Room(o)
            /\ events' = Rest(q, n)
            /\ outstanding' = o + a
    BY <1>1 DEF FlushOneway
  <2>2. events' # << >> => outstanding' > 0
    BY <2>1, RestType DEF Room
  <2>3. q = << >> => n = Len(q)
    BY <2>1
  <2> QED BY <2>1, <2>2, <2>3, RestType
<1>2. CASE kind \in {"twoway", "ordered"} /\ FlushTwoway(q, o, i)
  <2> DEFINE n == IF Len(q) <= Room(o) THEN Len(q) ELSE Room(o)
  <2>1. n \in 0..Len(q) /\ (n = Len(q) \/ n = Room(o))
    BY DEF Room
  <2>2. events' = Rest(q, n) /\ outstanding' = o + n
    BY <1>2 DEF FlushTwoway
  <2> HIDE DEF n
  <2>3. events' # << >> => outstanding' > 0
    BY <2>1, <2>2, RestType DEF Room
  <2>4. q = << >> => n = Len(q)
    BY <2>1
  <2> QED BY <2>1, <2>2, <2>3, <2>4, RestType
<1>3. CASE kind = "batch" /\ FlushBatch(q, o, i)
  BY <1>3 DEF FlushBatch
<1>4. CASE kind = "link" /\ FlushLink(q, o, i)
  <2> DEFINE send == o = 0 /\ {k \in 1..Len(q) : q[k] \notin Costly} # {}
  <2>1. /\ events' = IF o > 0 THEN q ELSE << >>
        /\ outstanding' = IF send THEN 1 ELSE o
    BY <1>4 DEF FlushLink
  <2>2. send => o = 0
    OBVIOUS
  <2> HIDE DEF send
  <2> QED BY <2>1, <2>2
<1> QED BY <1>1, <1>2, <1>3, <1>4 DEF Flush

(* A callback that succeeds leaves no event without a slot. *)
LEMMA SucceededDrain ==
    ASSUME TypeInv, DrainInv, NEW flushes \in BOOLEAN, Succeeded(flushes),
           events # << >> => flushes \/ outstanding > 1
    PROVE  DrainInv'
<1> USE MaxOutstandingType
<1>1. /\ outstanding - 1 \in 0..MaxOutstanding
      /\ inflight - 1 \in Nat
      /\ Window(outstanding - 1, inflight - 1)
  BY DEF TypeInv, TypeOK, WindowInv, Window, Succeeded
<1>2. kind' = kind /\ state' = state /\ shutdown' = shutdown
  BY DEF Succeeded
<1>3. (waiter' = "done" => waiter = "done") /\ (waiter' # "none" => waiter # "none")
  BY DEF Succeeded, NotifyIf, Notify
<1>4. CASE flushes /\ state = "Online"
  <2>1. Flush(events, outstanding - 1, inflight - 1)
    BY <1>4 DEF Succeeded
  <2>2. /\ events' # << >> => outstanding' > 0
        /\ events = << >> => events' = << >>
    BY <1>1, <1>2, <2>1, FlushDrain DEF TypeInv, TypeOK
  <2> QED BY <1>2, <1>3, <1>4, <2>2 DEF DrainInv, OfflineQueueEmpty
<1>5. CASE ~(flushes /\ state = "Online")
  <2>1. outstanding' = outstanding - 1 /\ events' = events
    BY <1>5 DEF Succeeded
  <2>2. events # << >> => outstanding > 1
    BY <1>5 DEF DrainInv, OfflineQueueEmpty
  <2>3. outstanding \in Int
    BY DEF TypeInv, TypeOK
  <2>4. events' # << >> => outstanding' > 0
    BY <2>1, <2>2, <2>3
  <2> QED BY <1>2, <1>3, <2>1, <2>4 DEF DrainInv, OfflineQueueEmpty
<1> QED BY <1>4, <1>5

(* Every step keeps the queue visible to shutdown(). *)
LEMMA DrainStep ==
    TypeInv /\ DrainInv /\ [Next]_vars => DrainInv'
<1> SUFFICES ASSUME TypeInv, DrainInv, [Next]_vars PROVE DrainInv'
  OBVIOUS
<1> USE DEF DrainInv
<1>1. ASSUME NEW p \in Publishers, NEW k \in 1..MaxBatch, Queue(p, k)
      PROVE  DrainInv'
  <2>1. k \in Nat /\ ~shutdown /\ UNCHANGED <<shutdown, waiter>>
    BY <1>1, BoundsAssumption
       DEF Queue, QueueAccept, QueueFull, QueueDiscard, QueueError, Publish
  <2>2. CASE QueueAccept(p, k)
    <3>1. kind' = kind /\ state' = "Online" /\ Flush(Enqueued(k), outstanding, inflight)
      BY <2>2 DEF QueueAccept
    <3>2. Enqueued(k) \in Seq(Nat \ {0})
      BY <2>1, EnqueuedType DEF TypeInv
    <3>3. events' # << >> => outstanding' > 0
      BY <3>1, <3>2, FlushDrain DEF TypeInv, TypeOK, WindowInv
    <3> QED BY <2>1, <3>1, <3>3 DEF OfflineQueueEmpty
  <2>3. CASE QueueFull(p, k)
    BY <2>1, <2>3 DEF QueueFull, ErrorOut, QueueAfterError, OfflineQueueEmpty
  <2>4. CASE QueueDiscard(p, k) \/ QueueError(p, k)
    BY <2>1, <2>4 DEF QueueDiscard, QueueError, OfflineQueueEmpty
  <2> QED BY <1>1, <2>2, <2>3, <2>4 DEF Queue
<1>2. ASSUME NEW p \in Publishers, Reap(p) \/ Report(p)
      PROVE  DrainInv'
  BY <1>2 DEF Reap, Report, ReapWins, OfflineQueueEmpty
<1>3. CASE ResetIfReaped
  BY <1>3 DEF ResetIfReaped, OfflineQueueEmpty
<1>4. CASE Completed
  BY <1>4, SucceededDrain DEF Completed
<1>5. CASE SentOneway
  <2>1. outstanding \in Nat /\ outstanding > 0
    BY <1>5 DEF SentOneway, Succeeded, TypeInv, TypeOK, WindowInv, Window, MaxOutstanding
  <2> DEFINE flushes == outstanding = 1 /\ events # << >>
  <2>2. Succeeded(flushes) /\ flushes \in BOOLEAN
    BY <1>5 DEF SentOneway
  <2>3. events # << >> => flushes \/ outstanding > 1
    BY <2>1
  <2> HIDE DEF flushes
  <2> QED BY <2>2, <2>3, SucceededDrain
<1>6. CASE SentBatch
  BY <1>6, SucceededDrain DEF SentBatch
<1>7. ASSUME NEW hard \in BOOLEAN, Exception(hard) \/ DoFlushRefused(hard)
      PROVE  DrainInv'
  <2>1. error(hard) /\ shutdown' = shutdown
    BY <1>7 DEF Exception, DoFlushRefused
  <2>2. events' = << >> /\ (waiter' # "none" => waiter # "none")
    <3>1. state = "Online" => ~AlreadyFailed /\ ~WithinInterval(hard)
      BY DEF AlreadyFailed, WithinInterval
    <3> QED BY <2>1, <3>1 DEF error, GoOffline, ErrorOut, QueueAfterError, ErrorNotifies,
               NotifyIf, Notify, OfflineQueueEmpty
  <2> QED BY <2>1, <2>2 DEF OfflineQueueEmpty
<1>8. CASE DoFlushNotOnline \/ Expire \/ UNCHANGED vars
  BY <1>8 DEF DoFlushNotOnline, Expire, vars, OfflineQueueEmpty
<1>9. CASE DoFlushSend
  BY <1>9 DEF DoFlushSend, NotifyIf, Notify, OfflineQueueEmpty
<1>10. CASE Shutdown \/ ShutdownWakes
  <2>1. UNCHANGED <<events, outstanding, state>>
    BY <1>10 DEF Shutdown, ShutdownWakes
  <2>2. waiter' = "done" => events = << >>
    BY <1>10 DEF Shutdown, ShutdownWakes, MustWait
  <2>3. waiter' # "none" => shutdown'
    BY <1>10 DEF Shutdown, ShutdownWakes
  <2> QED BY <2>1, <2>2, <2>3 DEF OfflineQueueEmpty
<1> QED BY <1>1, <1>2, <1>3, <1>4, <1>5, <1>6, <1>7, <1>8, <1>9, <1>10
        DEF Next, Callback, DoFlush

(* shutdown() does not return while an event is queued, and none is queued *)
(* after it has returned; not even the slot a failed batch leaks makes it  *)
(* miss one.                                                               *)
THEOREM ShutdownLeavesNothing == Spec => []ShutdownDrains
<1>1. Init => TypeInv /\ DrainInv
  BY InitType DEF Init, DrainInv, OfflineQueueEmpty
<1>2. TypeInv /\ DrainInv /\ [Next]_vars => (TypeInv /\ DrainInv)'
  BY TypeStep, DrainStep
<1>3. DrainInv => ShutdownDrains
  BY DEF DrainInv, ShutdownDrains
<1> QED BY <1>1, <1>2, <1>3, PTL DEF Spec

=============================================================================
