------------------------ MODULE InvocationCallProofs ------------------------
(***************************************************************************)
(* Theorems about Invocation, for any calls, scenarios and connections:    *)
(* what a servant may be asked, and that an invocation implements Call.    *)
(*                                                                         *)
(* Two protocols meet here.  The messages of a server tell its client      *)
(* which requests it will never run: ServerInv says what a close message   *)
(* promises, wherever it is.  The retry decision trusts that message and   *)
(* the flag sent: ClientInv says what the flag knows of the network, and   *)
(* OnceInv that no two servants can be in reach of a call that is not      *)
(* idempotent.  The part about sent takes a select that reports one        *)
(* operation at a time (BothReady); with two the flag can be wrong and     *)
(* AtMostOnce does not hold.                                               *)
(***************************************************************************)
EXTENDS InvocationProofs, FiniteSetTheorems

(* The server end of c and its streams; the requests of c its servant was  *)
(* given and whose replies the client waits for.                           *)
Replied(c, k) == Contains(wire[c]["server"], Reply(k))
Replying(c, k) == Contains(out[c]["server"], Reply(k))
Owed(c) == async[c] \cap ran[c]

CloseLast(s) == \A i \in 1..Len(s) : s[i] = Close => i = Len(s)

(* w and o are what an end has written and has to write, st its state, dp  *)
(* what it dispatches: a close message is the last one, it is sent when    *)
(* nothing is dispatched, and behind the replies of the calls S.           *)
Told(w, o, st, dp, S) ==
  /\ Contains(w, Close) => /\ CloseLast(w) /\ st >= Closing /\ dp = {}
                           /\ o = <<>> \/ st >= Closed
                           /\ \A k \in S : Contains(w, Reply(k))
  /\ Contains(o, Close) /\ st < Closed => CloseLast(o) /\ st >= Closing /\ dp = {}
  /\ st < Closed => \A k \in S : k \in dp \/ Contains(w, Reply(k)) \/ Contains(o, Reply(k))

CloseInv(c) ==
  /\ Told(wire[c]["server"], out[c]["server"], state[c]["server"], disp[c]["server"], Owed(c))
  /\ exc[c] = "closeConnection" => Owed(c) = {} /\ state[c]["server"] >= Closing

(* Only what was given to a servant is dispatched and replied to. *)
ReplyInv(c) ==
  \A k \in Calls : k \in disp[c]["server"] \/ Replied(c, k) \/ Replying(c, k) => k \in ran[c]

(* A server end that is not up yet does nothing. *)
UpInv(c) ==
  link[c] \notin {"flushing", "up"} => state[c]["server"] = NotUp /\ disp[c]["server"] = {}

ServerInv(c) == CloseInv(c) /\ ReplyInv(c) /\ UpInv(c)

(* The request of k is on its way, has left, or was ever sent through c.   *)
Requested(c, k) ==
  Contains(wire[c]["client"], Request(k)) \/ Contains(out[c]["client"], Request(k))
Written(c, k) == k \in ran[c] \/ Contains(wire[c]["client"], Request(k))
Given(c, k) == k \in ran[c] \/ Requested(c, k)

(* A request is sent once through a connection: when the connection no     *)
(* longer has it, the call is over or the connection will take no more.    *)
GivenInv(c) ==
  \A k \in Calls : Given(c, k) => phase[k] # "idle" /\ (k \in async[c] \/ Over(k) \/ exc[c] # "none")

(* What is not marked as sent was not written. *)
SentInv(c) == ~BothReady => \A k \in async[c] : ~sent[k] => ~Written(c, k)

(* The servant of c has run k, or may still do so. *)
Potential(c, k) == k \in ran[c] \/ (state[c]["server"] < Closing /\ Requested(c, k))

HeldInv(c) ==
  ~BothReady => \A k \in Calls \ Idempotent : Potential(c, k) => k \in async[c] \/ Over(k)

ClientInv(c) == GivenInv(c) /\ SentInv(c) /\ HeldInv(c)

(* The heart of at-most-once: a call that may not be repeated is in the    *)
(* reach of one servant.                                                   *)
OnceInv ==
  ~BothReady => \A k \in Calls \ Idempotent :
                  \A c, d \in Conns : Potential(c, k) /\ Potential(d, k) => c = d

CallInv == OwnerInv /\ (\A c \in Conns : ServerInv(c) /\ ClientInv(c)) /\ OnceInv
-----------------------------------------------------------------------------
(* Sequences.                                                              *)

(* Two sequences, one after the other. *)
LEMMA ConcatIn ==
  ASSUME NEW S, NEW s \in Seq(S), NEW t \in Seq(S)
  PROVE  /\ s \o t \in Seq(S)
         /\ \A y : Contains(s \o t, y) <=> Contains(s, y) \/ Contains(t, y)
         /\ ~Contains(s, Close) /\ CloseLast(t) => CloseLast(s \o t)
<1> DEFINE u == s \o t
<1>1. /\ u \in Seq(S) /\ Len(u) = Len(s) + Len(t) /\ Len(s) \in Nat /\ Len(t) \in Nat
      /\ \A i \in 1..Len(s) + Len(t) : u[i] = IF i <= Len(s) THEN s[i] ELSE t[i - Len(s)]
  BY ConcatProperties, LenProperties
<1> HIDE DEF u
<1>2. /\ \A i \in 1..Len(s) : i \in 1..Len(u) /\ u[i] = s[i]
      /\ \A i \in 1..Len(t) : i + Len(s) \in 1..Len(u) /\ u[i + Len(s)] = t[i]
      /\ \A i \in 1..Len(u) : \/ i \in 1..Len(s) /\ u[i] = s[i]
                              \/ i - Len(s) \in 1..Len(t) /\ u[i] = t[i - Len(s)]
  BY <1>1, SMTT(30)
<1>3. \A y : Contains(u, y) <=> Contains(s, y) \/ Contains(t, y)
  <2>1. ASSUME NEW y, Contains(u, y)
        PROVE  Contains(s, y) \/ Contains(t, y)
    BY <1>2, <2>1 DEF Contains
  <2>2. ASSUME NEW y, Contains(s, y) \/ Contains(t, y)
        PROVE  Contains(u, y)
    BY <1>2, <2>2 DEF Contains
  <2> QED BY <2>1, <2>2
<1>4. ASSUME ~Contains(s, Close), CloseLast(t)
      PROVE  CloseLast(u)
  <2>1. \A i \in 1..Len(s) : s[i] # Close
    BY <1>4 DEF Contains
  <2>2. \A i \in 1..Len(t) : t[i] = Close => i = Len(t)
    BY <1>4 DEF CloseLast
  <2>3. SUFFICES ASSUME NEW i \in 1..Len(u), u[i] = Close
                 PROVE  i = Len(u)
    BY DEF CloseLast
  <2>4. i - Len(s) \in 1..Len(t) /\ t[i - Len(s)] = Close
    BY <1>2, <2>1, <2>3
  <2> QED BY <1>1, <2>2, <2>4
<1> QED BY <1>1, <1>3, <1>4 DEF u

(* A sequence split in two. *)
LEMMA SplitContains ==
  ASSUME NEW S, NEW s \in Seq(S), NEW n \in 0..Len(s)
  PROVE  LET a == SubSeq(s, 1, n)
             b == SubSeq(s, n + 1, Len(s))
         IN  /\ a \in Seq(S) /\ b \in Seq(S)
             /\ \A y : Contains(s, y) <=> Contains(a, y) \/ Contains(b, y)
             /\ n = Len(s) => b = <<>>
             /\ n = 0 => a = <<>>
             /\ CloseLast(s) => /\ CloseLast(a) /\ CloseLast(b)
                                /\ n < Len(s) => ~Contains(a, Close)
<1> DEFINE a == SubSeq(s, 1, n)
           b == SubSeq(s, n + 1, Len(s))
<1>1. /\ a \in Seq(S) /\ b \in Seq(S) /\ Len(a) = n /\ Len(b) = Len(s) - n
      /\ \A i \in 1..n : a[i] = s[i]
      /\ \A i \in 1..(Len(s) - n) : b[i] = s[n + i]
      /\ Len(s) \in Nat /\ n \in Nat /\ n <= Len(s)
  BY SplitIn, LenProperties
<1> HIDE DEF a, b
<1>2. /\ \A i \in 1..Len(a) : i \in 1..Len(s) /\ a[i] = s[i] /\ i <= n
      /\ \A i \in 1..Len(b) : n + i \in 1..Len(s) /\ b[i] = s[n + i]
      /\ \A i \in 1..Len(s) : \/ i \in 1..Len(a) /\ s[i] = a[i]
                              \/ i - n \in 1..Len(b) /\ s[i] = b[i - n]
  BY <1>1
<1>3. \A y : Contains(s, y) <=> Contains(a, y) \/ Contains(b, y)
  <2>1. ASSUME NEW y, Contains(s, y)
        PROVE  Contains(a, y) \/ Contains(b, y)
    BY <1>2, <2>1 DEF Contains
  <2>2. ASSUME NEW y, Contains(a, y) \/ Contains(b, y)
        PROVE  Contains(s, y)
    BY <1>2, <2>2 DEF Contains
  <2> QED BY <2>1, <2>2
<1>4. (n = Len(s) => b = <<>>) /\ (n = 0 => a = <<>>)
  BY <1>1, EmptySeq
<1>5. ASSUME CloseLast(s)
      PROVE  CloseLast(a) /\ CloseLast(b) /\ (n < Len(s) => ~Contains(a, Close))
  <2>1. \A i \in 1..Len(s) : s[i] = Close => i = Len(s)
    BY <1>5 DEF CloseLast
  <2>2. \A i \in 1..Len(a) : a[i] = Close => i = Len(s)
    BY <1>2, <2>1
  <2>3. \A i \in 1..Len(b) : b[i] = Close => n + i = Len(s)
    BY <1>2, <2>1
  <2>4. CloseLast(a)
    BY <1>1, <1>2, <2>2 DEF CloseLast
  <2>5. CloseLast(b)
    BY <1>1, <2>3 DEF CloseLast
  <2>6. n < Len(s) => ~Contains(a, Close)
    BY <1>1, <1>2, <2>2 DEF Contains
  <2> QED BY <2>4, <2>5, <2>6
<1> QED BY <1>1, <1>3, <1>4, <1>5 DEF a, b

(* The first element, and the others. *)
LEMMA HeadFacts ==
  ASSUME NEW S, NEW s \in Seq(S), s # <<>>
  PROVE  /\ Head(s) \in S /\ Tail(s) \in Seq(S) /\ Contains(s, Head(s))
         /\ \A y : Contains(s, y) <=> y = Head(s) \/ Contains(Tail(s), y)
         /\ CloseLast(s) => CloseLast(Tail(s)) /\ (Head(s) = Close => Tail(s) = <<>>)
<1> DEFINE t == Tail(s)
<1>1. /\ t \in Seq(S) /\ Len(t) = Len(s) - 1 /\ Len(s) \in Nat /\ Len(s) >= 1
      /\ \A i \in 1..Len(t) : t[i] = s[i + 1]
      /\ Head(s) = s[1] /\ Head(s) \in S
  BY HeadTailProperties, LenProperties, EmptySeq
<1>2. Contains(s, Head(s)) /\ \A y : Contains(s, y) <=> y = Head(s) \/ Contains(t, y)
  BY TailIn
<1> HIDE DEF t
<1>3. ASSUME CloseLast(s)
      PROVE  CloseLast(t) /\ (Head(s) = Close => t = <<>>)
  <2>1. \A i \in 1..Len(s) : s[i] = Close => i = Len(s)
    BY <1>3 DEF CloseLast
  <2>2. CloseLast(t)
    BY <1>1, <2>1 DEF CloseLast
  <2>3. Head(s) = Close => Len(t) = 0
    BY <1>1, <2>1
  <2> QED BY <1>1, <2>2, <2>3, EmptySeq
<1> QED BY <1>1, <1>2, <1>3 DEF t

(* The messages are different things. *)
LEMMA MessageFacts ==
  /\ \A k, j : /\ Request(k) = Request(j) => k = j
               /\ Reply(k) = Reply(j) => k = j
               /\ Request(k) # Reply(j)
  /\ \A k : Request(k) # Close /\ Reply(k) # Close
<1>1. \A k : /\ Request(k).type = "request" /\ Request(k).call = k
             /\ Reply(k).type = "reply" /\ Reply(k).call = k
  BY DEF Request, Reply
<1>2. Close.type = "close"
  BY DEF Close
<1> QED BY <1>1, <1>2

-----------------------------------------------------------------------------
(* What a server tells its client.                                         *)

(* Fewer calls wait, or the end is closed. *)
LEMMA ToldLess ==
  ASSUME NEW w, NEW o, NEW st, NEW v, NEW dp, NEW T, NEW T2 \in SUBSET T, Told(w, o, st, dp, T),
         v = st \/ v = Closed
  PROVE  Told(w, o, v, dp, T2)
<1>1. CASE v = st
  BY <1>1 DEF Told
<1>2. CASE v = Closed
  <2>1. Closed >= Closing /\ Closed >= Closed /\ ~(Closed < Closed)
    BY DEF Closed, Closing
  <2> QED BY <1>2, <2>1 DEF Told
<1> QED BY <1>1, <1>2

(* What waits is written. *)
LEMMA ToldWritten ==
  ASSUME NEW S, NEW w \in Seq(S), NEW o \in Seq(S), NEW st \in Active..ClosingPending, NEW v,
         NEW dp, NEW T, Told(w, o, st, dp, T), o # <<>>, NEW n \in 1..Len(o),
         v = st \/ (st = Closing /\ v = ClosingPending)
  PROVE  Told(w \o SubSeq(o, 1, n), SubSeq(o, n + 1, Len(o)), v, dp, T)
<1> DEFINE a == SubSeq(o, 1, n)
           b == SubSeq(o, n + 1, Len(o))
<1>1. n \in 0..Len(o) /\ n <= Len(o) /\ Len(o) \in Nat
  BY LenProperties
<1>2. /\ a \in Seq(S) /\ b \in Seq(S)
      /\ \A y : Contains(o, y) <=> Contains(a, y) \/ Contains(b, y)
      /\ n = Len(o) => b = <<>>
      /\ CloseLast(o) => CloseLast(a) /\ CloseLast(b) /\ (n < Len(o) => ~Contains(a, Close))
  BY <1>1, SplitContains
<1> HIDE DEF a, b
<1>3. /\ \A y : Contains(w \o a, y) <=> Contains(w, y) \/ Contains(a, y)
      /\ ~Contains(w, Close) /\ CloseLast(a) => CloseLast(w \o a)
  BY <1>2, ConcatIn
<1>4. st < Closed /\ v < Closed /\ (st >= Closing => v >= Closing) /\ ~(st >= Closed)
  BY DEF Active, Closing, ClosingPending, Closed
<1>5. ~Contains(w, Close)
  BY <1>4 DEF Told
<1>6. /\ Contains(o, Close) => CloseLast(o) /\ st >= Closing /\ dp = {}
      /\ \A k \in T : k \in dp \/ Contains(w, Reply(k)) \/ Contains(o, Reply(k))
  BY <1>4 DEF Told
<1>7. Contains(w \o a, Close) =>
        /\ CloseLast(w \o a) /\ v >= Closing /\ dp = {} /\ b = <<>>
        /\ \A k \in T : Contains(w \o a, Reply(k))
  <2>1. SUFFICES ASSUME Contains(a, Close)
                 PROVE  /\ CloseLast(w \o a) /\ v >= Closing /\ dp = {} /\ b = <<>>
                        /\ \A k \in T : Contains(w \o a, Reply(k))
    BY <1>3, <1>5
  <2>2. CloseLast(a) /\ ~(n < Len(o)) /\ st >= Closing /\ dp = {}
    BY <1>2, <1>6, <2>1
  <2>3. b = <<>>
    BY <1>1, <1>2, <2>2
  <2>4. \A y : ~Contains(b, y)
    BY <2>3 DEF Contains
  <2> QED BY <1>2, <1>3, <1>4, <1>5, <1>6, <2>2, <2>3, <2>4
<1>8. Contains(b, Close) => CloseLast(b) /\ v >= Closing /\ dp = {}
  BY <1>2, <1>4, <1>6
<1>9. \A k \in T : k \in dp \/ Contains(w \o a, Reply(k)) \/ Contains(b, Reply(k))
  BY <1>2, <1>3, <1>6
<1> QED BY <1>7, <1>8, <1>9 DEF Told, a, b

(* The head of what waits is written, and the end found broken. *)
LEMMA ToldHead ==
  ASSUME NEW S, NEW w \in Seq(S), NEW o \in Seq(S), NEW st \in Active..ClosingPending,
         NEW dp, NEW T, Told(w, o, st, dp, T), o # <<>>
  PROVE  Told(Append(w, Head(o)), o, Closed, dp, T)
<1> DEFINE a == <<Head(o)>>
           u == Append(w, Head(o))
<1>1. Head(o) \in S /\ Contains(o, Head(o)) /\ \A y : Contains(o, y) <=> y = Head(o) \/ Contains(Tail(o), y)
  BY HeadFacts
<1>2. CloseLast(o) /\ Head(o) = Close => Tail(o) = <<>>
  BY HeadFacts
<1>3. /\ \A y : Contains(u, y) <=> Contains(w, y) \/ y = Head(o)
      /\ ~Contains(w, Close) => CloseLast(u)
  <2>1. \A y : Contains(u, y) <=> Contains(w, y) \/ y = Head(o)
    BY <1>1, AppendIn
  <2>2. Len(u) = Len(w) + 1 /\ Len(w) \in Nat /\ \A i \in 1..Len(w) : u[i] = w[i]
    BY <1>1, AppendProperties, LenProperties
  <2>3. ~Contains(w, Close) => CloseLast(u)
    <3>1. SUFFICES ASSUME ~Contains(w, Close), NEW i \in 1..Len(u), u[i] = Close
                   PROVE  i = Len(u)
      BY DEF CloseLast
    <3>2. i \notin 1..Len(w)
      BY <2>2, <3>1 DEF Contains
    <3> QED BY <2>2, <3>1, <3>2
  <2> QED BY <2>1, <2>3
<1> HIDE DEF u
<1>4. st < Closed /\ ~(st >= Closed) /\ Closed >= Closing /\ Closed >= Closed /\ ~(Closed < Closed)
  BY DEF Active, Closing, ClosingPending, Closed
<1>5. ~Contains(w, Close)
  BY <1>4 DEF Told
<1>6. ASSUME Contains(u, Close)
      PROVE  dp = {} /\ \A k \in T : Contains(u, Reply(k))
  <2>1. Head(o) = Close
    BY <1>3, <1>5, <1>6
  <2>2. CloseLast(o) /\ dp = {} /\ \A k \in T : k \in dp \/ Contains(w, Reply(k)) \/ Contains(o, Reply(k))
    BY <1>1, <1>4, <2>1 DEF Told
  <2>3. \A y : ~Contains(Tail(o), y)
    <3>1. Tail(o) = <<>>
      BY <1>2, <2>1, <2>2
    <3>2. \A y : ~Contains(<<>>, y)
      BY DEF Contains
    <3> QED BY <3>1, <3>2
  <2> QED BY <1>1, <1>3, <2>1, <2>2, <2>3, MessageFacts
<1> QED BY <1>3, <1>4, <1>5, <1>6 DEF Told, u

(* The end sends ms, n of it at once: nothing was closed yet, a close      *)
(* message is the last, when nothing is dispatched.                        *)
LEMMA ToldSent ==
  ASSUME NEW S, NEW w \in Seq(S), NEW o \in Seq(S), NEW ms \in Seq(S), NEW st, NEW v, NEW n \in 0..Len(ms),
         NEW dp, NEW dp2, NEW T, Told(w, o, st, dp, T), st < Closed,
         ~Contains(w, Close), ~Contains(o, Close), CloseLast(ms),
         Contains(ms, Close) => v >= Closing /\ dp2 = {},
         \A k \in dp : k \in dp2 \/ Contains(ms, Reply(k)),
         o # <<>> => n = 0
  PROVE  Told(w \o SubSeq(ms, 1, n), o \o SubSeq(ms, n + 1, Len(ms)), v, dp2, T)
<1> DEFINE a == SubSeq(ms, 1, n)
           b == SubSeq(ms, n + 1, Len(ms))
<1>1. /\ a \in Seq(S) /\ b \in Seq(S)
      /\ \A y : Contains(ms, y) <=> Contains(a, y) \/ Contains(b, y)
      /\ n = Len(ms) => b = <<>>
      /\ n = 0 => a = <<>>
      /\ CloseLast(a) /\ CloseLast(b) /\ (n < Len(ms) => ~Contains(a, Close))
  BY SplitContains
<1>2. Len(ms) \in Nat /\ n <= Len(ms) /\ n \in Nat
  BY LenProperties
<1> HIDE DEF a, b
<1>3. /\ \A y : Contains(w \o a, y) <=> Contains(w, y) \/ Contains(a, y)
      /\ CloseLast(w \o a)
      /\ \A y : Contains(o \o b, y) <=> Contains(o, y) \/ Contains(b, y)
      /\ CloseLast(o \o b)
  BY <1>1, ConcatIn
<1>4. \A k \in T : k \in dp \/ Contains(w, Reply(k)) \/ Contains(o, Reply(k))
  BY DEF Told
<1>5. \A k \in T : k \in dp2 \/ Contains(w \o a, Reply(k)) \/ Contains(o \o b, Reply(k))
  BY <1>1, <1>3, <1>4
<1>6. ASSUME Contains(w \o a, Close)
      PROVE  v >= Closing /\ dp2 = {} /\ o \o b = <<>> /\ \A k \in T : Contains(w \o a, Reply(k))
  <2>1. Contains(a, Close)
    BY <1>3, <1>6
  <2>2. n = Len(ms) /\ b = <<>>
    BY <1>1, <1>2, <2>1
  <2>3. n # 0
    <3>1. ~Contains(<<>>, Close)
      BY DEF Contains
    <3> QED BY <1>1, <2>1, <3>1
  <2>4. o = <<>> /\ o \o b = <<>>
    BY <2>2, <2>3
  <2>5. \A y : ~Contains(o \o b, y)
    BY <2>4 DEF Contains
  <2>6. v >= Closing /\ dp2 = {}
    BY <1>1, <2>1
  <2> QED BY <1>5, <2>4, <2>5, <2>6
<1>7. Contains(o \o b, Close) => CloseLast(o \o b) /\ v >= Closing /\ dp2 = {}
  BY <1>1, <1>3
<1> QED BY <1>3, <1>5, <1>6, <1>7 DEF Told, a, b

(* It sends a part of ms, and is closed by the failure. *)
LEMMA ToldCut ==
  ASSUME NEW S, NEW w \in Seq(S), NEW o, NEW ms \in Seq(S), NEW n \in 0..Len(ms), n < Len(ms),
         NEW dp, NEW T, ~Contains(w, Close), CloseLast(ms)
  PROVE  Told(w \o SubSeq(ms, 1, n), o, Closed, dp, T)
<1> DEFINE a == SubSeq(ms, 1, n)
<1>1. a \in Seq(S) /\ ~Contains(a, Close)
  BY SplitContains
<1> HIDE DEF a
<1>2. ~Contains(w \o a, Close)
  BY <1>1, ConcatIn
<1>3. ~(Closed < Closed)
  BY DEF Closed
<1> QED BY <1>2, <1>3 DEF Told, a

-----------------------------------------------------------------------------
(* What every step keeps.                                                  *)

(* The call goes on or fails, but neither begins nor returns. *)
Fails(k) == \/ phase'[k] = phase[k]
            \/ phase[k] \notin {"idle", "ok", "failed"} /\ phase'[k] \notin {"idle", "ok"}

Begins(k) == phase[k] = "idle" /\ phase'[k] = "invoke"
Returns(k) == \E c \in Conns : /\ ReceiveReply(c, k) /\ k \in async[c]
                               /\ phase[k] = "held" /\ phase'[k] = "ok"

(* Calls that are told of an exception. *)
LEMMA NotifyFails ==
  ASSUME TypeOK, NEW S \in SUBSET Calls, NEW c, NEW ex, NotifyException(S, c, ex),
         \A k \in S : phase[k] \notin {"idle", "ok", "failed"}
  PROVE  \A k \in Calls : Fails(k)
<1>1. /\ \A k \in S : phase'[k] = "failed" \/ (phase'[k] = "retry" /\ Retries(k, ex))
      /\ \A k \in Calls \ S : phase'[k] = phase[k]
  BY NotifyFacts
<1>2. \A k \in S : phase'[k] \notin {"idle", "ok"}
  BY <1>1
<1> QED BY <1>1, <1>2 DEF Fails

(* One call goes on. *)
LEMMA OneFails ==
  ASSUME TypeOK, NEW k \in Calls, NEW p, p \notin {"idle", "ok"},
         phase[k] \notin {"idle", "ok", "failed"}, phase' = [phase EXCEPT ![k] = p]
  PROVE  \A j \in Calls : Fails(j)
<1>1. phase \in [Calls -> Phases]
  BY DEF TypeOK
<1> QED BY <1>1 DEF Fails

(* The steps of a call fail it or go on with it. *)
LEMMA CallPhases ==
  ASSUME OwnerInv, NEW k \in Calls, CallStep(k)
  PROVE  \A j \in Calls : Fails(j)
<1>1. TypeOK
  BY DEF OwnerInv
<1>2. CASE GetRequestHandler(k)
  <2>1. phase[k] = "invoke" /\ phase' = [phase EXCEPT ![k] = "send"]
    BY <1>2 DEF GetRequestHandler
  <2> QED BY <1>1, <2>1, OneFails
<1>3. CASE SendCanceled(k)
  <2>1. phase[k] = "send" /\ phase' = [phase EXCEPT ![k] = "failed"]
    BY <1>3 DEF SendCanceled, Complete
  <2> QED BY <1>1, <2>1, OneFails
<1>4. CASE SendQueued(k)
  <2>1. phase[k] = "send" /\ (phase' = [phase EXCEPT ![k] = "queued"] \/ phase' = [phase EXCEPT ![k] = "wait"])
    BY <1>4 DEF SendQueued
  <2> QED BY <1>1, <2>1, OneFails
<1>5. ASSUME NEW c, NEW h \in CancelHandlers, InvokeException(k, c, "lost", h), phase[k] \in {"send", "wait"}
      PROVE  \A j \in Calls : Fails(j)
  <2>1. /\ phase'[k] = "failed" \/ (phase'[k] \in {"retry", "invoke"} /\ Retries(k, "lost"))
        /\ \A j \in Calls \ {k} : phase'[j] = phase[j]
    BY <1>1, <1>5, InvokeFacts
  <2>2. phase'[k] \notin {"idle", "ok"} /\ phase[k] \notin {"idle", "ok", "failed"}
    BY <1>5, <2>1
  <2> QED BY <2>1, <2>2 DEF Fails
<1>6. phase[k] \in {"send", "wait"} => handler[k] \in Conns
  BY FreeFacts
<1>7. CASE SendRefused(k)
  BY <1>5, <1>6, <1>7, HandlerFacts DEF SendRefused
<1>8. CASE SendRetried(k)
  <2>1. phase[k] \in {"send", "wait"} /\ phase' = [phase EXCEPT ![k] = "invoke"]
    BY <1>8 DEF SendRetried
  <2> QED BY <1>1, <2>1, OneFails
<1>9. CASE Send(k)
  <2>1. CASE ConnectionTakes(k, handler[k])
    <3>1. phase[k] \in {"send", "wait"} /\ phase' = [phase EXCEPT ![k] = "held"]
      BY <1>9, <2>1 DEF Send, ConnectionTakes
    <3> QED BY <1>1, <3>1, OneFails
  <2>2. CASE InvokeException(k, handler[k], "lost", ConnectionHandler(handler[k]))
    BY <1>5, <1>6, <1>9, <2>2, HandlerFacts DEF Send
  <2> QED BY <1>9, <2>1, <2>2 DEF Send
<1>10. CASE RunRetry(k)
  <2>1. phase[k] = "retry" /\ phase' = [phase EXCEPT ![k] = "invoke"]
    BY <1>10 DEF RunRetry
  <2> QED BY <1>1, <2>1, OneFails
<1>11. CASE CancelRequest(k)
  <2>1. ASSUME Abort(k), phase[k] \in {"held", "queued", "retry"}
        PROVE  \A j \in Calls : Fails(j)
    <3>1. NotifyException({k}, handler[k], "canceled") /\ {k} \in SUBSET Calls
      BY <2>1 DEF Abort
    <3> QED BY <1>1, <2>1, <3>1, NotifyFails
  <2>2. CASE \E c \in Conns : CancelQueued(k, c)
    <3>1. PICK c \in Conns : CancelQueued(k, c)
      BY <2>2
    <3>2. phase[k] = "queued" /\ Abort(k)
      BY <3>1 DEF CancelQueued, Asks, OwnerInv, CancelInv
    <3> QED BY <2>1, <3>2
  <2>3. CASE \E c \in Conns : CancelHeld(k, c)
    <3>1. PICK c \in Conns : CancelHeld(k, c)
      BY <2>3
    <3>2. k \in async[c] /\ Abort(k)
      BY <3>1 DEF CancelHeld
    <3>3. phase[k] = "held"
      BY <3>2 DEF OwnerInv, PlaceInv, Free, Held, Queued
    <3> QED BY <2>1, <3>2, <3>3
  <2>4. CASE CancelRetry(k)
    <3>1. Scheduled(k) /\ Abort(k) => phase[k] \in {"held", "queued", "retry"}
      BY DEF Scheduled
    <3> QED BY <2>1, <2>4, <3>1 DEF CancelRetry, Fails
  <2>5. CASE CancelIgnored(k)
    BY <2>5 DEF CancelIgnored, Fails
  <2> QED BY <1>11, <2>2, <2>3, <2>4, <2>5 DEF CancelRequest
<1> QED BY <1>2, <1>3, <1>4, <1>7, <1>8, <1>9, <1>10, <1>11 DEF CallStep

(* And those of a connection, unless a reply is read. *)
LEMMA ConnPhases ==
  ASSUME OwnerInv, NEW c \in Conns, ConnStep(c)
  PROVE  \A j \in Calls : Fails(j) \/ Returns(j)
<1>1. TypeOK
  BY DEF OwnerInv
<1>2. CASE ConnectDone(c) \/ FlushDone(c) \/ \E k \in Calls : ReceiveRequest(c, k)
  BY <1>2 DEF ConnectDone, FlushDone, ReceiveRequest, callVars, Fails
<1>3. CASE ConnectFailed(c)
  <2>1. NotifyException(ToSet(connq[c]), c, "lost")
    BY <1>3 DEF ConnectFailed
  <2>2. ToSet(connq[c]) \in SUBSET Calls /\ \A k \in ToSet(connq[c]) : Contains(connq[c], k)
    <3>1. connq[c] \in Seq(Calls)
      BY <1>1 DEF TypeOK
    <3> QED BY <3>1 DEF ToSet, Contains
  <2>3. \A k \in ToSet(connq[c]) : phase[k] = "queued"
    BY <2>2 DEF OwnerInv, PlaceInv, Free, Held, Queued
  <2>4. \A k \in ToSet(connq[c]) : phase[k] \notin {"idle", "ok", "failed"}
    BY <2>3
  <2> QED BY <1>1, <2>1, <2>2, <2>4, NotifyFails
<1>4. CASE FlushNext(c)
  <2>1. connq[c] # <<>> /\ connq[c] \in Seq(Calls)
    BY <1>1, <1>4 DEF FlushNext, TypeOK
  <2>2. PICK k \in Calls : k = Head(connq[c]) /\ Contains(connq[c], k)
    BY <2>1, TailIn
  <2>3. phase[k] = "queued"
    BY <2>2 DEF OwnerInv, PlaceInv, Free, Held, Queued
  <2>4. \/ phase' = [phase EXCEPT ![k] = "held"]
        \/ NotifyException({k}, c, "lost")
        \/ phase' = [phase EXCEPT ![k] = "retry"]
    BY <1>4, <2>2 DEF FlushNext, ConnectionTakes
  <2>5. {k} \in SUBSET Calls
    OBVIOUS
  <2>6. NotifyException({k}, c, "lost") => \A j \in Calls : Fails(j)
    BY <1>1, <2>3, <2>5, NotifyFails
  <2>7. phase' = [phase EXCEPT ![k] = "held"] => \A j \in Calls : Fails(j)
    BY <1>1, <2>3, OneFails
  <2>8. phase' = [phase EXCEPT ![k] = "retry"] => \A j \in Calls : Fails(j)
    BY <1>1, <2>3, OneFails
  <2> QED BY <2>4, <2>6, <2>7, <2>8
<1>5. ASSUME NEW k \in Calls, ReceiveReply(c, k)
      PROVE  \A j \in Calls : Fails(j) \/ Returns(j)
  <2>1. CASE k \in async[c]
    <3>1. phase' = [phase EXCEPT ![k] = "ok"]
      BY <1>5, <2>1 DEF ReceiveReply, Complete
    <3>2. phase[k] = "held"
      BY <2>1 DEF OwnerInv, PlaceInv, Free, Held, Queued
    <3>3. phase'[k] = "ok" /\ \A j \in Calls : j # k => phase'[j] = phase[j]
      BY <1>1, <3>1 DEF TypeOK
    <3> QED BY <1>5, <2>1, <3>2, <3>3 DEF Fails, Returns
  <2>2. CASE k \notin async[c]
    BY <1>5, <2>2 DEF ReceiveReply, Fails
  <2> QED BY <2>1, <2>2
<1> QED BY <1>2, <1>3, <1>4, <1>5 DEF ConnStep

(* And those of its ends. *)
LEMMA EndPhases ==
  ASSUME OwnerInv, NEW c \in Conns, NEW e \in Ends, EndStep(c, e) \/ Fault(c, e)
  PROVE  \A j \in Calls : Fails(j)
<1>1. CASE Finish(c, e) /\ e = "client"
  <2>1. NotifyException(async[c], c, exc[c])
    BY <1>1 DEF Finish
  <2>2. TypeOK /\ async[c] \in SUBSET Calls
    BY DEF OwnerInv, TypeOK
  <2>3. \A k \in async[c] : phase[k] = "held"
    BY <2>2 DEF OwnerInv, PlaceInv, Free, Held, Queued
  <2>4. \A k \in async[c] : phase[k] \notin {"idle", "ok", "failed"}
    BY <2>3
  <2>5. \E S \in SUBSET Calls : S = async[c] /\ NotifyException(S, c, exc[c])
    BY <2>1, <2>2
  <2> QED BY <2>2, <2>4, <2>5, NotifyFails
<1>2. CASE Finish(c, e) /\ e # "client"
  BY <1>2 DEF Finish, Fails
<1>3. CASE WriteReady(c, e)
  BY <1>3 DEF WriteReady, Fails
<1>4. CASE WriteLost(c, e) \/ ReadLost(c, e) \/ ReceiveClose(c, e)
  BY <1>4 DEF WriteLost, ReadLost, ReceiveClose, callVars, Fails
<1>5. CASE \E k \in Calls : DispatchDone(c, e, k)
  BY <1>5 DEF DispatchDone, callVars, Fails
<1>6. CASE Fault(c, e)
  BY <1>6 DEF Fault, CloseGracefully, CloseIdle, CloseForcefully, TimedOut, GracefulClose, callVars, Fails
<1> QED BY <1>1, <1>2, <1>3, <1>4, <1>5, <1>6 DEF EndStep

(* A call begins, returns, fails or goes on. *)
LEMMA NextPhases ==
  ASSUME OwnerInv, Next
  PROVE  /\ \A k \in Calls : Fails(k) \/ Begins(k) \/ Returns(k)
         /\ \A k \in Calls : (Over(k) => Over(k)') /\ (phase[k] # "idle" => phase'[k] # "idle")
<1>1. \A k \in Calls : Fails(k) \/ Begins(k) \/ Returns(k)
  <2>1. CASE RunTime
    <3>1. ASSUME RemoveRetry
          PROVE  \A k \in Calls : Fails(k)
      BY <3>1 DEF RemoveRetry, callVars, Fails
    <3> QED BY <2>1, <3>1, CallPhases, ConnPhases, EndPhases DEF RunTime
  <2>2. CASE Environment
    <3>1. ASSUME NEW k \in Calls, Invoke(k)
          PROVE  \A j \in Calls : Fails(j) \/ Begins(j)
      <4>1. phase \in [Calls -> Phases] /\ phase[k] = "idle" /\ phase' = [phase EXCEPT ![k] = "invoke"]
        BY <3>1 DEF OwnerInv, TypeOK, Invoke
      <4> QED BY <4>1 DEF Fails, Begins
    <3>2. ASSUME NEW k \in Calls, Cancel(k)
          PROVE  \A j \in Calls : Fails(j)
      BY <3>2 DEF Cancel, Fails
    <3>3. ASSUME NEW c \in Conns, Reset(c)
          PROVE  \A j \in Calls : Fails(j)
      BY <3>3 DEF Reset, callVars, Fails
    <3> QED BY <2>2, <3>1, <3>2, <3>3, EndPhases DEF Environment
  <2> QED BY <2>1, <2>2 DEF Next
<1>2. \A k \in Calls : Fails(k) => (Over(k) => Over(k)') /\ (phase[k] # "idle" => phase'[k] # "idle")
  BY DEF Fails, Over
<1>3. \A k \in Calls : Begins(k) \/ Returns(k) => (Over(k) => Over(k)') /\ (phase[k] # "idle" => phase'[k] # "idle")
  BY DEF Begins, Returns, Over
<1> QED BY <1>1, <1>2, <1>3

(* A request that is marked as sent stays so while its connection has it;  *)
(* a handler that has its connection keeps it.                             *)
LEMMA NextKeeps ==
  ASSUME OwnerInv, Next
  PROVE  /\ \A k \in Calls : phase[k] = "held" /\ sent[k] => sent'[k]
         /\ \A c \in Conns : link[c] \in {"flushing", "up"} => link'[c] \in {"flushing", "up"}
<1> DEFINE Keeps == /\ \A k \in Calls : phase[k] = "held" /\ sent[k] => sent'[k]
                    /\ \A c \in Conns : link[c] \in {"flushing", "up"} => link'[c] \in {"flushing", "up"}
<1>1. TypeOK /\ sent \in [Calls -> BOOLEAN] /\ link \in [Conns -> {"unused", "connecting", "flushing", "up", "failed"}]
  BY DEF OwnerInv, TypeOK
<1>2. UNCHANGED <<sent, link>> => Keeps
  OBVIOUS
<1>3. ASSUME NEW k \in Calls, phase[k] # "held", NEW b, sent' = [sent EXCEPT ![k] = b], link' = link
      PROVE  Keeps
  BY <1>1, <1>3
<1>4. ASSUME NEW c \in Conns, NEW l, link' = [link EXCEPT ![c] = l], sent' = sent,
             link[c] \notin {"flushing", "up"} \/ l \in {"flushing", "up"}
      PROVE  Keeps
  BY <1>1, <1>4
<1>5. ASSUME NEW k \in Calls, NEW c, ConnectionTakes(k, c), phase[k] # "held", link' = link
      PROVE  Keeps
  <2>1. PICK n \in 0..1 : sent' = [sent EXCEPT ![k] = n = 1]
    BY <1>5 DEF ConnectionTakes
  <2> QED BY <1>3, <1>5, <2>1
<1>6. ASSUME NEW k \in Calls, CallStep(k)
      PROVE  Keeps
  <2>1. CASE GetRequestHandler(k)
    <3>1. /\ \A j \in Calls : phase[j] = "held" => sent'[j] = sent[j]
      BY <1>1, <2>1 DEF GetRequestHandler
    <3>2. \E c : link' = link \/ (link[c] = "unused" /\ link' = [link EXCEPT ![c] = "connecting"])
      BY <2>1 DEF GetRequestHandler
    <3>3. \A d \in Conns : link[d] \in {"flushing", "up"} => link'[d] = link[d]
      BY <1>1, <3>2
    <3> QED BY <3>1, <3>3
  <2>2. CASE SendCanceled(k) \/ SendQueued(k) \/ SendRefused(k) \/ SendRetried(k)
    BY <1>2, <2>2 DEF SendCanceled, SendQueued, SendRefused, SendRetried
  <2>3. CASE Send(k)
    <3>1. phase[k] # "held" /\ link' = link /\ (ConnectionTakes(k, handler[k]) \/ sent' = sent)
      BY <2>3 DEF Send
    <3> QED BY <1>2, <1>5, <3>1
  <2>4. CASE RunRetry(k) \/ CancelRequest(k)
    BY <1>2, <2>4 DEF RunRetry, CancelRequest, proxyVars
  <2> QED BY <1>6, <2>1, <2>2, <2>3, <2>4 DEF CallStep
<1>7. ASSUME NEW c \in Conns, ConnStep(c)
      PROVE  Keeps
  <2>1. CASE ConnectDone(c) \/ ConnectFailed(c) \/ FlushDone(c)
    <3>1. /\ sent' = sent
          /\ \/ link[c] = "connecting" /\ link' = [link EXCEPT ![c] = "flushing"]
             \/ link[c] = "connecting" /\ link' = [link EXCEPT ![c] = "failed"]
             \/ link[c] = "flushing" /\ link' = [link EXCEPT ![c] = "up"]
      BY <2>1 DEF ConnectDone, ConnectFailed, FlushDone, callVars
    <3> QED BY <1>1, <3>1
  <2>2. CASE FlushNext(c)
    <3>1. connq[c] # <<>> /\ connq[c] \in Seq(Calls)
      BY <1>1, <2>2 DEF FlushNext, TypeOK
    <3>2. PICK k \in Calls : k = Head(connq[c]) /\ Contains(connq[c], k)
      BY <3>1, TailIn
    <3>3. phase[k] = "queued"
      BY <3>2 DEF OwnerInv, PlaceInv, Free, Held, Queued
    <3>4. link' = link /\ (ConnectionTakes(k, c) \/ sent' = sent)
      BY <2>2, <3>2 DEF FlushNext
    <3> QED BY <1>2, <1>5, <3>3, <3>4
  <2>3. CASE \E k \in Calls : ReceiveRequest(c, k) \/ ReceiveReply(c, k)
    BY <1>2, <2>3 DEF ReceiveRequest, ReceiveReply, callVars, proxyVars
  <2> QED BY <1>7, <2>1, <2>2, <2>3 DEF ConnStep
<1>8. ASSUME NEW c \in Conns, NEW e \in Ends, EndStep(c, e) \/ Fault(c, e)
      PROVE  Keeps
  <2>1. CASE WriteReady(c, e)
    <3>1. link' = link /\ (sent' = sent \/ \E S : MarkSent(S))
      BY <2>1 DEF WriteReady, proxyVars
    <3> QED BY <1>1, <3>1 DEF MarkSent
  <2>2. CASE WriteLost(c, e) \/ ReadLost(c, e) \/ ReceiveClose(c, e) \/ \E k \in Calls : DispatchDone(c, e, k)
    BY <1>2, <2>2 DEF WriteLost, ReadLost, ReceiveClose, DispatchDone, callVars, proxyVars
  <2>3. CASE Finish(c, e)
    BY <1>2, <2>3 DEF Finish
  <2>4. CASE Fault(c, e)
    BY <1>2, <2>4 DEF Fault, CloseGracefully, CloseIdle, CloseForcefully, TimedOut, GracefulClose, callVars, proxyVars
  <2> QED BY <1>8, <2>1, <2>2, <2>3, <2>4 DEF EndStep
<1>9. CASE RunTime
  <2>1. RemoveRetry => Keeps
    BY <1>2 DEF RemoveRetry, callVars, proxyVars
  <2> QED BY <1>6, <1>7, <1>8, <1>9, <2>1 DEF RunTime
<1>10. CASE Environment
  <2>1. \A k \in Calls : Invoke(k) \/ Cancel(k) => Keeps
    BY <1>2 DEF Invoke, Cancel, proxyVars
  <2>2. \A c \in Conns : Reset(c) => Keeps
    BY <1>2 DEF Reset, callVars, proxyVars
  <2> QED BY <1>8, <1>10, <2>1, <2>2 DEF Environment
<1> QED BY <1>9, <1>10 DEF Next

(* What ServerInv and ClientInv read of a connection. *)
Same(c) == /\ state'[c]["server"] = state[c]["server"] /\ disp'[c]["server"] = disp[c]["server"]
           /\ exc'[c] = exc[c] /\ async'[c] = async[c] /\ ran'[c] = ran[c]
           /\ \A e \in Ends : out'[c][e] = out[c][e] /\ wire'[c][e] = wire[c][e]

(* A connection that takes no part in a step. *)
LEMMA SameStep ==
  ASSUME CallInv, Next, NEW c \in Conns, Same(c)
  PROVE  /\ ServerInv(c)' /\ ClientInv(c)'
         /\ \A k \in Calls : Potential(c, k)' <=> Potential(c, k)
<1>1. /\ \A k \in Calls : (Over(k) => Over(k)') /\ (phase[k] # "idle" => phase'[k] # "idle")
      /\ \A k \in Calls : phase[k] = "held" /\ sent[k] => sent'[k]
      /\ link[c] \in {"flushing", "up"} => link'[c] \in {"flushing", "up"}
  BY NextPhases, NextKeeps DEF CallInv
<1>2. /\ "client" \in Ends /\ "server" \in Ends
      /\ \A k : (Requested(c, k)' <=> Requested(c, k)) /\ (Replied(c, k)' <=> Replied(c, k))
                /\ (Replying(c, k)' <=> Replying(c, k)) /\ (Written(c, k)' <=> Written(c, k))
      /\ Owed(c)' = Owed(c)
  BY DEF Ends, Same, Requested, Replied, Replying, Written, Owed
<1>3. ServerInv(c)'
  <2>1. CloseInv(c)'
    BY <1>2 DEF CallInv, ServerInv, CloseInv, Same
  <2>2. ReplyInv(c)'
    BY <1>2 DEF CallInv, ServerInv, ReplyInv, Same
  <2>3. UpInv(c)'
    BY <1>1 DEF CallInv, ServerInv, UpInv, Same
  <2> QED BY <2>1, <2>2, <2>3 DEF ServerInv
<1>4. \A k \in Calls : Potential(c, k)' <=> Potential(c, k)
  BY <1>2 DEF Potential, Same
<1>5. ClientInv(c)'
  <2>1. GivenInv(c)'
    BY <1>1, <1>2 DEF CallInv, ClientInv, GivenInv, Given, Same
  <2>2. SentInv(c)'
    <3>1. \A k \in async[c] : k \in Calls /\ phase[k] = "held"
      BY DEF CallInv, OwnerInv, TypeOK, PlaceInv, Free, Held, Queued
    <3> QED BY <1>1, <1>2, <3>1 DEF CallInv, ClientInv, SentInv, Same
  <2>3. HeldInv(c)'
    BY <1>1, <1>4 DEF CallInv, ClientInv, HeldInv, Same
  <2> QED BY <2>1, <2>2, <2>3 DEF ClientInv
<1> QED BY <1>3, <1>4, <1>5

(* One connection takes part in a step, and no other servant comes into    *)
(* the reach of a call.                                                    *)
LEMMA OneConn ==
  ASSUME CallInv, Next, NEW c \in Conns, \A d \in Conns : d # c => Same(d),
         ServerInv(c)', ClientInv(c)',
         ~BothReady => \A k \in Calls \ Idempotent :
                         Potential(c, k)' => \/ Potential(c, k)
                                             \/ \A d \in Conns : ~Potential(d, k)
  PROVE  CallInv'
<1>1. OwnerInv'
  BY NextOwner DEF CallInv
<1>2. \A d \in Conns : d # c => /\ ServerInv(d)' /\ ClientInv(d)'
                                /\ \A k \in Calls : Potential(d, k)' <=> Potential(d, k)
  BY SameStep
<1>3. OnceInv'
  <2>1. SUFFICES ASSUME ~BothReady, NEW k \in Calls \ Idempotent, NEW d \in Conns, NEW h \in Conns,
                        Potential(d, k)', Potential(h, k)'
                 PROVE  d = h
    BY DEF OnceInv
  <2>2. CASE \A x \in Conns : ~Potential(x, k)
    BY <1>2, <2>1, <2>2
  <2>3. CASE Potential(c, k)' => Potential(c, k)
    BY <1>2, <2>1, <2>3 DEF CallInv, OnceInv
  <2> QED BY <2>1, <2>2, <2>3
<1> QED BY <1>1, <1>2, <1>3 DEF CallInv

(* No connection takes part. *)
LEMMA NoConn ==
  ASSUME CallInv, Next, \A c \in Conns : Same(c)
  PROVE  CallInv'
<1>1. OwnerInv'
  BY NextOwner DEF CallInv
<1>2. \A d \in Conns : /\ ServerInv(d)' /\ ClientInv(d)'
                       /\ \A k \in Calls : Potential(d, k)' <=> Potential(d, k)
  BY SameStep
<1>3. OnceInv'
  BY <1>2 DEF CallInv, OnceInv
<1> QED BY <1>1, <1>2, <1>3 DEF CallInv

(* The client end takes part: the server has less to tell. *)
LEMMA ServerSame ==
  ASSUME CallInv, Next, NEW c \in Conns,
         wire'[c]["server"] = wire[c]["server"], out'[c]["server"] = out[c]["server"],
         state'[c]["server"] = state[c]["server"], disp'[c]["server"] = disp[c]["server"],
         ran'[c] = ran[c], Owed(c)' \subseteq Owed(c),
         exc'[c] = "closeConnection" => exc[c] = "closeConnection"
  PROVE  ServerInv(c)'
<1>1. link[c] \in {"flushing", "up"} => link'[c] \in {"flushing", "up"}
  BY NextKeeps DEF CallInv
<1>2. CloseInv(c)'
  <2>1. Told(wire[c]["server"], out[c]["server"], state[c]["server"], disp[c]["server"], Owed(c))
    BY DEF CallInv, ServerInv, CloseInv
  <2>2. Told(wire[c]["server"], out[c]["server"], state[c]["server"], disp[c]["server"], Owed(c)')
    BY <2>1, ToldLess
  <2>3. exc'[c] = "closeConnection" => Owed(c)' = {} /\ state'[c]["server"] >= Closing
    BY DEF CallInv, ServerInv, CloseInv
  <2> QED BY <2>2, <2>3 DEF CloseInv
<1>3. ReplyInv(c)'
  BY DEF CallInv, ServerInv, ReplyInv, Replied, Replying
<1>4. UpInv(c)'
  BY <1>1 DEF CallInv, ServerInv, UpInv
<1> QED BY <1>2, <1>3, <1>4 DEF ServerInv

(* No request becomes known to the connection. *)
LEMMA ClientSame ==
  ASSUME CallInv, Next, NEW c \in Conns,
         \A k \in Calls : /\ Given(c, k)' => Given(c, k)
                          /\ Potential(c, k)' => Potential(c, k)
                          /\ k \in async'[c] => k \in async[c]
                          /\ k \in async[c] => k \in async'[c] \/ Over(k)'
                          /\ ~BothReady /\ k \in async'[c] /\ Written(c, k)' => Written(c, k) \/ sent'[k],
         exc[c] # "none" => exc'[c] # "none",
         async'[c] \subseteq Calls
  PROVE  ClientInv(c)'
<1>1. /\ \A k \in Calls : (Over(k) => Over(k)') /\ (phase[k] # "idle" => phase'[k] # "idle")
      /\ \A k \in Calls : phase[k] = "held" /\ sent[k] => sent'[k]
  BY NextPhases, NextKeeps DEF CallInv
<1>2. GivenInv(c)'
  BY <1>1 DEF CallInv, ClientInv, GivenInv
<1>3. SentInv(c)'
  <2>1. \A k \in async[c] : k \in Calls /\ phase[k] = "held"
    BY DEF CallInv, OwnerInv, TypeOK, PlaceInv, Free, Held, Queued
  <2> QED BY <1>1, <2>1 DEF CallInv, ClientInv, SentInv
<1>4. HeldInv(c)'
  BY <1>1 DEF CallInv, ClientInv, HeldInv
<1> QED BY <1>2, <1>3, <1>4 DEF ClientInv

-----------------------------------------------------------------------------
(* Sending.                                                                *)

(* What an end has sent. *)
LEMMA SendAllMore ==
  ASSUME TypeOK, NEW c \in Conns, NEW e \in Ends, NEW ms \in Seq(MessagesOf(e)),
         NEW st \in NotUp..Finished, SendAll(c, e, ms, st)
  PROVE  \E n \in 0..Len(ms) :
           /\ At(wire', wire, c, e, wire[c][e] \o SubSeq(ms, 1, n))
           /\ \/ /\ At(out', out, c, e, out[c][e] \o SubSeq(ms, n + 1, Len(ms)))
                 /\ out[c][e] # <<>> => n = 0
                 /\ At(state', state, c, e, IF Contains(ms, Close) /\ n = Len(ms) THEN ClosingPending ELSE st)
              \/ /\ n < Len(ms) /\ out' = out
                 /\ At(state', state, c, e, Closed)
<1>1. Stream(out) /\ Stream(wire) /\ state \in [Conns -> [Ends -> NotUp..Finished]]
  BY Types DEF EndTypes
<1>2. \A v \in NotUp..Finished : At([state EXCEPT ![c][e] = v], state, c, e, v)
  BY <1>1 DEF At
<1>3. ClosingPending \in NotUp..Finished /\ Closed \in NotUp..Finished
  BY DEF ClosingPending, Closed, NotUp, Finished
<1>4. ASSUME NEW n \in 0..Len(ms), Write(c, e, ms, n),
             state' = [state EXCEPT ![c][e] =
                         IF Contains(ms, Close) /\ n = Len(ms) THEN ClosingPending ELSE st]
      PROVE  /\ At(wire', wire, c, e, wire[c][e] \o SubSeq(ms, 1, n))
             /\ At(out', out, c, e, out[c][e] \o SubSeq(ms, n + 1, Len(ms)))
             /\ out[c][e] # <<>> => n = 0
             /\ At(state', state, c, e, IF Contains(ms, Close) /\ n = Len(ms) THEN ClosingPending ELSE st)
  <2>1. /\ At(wire', wire, c, e, wire[c][e] \o SubSeq(ms, 1, n))
        /\ At(out', out, c, e, out[c][e] \o SubSeq(ms, n + 1, Len(ms)))
    BY <1>1, <1>4, WriteFacts
  <2>2. out[c][e] # <<>> => n = 0
    BY <1>4 DEF Write
  <2> DEFINE v == IF Contains(ms, Close) /\ n = Len(ms) THEN ClosingPending ELSE st
  <2>3. v \in NotUp..Finished /\ state' = [state EXCEPT ![c][e] = v]
    BY <1>3, <1>4
  <2> HIDE DEF v
  <2>4. At(state', state, c, e, v)
    BY <1>2, <2>3
  <2> QED BY <2>1, <2>2, <2>4 DEF v
<1>5. ASSUME NEW n \in 0..Len(ms), WriteFails(c, e, ms, n), state' = [state EXCEPT ![c][e] = Closed]
      PROVE  /\ At(wire', wire, c, e, wire[c][e] \o SubSeq(ms, 1, n))
             /\ n < Len(ms) /\ out' = out
             /\ At(state', state, c, e, Closed)
  BY <1>1, <1>2, <1>3, <1>5, WriteFailsFacts
<1> QED BY <1>4, <1>5 DEF SendAll

(* The server end sends. *)
LEMMA ServerSends ==
  ASSUME CallInv, Next, NEW c \in Conns, NEW ms \in Seq(MessagesOf("server")),
         NEW st \in NotUp..Finished, SendAll(c, "server", ms, st),
         CloseLast(ms), Contains(ms, Close) => st >= Closing /\ disp'[c]["server"] = {},
         \A k \in disp[c]["server"] : k \in disp'[c]["server"] \/ Contains(ms, Reply(k)),
         \A k \in Calls : Contains(ms, Reply(k)) => k \in ran[c],
         disp'[c]["server"] \subseteq disp[c]["server"],
         link[c] \in {"flushing", "up"}, state[c]["server"] < Closed, st >= state[c]["server"],
         ~Contains(wire[c]["server"], Close), ~Contains(out[c]["server"], Close),
         UNCHANGED <<exc, async, ran>>
  PROVE  ServerInv(c)' /\ ClientInv(c)' /\ \A k \in Calls : Potential(c, k)' => Potential(c, k)
<1> DEFINE w == wire[c]["server"]
           o == out[c]["server"]
           S == MessagesOf("server")
<1>1. TypeOK /\ EndTypes /\ Stream(out) /\ Stream(wire) /\ "server" \in Ends /\ "client" \in Ends
  BY Types DEF CallInv, OwnerInv, Ends
<1>2. w \in Seq(S) /\ o \in Seq(S) /\ state[c]["server"] \in NotUp..Finished
  BY <1>1 DEF Stream, EndTypes
<1>3. PICK n \in 0..Len(ms) :
        /\ At(wire', wire, c, "server", w \o SubSeq(ms, 1, n))
        /\ \/ /\ At(out', out, c, "server", o \o SubSeq(ms, n + 1, Len(ms)))
              /\ o # <<>> => n = 0
              /\ At(state', state, c, "server", IF Contains(ms, Close) /\ n = Len(ms) THEN ClosingPending ELSE st)
           \/ /\ n < Len(ms) /\ out' = out
              /\ At(state', state, c, "server", Closed)
  BY <1>1, SendAllMore
<1>4. /\ wire'[c]["server"] = w \o SubSeq(ms, 1, n) /\ wire'[c]["client"] = wire[c]["client"]
      /\ out'[c]["client"] = out[c]["client"]
      /\ out'[c]["server"] \in {o, o \o SubSeq(ms, n + 1, Len(ms))}
      /\ state'[c]["server"] \in {ClosingPending, st, Closed}
  BY <1>1, <1>3 DEF At
<1>5. Told(w, o, state[c]["server"], disp[c]["server"], Owed(c))
  BY DEF CallInv, ServerInv, CloseInv
<1>6. state'[c]["server"] < Closing => state[c]["server"] < Closing
  BY <1>2, <1>4 DEF Closing, ClosingPending, Closed, NotUp, Finished
<1>7. Told(wire'[c]["server"], out'[c]["server"], state'[c]["server"], disp'[c]["server"], Owed(c))
  <2>1. CASE /\ At(out', out, c, "server", o \o SubSeq(ms, n + 1, Len(ms)))
             /\ o # <<>> => n = 0
             /\ At(state', state, c, "server", IF Contains(ms, Close) /\ n = Len(ms) THEN ClosingPending ELSE st)
    <3> DEFINE v == state'[c]["server"]
               dp == disp'[c]["server"]
    <3>1. out'[c]["server"] = o \o SubSeq(ms, n + 1, Len(ms)) /\ v \in {ClosingPending, st}
      BY <1>1, <2>1 DEF At
    <3>2. ClosingPending >= Closing
      BY DEF ClosingPending, Closing
    <3>3. Contains(ms, Close) => v >= Closing /\ dp = {}
      BY <3>1, <3>2
    <3> HIDE DEF v, dp, w, o
    <3>4. Told(w \o SubSeq(ms, 1, n), o \o SubSeq(ms, n + 1, Len(ms)), v, dp, Owed(c))
      <4>1. ~Contains(w, Close) /\ ~Contains(o, Close)
        BY DEF w, o
      <4>2. \A k \in disp[c]["server"] : k \in dp \/ Contains(ms, Reply(k))
        BY DEF dp
      <4> HIDE DEF S
      <4>3. ms \in Seq(S)
        BY DEF S
      <4> QED BY <1>2, <1>5, <2>1, <3>3, <4>1, <4>2, <4>3, ToldSent
    <3> QED BY <1>4, <3>1, <3>4 DEF v, dp
  <2>2. CASE n < Len(ms) /\ out' = out /\ At(state', state, c, "server", Closed)
    <3>1. out'[c]["server"] = o /\ state'[c]["server"] = Closed
      BY <1>1, <2>2 DEF At
    <3> HIDE DEF w, o
    <3>2. ~Contains(w, Close)
      BY DEF w
    <3>3. Told(w \o SubSeq(ms, 1, n), o, Closed, disp'[c]["server"], Owed(c))
      BY <1>2, <2>2, <3>2, ToldCut
    <3> QED BY <1>4, <3>1, <3>3
  <2> QED BY <1>3, <2>1, <2>2
<1>8. CloseInv(c)'
  <2>1. Owed(c)' = Owed(c)
    BY DEF Owed
  <2>2. exc[c] = "closeConnection" => Owed(c) = {} /\ state[c]["server"] >= Closing
    BY DEF CallInv, ServerInv, CloseInv
  <2>3. state[c]["server"] >= Closing => state'[c]["server"] >= Closing
    BY <1>2, <1>4 DEF Closing, ClosingPending, Closed, NotUp, Finished
  <2> QED BY <1>7, <2>1, <2>2, <2>3 DEF CloseInv
<1>9. ReplyInv(c)'
  <2> DEFINE a == SubSeq(ms, 1, n)
             b == SubSeq(ms, n + 1, Len(ms))
  <2>1. \A y : Contains(ms, y) <=> Contains(a, y) \/ Contains(b, y)
    BY SplitContains
  <2>2. a \in Seq(S) /\ b \in Seq(S)
    BY SplitIn
  <2>3. \A y : Contains(wire'[c]["server"], y) => Contains(w, y) \/ Contains(ms, y)
    <3>1. wire'[c]["server"] = w \o a
      BY <1>4
    <3> HIDE DEF a, b, w, o, S
    <3>2. \A y : Contains(w \o a, y) <=> Contains(w, y) \/ Contains(a, y)
      BY <1>2, <2>2, ConcatIn
    <3> QED BY <2>1, <3>1, <3>2
  <2>4. \A y : Contains(o \o SubSeq(ms, n + 1, Len(ms)), y) => Contains(o, y) \/ Contains(ms, y)
    <3> HIDE DEF a, b, w, o, S
    <3>1. \A y : Contains(o \o b, y) <=> Contains(o, y) \/ Contains(b, y)
      BY <1>2, <2>2, ConcatIn
    <3>2. \A y : Contains(o \o b, y) => Contains(o, y) \/ Contains(ms, y)
      BY <2>1, <3>1
    <3> QED BY <3>2 DEF b
  <2>5. \A y : Contains(out'[c]["server"], y) => Contains(o, y) \/ Contains(ms, y)
    BY <1>4, <2>4
  <2> QED BY <2>3, <2>5 DEF CallInv, ServerInv, ReplyInv, Replied, Replying
<1>10. UpInv(c)'
  BY NextKeeps DEF CallInv, UpInv
<1>11. /\ \A k : Requested(c, k)' <=> Requested(c, k)
       /\ \A k : (Given(c, k)' <=> Given(c, k)) /\ (Written(c, k)' <=> Written(c, k))
  BY <1>4 DEF Requested, Given, Written
<1>12. \A k \in Calls : Potential(c, k)' => Potential(c, k)
  BY <1>6, <1>11 DEF Potential
<1>13. ClientInv(c)'
  BY <1>1, <1>11, <1>12, ClientSame DEF EndTypes
<1> QED BY <1>8, <1>9, <1>10, <1>12, <1>13 DEF ServerInv


(* A function of the ends that changes at one connection only. *)
Near(g, f, c) == \A d \in Conns, h \in Ends : d # c => g[d][h] = f[d][h]

(* The other connections take no part. *)
LEMMA Others ==
  ASSUME NEW c \in Conns, Near(state', state, c), Near(disp', disp, c), Near(out', out, c),
         Near(wire', wire, c),
         \A d \in Conns : d # c => exc'[d] = exc[d] /\ async'[d] = async[d] /\ ran'[d] = ran[d]
  PROVE  \A d \in Conns : d # c => Same(d)
BY DEF Near, Same, Ends

(* At one end is near. *)
LEMMA AtNear ==
  /\ \A g, f, e, v : \A c \in Conns : At(g, f, c, e, v) => Near(g, f, c)
  /\ \A f : \A c \in Conns : Near(f, f, c)
BY DEF At, Near

(* An end whose state is below Closing has sent no close message. *)
LEMMA NoCloseYet ==
  ASSUME CallInv, NEW c \in Conns, state[c]["server"] < Closing
  PROVE  ~Contains(wire[c]["server"], Close) /\ ~Contains(out[c]["server"], Close)
<1>1. Told(wire[c]["server"], out[c]["server"], state[c]["server"], disp[c]["server"], Owed(c))
  BY DEF CallInv, ServerInv, CloseInv
<1>2. state[c]["server"] \in NotUp..Finished
  BY Types DEF CallInv, OwnerInv, EndTypes, Ends
<1>3. state[c]["server"] < Closed /\ ~(state[c]["server"] >= Closing)
  BY <1>2 DEF Closing, Closed, NotUp, Finished
<1> QED BY <1>1, <1>3 DEF Told

(* The close message that an end may send, as a stream. *)
LEMMA ShutdownStream ==
  ASSUME NEW c, NEW e, NEW st, NEW count
  PROVE  LET ms == ShutdownMessage(c, e, st, count)
         IN  /\ CloseLast(ms)
             /\ Contains(ms, Close) => st = Closing /\ count = {}
             /\ \A k : ~Contains(ms, Reply(k)) /\ ~Contains(ms, Request(k))
<1> DEFINE ms == ShutdownMessage(c, e, st, count)
<1>1. ms = <<>> \/ (ms = <<Close>> /\ st = Closing /\ count = {})
  BY DEF ShutdownMessage, MayShutdown
<1> HIDE DEF ms
<1>2. CASE ms = <<>>
  <2> Len(ms) = 0 /\ \A i : i \notin 1..Len(ms)
    BY <1>2
  <2> /\ CloseLast(ms) /\ \A y : ~Contains(ms, y)
    BY DEF Contains, CloseLast
  <2> QED BY DEF ms
<1>3. CASE ms = <<Close>> /\ st = Closing /\ count = {}
  <2>1. Len(ms) = 1 /\ ms[1] = Close
    BY <1>3
  <2>2. \A i \in 1..Len(ms) : i = 1
    BY <2>1
  <2>3. \A k : ~Contains(ms, Reply(k)) /\ ~Contains(ms, Request(k))
    BY <2>1, <2>2, MessageFacts DEF Contains
  <2>4. CloseLast(ms)
    BY <2>1, <2>2 DEF CloseLast
  <2> QED BY <1>3, <2>3, <2>4 DEF ms
<1> QED BY <1>1, <1>2, <1>3

(* The server begins to close. *)
LEMMA ServerCloses ==
  ASSUME CallInv, Next, NEW c \in Conns, NEW ex \in Exceptions, GracefulClose(c, "server", ex)
  PROVE  CallInv'
<1> DEFINE ms == ShutdownMessage(c, "server", Closing, disp[c]["server"])
<1>1. /\ state[c]["server"] = Active
      /\ SendAll(c, "server", ms, Closing) /\ SetException(c, "server", ex)
      /\ UNCHANGED <<proxyVars, async, disp, ran>>
  BY DEF GracefulClose
<1>2. TypeOK /\ EndTypes /\ "server" \in Ends
  BY Types DEF CallInv, OwnerInv, Ends
<1>3. exc' = exc
  BY <1>1, <1>2 DEF SetException, EndTypes
<1>4. ms \in Seq(MessagesOf("server")) /\ Closing \in NotUp..Finished
  BY <1>2, ShutdownFacts DEF Closing, NotUp, Finished
<1>5. /\ CloseLast(ms)
      /\ Contains(ms, Close) => disp[c]["server"] = {}
      /\ \A k : ~Contains(ms, Reply(k))
  BY ShutdownStream
<1>6. /\ state[c]["server"] < Closing /\ state[c]["server"] < Closed /\ state[c]["server"] # NotUp
      /\ Closing >= state[c]["server"] /\ Closing >= Closing
  BY <1>1 DEF Active, Closing, Closed, NotUp
<1>7. ~Contains(wire[c]["server"], Close) /\ ~Contains(out[c]["server"], Close)
  BY <1>6, NoCloseYet
<1>8. link[c] \in {"flushing", "up"}
  BY <1>6 DEF CallInv, ServerInv, UpInv
<1> HIDE DEF ms
<1>9. ServerInv(c)' /\ ClientInv(c)' /\ \A k \in Calls : Potential(c, k)' => Potential(c, k)
  BY <1>1, <1>3, <1>4, <1>5, <1>6, <1>7, <1>8, ServerSends
<1>10. \A d \in Conns : d # c => Same(d)
  <2>1. \E n \in 0..Len(ms) :
           /\ At(wire', wire, c, "server", wire[c]["server"] \o SubSeq(ms, 1, n))
           /\ out' = out \/ At(out', out, c, "server", out[c]["server"] \o SubSeq(ms, n + 1, Len(ms)))
           /\ \E v : At(state', state, c, "server", v)
    BY <1>1, <1>2, <1>4, SendAllMore
  <2>2. Near(wire', wire, c) /\ Near(out', out, c) /\ Near(state', state, c) /\ Near(disp', disp, c)
    BY <1>1, <2>1, AtNear
  <2> QED BY <1>1, <1>3, <2>2, Others
<1> QED BY <1>9, <1>10, OneConn

(* The client end closes, or goes on with messages that are not requests:  *)
(* the servant is not told yet.                                            *)
LEMMA ClientEndOnly ==
  ASSUME CallInv, Next, NEW c \in Conns,
         Near(state', state, c), Near(disp', disp, c), Near(out', out, c), Near(wire', wire, c),
         \A d \in Conns : d # c => exc'[d] = exc[d] /\ async'[d] = async[d],
         ran' = ran, async'[c] = async[c],
         wire'[c]["server"] = wire[c]["server"], out'[c]["server"] = out[c]["server"],
         state'[c]["server"] = state[c]["server"], disp'[c]["server"] = disp[c]["server"],
         \A k \in Calls : Requested(c, k)' => Requested(c, k),
         \A k \in Calls : ~BothReady /\ Written(c, k)' => Written(c, k),
         exc'[c] = "closeConnection" => exc[c] = "closeConnection",
         exc[c] # "none" => exc'[c] # "none"
  PROVE  CallInv'
<1>1. ServerInv(c)'
  BY ServerSame DEF Owed
<1>2. async[c] \in SUBSET Calls
  BY Types DEF CallInv, OwnerInv, EndTypes
<1>3. \A k \in Calls : (Given(c, k)' => Given(c, k)) /\ (Potential(c, k)' => Potential(c, k))
  BY DEF Given, Potential
<1>4. ClientInv(c)'
  BY <1>2, <1>3, ClientSame
<1>5. \A d \in Conns : d # c => Same(d)
  BY Others
<1> QED BY <1>1, <1>3, <1>4, <1>5, OneConn

(* The client end sends messages that are not requests. *)
LEMMA ClientSends ==
  ASSUME CallInv, Next, NEW c \in Conns, NEW ms \in Seq(MessagesOf("client")),
         NEW st \in NotUp..Finished, SendAll(c, "client", ms, st),
         \A k : ~Contains(ms, Request(k)), Near(disp', disp, c),
         disp'[c]["server"] = disp[c]["server"],
         \A d \in Conns : d # c => exc'[d] = exc[d],
         exc'[c] = "closeConnection" => exc[c] = "closeConnection",
         exc[c] # "none" => exc'[c] # "none",
         async' = async, ran' = ran
  PROVE  CallInv'
<1>1. TypeOK /\ Stream(out) /\ Stream(wire) /\ "server" \in Ends /\ "client" \in Ends
  BY Types DEF CallInv, OwnerInv, Ends
<1>2. PICK n \in 0..Len(ms) :
           /\ At(wire', wire, c, "client", wire[c]["client"] \o SubSeq(ms, 1, n))
           /\ out' = out \/ At(out', out, c, "client", out[c]["client"] \o SubSeq(ms, n + 1, Len(ms)))
           /\ \E v : At(state', state, c, "client", v)
  BY <1>1, SendAllMore
<1>3. Near(wire', wire, c) /\ Near(out', out, c) /\ Near(state', state, c)
  BY <1>2, AtNear
<1>4. /\ wire'[c]["server"] = wire[c]["server"] /\ out'[c]["server"] = out[c]["server"]
      /\ state'[c]["server"] = state[c]["server"]
  BY <1>1, <1>2 DEF At
<1>5. \A k : /\ Contains(wire'[c]["client"], Request(k)) => Contains(wire[c]["client"], Request(k))
             /\ Contains(out'[c]["client"], Request(k)) => Contains(out[c]["client"], Request(k))
  <2> DEFINE a == SubSeq(ms, 1, n)
             b == SubSeq(ms, n + 1, Len(ms))
             w == wire[c]["client"]
             o == out[c]["client"]
             S == MessagesOf("client")
  <2>1. /\ wire'[c]["client"] = w \o a
        /\ out'[c]["client"] = o \/ out'[c]["client"] = o \o b
    BY <1>1, <1>2 DEF At
  <2>2. w \in Seq(S) /\ o \in Seq(S)
    BY <1>1 DEF Stream
  <2>3. a \in Seq(S) /\ b \in Seq(S) /\ \A y : Contains(ms, y) <=> Contains(a, y) \/ Contains(b, y)
    BY SplitContains
  <2> HIDE DEF a, b, w, o, S
  <2>4. /\ \A y : Contains(w \o a, y) <=> Contains(w, y) \/ Contains(a, y)
        /\ \A y : Contains(o \o b, y) <=> Contains(o, y) \/ Contains(b, y)
    BY <2>2, <2>3, ConcatIn
  <2>5. \A k : /\ Contains(wire'[c]["client"], Request(k)) => Contains(w, Request(k))
               /\ Contains(out'[c]["client"], Request(k)) => Contains(o, Request(k))
    BY <2>1, <2>3, <2>4
  <2> QED BY <2>5 DEF w, o
<1>6. /\ \A k \in Calls : Requested(c, k)' => Requested(c, k)
      /\ \A k \in Calls : Written(c, k)' => Written(c, k)
  BY <1>5 DEF Requested, Written
<1> QED BY <1>3, <1>4, <1>6, ClientEndOnly

(* The client begins to close. *)
LEMMA ClientCloses ==
  ASSUME CallInv, Next, NEW c \in Conns, NEW ex \in Exceptions \ {"none", "closeConnection"},
         GracefulClose(c, "client", ex)
  PROVE  CallInv'
<1> DEFINE ms == ShutdownMessage(c, "client", Closing, disp[c]["client"])
<1>1. /\ SendAll(c, "client", ms, Closing) /\ SetException(c, "client", ex)
      /\ UNCHANGED <<async, disp, ran>>
  BY DEF GracefulClose
<1>2. TypeOK /\ "client" \in Ends
  BY DEF CallInv, OwnerInv, Ends
<1>3. /\ \A d \in Conns : d # c => exc'[d] = exc[d]
      /\ exc'[c] = IF exc[c] = "none" THEN ex ELSE exc[c]
  BY <1>1, <1>2, ExceptionFacts
<1>4. ms \in Seq(MessagesOf("client")) /\ Closing \in NotUp..Finished
  BY <1>2, ShutdownFacts DEF Closing, NotUp, Finished
<1>5. \A k : ~Contains(ms, Request(k))
  BY ShutdownStream
<1> HIDE DEF ms
<1>6. Near(disp', disp, c)
  BY <1>1, AtNear
<1> QED BY <1>1, <1>3, <1>4, <1>5, <1>6, ClientSends

(* A servant answers. *)
LEMMA ServerAnswers ==
  ASSUME CallInv, Next, NEW c \in Conns, NEW k \in Calls, DispatchDone(c, "server", k),
         state[c]["server"] < Closed
  PROVE  CallInv'
<1> DEFINE sm == ShutdownMessage(c, "server", state[c]["server"], disp[c]["server"] \ {k})
           rm == <<Reply(k)>>
           ms == ResponseMessages(c, "server", k)
<1>1. TypeOK /\ EndTypes /\ "server" \in Ends /\ state[c]["server"] \in NotUp..Finished
  BY Types DEF CallInv, OwnerInv, Ends, EndTypes
<1>2. /\ k \in disp[c]["server"]
      /\ disp' = [disp EXCEPT ![c]["server"] = @ \ {k}]
      /\ SendAll(c, "server", ms, state[c]["server"])
      /\ UNCHANGED <<proxyVars, exc, async, ran>>
  BY DEF DispatchDone
<1>3. At(disp', disp, c, "server", disp[c]["server"] \ {k})
  <2>1. disp[c]["server"] \ {k} \in SUBSET Calls /\ disp \in [Conns -> [Ends -> SUBSET Calls]]
    BY <1>1 DEF EndTypes
  <2>2. disp' = [disp EXCEPT ![c]["server"] = disp[c]["server"] \ {k}]
    BY <1>2
  <2>3. At([disp EXCEPT ![c]["server"] = disp[c]["server"] \ {k}], disp, c, "server",
           disp[c]["server"] \ {k})
    BY <2>1, EndExcept DEF Ends
  <2> QED BY <2>2, <2>3
<1>4. disp'[c]["server"] = disp[c]["server"] \ {k}
  BY <1>1, <1>3 DEF At
<1>5. ms = rm \o sm /\ ms \in Seq(MessagesOf("server"))
  <2>1. ~(state[c]["server"] >= Closed)
    BY <1>1 DEF Closed, NotUp, Finished
  <2> QED BY <1>1, <2>1, ResponseFacts DEF ResponseMessages
<1>6. /\ rm \in Seq(MessagesOf("server")) /\ sm \in Seq(MessagesOf("server"))
      /\ \A y : Contains(rm, y) <=> y = Reply(k)
  <2>1. Reply(k) \in MessagesOf("server")
    BY DEF MessagesOf
  <2>2. rm \in Seq(MessagesOf("server")) /\ Len(rm) = 1 /\ rm[1] = Reply(k)
    BY <2>1
  <2>3. \A y : Contains(rm, y) <=> y = Reply(k)
    BY <2>2 DEF Contains
  <2> QED BY <1>1, <2>2, <2>3, ShutdownFacts
<1>7. /\ CloseLast(sm)
      /\ Contains(sm, Close) => state[c]["server"] = Closing /\ disp[c]["server"] \ {k} = {}
      /\ \A j : ~Contains(sm, Reply(j))
  BY ShutdownStream
<1> DEFINE S == MessagesOf("server")
<1>8. /\ \A y : Contains(ms, y) <=> Contains(rm, y) \/ Contains(sm, y)
      /\ CloseLast(ms)
  <2> HIDE DEF rm, sm, ms, S
  <2>1. rm \in Seq(S) /\ sm \in Seq(S) /\ ms = rm \o sm
    BY <1>5, <1>6 DEF S
  <2>2. ~Contains(rm, Close)
    BY <1>6, MessageFacts
  <2> QED BY <1>7, <2>1, <2>2, ConcatIn
<1> HIDE DEF ms, rm, sm, S
<1>9. Contains(ms, Close) => state[c]["server"] >= Closing /\ disp'[c]["server"] = {}
  <2>1. Closing >= Closing
    BY DEF Closing
  <2> QED BY <1>4, <1>6, <1>7, <1>8, <2>1, MessageFacts
<1>10. \A j \in disp[c]["server"] : j \in disp'[c]["server"] \/ Contains(ms, Reply(j))
  BY <1>4, <1>6, <1>8
<1>11. \A j \in Calls : Contains(ms, Reply(j)) => j \in ran[c]
  <2>1. k \in ran[c]
    BY <1>2 DEF CallInv, ServerInv, ReplyInv
  <2> QED BY <1>6, <1>7, <1>8, <2>1, MessageFacts
<1>12. link[c] \in {"flushing", "up"}
  BY <1>2 DEF CallInv, ServerInv, UpInv
<1>13. ~Contains(wire[c]["server"], Close) /\ ~Contains(out[c]["server"], Close)
  BY <1>2 DEF CallInv, ServerInv, CloseInv, Told
<1>14. state[c]["server"] >= state[c]["server"] /\ disp'[c]["server"] \subseteq disp[c]["server"]
  BY <1>1, <1>4
<1>15. ServerInv(c)' /\ ClientInv(c)' /\ \A j \in Calls : Potential(c, j)' => Potential(c, j)
  BY <1>1, <1>2, <1>5, <1>8, <1>9, <1>10, <1>11, <1>12, <1>13, <1>14, ServerSends
<1>16. \A d \in Conns : d # c => Same(d)
  <2>1. \E n \in 0..Len(ms) :
           /\ At(wire', wire, c, "server", wire[c]["server"] \o SubSeq(ms, 1, n))
           /\ out' = out \/ At(out', out, c, "server", out[c]["server"] \o SubSeq(ms, n + 1, Len(ms)))
           /\ \E v : At(state', state, c, "server", v)
    BY <1>1, <1>2, <1>5, SendAllMore
  <2>2. Near(wire', wire, c) /\ Near(out', out, c) /\ Near(state', state, c) /\ Near(disp', disp, c)
    BY <1>3, <2>1, AtNear
  <2> QED BY <1>2, <2>2, Others
<1> QED BY <1>15, <1>16, OneConn

(* Its connection is closed already. *)
LEMMA ServerAnswersLate ==
  ASSUME CallInv, Next, NEW c \in Conns, NEW k \in Calls, DispatchDone(c, "server", k),
         ~(state[c]["server"] < Closed)
  PROVE  CallInv'
<1>1. /\ TypeOK /\ EndTypes /\ Stream(out) /\ Stream(wire) /\ "server" \in Ends /\ "client" \in Ends
      /\ state[c]["server"] \in NotUp..Finished
  BY Types DEF CallInv, OwnerInv, Ends, EndTypes
<1>2. state[c]["server"] >= Closed
  BY <1>1 DEF Closed, NotUp, Finished
<1>3. /\ k \in disp[c]["server"]
      /\ disp' = [disp EXCEPT ![c]["server"] = @ \ {k}]
      /\ SendAll(c, "server", <<>>, state[c]["server"])
      /\ UNCHANGED <<exc, async, ran>>
  BY <1>2 DEF DispatchDone, ResponseMessages
<1>4. At(disp', disp, c, "server", disp[c]["server"] \ {k})
  <2>1. disp[c]["server"] \ {k} \in SUBSET Calls /\ disp \in [Conns -> [Ends -> SUBSET Calls]]
    BY <1>1 DEF EndTypes
  <2>2. disp' = [disp EXCEPT ![c]["server"] = disp[c]["server"] \ {k}]
    BY <1>3
  <2>3. At([disp EXCEPT ![c]["server"] = disp[c]["server"] \ {k}], disp, c, "server",
           disp[c]["server"] \ {k})
    BY <2>1, EndExcept DEF Ends
  <2> QED BY <2>2, <2>3
<1>5. At(wire', wire, c, "server", wire[c]["server"]) /\ (out' = out \/ At(out', out, c, "server", out[c]["server"]))
      /\ At(state', state, c, "server", state[c]["server"])
  <2> DEFINE ms == <<>>
             S == MessagesOf("server")
  <2>1. ms \in Seq(S) /\ Len(ms) = 0 /\ ~Contains(ms, Close) /\ ms = <<>>
    BY DEF Contains
  <2>2. /\ \A n \in 0..Len(ms) : SubSeq(ms, 1, n) = <<>> /\ SubSeq(ms, n + 1, Len(ms)) = <<>>
        /\ \A s \in Seq(S) : s \o <<>> = s
    BY ConcatEmptySeq
  <2>3. wire[c]["server"] \in Seq(S) /\ out[c]["server"] \in Seq(S)
    BY <1>1 DEF Stream
  <2>4. SendAll(c, "server", ms, state[c]["server"])
    BY <1>3
  <2> HIDE DEF ms
  <2>5. PICK n \in 0..Len(ms) :
           /\ At(wire', wire, c, "server", wire[c]["server"] \o SubSeq(ms, 1, n))
           /\ \/ /\ At(out', out, c, "server", out[c]["server"] \o SubSeq(ms, n + 1, Len(ms)))
                 /\ At(state', state, c, "server", IF Contains(ms, Close) /\ n = Len(ms) THEN ClosingPending ELSE state[c]["server"])
              \/ n < Len(ms)
    BY <1>1, <2>1, <2>4, SendAllMore
  <2>6. ~(n < Len(ms)) /\ SubSeq(ms, 1, n) = <<>> /\ SubSeq(ms, n + 1, Len(ms)) = <<>>
    BY <2>1, <2>2
  <2> QED BY <2>1, <2>2, <2>3, <2>5, <2>6
<1>6. Near(wire', wire, c) /\ Near(out', out, c) /\ Near(state', state, c) /\ Near(disp', disp, c)
  BY <1>4, <1>5, AtNear
<1>7. \A d \in Conns : d # c => Same(d)
  BY <1>3, <1>6, Others
<1>8. /\ \A e \in Ends : out'[c][e] = out[c][e] /\ wire'[c][e] = wire[c][e]
      /\ state'[c]["server"] = state[c]["server"]
      /\ disp'[c]["server"] = disp[c]["server"] \ {k}
  BY <1>1, <1>4, <1>5 DEF At
<1>9. ServerInv(c)'
  <2>1. CloseInv(c)'
    <3>1. Told(wire[c]["server"], out[c]["server"], state[c]["server"], disp[c]["server"], Owed(c))
      BY DEF CallInv, ServerInv, CloseInv
    <3>2. ~Contains(wire[c]["server"], Close)
      BY <1>3, <3>1 DEF Told
    <3>3. Told(wire[c]["server"], out[c]["server"], state[c]["server"], disp'[c]["server"], Owed(c))
      BY <3>2 DEF Told
    <3>4. Owed(c)' = Owed(c) /\ exc'[c] = exc[c]
      BY <1>3 DEF Owed
    <3>5. exc[c] = "closeConnection" => Owed(c) = {} /\ state[c]["server"] >= Closing
      BY DEF CallInv, ServerInv, CloseInv
    <3> QED BY <1>1, <1>8, <3>3, <3>4, <3>5 DEF CloseInv
  <2>2. ReplyInv(c)'
    BY <1>1, <1>3, <1>8 DEF CallInv, ServerInv, ReplyInv, Replied, Replying
  <2>3. UpInv(c)'
    BY <1>3, NextKeeps DEF CallInv, ServerInv, UpInv
  <2> QED BY <2>1, <2>2, <2>3 DEF ServerInv
<1>10. \A j \in Calls : /\ Given(c, j)' => Given(c, j)
                        /\ Potential(c, j)' => Potential(c, j)
                        /\ Written(c, j)' => Written(c, j)
  BY <1>1, <1>3, <1>8 DEF Given, Potential, Requested, Written
<1>11. ClientInv(c)'
  <2>1. async[c] \in SUBSET Calls
    BY <1>1 DEF EndTypes
  <2> QED BY <1>3, <1>10, <2>1, ClientSame
<1> QED BY <1>7, <1>9, <1>10, <1>11, OneConn

(* A dispatch ends, at either end. *)
LEMMA CallDispatchDone ==
  ASSUME CallInv, Next, NEW c \in Conns, NEW e \in Ends, NEW k \in Calls, DispatchDone(c, e, k)
  PROVE  CallInv'
<1>1. CASE e = "server"
  BY <1>1, ServerAnswers, ServerAnswersLate
<1>2. CASE e = "client"
  <2> DEFINE ms == ResponseMessages(c, "client", k)
  <2>1. TypeOK /\ EndTypes /\ "client" \in Ends /\ "server" \in Ends
    BY Types DEF CallInv, OwnerInv, Ends
  <2>2. /\ disp' = [disp EXCEPT ![c]["client"] = @ \ {k}]
        /\ SendAll(c, "client", ms, state[c]["client"])
        /\ UNCHANGED <<exc, async, ran>>
    BY <1>2 DEF DispatchDone
  <2>3. At(disp', disp, c, "client", disp[c]["client"] \ {k})
    <3>1. disp[c]["client"] \ {k} \in SUBSET Calls /\ disp \in [Conns -> [Ends -> SUBSET Calls]]
      BY <2>1 DEF EndTypes
    <3>2. disp' = [disp EXCEPT ![c]["client"] = disp[c]["client"] \ {k}]
      BY <2>2
    <3>3. At([disp EXCEPT ![c]["client"] = disp[c]["client"] \ {k}], disp, c, "client",
             disp[c]["client"] \ {k})
      BY <3>1, EndExcept DEF Ends
    <3> QED BY <3>2, <3>3
  <2>4. Near(disp', disp, c) /\ disp'[c]["server"] = disp[c]["server"]
    <3>1. Near(disp', disp, c)
      BY <2>3, AtNear
    <3>2. disp'[c]["server"] = disp[c]["server"]
      BY <2>1, <2>3 DEF At
    <3> QED BY <3>1, <3>2
  <2>5. ms \in Seq(MessagesOf("client")) /\ state[c]["client"] \in NotUp..Finished
    BY <2>1, ResponseFacts DEF EndTypes
  <2>6. \A j : ~Contains(ms, Request(j))
    <3> DEFINE sm == ShutdownMessage(c, "client", state[c]["client"], disp[c]["client"] \ {k})
    <3>1. \A j : ~Contains(sm, Request(j)) /\ ~Contains(<<>>, Request(j))
      BY ShutdownStream DEF Contains
    <3>2. sm \in Seq(MessagesOf("client"))
      BY <2>1, ShutdownFacts
    <3>3. <<>> \o sm = sm
      BY <3>2, ConcatEmptySeq
    <3>4. ms = <<>> \/ ms = <<>> \o sm
      BY DEF ResponseMessages
    <3> HIDE DEF ms, sm
    <3> QED BY <3>1, <3>3, <3>4
  <2> HIDE DEF ms
  <2> QED BY <2>2, <2>4, <2>5, <2>6, ClientSends
<1> QED BY <1>1, <1>2 DEF Ends

-----------------------------------------------------------------------------
(* The end of a connection.                                                *)

(* The server end is closed: it has written, or read, one message more.    *)
LEMMA ServerClosed ==
  ASSUME CallInv, Next, NEW c \in Conns, state[c]["server"] \in Active..ClosingPending,
         At(state', state, c, "server", Closed), UNCHANGED <<exc, out, async, disp, ran>>,
         \/ wire' = wire
         \/ /\ out[c]["server"] # <<>>
            /\ At(wire', wire, c, "server", Append(wire[c]["server"], Head(out[c]["server"])))
         \/ \E s : /\ At(wire', wire, c, "client", s)
                   /\ \A y : Contains(s, y) => Contains(wire[c]["client"], y)
  PROVE  CallInv'
<1> DEFINE w == wire[c]["server"]
           o == out[c]["server"]
<1>1. TypeOK /\ EndTypes /\ Stream(out) /\ Stream(wire) /\ "server" \in Ends /\ "client" \in Ends
  BY Types DEF CallInv, OwnerInv, Ends
<1>2. state'[c]["server"] = Closed /\ Closed >= Closing /\ ~(Closed < Closing) /\ state[c]["server"] # NotUp
  BY <1>1 DEF At, Closed, Closing, Active, ClosingPending, NotUp
<1>3. \A d \in Conns : d # c => Same(d)
  <2>1. Near(wire', wire, c) /\ Near(out', out, c) /\ Near(state', state, c) /\ Near(disp', disp, c)
    BY AtNear
  <2> QED BY <2>1, Others
<1>4. \A y : Contains(wire'[c]["client"], y) => Contains(wire[c]["client"], y)
  BY <1>1 DEF At
<1>5. \/ wire'[c]["server"] = w
      \/ o # <<>> /\ wire'[c]["server"] = Append(w, Head(o))
  BY <1>1 DEF At
<1>6. w \in Seq(MessagesOf("server")) /\ o \in Seq(MessagesOf("server"))
  BY <1>1 DEF Stream
<1>7. Told(w, o, state[c]["server"], disp[c]["server"], Owed(c))
  BY DEF CallInv, ServerInv, CloseInv
<1>8. \A y : Contains(wire'[c]["server"], y) => Contains(w, y) \/ Contains(o, y)
  <2> HIDE DEF w, o
  <2>1. ASSUME o # <<>>
        PROVE  \A y : Contains(Append(w, Head(o)), y) => Contains(w, y) \/ Contains(o, y)
    <3>1. Head(o) \in MessagesOf("server") /\ Contains(o, Head(o))
      BY <1>6, <2>1, HeadFacts
    <3> QED BY <1>6, <3>1, AppendIn
  <2> QED BY <1>5, <2>1
<1>9. ServerInv(c)'
  <2>1. CloseInv(c)'
    <3>1. Told(w, o, Closed, disp[c]["server"], Owed(c))
      BY <1>7, ToldLess
    <3>2. o # <<>> => Told(Append(w, Head(o)), o, Closed, disp[c]["server"], Owed(c))
      <4> HIDE DEF w, o
      <4> QED BY <1>6, <1>7, ToldHead
    <3>3. Owed(c)' = Owed(c)
      BY DEF Owed
    <3>4. exc[c] = "closeConnection" => Owed(c) = {}
      BY DEF CallInv, ServerInv, CloseInv
    <3> QED BY <1>2, <1>5, <3>1, <3>2, <3>3, <3>4 DEF CloseInv
  <2>2. ReplyInv(c)'
    BY <1>8 DEF CallInv, ServerInv, ReplyInv, Replied, Replying
  <2>3. UpInv(c)'
    BY <1>2, NextKeeps DEF CallInv, ServerInv, UpInv
  <2> QED BY <2>1, <2>2, <2>3 DEF ServerInv
<1>10. \A j \in Calls : /\ Given(c, j)' => Given(c, j)
                        /\ Potential(c, j)' => Potential(c, j)
                        /\ Written(c, j)' => Written(c, j)
  BY <1>2, <1>4 DEF Given, Potential, Requested, Written
<1>11. ClientInv(c)'
  <2>1. async[c] \in SUBSET Calls
    BY <1>1 DEF EndTypes
  <2> QED BY <1>10, <2>1, ClientSame
<1> QED BY <1>3, <1>9, <1>10, <1>11, OneConn

(* The client end is closed by something else than a close message.        *)
LEMMA ClientClosed ==
  ASSUME CallInv, Next, NEW c \in Conns, NEW ex \in Exceptions \ {"none", "closeConnection"},
         At(state', state, c, "client", Closed), SetException(c, "client", ex),
         UNCHANGED <<out, async, disp, ran>>,
         \/ wire' = wire
         \/ /\ BothReady /\ out[c]["client"] # <<>>
            /\ At(wire', wire, c, "client", Append(wire[c]["client"], Head(out[c]["client"])))
  PROVE  CallInv'
<1> DEFINE w == wire[c]["client"]
           o == out[c]["client"]
<1>1. TypeOK /\ Stream(out) /\ Stream(wire) /\ "server" \in Ends /\ "client" \in Ends
  BY Types DEF CallInv, OwnerInv, Ends
<1>2. /\ \A d \in Conns : d # c => exc'[d] = exc[d]
      /\ exc'[c] = IF exc[c] = "none" THEN ex ELSE exc[c]
  BY <1>1, ExceptionFacts
<1>3. Near(wire', wire, c) /\ Near(out', out, c) /\ Near(state', state, c) /\ Near(disp', disp, c)
  BY AtNear
<1>4. wire'[c]["server"] = wire[c]["server"] /\ state'[c]["server"] = state[c]["server"]
  BY <1>1 DEF At
<1>5. /\ wire'[c]["client"] = w \/ (BothReady /\ o # <<>> /\ wire'[c]["client"] = Append(w, Head(o)))
      /\ w \in Seq(MessagesOf("client")) /\ o \in Seq(MessagesOf("client"))
  BY <1>1 DEF At, Stream
<1>6. \A y : Contains(wire'[c]["client"], y) => Contains(w, y) \/ Contains(o, y)
  <2> HIDE DEF w, o
  <2>1. ASSUME o # <<>>
        PROVE  \A y : Contains(Append(w, Head(o)), y) => Contains(w, y) \/ Contains(o, y)
    <3>1. Head(o) \in MessagesOf("client") /\ Contains(o, Head(o))
      BY <1>5, <2>1, HeadFacts
    <3> QED BY <1>5, <3>1, AppendIn
  <2> QED BY <1>5, <2>1
<1>7. /\ \A k \in Calls : Requested(c, k)' => Requested(c, k)
      /\ \A k \in Calls : ~BothReady /\ Written(c, k)' => Written(c, k)
  BY <1>5, <1>6 DEF Requested, Written
<1> QED BY <1>2, <1>3, <1>4, <1>7, ClientEndOnly

(* The client reads a close message: it is the last one, and what was      *)
(* answered was answered before.                                           *)
LEMMA ClientTold ==
  ASSUME CallInv, Next, NEW c \in Conns, ReceiveClose(c, "client")
  PROVE  CallInv'
<1> DEFINE w == wire[c]["server"]
           o == out[c]["server"]
<1>1. TypeOK /\ EndTypes /\ Stream(out) /\ Stream(wire) /\ "server" \in Ends /\ "client" \in Ends
  BY Types DEF CallInv, OwnerInv, Ends
<1>2. /\ Receive(c, "client", Close) /\ state' = [state EXCEPT ![c]["client"] = Closed]
      /\ SetException(c, "client", "closeConnection") /\ UNCHANGED <<out, async, disp, ran>>
  BY DEF ReceiveClose, CloseWith
<1>3. /\ w \in Seq(MessagesOf("server")) /\ w # <<>> /\ Close = Head(w)
      /\ At(wire', wire, c, "server", Tail(w))
  <2>1. Peer("client") = "server"
    BY DEF Peer
  <2> QED BY <1>1, <1>2, <2>1, ReceiveFacts
<1>4. At(state', state, c, "client", Closed)
  <2>1. Closed \in NotUp..Finished
    BY DEF Closed, NotUp, Finished
  <2> QED BY <1>1, <1>2, <2>1, EndExcept DEF EndTypes
<1>5. /\ \A d \in Conns : d # c => exc'[d] = exc[d]
      /\ exc'[c] = IF exc[c] = "none" THEN "closeConnection" ELSE exc[c]
  <2>1. "closeConnection" \in Exceptions
    BY DEF Exceptions
  <2> QED BY <1>1, <1>2, <2>1, ExceptionFacts
<1>6. /\ wire'[c]["server"] = Tail(w) /\ wire'[c]["client"] = wire[c]["client"]
      /\ state'[c]["server"] = state[c]["server"]
  BY <1>1, <1>3, <1>4 DEF At
<1>7. \A d \in Conns : d # c => Same(d)
  <2>1. Near(wire', wire, c) /\ Near(out', out, c) /\ Near(state', state, c) /\ Near(disp', disp, c)
    BY <1>2, <1>3, <1>4, AtNear
  <2> QED BY <1>2, <1>5, <2>1, Others
<1>8. Told(w, o, state[c]["server"], disp[c]["server"], Owed(c))
  BY DEF CallInv, ServerInv, CloseInv
<1>9. /\ Contains(w, Close) /\ \A y : Contains(w, y) <=> y = Close \/ Contains(Tail(w), y)
      /\ CloseLast(w) => Tail(w) = <<>>
  <2> HIDE DEF w
  <2> QED BY <1>3, HeadFacts
<1>10. /\ state[c]["server"] >= Closing /\ \A k \in Owed(c) : Contains(w, Reply(k))
       /\ Tail(w) = <<>>
  BY <1>8, <1>9 DEF Told
<1>11. \A y : ~Contains(Tail(w), y)
  <2>1. \A y : ~Contains(<<>>, y)
    BY DEF Contains
  <2> QED BY <1>10, <2>1
<1>12. Owed(c) = {}
  BY <1>9, <1>10, <1>11, MessageFacts
<1>13. ServerInv(c)'
  <2>1. CloseInv(c)'
    <3>1. Owed(c)' = Owed(c)
      BY <1>2 DEF Owed
    <3>2. Told(Tail(w), o, state[c]["server"], disp[c]["server"], Owed(c))
      BY <1>8, <1>11, <1>12 DEF Told
    <3> QED BY <1>2, <1>6, <1>10, <1>12, <3>1, <3>2 DEF CloseInv
  <2>2. ReplyInv(c)'
    BY <1>2, <1>6, <1>11 DEF CallInv, ServerInv, ReplyInv, Replied, Replying
  <2>3. UpInv(c)'
    BY <1>2, <1>6, NextKeeps DEF CallInv, ServerInv, UpInv
  <2> QED BY <2>1, <2>2, <2>3 DEF ServerInv
<1>14. \A j \in Calls : /\ Given(c, j)' => Given(c, j)
                        /\ Potential(c, j)' => Potential(c, j)
                        /\ Written(c, j)' => Written(c, j)
  BY <1>2, <1>6 DEF Given, Potential, Requested, Written
<1>15. ClientInv(c)'
  <2>1. async[c] \in SUBSET Calls
    BY <1>1 DEF EndTypes
  <2> QED BY <1>2, <1>5, <1>14, <2>1, ClientSame
<1> QED BY <1>7, <1>13, <1>14, <1>15, OneConn

(* The steps that close a connection. *)
LEMMA CallClosure ==
  ASSUME CallInv, Next, NEW c \in Conns, NEW e \in Ends,
         Fault(c, e) \/ WriteLost(c, e) \/ ReadLost(c, e) \/ ReceiveClose(c, e)
  PROVE  CallInv'
<1>1. {"manual", "timeout", "lost"} \subseteq Exceptions \ {"none", "closeConnection"}
  BY DEF Exceptions
<1>2. TypeOK /\ EndTypes /\ Stream(wire)
  BY Types DEF CallInv, OwnerInv
<1>3. e = "server" \/ e = "client"
  BY DEF Ends
<1>4. CASE \E ex \in Exceptions \ {"none", "closeConnection"} : GracefulClose(c, e, ex)
  BY <1>3, <1>4, ServerCloses, ClientCloses
<1>5. ASSUME NEW ex \in Exceptions, CloseWith(c, e, ex)
      PROVE  /\ At(state', state, c, e, Closed) /\ SetException(c, e, ex)
             /\ e = "server" => exc' = exc
  <2>1. Closed \in NotUp..Finished
    BY DEF Closed, NotUp, Finished
  <2>2. state' = [state EXCEPT ![c][e] = Closed] /\ SetException(c, e, ex)
    BY <1>5 DEF CloseWith
  <2>3. e = "server" => exc' = exc
    BY <1>2, <2>2 DEF SetException, EndTypes
  <2> QED BY <1>2, <2>1, <2>2, <2>3, EndExcept DEF EndTypes
<1>6. CASE \E ex \in Exceptions \ {"none", "closeConnection"} :
             /\ state[c][e] \in Active..ClosingPending /\ CloseWith(c, e, ex)
             /\ UNCHANGED <<out, async, disp, ran, wire>>
  <2>1. PICK ex \in Exceptions \ {"none", "closeConnection"} :
             /\ state[c][e] \in Active..ClosingPending /\ CloseWith(c, e, ex)
             /\ UNCHANGED <<out, async, disp, ran, wire>>
    BY <1>6
  <2>2. /\ At(state', state, c, e, Closed) /\ SetException(c, e, ex)
        /\ e = "server" => exc' = exc
    BY <1>5, <2>1
  <2>3. CASE e = "server"
    BY <2>1, <2>2, <2>3, ServerClosed
  <2>4. CASE e = "client"
    BY <2>1, <2>2, <2>4, ClientClosed
  <2> QED BY <1>3, <2>3, <2>4
<1>7. CASE Fault(c, e)
  BY <1>1, <1>4, <1>6, <1>7 DEF Fault, CloseGracefully, CloseIdle, CloseForcefully, TimedOut, netVars
<1>8. CASE WriteLost(c, e)
  BY <1>1, <1>6, <1>8 DEF WriteLost, netVars
<1>9. CASE ReadLost(c, e)
  <2>1. /\ state[c][e] \in Active..ClosingPending /\ CloseWith(c, e, "lost")
        /\ UNCHANGED <<out, async, disp, ran>>
    BY <1>9 DEF ReadLost
  <2>2. /\ At(state', state, c, e, Closed) /\ SetException(c, e, "lost")
        /\ e = "server" => exc' = exc
    BY <1>1, <1>5, <2>1
  <2>3. \/ wire' = wire
        \/ /\ BothReady /\ out[c][e] # <<>>
           /\ At(wire', wire, c, e, Append(wire[c][e], Head(out[c][e])))
    BY <1>2, <1>9, ReadLostFacts
  <2>4. CASE e = "server"
    BY <2>1, <2>2, <2>3, <2>4, ServerClosed
  <2>5. CASE e = "client"
    BY <1>1, <2>1, <2>2, <2>3, <2>5, ClientClosed
  <2> QED BY <1>3, <2>4, <2>5
<1>10. CASE ReceiveClose(c, e) /\ e = "server"
  <2>1. /\ Receive(c, "server", Close) /\ CloseWith(c, "server", "closeConnection")
        /\ UNCHANGED <<out, async, disp, ran>> /\ "server" \in Ends
    BY <1>10 DEF ReceiveClose, Ends
  <2>2. Peer("server") = "client" /\ "closeConnection" \in Exceptions
    BY DEF Peer, Exceptions
  <2>3. At(state', state, c, "server", Closed) /\ exc' = exc
    BY <1>5, <1>10, <2>1, <2>2
  <2>4. /\ wire[c]["client"] \in Seq(MessagesOf("client")) /\ wire[c]["client"] # <<>>
        /\ state[c]["server"] \in Active..ClosingPending
        /\ At(wire', wire, c, "client", Tail(wire[c]["client"]))
    BY <1>2, <2>1, <2>2, ReceiveFacts
  <2>5. \A y : Contains(Tail(wire[c]["client"]), y) => Contains(wire[c]["client"], y)
    BY <2>4, TailIn
  <2> QED BY <2>1, <2>3, <2>4, <2>5, ServerClosed
<1>11. CASE ReceiveClose(c, e) /\ e = "client"
  BY <1>11, ClientTold
<1> QED BY <1>3, <1>7, <1>8, <1>9, <1>10, <1>11

-----------------------------------------------------------------------------
(* Messages.                                                               *)

(* A write goes on at the server end. *)
LEMMA ServerWrites ==
  ASSUME CallInv, Next, NEW c \in Conns, WriteReady(c, "server")
  PROVE  CallInv'
<1> DEFINE w == wire[c]["server"]
           o == out[c]["server"]
           S == MessagesOf("server")
<1>1. TypeOK /\ EndTypes /\ Stream(out) /\ Stream(wire) /\ "server" \in Ends /\ "client" \in Ends
  BY Types DEF CallInv, OwnerInv, Ends
<1>2. PICK n \in 1..Len(o) :
        /\ At(wire', wire, c, "server", w \o SubSeq(o, 1, n))
        /\ At(out', out, c, "server", SubSeq(o, n + 1, Len(o)))
        /\ UNCHANGED sent
        /\ state' = [state EXCEPT ![c]["server"] =
                       IF n = Len(o) /\ @ = Closing /\ shut[c]["server"] THEN ClosingPending ELSE @]
  BY <1>1, WriteReadyFacts
<1>3. /\ state[c]["server"] \in Active..ClosingPending /\ o # <<>>
      /\ UNCHANGED <<proxyVars, exc, async, disp, ran>>
  BY DEF WriteReady
<1>4. PICK v : /\ At(state', state, c, "server", v)
               /\ v = state[c]["server"] \/ (state[c]["server"] = Closing /\ v = ClosingPending)
  <2>1. state[c]["server"] \in NotUp..Finished /\ ClosingPending \in NotUp..Finished
    BY <1>1 DEF EndTypes, ClosingPending, NotUp, Finished
  <2> DEFINE v == IF n = Len(o) /\ state[c]["server"] = Closing /\ shut[c]["server"]
                  THEN ClosingPending ELSE state[c]["server"]
  <2>2. v \in NotUp..Finished /\ state' = [state EXCEPT ![c]["server"] = v]
    BY <1>2, <2>1
  <2>3. v = state[c]["server"] \/ (state[c]["server"] = Closing /\ v = ClosingPending)
    OBVIOUS
  <2> HIDE DEF v
  <2>4. At(state', state, c, "server", v)
    BY <1>1, <2>2, EndExcept DEF EndTypes
  <2> QED BY <2>3, <2>4
<1>5. /\ wire'[c]["server"] = w \o SubSeq(o, 1, n) /\ wire'[c]["client"] = wire[c]["client"]
      /\ out'[c]["server"] = SubSeq(o, n + 1, Len(o)) /\ out'[c]["client"] = out[c]["client"]
      /\ state'[c]["server"] = v
  <2>1. wire'[c]["server"] = w \o SubSeq(o, 1, n) /\ wire'[c]["client"] = wire[c]["client"]
    BY <1>1, <1>2 DEF At
  <2>2. out'[c]["server"] = SubSeq(o, n + 1, Len(o)) /\ out'[c]["client"] = out[c]["client"]
    BY <1>1, <1>2 DEF At
  <2>3. state'[c]["server"] = v
    BY <1>1, <1>4 DEF At
  <2> QED BY <2>1, <2>2, <2>3
<1>6. w \in Seq(S) /\ o \in Seq(S) /\ n \in 0..Len(o)
  <2>1. w \in Seq(S) /\ o \in Seq(S)
    BY <1>1 DEF Stream
  <2> QED BY <2>1, LenProperties
<1>7. Told(w, o, state[c]["server"], disp[c]["server"], Owed(c))
  BY DEF CallInv, ServerInv, CloseInv
<1>8. Told(w \o SubSeq(o, 1, n), SubSeq(o, n + 1, Len(o)), v, disp[c]["server"], Owed(c))
  <2> HIDE DEF w, o, S
  <2> QED BY <1>3, <1>4, <1>6, <1>7, ToldWritten
<1>9. \A y : Contains(wire'[c]["server"], y) \/ Contains(out'[c]["server"], y) => Contains(w, y) \/ Contains(o, y)
  <2> DEFINE a == SubSeq(o, 1, n)
             b == SubSeq(o, n + 1, Len(o))
  <2>1. a \in Seq(S) /\ \A y : Contains(o, y) <=> Contains(a, y) \/ Contains(b, y)
    BY <1>6, SplitContains
  <2>2. wire'[c]["server"] = w \o a /\ out'[c]["server"] = b
    BY <1>5
  <2> HIDE DEF a, b, w, o, S
  <2>3. \A y : Contains(w \o a, y) <=> Contains(w, y) \/ Contains(a, y)
    BY <1>6, <2>1, ConcatIn
  <2> QED BY <2>1, <2>2, <2>3
<1> HIDE DEF w, o
<1>10. /\ state[c]["server"] >= Closing => v >= Closing
       /\ v < Closing => state[c]["server"] < Closing
       /\ state[c]["server"] # NotUp
  BY <1>3, <1>4 DEF Active, Closing, ClosingPending, NotUp
<1>11. ServerInv(c)'
  <2>1. CloseInv(c)'
    <3>1. Owed(c)' = Owed(c) /\ exc'[c] = exc[c] /\ disp'[c]["server"] = disp[c]["server"]
      BY <1>3 DEF Owed
    <3>2. exc[c] = "closeConnection" => Owed(c) = {} /\ state[c]["server"] >= Closing
      BY DEF CallInv, ServerInv, CloseInv
    <3> QED BY <1>5, <1>8, <1>10, <3>1, <3>2 DEF CloseInv
  <2>2. ReplyInv(c)'
    BY <1>3, <1>9 DEF CallInv, ServerInv, ReplyInv, Replied, Replying, w, o
  <2>3. UpInv(c)'
    BY <1>10, NextKeeps DEF CallInv, ServerInv, UpInv
  <2> QED BY <2>1, <2>2, <2>3 DEF ServerInv
<1>12. \A j \in Calls : /\ Given(c, j)' => Given(c, j)
                        /\ Potential(c, j)' => Potential(c, j)
                        /\ Written(c, j)' => Written(c, j)
  BY <1>3, <1>5, <1>10 DEF Given, Potential, Requested, Written
<1>13. ClientInv(c)'
  <2>1. async[c] \in SUBSET Calls
    BY <1>1 DEF EndTypes
  <2> QED BY <1>3, <1>12, <2>1, ClientSame
<1>14. \A d \in Conns : d # c => Same(d)
  <2>1. Near(wire', wire, c) /\ Near(out', out, c) /\ Near(state', state, c) /\ Near(disp', disp, c)
    BY <1>2, <1>3, <1>4, AtNear
  <2> QED BY <1>3, <2>1, Others
<1> QED BY <1>11, <1>12, <1>13, <1>14, OneConn

(* And at the client end: what is written is marked as sent. *)
LEMMA ClientWrites ==
  ASSUME CallInv, Next, NEW c \in Conns, WriteReady(c, "client")
  PROVE  CallInv'
<1> DEFINE w == wire[c]["client"]
           o == out[c]["client"]
           S == MessagesOf("client")
<1>1. TypeOK /\ EndTypes /\ Stream(out) /\ Stream(wire) /\ "server" \in Ends /\ "client" \in Ends
  BY Types DEF CallInv, OwnerInv, Ends
<1>2. PICK n \in 1..Len(o) :
        /\ At(wire', wire, c, "client", w \o SubSeq(o, 1, n))
        /\ At(out', out, c, "client", SubSeq(o, n + 1, Len(o)))
        /\ MarkSent(SentRequests(c, SubSeq(o, 1, n)))
        /\ state' = [state EXCEPT ![c]["client"] =
                       IF n = Len(o) /\ @ = Closing /\ shut[c]["client"] THEN ClosingPending ELSE @]
  BY <1>1, WriteReadyFacts
<1>3. UNCHANGED <<proxyVars, exc, async, disp, ran>>
  BY DEF WriteReady
<1>4. \A d \in Conns, h \in Ends : d # c \/ h = "server" => state'[d][h] = state[d][h]
  BY <1>1, <1>2 DEF EndTypes
<1>5. /\ wire'[c]["client"] = w \o SubSeq(o, 1, n) /\ wire'[c]["server"] = wire[c]["server"]
      /\ out'[c]["client"] = SubSeq(o, n + 1, Len(o)) /\ out'[c]["server"] = out[c]["server"]
      /\ state'[c]["server"] = state[c]["server"]
  BY <1>1, <1>2, <1>4 DEF At
<1>6. w \in Seq(S) /\ o \in Seq(S) /\ n \in 0..Len(o)
  <2>1. w \in Seq(S) /\ o \in Seq(S)
    BY <1>1 DEF Stream
  <2> QED BY <2>1, LenProperties
<1>7. /\ \A y : Contains(wire'[c]["client"], y) => Contains(w, y) \/ Contains(SubSeq(o, 1, n), y)
      /\ \A y : Contains(wire'[c]["client"], y) \/ Contains(out'[c]["client"], y) => Contains(w, y) \/ Contains(o, y)
  <2> DEFINE a == SubSeq(o, 1, n)
             b == SubSeq(o, n + 1, Len(o))
  <2>1. a \in Seq(S) /\ \A y : Contains(o, y) <=> Contains(a, y) \/ Contains(b, y)
    BY <1>6, SplitContains
  <2>2. wire'[c]["client"] = w \o a /\ out'[c]["client"] = b
    BY <1>5
  <2> HIDE DEF a, b, w, o, S
  <2>3. \A y : Contains(w \o a, y) <=> Contains(w, y) \/ Contains(a, y)
    BY <1>6, <2>1, ConcatIn
  <2>4. /\ \A y : Contains(wire'[c]["client"], y) => Contains(w, y) \/ Contains(a, y)
        /\ \A y : Contains(wire'[c]["client"], y) \/ Contains(out'[c]["client"], y) => Contains(w, y) \/ Contains(o, y)
    BY <2>1, <2>2, <2>3
  <2> QED BY <2>4 DEF a
<1>8. \A j \in Calls : /\ Given(c, j)' => Given(c, j)
                       /\ Potential(c, j)' => Potential(c, j)
  BY <1>3, <1>5, <1>7 DEF Given, Potential, Requested
<1>9. \A j \in Calls : j \in async[c] /\ Written(c, j)' => Written(c, j) \/ sent'[j]
  <2>1. SUFFICES ASSUME NEW j \in Calls, j \in async[c], Contains(SubSeq(o, 1, n), Request(j))
                 PROVE  sent'[j]
    BY <1>3, <1>7 DEF Written
  <2>2. j \in SentRequests(c, SubSeq(o, 1, n))
    BY <2>1 DEF SentRequests
  <2> QED BY <1>2, <2>2 DEF MarkSent
<1> HIDE DEF w, o
<1>10. ServerInv(c)'
  <2>1. Owed(c)' = Owed(c) /\ exc'[c] = exc[c] /\ disp'[c] = disp[c] /\ ran'[c] = ran[c]
    BY <1>3 DEF Owed
  <2> QED BY <1>5, <2>1, ServerSame
<1>11. ClientInv(c)'
  <2>1. async[c] \in SUBSET Calls
    BY <1>1 DEF EndTypes
  <2> QED BY <1>3, <1>8, <1>9, <2>1, ClientSame
<1>12. \A d \in Conns : d # c => Same(d)
  <2>1. Near(wire', wire, c) /\ Near(out', out, c) /\ Near(disp', disp, c)
    BY <1>2, <1>3, AtNear
  <2>2. Near(state', state, c)
    BY <1>4 DEF Near
  <2> QED BY <1>3, <2>1, <2>2, Others
<1> QED BY <1>8, <1>10, <1>11, <1>12, OneConn

(* A request is read: the servant runs what could reach it. *)
LEMMA CallReceiveRequest ==
  ASSUME CallInv, Next, NEW c \in Conns, NEW k \in Calls, ReceiveRequest(c, k)
  PROVE  CallInv'
<1> DEFINE w == wire[c]["client"]
<1>1. /\ TypeOK /\ EndTypes /\ Stream(out) /\ Stream(wire) /\ "server" \in Ends /\ "client" \in Ends
      /\ state[c]["server"] \in NotUp..Finished
  BY Types DEF CallInv, OwnerInv, Ends, EndTypes
<1>2. /\ Receive(c, "server", Request(k))
      /\ UNCHANGED <<proxyVars, state, exc, out, async>>
      /\ \/ /\ Accepts(c) /\ disp' = [disp EXCEPT ![c]["server"] = disp[c]["server"] \cup {k}]
            /\ ran' = [ran EXCEPT ![c] = ran[c] \cup {k}]
         \/ ~Accepts(c) /\ UNCHANGED <<disp, ran>>
  BY DEF ReceiveRequest
<1>3. /\ w \in Seq(MessagesOf("client")) /\ w # <<>> /\ Request(k) = Head(w)
      /\ At(wire', wire, c, "client", Tail(w))
      /\ state[c]["server"] \in Active..ClosingPending
  <2>1. Peer("server") = "client"
    BY DEF Peer
  <2> QED BY <1>1, <1>2, <2>1, ReceiveFacts
<1>4. wire'[c]["client"] = Tail(w) /\ wire'[c]["server"] = wire[c]["server"]
  BY <1>1, <1>3 DEF At
<1>5. Contains(w, Request(k)) /\ \A y : Contains(Tail(w), y) => Contains(w, y)
  BY <1>3, TailIn
<1> HIDE DEF w
<1>6. Written(c, k) /\ Requested(c, k)
  BY <1>5 DEF Written, Requested, w
<1>7. CASE ~Accepts(c)
  <2>1. UNCHANGED <<disp, ran>>
    BY <1>2, <1>7
  <2>2. ServerInv(c)'
    <3>1. Owed(c)' = Owed(c)
      BY <1>2, <2>1 DEF Owed
    <3> QED BY <1>2, <1>4, <2>1, <3>1, ServerSame
  <2>3. \A j \in Calls : /\ Given(c, j)' => Given(c, j)
                         /\ Potential(c, j)' => Potential(c, j)
                         /\ Written(c, j)' => Written(c, j)
    BY <1>2, <1>4, <1>5, <2>1 DEF Given, Potential, Requested, Written, w
  <2>4. ClientInv(c)'
    <3>1. async[c] \in SUBSET Calls
      BY <1>1 DEF EndTypes
    <3> QED BY <1>2, <2>3, <3>1, ClientSame
  <2>5. \A d \in Conns : d # c => Same(d)
    <3>1. Near(wire', wire, c) /\ Near(out', out, c) /\ Near(state', state, c) /\ Near(disp', disp, c)
      BY <1>2, <1>3, <2>1, AtNear
    <3> QED BY <1>2, <2>1, <3>1, Others
  <2> QED BY <2>2, <2>3, <2>4, <2>5, OneConn
<1>8. CASE Accepts(c)
  <2>1. /\ disp' = [disp EXCEPT ![c]["server"] = disp[c]["server"] \cup {k}]
        /\ ran' = [ran EXCEPT ![c] = ran[c] \cup {k}]
    BY <1>2, <1>8
  <2>2. At(disp', disp, c, "server", disp[c]["server"] \cup {k})
    <3>1. disp[c]["server"] \cup {k} \in SUBSET Calls
      BY <1>1 DEF EndTypes
    <3> QED BY <1>1, <2>1, <3>1, EndExcept DEF EndTypes
  <2>3. /\ disp'[c]["server"] = disp[c]["server"] \cup {k}
        /\ ran'[c] = ran[c] \cup {k} /\ \A d \in Conns : d # c => ran'[d] = ran[d]
    BY <1>1, <2>1, <2>2 DEF At, EndTypes
  <2>4. state[c]["server"] < Closing /\ state[c]["server"] # NotUp /\ ~(state[c]["server"] >= Closing)
    BY <1>1, <1>3, <1>8 DEF Accepts, Active, NotUp, Closing, Finished
  <2>5. ~Contains(wire[c]["server"], Close) /\ ~Contains(out[c]["server"], Close)
    BY <2>4, NoCloseYet
  <2>6. CloseInv(c)'
    <3>1. Told(wire[c]["server"], out[c]["server"], state[c]["server"], disp[c]["server"], Owed(c))
      BY DEF CallInv, ServerInv, CloseInv
    <3>2. Owed(c)' \subseteq Owed(c) \cup {k}
      BY <1>2, <2>3 DEF Owed
    <3>3. Told(wire[c]["server"], out[c]["server"], state[c]["server"], disp'[c]["server"], Owed(c)')
      BY <2>3, <2>5, <3>1, <3>2 DEF Told
    <3>4. exc[c] # "closeConnection"
      BY <2>4 DEF CallInv, ServerInv, CloseInv
    <3> QED BY <1>2, <1>4, <3>3, <3>4 DEF CloseInv
  <2>7. ServerInv(c)'
    <3>1. ReplyInv(c)'
      BY <1>2, <1>4, <2>3 DEF CallInv, ServerInv, ReplyInv, Replied, Replying
    <3>2. UpInv(c)'
      BY <2>4, NextKeeps DEF CallInv, ServerInv, UpInv
    <3> QED BY <2>6, <3>1, <3>2 DEF ServerInv
  <2>8. \A j \in Calls : /\ Given(c, j)' => Given(c, j)
                         /\ Potential(c, j)' => Potential(c, j)
                         /\ Written(c, j)' => Written(c, j)
    <3>1. \A j \in Calls : j \in ran'[c] => j \in ran[c] \/ j = k
      BY <2>3
    <3>2. \A j \in Calls : Requested(c, j)' => Requested(c, j)
      BY <1>2, <1>4, <1>5 DEF Requested, w
    <3>3. \A j \in Calls : Contains(wire'[c]["client"], Request(j)) => Contains(wire[c]["client"], Request(j))
      BY <1>4, <1>5 DEF w
    <3> QED BY <1>2, <1>6, <2>4, <3>1, <3>2, <3>3 DEF Given, Potential, Written
  <2>9. ClientInv(c)'
    <3>1. async[c] \in SUBSET Calls
      BY <1>1 DEF EndTypes
    <3> QED BY <1>2, <2>8, <3>1, ClientSame
  <2>10. \A d \in Conns : d # c => Same(d)
    <3>1. Near(wire', wire, c) /\ Near(out', out, c) /\ Near(state', state, c) /\ Near(disp', disp, c)
      BY <1>2, <1>3, <2>2, AtNear
    <3> QED BY <1>2, <2>3, <3>1, Others
  <2> QED BY <2>7, <2>8, <2>9, <2>10, OneConn
<1> QED BY <1>7, <1>8

(* A reply that is not waited for any more is read. *)
LEMMA ToldRead ==
  ASSUME NEW S, NEW w \in Seq(S), w # <<>>, NEW o, NEW st, NEW dp, NEW T, NEW T2 \in SUBSET T,
         NEW k, Head(w) = Reply(k), k \notin T2, Told(w, o, st, dp, T)
  PROVE  Told(Tail(w), o, st, dp, T2)
<1>1. /\ \A y : Contains(w, y) <=> y = Head(w) \/ Contains(Tail(w), y)
      /\ CloseLast(w) => CloseLast(Tail(w))
  BY HeadFacts
<1>2. \A j \in T2 : Contains(w, Reply(j)) => Contains(Tail(w), Reply(j))
  BY <1>1, MessageFacts
<1> QED BY <1>1, <1>2 DEF Told

(* A reply is read: the call is over, unless it was before. *)
LEMMA CallReceiveReply ==
  ASSUME CallInv, Next, NEW c \in Conns, NEW k \in Calls, ReceiveReply(c, k)
  PROVE  CallInv'
<1> DEFINE w == wire[c]["server"]
           o == out[c]["server"]
<1>1. TypeOK /\ EndTypes /\ Stream(out) /\ Stream(wire) /\ "server" \in Ends /\ "client" \in Ends
  BY Types DEF CallInv, OwnerInv, Ends, EndTypes
<1>2. /\ Receive(c, "client", Reply(k))
      /\ UNCHANGED <<proxyVars, state, exc, out, ran>>
  BY DEF ReceiveReply
<1>3. /\ w \in Seq(MessagesOf("server")) /\ w # <<>> /\ Reply(k) = Head(w)
      /\ At(wire', wire, c, "server", Tail(w))
  <2>1. Peer("client") = "server"
    BY DEF Peer
  <2> QED BY <1>1, <1>2, <2>1, ReceiveFacts
<1>4. wire'[c]["server"] = Tail(w) /\ wire'[c]["client"] = wire[c]["client"]
  BY <1>1, <1>3 DEF At
<1>5. /\ async'[c] = async[c] \ {k} /\ \A d \in Conns : d # c => async'[d] = async[d]
      /\ k \in async[c] => Over(k)'
      /\ Near(disp', disp, c) /\ disp'[c]["server"] = disp[c]["server"]
  <2>1. CASE k \in async[c]
    <3>1. /\ async' = [async EXCEPT ![c] = @ \ {k}]
          /\ disp' = [disp EXCEPT ![c]["client"] = disp[c]["client"] \cup {k}]
          /\ phase' = [phase EXCEPT ![k] = "ok"]
      BY <2>1 DEF ReceiveReply, Complete
    <3>2. At(disp', disp, c, "client", disp[c]["client"] \cup {k})
      <4>1. disp[c]["client"] \cup {k} \in SUBSET Calls
        BY <1>1 DEF EndTypes
      <4> QED BY <1>1, <3>1, <4>1, EndExcept DEF EndTypes
    <3>3. Over(k)'
      BY <1>1, <3>1 DEF TypeOK, Over
    <3>4. /\ async'[c] = async[c] \ {k} /\ \A d \in Conns : d # c => async'[d] = async[d]
      BY <1>1, <3>1 DEF EndTypes
    <3>5. disp'[c]["server"] = disp[c]["server"]
      BY <1>1, <3>2 DEF At
    <3> QED BY <3>2, <3>3, <3>4, <3>5, AtNear
  <2>2. CASE k \notin async[c]
    <3>1. UNCHANGED <<async, disp>>
      BY <2>2 DEF ReceiveReply
    <3> QED BY <2>2, <3>1, AtNear
  <2> QED BY <2>1, <2>2
<1>6. \A y : Contains(Tail(w), y) => Contains(w, y)
  BY <1>3, TailIn
<1>7. Told(w, o, state[c]["server"], disp[c]["server"], Owed(c))
  BY DEF CallInv, ServerInv, CloseInv
<1>8. Owed(c)' \subseteq Owed(c) /\ k \notin Owed(c)'
  BY <1>2, <1>5 DEF Owed
<1>9. ServerInv(c)'
  <2>1. CloseInv(c)'
    <3> DEFINE T2 == Owed(c)'
    <3>1. T2 \in SUBSET Owed(c) /\ k \notin T2
      BY <1>8
    <3> HIDE DEF T2, w, o
    <3>2. Told(Tail(w), o, state[c]["server"], disp[c]["server"], T2)
      BY <1>3, <1>7, <3>1, ToldRead
    <3>3. exc[c] = "closeConnection" => Owed(c) = {} /\ state[c]["server"] >= Closing
      BY DEF CallInv, ServerInv, CloseInv
    <3>4. Told(Tail(w), o, state[c]["server"], disp[c]["server"], Owed(c)')
      BY <3>2 DEF T2
    <3>5. Told(wire'[c]["server"], out'[c]["server"], state'[c]["server"], disp'[c]["server"], Owed(c)')
      BY <1>2, <1>4, <1>5, <3>4 DEF o
    <3>6. exc'[c] = "closeConnection" => Owed(c)' = {} /\ state'[c]["server"] >= Closing
      BY <1>2, <1>8, <3>3
    <3> QED BY <3>5, <3>6 DEF CloseInv
  <2>2. ReplyInv(c)'
    BY <1>2, <1>4, <1>5, <1>6 DEF CallInv, ServerInv, ReplyInv, Replied, Replying
  <2>3. UpInv(c)'
    BY <1>2, <1>5, NextKeeps DEF CallInv, ServerInv, UpInv
  <2> QED BY <2>1, <2>2, <2>3 DEF ServerInv
<1>10. \A j \in Calls : /\ Given(c, j)' => Given(c, j)
                        /\ Potential(c, j)' => Potential(c, j)
                        /\ Written(c, j)' => Written(c, j)
  BY <1>2, <1>4 DEF Given, Potential, Requested, Written
<1>11. ClientInv(c)'
  <2>1. async[c] \in SUBSET Calls
    BY <1>1 DEF EndTypes
  <2> QED BY <1>2, <1>5, <1>10, <2>1, ClientSame
<1>12. \A d \in Conns : d # c => Same(d)
  <2>1. Near(wire', wire, c) /\ Near(out', out, c) /\ Near(state', state, c)
    BY <1>2, <1>3, AtNear
  <2> QED BY <1>2, <1>5, <2>1, Others
<1> QED BY <1>9, <1>10, <1>11, <1>12, OneConn

(* The server end is gone, and what it has not read. *)
LEMMA ServerFinishes ==
  ASSUME CallInv, Next, NEW c \in Conns, Finish(c, "server")
  PROVE  CallInv'
<1>1. TypeOK /\ EndTypes /\ Stream(out) /\ Stream(wire) /\ "server" \in Ends /\ "client" \in Ends
  BY Types DEF CallInv, OwnerInv, Ends, EndTypes
<1>2. /\ state[c]["server"] = Closed
      /\ state' = [state EXCEPT ![c]["server"] = Finished]
      /\ out' = [out EXCEPT ![c]["server"] = <<>>]
      /\ wire' = [wire EXCEPT ![c]["client"] = <<>>]
      /\ UNCHANGED <<phase, async, sent, link, exc, disp, ran>>
  <2>1. Peer("server") = "client"
    BY DEF Peer
  <2> QED BY <2>1 DEF Finish
<1>3. /\ At(state', state, c, "server", Finished)
      /\ At(out', out, c, "server", <<>>) /\ At(wire', wire, c, "client", <<>>)
  <2>1. Finished \in NotUp..Finished /\ \A h : <<>> \in Seq(MessagesOf(h))
    BY DEF NotUp, Finished
  <2> QED BY <1>1, <1>2, <2>1, EndExcept, StreamExcept DEF EndTypes
<1>4. /\ state'[c]["server"] = Finished
      /\ out'[c]["server"] = <<>> /\ out'[c]["client"] = out[c]["client"]
      /\ wire'[c]["client"] = <<>> /\ wire'[c]["server"] = wire[c]["server"]
  BY <1>1, <1>3 DEF At
<1>5. /\ Closed >= Closed /\ ~(Closed < Closed) /\ Closed >= Closing /\ Finished >= Closing
      /\ Finished >= Closed /\ ~(Finished < Closed) /\ ~(Finished < Closing)
      /\ Closed # NotUp
  BY DEF Closing, Closed, Finished, NotUp
<1>6. \A y : ~Contains(<<>>, y)
  BY DEF Contains
<1>7. ServerInv(c)'
  <2>1. CloseInv(c)'
    <3>1. Told(wire[c]["server"], out[c]["server"], Closed, disp[c]["server"], Owed(c))
      BY <1>2 DEF CallInv, ServerInv, CloseInv
    <3>2. Told(wire[c]["server"], <<>>, Finished, disp[c]["server"], Owed(c))
      BY <1>5, <3>1 DEF Told
    <3>3. Owed(c)' = Owed(c)
      BY <1>2 DEF Owed
    <3>4. exc[c] = "closeConnection" => Owed(c) = {}
      BY DEF CallInv, ServerInv, CloseInv
    <3> QED BY <1>2, <1>4, <1>5, <3>2, <3>3, <3>4 DEF CloseInv
  <2>2. ReplyInv(c)'
    BY <1>2, <1>4, <1>6 DEF CallInv, ServerInv, ReplyInv, Replied, Replying
  <2>3. UpInv(c)'
    BY <1>2, <1>5, NextKeeps DEF CallInv, ServerInv, UpInv
  <2> QED BY <2>1, <2>2, <2>3 DEF ServerInv
<1>8. \A j \in Calls : /\ Given(c, j)' => Given(c, j)
                       /\ Potential(c, j)' => Potential(c, j)
                       /\ Written(c, j)' => Written(c, j)
  BY <1>2, <1>4, <1>5, <1>6 DEF Given, Potential, Requested, Written
<1>9. ClientInv(c)'
  <2>1. async[c] \in SUBSET Calls
    BY <1>1 DEF EndTypes
  <2> QED BY <1>2, <1>8, <2>1, ClientSame
<1>10. \A d \in Conns : d # c => Same(d)
  <2>1. Near(wire', wire, c) /\ Near(out', out, c) /\ Near(state', state, c) /\ Near(disp', disp, c)
    BY <1>2, <1>3, AtNear
  <2> QED BY <1>2, <2>1, Others
<1> QED BY <1>7, <1>8, <1>9, <1>10, OneConn

(* The client end is gone, and tells its requests: one that may not be     *)
(* repeated and is, was not written, or the server has said it ran none.   *)
LEMMA ClientFinishes ==
  ASSUME CallInv, Next, NEW c \in Conns, Finish(c, "client")
  PROVE  CallInv'
<1>1. TypeOK /\ EndTypes /\ Stream(out) /\ Stream(wire) /\ "server" \in Ends /\ "client" \in Ends
  BY Types DEF CallInv, OwnerInv, Ends, EndTypes
<1>2. /\ state[c]["client"] = Closed
      /\ state' = [state EXCEPT ![c]["client"] = Finished]
      /\ out' = [out EXCEPT ![c]["client"] = <<>>]
      /\ wire' = [wire EXCEPT ![c]["server"] = <<>>]
      /\ NotifyException(async[c], c, exc[c]) /\ async' = [async EXCEPT ![c] = {}]
      /\ UNCHANGED <<sent, link, exc, disp, ran>>
  <2>1. Peer("client") = "server"
    BY DEF Peer
  <2> QED BY <2>1 DEF Finish
<1>3. /\ At(state', state, c, "client", Finished)
      /\ At(out', out, c, "client", <<>>) /\ At(wire', wire, c, "server", <<>>)
  <2>1. Finished \in NotUp..Finished /\ \A h : <<>> \in Seq(MessagesOf(h))
    BY DEF NotUp, Finished
  <2> QED BY <1>1, <1>2, <2>1, EndExcept, StreamExcept DEF EndTypes
<1>4. /\ state'[c]["server"] = state[c]["server"]
      /\ out'[c]["client"] = <<>> /\ out'[c]["server"] = out[c]["server"]
      /\ wire'[c]["server"] = <<>> /\ wire'[c]["client"] = wire[c]["client"]
      /\ async'[c] = {} /\ \A d \in Conns : d # c => async'[d] = async[d]
  BY <1>1, <1>2, <1>3 DEF At, EndTypes
<1>5. \A y : ~Contains(<<>>, y)
  BY DEF Contains
<1>6. exc[c] # "none"
  BY <1>2 DEF CallInv, OwnerInv, LinkInv, Closed, Active
<1>7. ServerInv(c)'
  <2>1. CloseInv(c)'
    <3>1. Told(wire[c]["server"], out[c]["server"], state[c]["server"], disp[c]["server"], Owed(c))
      BY DEF CallInv, ServerInv, CloseInv
    <3>2. Told(<<>>, out[c]["server"], state[c]["server"], disp[c]["server"], {})
      BY <1>5, <3>1 DEF Told
    <3>3. Owed(c)' = {}
      BY <1>4 DEF Owed
    <3>4. exc[c] = "closeConnection" => state[c]["server"] >= Closing
      BY DEF CallInv, ServerInv, CloseInv
    <3> QED BY <1>2, <1>4, <3>2, <3>3, <3>4 DEF CloseInv
  <2>2. ReplyInv(c)'
    BY <1>2, <1>4, <1>5 DEF CallInv, ServerInv, ReplyInv, Replied, Replying
  <2>3. UpInv(c)'
    BY <1>2, <1>4, NextKeeps DEF CallInv, ServerInv, UpInv
  <2> QED BY <2>1, <2>2, <2>3 DEF ServerInv
<1>8. \A j \in Calls : /\ Given(c, j)' => Given(c, j)
                       /\ Potential(c, j)' => Potential(c, j)
  BY <1>2, <1>4, <1>5 DEF Given, Potential, Requested
<1>9. \A j \in Calls : (Over(j) => Over(j)') /\ (phase[j] # "idle" => phase'[j] # "idle")
  BY NextPhases DEF CallInv
<1>10. ASSUME ~BothReady, NEW k \in Calls \ Idempotent, Potential(c, k)', k \in async[c]
       PROVE  Over(k)'
  <2>1. PICK S \in SUBSET Calls : S = async[c] /\ NotifyException(S, c, exc[c])
    <3>1. async[c] \in SUBSET Calls
      BY <1>1 DEF EndTypes
    <3> QED BY <1>2, <3>1
  <2>2. phase'[k] = "failed" \/ Retries(k, exc[c])
    BY <1>1, <1>10, <2>1, NotifyFacts
  <2>3. ~Retries(k, exc[c])
    <3>1. SUFFICES ASSUME Repeatable(k, exc[c])
                   PROVE  FALSE
      BY DEF Retries
    <3>2. CASE ~sent[k]
      <4>1. ~Written(c, k)
        BY <1>10, <3>2 DEF CallInv, ClientInv, SentInv
      <4> QED BY <1>2, <1>4, <1>5, <1>10, <4>1 DEF Potential, Requested, Written
    <3>3. CASE exc[c] = "closeConnection"
      <4>1. Owed(c) = {} /\ state[c]["server"] >= Closing
        BY <3>3 DEF CallInv, ServerInv, CloseInv
      <4>2. k \notin ran[c]
        BY <1>10, <4>1 DEF Owed
      <4>3. ~(state[c]["server"] < Closing)
        <5>1. state[c]["server"] \in NotUp..Finished
          BY <1>1 DEF EndTypes
        <5> QED BY <4>1, <5>1 DEF Closing, NotUp, Finished
      <4> QED BY <1>2, <1>4, <1>10, <4>2, <4>3 DEF Potential
    <3> QED BY <1>10, <3>1, <3>2, <3>3 DEF Repeatable
  <2> QED BY <2>2, <2>3 DEF Over
<1>11. ClientInv(c)'
  <2>1. GivenInv(c)'
    BY <1>2, <1>6, <1>8, <1>9 DEF CallInv, ClientInv, GivenInv
  <2>2. SentInv(c)'
    BY <1>4 DEF SentInv
  <2>3. HeldInv(c)'
    BY <1>8, <1>9, <1>10 DEF CallInv, ClientInv, HeldInv
  <2> QED BY <2>1, <2>2, <2>3 DEF ClientInv
<1>12. \A d \in Conns : d # c => Same(d)
  <2>1. Near(wire', wire, c) /\ Near(out', out, c) /\ Near(state', state, c) /\ Near(disp', disp, c)
    BY <1>2, <1>3, AtNear
  <2> QED BY <1>2, <1>4, <2>1, Others
<1> QED BY <1>7, <1>8, <1>11, <1>12, OneConn

-----------------------------------------------------------------------------
(* Requests.                                                               *)

(* The connection takes a request: it never had it, and no servant can     *)
(* have it if it may not be repeated.                                      *)
LEMMA CallTaken ==
  ASSUME CallInv, Next, NEW k \in Calls, NEW c \in Conns, link[c] \in {"flushing", "up"},
         exc[c] = "none", ConnectionTakes(k, c), phase[k] \in {"send", "wait", "queued"},
         UNCHANGED <<disp, ran>>
  PROVE  CallInv'
<1> DEFINE w == wire[c]["client"]
           o == out[c]["client"]
           S == MessagesOf("client")
           ms == <<Request(k)>>
<1>1. TypeOK /\ EndTypes /\ Stream(out) /\ Stream(wire) /\ "server" \in Ends /\ "client" \in Ends
  BY Types DEF CallInv, OwnerInv, Ends, EndTypes
<1>2. /\ phase'[k] = "held" /\ UNCHANGED <<state, exc>>
      /\ \A d \in Conns : async'[d] = IF d = c THEN async[c] \cup {k} ELSE async[d]
  BY TakesFacts DEF CallInv
<1>3. PICK n \in 0..1 : Write(c, "client", ms, n) /\ sent' = [sent EXCEPT ![k] = n = 1]
  BY DEF ConnectionTakes
<1>4. ms \in Seq(S) /\ Len(ms) = 1 /\ \A y : Contains(ms, y) => y = Request(k)
  <2>1. ms \in Seq(S) /\ Len(ms) = 1 /\ ms[1] = Request(k)
    BY DEF MessagesOf
  <2>2. \A i \in 1..Len(ms) : i = 1
    BY <2>1
  <2> QED BY <2>1, <2>2 DEF Contains
<1>5. w \in Seq(S) /\ o \in Seq(S) /\ n \in 0..Len(ms)
  BY <1>1, <1>4 DEF Stream
<1> HIDE DEF ms, S
<1>6. /\ At(wire', wire, c, "client", w \o SubSeq(ms, 1, n))
      /\ At(out', out, c, "client", o \o SubSeq(ms, n + 1, Len(ms)))
  BY <1>1, <1>3, <1>4, <1>5, WriteFacts DEF S
<1>7. /\ wire'[c]["client"] = w \o SubSeq(ms, 1, n) /\ wire'[c]["server"] = wire[c]["server"]
      /\ out'[c]["client"] = o \o SubSeq(ms, n + 1, Len(ms)) /\ out'[c]["server"] = out[c]["server"]
  BY <1>1, <1>6 DEF At
<1>8. /\ \A y : Contains(wire'[c]["client"], y) => Contains(w, y) \/ (n = 1 /\ y = Request(k))
      /\ \A y : Contains(out'[c]["client"], y) => Contains(o, y) \/ y = Request(k)
  <2> DEFINE a == SubSeq(ms, 1, n)
             b == SubSeq(ms, n + 1, Len(ms))
  <2>1. /\ a \in Seq(S) /\ b \in Seq(S) /\ \A y : Contains(ms, y) <=> Contains(a, y) \/ Contains(b, y)
        /\ n = 0 => a = <<>>
    BY <1>4, <1>5, SplitContains
  <2>2. wire'[c]["client"] = w \o a /\ out'[c]["client"] = o \o b
    BY <1>7
  <2> HIDE DEF a, b, w, o
  <2>3. /\ \A y : Contains(w \o a, y) <=> Contains(w, y) \/ Contains(a, y)
        /\ \A y : Contains(o \o b, y) <=> Contains(o, y) \/ Contains(b, y)
    BY <1>5, <2>1, ConcatIn
  <2>4. \A y : ~Contains(<<>>, y)
    BY DEF Contains
  <2>5. n = 0 \/ n = 1
    OBVIOUS
  <2> QED BY <1>4, <2>1, <2>2, <2>3, <2>4, <2>5
<1>9. ~Given(c, k) /\ ~Over(k) /\ \A d \in Conns : k \notin async[d]
  <2>1. ~Over(k) /\ \A d \in Conns : k \notin async[d]
    BY DEF CallInv, OwnerInv, PlaceInv, Free, Held, Queued, Over
  <2> QED BY <2>1 DEF CallInv, ClientInv, GivenInv
<1>10. /\ \A j \in Calls \ {k} : Given(c, j)' => Given(c, j)
       /\ \A j \in Calls \ {k} : Potential(c, j)' => Potential(c, j)
       /\ \A j \in Calls : Written(c, j)' => Written(c, j) \/ (j = k /\ n = 1)
  <2>1. \A j \in Calls : Requested(c, j)' => Requested(c, j) \/ j = k
    BY <1>8, MessageFacts DEF Requested
  <2>2. \A j \in Calls : Written(c, j)' => Written(c, j) \/ (j = k /\ n = 1)
    BY <1>8, MessageFacts DEF Written
  <2> QED BY <1>2, <2>1, <2>2 DEF Given, Potential
<1> HIDE DEF w, o
<1>11. ServerInv(c)'
  <2>1. Owed(c)' \subseteq Owed(c)
    BY <1>2, <1>9 DEF Owed, Given
  <2> QED BY <1>2, <1>7, <2>1, ServerSame
<1>12. /\ \A j \in Calls : (Over(j) => Over(j)') /\ (phase[j] # "idle" => phase'[j] # "idle")
       /\ k \in async'[c]
  BY <1>2, NextPhases DEF CallInv
<1>13. ClientInv(c)'
  <2>1. GivenInv(c)'
    <3>1. SUFFICES ASSUME NEW j \in Calls, Given(c, j)'
                   PROVE  phase'[j] # "idle" /\ (j \in async'[c] \/ Over(j)' \/ exc'[c] # "none")
      BY DEF GivenInv
    <3>2. CASE j = k
      BY <1>2, <1>12, <3>2
    <3>3. CASE j # k
      <4>1. phase[j] # "idle" /\ (j \in async[c] \/ Over(j) \/ exc[c] # "none")
        BY <1>10, <3>1, <3>3 DEF CallInv, ClientInv, GivenInv
      <4> QED BY <1>2, <1>12, <4>1
    <3> QED BY <3>2, <3>3
  <2>2. SentInv(c)'
    <3>1. SUFFICES ASSUME ~BothReady, NEW j \in async'[c], Written(c, j)'
                   PROVE  sent'[j]
      BY DEF SentInv
    <3>2. j \in Calls /\ sent \in [Calls -> BOOLEAN]
      BY <1>1, <1>2, <3>1 DEF EndTypes, TypeOK
    <3>3. CASE j = k
      <4>1. n = 1
        BY <1>9, <1>10, <3>1, <3>2, <3>3 DEF Given, Written, Requested
      <4> QED BY <1>3, <3>2, <3>3, <4>1
    <3>4. CASE j # k
      <4>1. j \in async[c] /\ Written(c, j)
        BY <1>2, <1>10, <3>1, <3>2, <3>4
      <4>2. sent[j]
        BY <3>1, <4>1 DEF CallInv, ClientInv, SentInv
      <4> QED BY <1>3, <3>2, <3>4, <4>2
    <3> QED BY <3>3, <3>4
  <2>3. HeldInv(c)'
    <3>1. SUFFICES ASSUME ~BothReady, NEW j \in Calls \ Idempotent, Potential(c, j)', j # k
                   PROVE  j \in async'[c] \/ Over(j)'
      BY <1>12 DEF HeldInv
    <3>2. j \in async[c] \/ Over(j)
      BY <1>10, <3>1 DEF CallInv, ClientInv, HeldInv
    <3> QED BY <1>2, <1>12, <3>2
  <2> QED BY <2>1, <2>2, <2>3 DEF ClientInv
<1>14. \A d \in Conns : d # c => Same(d)
  <2>1. Near(wire', wire, c) /\ Near(out', out, c) /\ Near(state', state, c) /\ Near(disp', disp, c)
    BY <1>2, <1>6, AtNear
  <2> QED BY <1>2, <2>1, Others
<1>15. ~BothReady => \A j \in Calls \ Idempotent :
                       Potential(c, j)' => Potential(c, j) \/ \A d \in Conns : ~Potential(d, j)
  <2>1. ~BothReady /\ k \notin Idempotent => \A d \in Conns : ~Potential(d, k)
    BY <1>9 DEF CallInv, ClientInv, HeldInv
  <2> QED BY <1>10, <2>1
<1> QED BY <1>11, <1>13, <1>14, <1>15, OneConn

(* It cannot be written. *)
LEMMA CallRefused ==
  ASSUME CallInv, Next, NEW k \in Calls, NEW c \in Conns, link[c] \in {"flushing", "up"},
         exc[c] = "none", WriteFails(c, "client", <<Request(k)>>, 0), CloseWith(c, "client", "lost"),
         UNCHANGED <<async, disp, ran>>
  PROVE  CallInv'
<1>1. out' = out /\ wire' = wire /\ At(state', state, c, "client", Closed)
  BY RefusesFacts DEF CallInv
<1>2. SetException(c, "client", "lost") /\ "lost" \in Exceptions \ {"none", "closeConnection"}
  BY DEF CloseWith, Exceptions
<1> QED BY <1>1, <1>2, ClientClosed

(* The thread of the call sends it, or the handler from its queue. *)
LEMMA CallSend ==
  ASSUME CallInv, Next, NEW k \in Calls, Send(k)
  PROVE  CallInv'
<1> DEFINE c == handler[k]
<1>1. /\ phase[k] \in {"send", "wait"} /\ link[c] = "up" /\ exc[c] = "none"
      /\ \/ ConnectionTakes(k, c)
         \/ /\ WriteFails(c, "client", <<Request(k)>>, 0)
            /\ CloseWith(c, "client", "lost")
            /\ UNCHANGED async
      /\ UNCHANGED <<disp, ran>>
  BY DEF Send
<1>2. c \in Conns
  BY <1>1, FreeFacts DEF CallInv
<1> HIDE DEF c
<1> QED BY <1>1, <1>2, CallTaken, CallRefused

(* The next queued call is given to the connection, or the queue is empty. *)
LEMMA CallFlushNext ==
  ASSUME CallInv, Next, NEW c \in Conns, FlushNext(c)
  PROVE  CallInv'
<1>1. link[c] = "flushing" /\ connq[c] # <<>> /\ connq[c] \in Seq(Calls)
  BY DEF FlushNext, CallInv, OwnerInv, TypeOK
<1>2. PICK k \in Calls : k = Head(connq[c]) /\ Contains(connq[c], k)
  BY <1>1, TailIn
<1>3. /\ UNCHANGED <<disp, ran>>
      /\ \/ exc[c] = "none" /\ ConnectionTakes(k, c)
         \/ /\ exc[c] = "none"
            /\ WriteFails(c, "client", <<Request(k)>>, 0)
            /\ CloseWith(c, "client", "lost")
            /\ UNCHANGED async
         \/ UNCHANGED <<state, exc, out, async, wire>>
  BY <1>2 DEF FlushNext
<1>4. phase[k] = "queued"
  BY <1>2 DEF CallInv, OwnerInv, PlaceInv, Free, Held, Queued
<1>5. UNCHANGED <<state, exc, out, async, wire, disp, ran>> => \A d \in Conns : Same(d)
  BY DEF Same
<1> QED BY <1>1, <1>3, <1>4, <1>5, CallTaken, CallRefused, NoConn

(* The connection is there. *)
LEMMA CallConnectDone ==
  ASSUME CallInv, Next, NEW c \in Conns, ConnectDone(c)
  PROVE  CallInv'
<1>1. TypeOK /\ EndTypes /\ "server" \in Ends /\ "client" \in Ends
  BY Types DEF CallInv, OwnerInv, Ends
<1>2. /\ link[c] = "connecting" /\ link' = [link EXCEPT ![c] = "flushing"]
      /\ state' = [state EXCEPT ![c] = [e \in Ends |-> Active]]
      /\ UNCHANGED <<exc, out, async, disp, wire, ran>>
  BY DEF ConnectDone, netVars
<1>3. Near(state', state, c) /\ state'[c]["server"] = Active /\ link'[c] = "flushing"
  BY <1>1, <1>2 DEF Near, EndTypes, TypeOK
<1>4. state[c]["server"] = NotUp /\ disp[c]["server"] = {}
  BY <1>2 DEF CallInv, ServerInv, UpInv
<1>5. /\ NotUp < Closing /\ NotUp < Closed /\ Active < Closing
      /\ ~(NotUp >= Closing) /\ ~(NotUp >= Closed) /\ Active < Closed
  BY DEF NotUp, Active, Closing, Closed
<1>6. ServerInv(c)'
  <2>1. CloseInv(c)'
    <3>1. Told(wire[c]["server"], out[c]["server"], NotUp, disp[c]["server"], Owed(c))
      BY <1>4 DEF CallInv, ServerInv, CloseInv
    <3>2. Told(wire[c]["server"], out[c]["server"], Active, disp[c]["server"], Owed(c))
      BY <1>5, <3>1 DEF Told
    <3>3. exc[c] # "closeConnection"
      BY <1>4, <1>5 DEF CallInv, ServerInv, CloseInv
    <3>4. Owed(c)' = Owed(c)
      BY <1>2 DEF Owed
    <3> QED BY <1>2, <1>3, <3>2, <3>3, <3>4 DEF CloseInv
  <2>2. ReplyInv(c)'
    BY <1>2 DEF CallInv, ServerInv, ReplyInv, Replied, Replying
  <2>3. UpInv(c)'
    BY <1>3 DEF UpInv
  <2> QED BY <2>1, <2>2, <2>3 DEF ServerInv
<1>7. \A j \in Calls : /\ Given(c, j)' => Given(c, j)
                       /\ Potential(c, j)' => Potential(c, j)
                       /\ Written(c, j)' => Written(c, j)
  BY <1>2, <1>4, <1>5 DEF Given, Potential, Requested, Written
<1>8. ClientInv(c)'
  <2>1. async[c] \in SUBSET Calls
    BY <1>1 DEF EndTypes
  <2> QED BY <1>2, <1>7, <2>1, ClientSame
<1>9. \A d \in Conns : d # c => Same(d)
  <2>1. Near(wire', wire, c) /\ Near(out', out, c) /\ Near(disp', disp, c)
    BY <1>2, AtNear
  <2> QED BY <1>2, <1>3, <2>1, Others
<1> QED BY <1>6, <1>7, <1>8, <1>9, OneConn

(* A request is canceled: the connection forgets the call, which is over.  *)
LEMMA CallCancelHeld ==
  ASSUME CallInv, Next, NEW k \in Calls, NEW c \in Conns, CancelHeld(k, c),
         UNCHANGED <<link, state, exc, disp, wire, ran>>
  PROVE  CallInv'
<1>1. TypeOK /\ EndTypes /\ Stream(out) /\ "server" \in Ends /\ "client" \in Ends
  BY Types DEF CallInv, OwnerInv, Ends
<1>2. /\ k \in async[c] /\ async' = [async EXCEPT ![c] = @ \ {k}]
      /\ NotifyException({k}, handler[k], "canceled")
      /\ \/ \E i \in Waiting(k, c) : out' = [out EXCEPT ![c]["client"] = RemoveAt(@, i)]
         \/ UNCHANGED out
  BY DEF CancelHeld, Abort
<1>3. Over(k)'
  <2>1. \E T \in SUBSET Calls : T = {k} /\ NotifyException(T, handler[k], "canceled")
    BY <1>2
  <2>2. phase'[k] = "failed" \/ Retries(k, "canceled")
    BY <1>1, <2>1, NotifyFacts
  <2> QED BY <2>2 DEF Retries, NeverRetried, Over
<1>4. async'[c] = async[c] \ {k} /\ \A d \in Conns : d # c => async'[d] = async[d]
  BY <1>1, <1>2 DEF EndTypes
<1>5. /\ Near(out', out, c) /\ out'[c]["server"] = out[c]["server"]
      /\ \A y : Contains(out'[c]["client"], y) => Contains(out[c]["client"], y)
  <2>1. ASSUME NEW i \in Waiting(k, c), out' = [out EXCEPT ![c]["client"] = RemoveAt(@, i)]
        PROVE  /\ Near(out', out, c) /\ out'[c]["server"] = out[c]["server"]
               /\ \A y : Contains(out'[c]["client"], y) => Contains(out[c]["client"], y)
    <3> DEFINE o == out[c]["client"]
               r == RemoveAt(o, i)
    <3>1. o \in Seq(MessagesOf("client")) /\ i \in 1..Len(o)
      <4>1. o \in Seq(MessagesOf("client"))
        BY <1>1 DEF Stream
      <4>2. DOMAIN o = 1..Len(o)
        BY <4>1, LenProperties
      <4> QED BY <2>1, <4>1, <4>2 DEF Waiting
    <3>2. r \in Seq(MessagesOf("client")) /\ \A y : Contains(r, y) => Contains(o, y)
      <4> HIDE DEF o
      <4> QED BY <3>1, RemoveIn
    <3>3. out' = [out EXCEPT ![c]["client"] = r]
      BY <2>1
    <3> HIDE DEF r, o
    <3>4. At(out', out, c, "client", r)
      BY <1>1, <3>2, <3>3, StreamExcept
    <3>5. out'[c]["client"] = r /\ out'[c]["server"] = out[c]["server"]
      BY <1>1, <3>4 DEF At
    <3> QED BY <3>2, <3>4, <3>5, AtNear DEF o
  <2>2. ASSUME out' = out
        PROVE  /\ Near(out', out, c) /\ out'[c]["server"] = out[c]["server"]
               /\ \A y : Contains(out'[c]["client"], y) => Contains(out[c]["client"], y)
    BY <2>2, AtNear
  <2> QED BY <1>2, <2>1, <2>2
<1>6. ServerInv(c)'
  <2>1. Owed(c)' \subseteq Owed(c)
    BY <1>4 DEF Owed
  <2> QED BY <1>5, <2>1, ServerSame
<1>7. \A j \in Calls : /\ Given(c, j)' => Given(c, j)
                       /\ Potential(c, j)' => Potential(c, j)
                       /\ Written(c, j)' => Written(c, j)
  BY <1>5 DEF Given, Potential, Requested, Written
<1>8. ClientInv(c)'
  <2>1. async[c] \in SUBSET Calls
    BY <1>1 DEF EndTypes
  <2> QED BY <1>3, <1>4, <1>7, <2>1, ClientSame
<1>9. \A d \in Conns : d # c => Same(d)
  <2>1. Near(wire', wire, c) /\ Near(state', state, c) /\ Near(disp', disp, c)
    BY AtNear
  <2> QED BY <1>4, <1>5, <2>1, Others
<1> QED BY <1>6, <1>7, <1>8, <1>9, OneConn

-----------------------------------------------------------------------------
(* The invariant.                                                          *)

(* The steps that no connection takes part in. *)
LEMMA CallElsewhere ==
  ASSUME CallInv, Next, UNCHANGED <<state, exc, out, async, disp, wire, ran>>
  PROVE  CallInv'
BY NoConn DEF Same

(* The steps of a call, of a connection, and of an end. *)
LEMMA CallCallStep ==
  ASSUME CallInv, Next, NEW k \in Calls, CallStep(k)
  PROVE  CallInv'
<1>1. CASE \/ GetRequestHandler(k) \/ SendCanceled(k) \/ SendQueued(k) \/ SendRefused(k)
           \/ SendRetried(k) \/ RunRetry(k)
  <2>1. UNCHANGED <<endVars, netVars>>
    BY <1>1 DEF GetRequestHandler, SendCanceled, SendQueued, SendRefused, SendRetried, RunRetry
  <2> QED BY <2>1, CallElsewhere DEF endVars, netVars
<1>2. CASE Send(k)
  BY <1>2, CallSend
<1>3. CASE CancelRequest(k)
  <2>1. UNCHANGED <<link, state, exc, disp, wire, ran>>
    BY <1>3 DEF CancelRequest, netVars
  <2>2. CASE \E c \in Conns : CancelHeld(k, c)
    BY <2>1, <2>2, CallCancelHeld
  <2>3. CASE (\E c \in Conns : CancelQueued(k, c)) \/ CancelRetry(k) \/ CancelIgnored(k)
    <3>1. UNCHANGED <<out, async>>
      BY <2>3 DEF CancelQueued, CancelRetry, CancelIgnored
    <3> QED BY <2>1, <3>1, CallElsewhere
  <2> QED BY <1>3, <2>2, <2>3 DEF CancelRequest
<1> QED BY <1>1, <1>2, <1>3 DEF CallStep

(* A step of a connection keeps the invariant. *)
LEMMA CallConnStep ==
  ASSUME CallInv, Next, NEW c \in Conns, ConnStep(c)
  PROVE  CallInv'
<1>1. CASE ConnectFailed(c) \/ FlushDone(c)
  <2>1. UNCHANGED <<endVars, netVars>>
    BY <1>1 DEF ConnectFailed, FlushDone
  <2> QED BY <2>1, CallElsewhere DEF endVars, netVars
<1> QED BY <1>1, CallConnectDone, CallFlushNext, CallReceiveRequest, CallReceiveReply DEF ConnStep

(* A step of an end of a connection, or a fault at it, keeps the invariant. *)
LEMMA CallEndStep ==
  ASSUME CallInv, Next, NEW c \in Conns, NEW e \in Ends, EndStep(c, e) \/ Fault(c, e)
  PROVE  CallInv'
<1>1. e = "server" \/ e = "client"
  BY DEF Ends
<1>2. CASE WriteReady(c, e)
  BY <1>1, <1>2, ServerWrites, ClientWrites
<1>3. CASE Finish(c, e)
  BY <1>1, <1>3, ServerFinishes, ClientFinishes
<1>4. CASE \E k \in Calls : DispatchDone(c, e, k)
  BY <1>4, CallDispatchDone
<1>5. CASE Fault(c, e) \/ WriteLost(c, e) \/ ReadLost(c, e) \/ ReceiveClose(c, e)
  BY <1>5, CallClosure
<1> QED BY <1>2, <1>3, <1>4, <1>5 DEF EndStep

(* Nothing was sent, nothing is up. *)
LEMMA InitCall == Init => CallInv
<1> SUFFICES ASSUME Init
             PROVE  CallInv
  OBVIOUS
<1>1. OwnerInv
  BY InitOwner
<1>2. \A y : ~Contains(<<>>, y)
  BY DEF Contains
<1>3. "server" \in Ends /\ "client" \in Ends
  BY DEF Ends
<1>4. ASSUME NEW c \in Conns
      PROVE  /\ \A e \in Ends : out[c][e] = <<>> /\ wire[c][e] = <<>>
             /\ state[c]["server"] = NotUp /\ disp[c]["server"] = {}
             /\ async[c] = {} /\ ran[c] = {} /\ exc[c] = "none"
  BY <1>3 DEF Init
<1>5. ASSUME NEW c \in Conns
      PROVE  ServerInv(c) /\ ClientInv(c) /\ \A k : ~Potential(c, k)
  <2>1. CloseInv(c)
    BY <1>2, <1>3, <1>4 DEF CloseInv, Told, Owed
  <2>2. ReplyInv(c) /\ UpInv(c)
    BY <1>2, <1>3, <1>4 DEF ReplyInv, Replied, Replying, UpInv
  <2>3. \A k : ~Requested(c, k) /\ ~Given(c, k) /\ ~Potential(c, k)
    BY <1>2, <1>3, <1>4 DEF Requested, Given, Potential
  <2>4. ClientInv(c)
    BY <1>4, <2>3 DEF ClientInv, GivenInv, SentInv, HeldInv
  <2> QED BY <2>1, <2>2, <2>3, <2>4 DEF ServerInv
<1> QED BY <1>1, <1>5 DEF CallInv, OnceInv

(* Every step keeps the invariant, and so does a stutter. *)
LEMMA NextCall == CallInv /\ [Next]_vars => CallInv'
<1> SUFFICES ASSUME CallInv, [Next]_vars
             PROVE  CallInv'
  OBVIOUS
<1>1. CASE UNCHANGED vars
  <2>1. OwnerInv'
    BY NextOwner DEF CallInv
  <2>2. UNCHANGED <<state, exc, out, async, disp, wire, ran, phase, sent, link>>
    BY <1>1 DEF vars, callVars, endVars, netVars, proxyVars
  <2>3. ASSUME NEW c \in Conns
        PROVE  ServerInv(c)' /\ ClientInv(c)' /\ \A k : Potential(c, k)' <=> Potential(c, k)
    <3>1. ServerInv(c)'
      BY <2>2 DEF CallInv, ServerInv, CloseInv, ReplyInv, UpInv, Owed, Replied, Replying
    <3>2. ClientInv(c)'
      BY <2>2 DEF CallInv, ClientInv, GivenInv, SentInv, HeldInv, Given, Requested, Written, Potential, Over
    <3>3. \A k : Potential(c, k)' <=> Potential(c, k)
      BY <2>2 DEF Potential, Requested
    <3> QED BY <3>1, <3>2, <3>3
  <2>4. OnceInv'
    BY <2>3 DEF CallInv, OnceInv
  <2> QED BY <2>1, <2>3, <2>4 DEF CallInv
<1>2. CASE Next
  <2>1. CASE RunTime
    <3>1. RemoveRetry => CallInv'
      BY <1>2, CallElsewhere DEF RemoveRetry, endVars, netVars
    <3> QED BY <1>2, <2>1, <3>1, CallCallStep, CallConnStep, CallEndStep DEF RunTime
  <2>2. CASE Environment
    <3>1. \A k \in Calls : Invoke(k) \/ Cancel(k) => CallInv'
      BY <1>2, CallElsewhere DEF Invoke, Cancel, endVars, netVars
    <3>2. \A c \in Conns : Reset(c) => CallInv'
      BY <1>2, CallElsewhere DEF Reset, endVars
    <3> QED BY <1>2, <2>2, <3>1, <3>2, CallEndStep DEF Environment
  <2> QED BY <1>2, <2>1, <2>2 DEF Next
<1> QED BY <1>1, <1>2

(* The protocols of closures and of retries, in every state. *)
THEOREM CallInvariant == Spec => []CallInv
<1>1. Init => CallInv
  BY InitCall
<1>2. CallInv /\ [Next]_vars => CallInv'
  BY NextCall
<1> QED BY <1>1, <1>2, PTL DEF Spec

(* What a server has not answered when it closes it has not run, whatever  *)
(* order closures, replies and dispatches come in: the requests that are   *)
(* outstanding on a connection that a close message closed were not        *)
(* dispatched (GracefulClose, DispatchDone and ReceiveRequest against      *)
(* ReceiveClose).                                                          *)
THEOREM CloseRepeatable == Spec => []CloseConnRepeatable
<1>1. CallInv => CloseConnRepeatable
  BY DEF CallInv, ServerInv, CloseInv, Owed, CloseConnRepeatable
<1> QED BY <1>1, CallInvariant, PTL

-----------------------------------------------------------------------------
(* At most once, and the specification of a call.                          *)

Servants(k) == {c \in Conns : k \in ran[c]}

(* A call was run as often as there are servants that were given it. *)
LEMMA ExecutionFacts ==
  ASSUME NEW k
  PROVE  /\ IsFiniteSet(Servants(k)) /\ Executions(k) = Cardinality(Servants(k))
         /\ Executions(k) \in Nat
         /\ Servants(k) # {} <=> Executions(k) > 0
         /\ (\A c, d \in Servants(k) : c = d) => Executions(k) <= 1
<1>1. IsFiniteSet(Conns)
  <2>1. 1 \in Int /\ MaxConns \in Int
    BY BoundAssumption
  <2> QED BY <2>1, FS_Interval DEF Conns
<1>2. Servants(k) \subseteq Conns
  BY DEF Servants
<1>3. IsFiniteSet(Servants(k))
  BY <1>1, <1>2, FS_Subset
<1>4. Executions(k) = Cardinality(Servants(k))
  BY DEF Executions, Servants
<1>5. Executions(k) \in Nat
  BY <1>3, <1>4, FS_CardinalityType
<1>6. Servants(k) # {} <=> Executions(k) > 0
  <2>1. Servants(k) = {} <=> Executions(k) = 0
    BY <1>3, <1>4, FS_EmptySet
  <2> QED BY <1>5, <2>1
<1>7. ASSUME \A c, d \in Servants(k) : c = d
      PROVE  Executions(k) <= 1
  <2>1. CASE Servants(k) = {}
    <3>1. Executions(k) = 0
      BY <1>4, <2>1, FS_EmptySet
    <3> QED BY <3>1
  <2>2. CASE Servants(k) # {}
    <3>1. PICK c : Servants(k) = {c}
      BY <1>7, <2>2
    <3>2. Executions(k) = 1
      BY <1>4, <3>1, FS_Singleton
    <3> QED BY <3>2
  <2> QED BY <2>1, <2>2
<1> QED BY <1>3, <1>4, <1>5, <1>6, <1>7

(* A call that is not idempotent is not run twice, however connections     *)
(* close, break and are replaced under it (sendAsyncRequest, finish() and  *)
(* the retry decision), if message() is told of one operation at a time.   *)
THEOREM MostOnce == Spec => [](~BothReady => AtMostOnce)
<1>1. CallInv => (~BothReady => AtMostOnce)
  <2>1. SUFFICES ASSUME CallInv, ~BothReady, NEW k \in Calls \ Idempotent
                 PROVE  Executions(k) <= 1
    BY DEF AtMostOnce
  <2>2. \A c, d \in Servants(k) : c = d
    BY <2>1 DEF Servants, CallInv, OnceInv, Potential
  <2> QED BY <2>2, ExecutionFacts
<1> QED BY <1>1, CallInvariant, PTL

(* Only a request that is read is run. *)
LEMMA RanSteps ==
  ASSUME Next
  PROVE  ran' = ran \/ \E c \in Conns, k \in Calls : ReceiveRequest(c, k)
<1>1. \A k \in Calls : CallStep(k) => ran' = ran
  BY DEF CallStep, GetRequestHandler, SendCanceled, SendQueued, SendRefused, SendRetried, Send,
         RunRetry, CancelRequest, netVars
<1>2. \A c \in Conns : ConnStep(c) => ran' = ran \/ \E k \in Calls : ReceiveRequest(c, k)
  BY DEF ConnStep, ConnectDone, ConnectFailed, FlushNext, FlushDone, ReceiveReply, netVars
<1>3. \A c \in Conns, e \in Ends : EndStep(c, e) \/ Fault(c, e) => ran' = ran
  <2> SUFFICES ASSUME NEW c \in Conns, NEW e \in Ends, EndStep(c, e) \/ Fault(c, e)
               PROVE  ran' = ran
    OBVIOUS
  <2>1. EndStep(c, e) => ran' = ran
    BY DEF EndStep, WriteReady, WriteLost, ReadLost, ReceiveClose, Finish, DispatchDone, netVars
  <2>2. Fault(c, e) => ran' = ran
    BY DEF Fault, CloseGracefully, CloseIdle, GracefulClose, CloseForcefully, TimedOut, netVars
  <2> QED BY <2>1, <2>2
<1>4. RemoveRetry => ran' = ran
  BY DEF RemoveRetry, netVars
<1>5. \A k \in Calls : Invoke(k) \/ Cancel(k) => ran' = ran
  BY DEF Invoke, Cancel, netVars
<1>6. \A c \in Conns : Reset(c) => ran' = ran
  BY DEF Reset
<1>7. RunTime => ran' = ran \/ \E c \in Conns, k \in Calls : ReceiveRequest(c, k)
  BY <1>1, <1>2, <1>3, <1>4 DEF RunTime
<1>8. Environment => ran' = ran
  BY <1>3, <1>5, <1>6 DEF Environment
<1> QED BY <1>7, <1>8 DEF Next

(* One call begins, one call returns, or some fail. *)
LEMMA NextShape ==
  ASSUME OwnerInv, Next
  PROVE  \/ \E k \in Calls : /\ phase[k] = "idle" /\ phase' = [phase EXCEPT ![k] = "invoke"]
                             /\ ran' = ran
         \/ \E k \in Calls, c \in Conns : /\ ReceiveReply(c, k) /\ phase[k] = "held"
                                          /\ phase' = [phase EXCEPT ![k] = "ok"] /\ ran' = ran
         \/ (\A k \in Calls : Fails(k)) /\ ran' = ran
         \/ \E k \in Calls, c \in Conns : ReceiveRequest(c, k) /\ phase' = phase
<1>1. CASE \E k \in Calls, c \in Conns : ReceiveRequest(c, k)
  BY <1>1 DEF ReceiveRequest, callVars
<1>2. CASE \E k \in Calls, c \in Conns : ReceiveReply(c, k) /\ k \in async[c]
  <2>1. PICK k \in Calls, c \in Conns : ReceiveReply(c, k) /\ k \in async[c]
    BY <1>2
  <2>2. phase' = [phase EXCEPT ![k] = "ok"] /\ ran' = ran
    BY <2>1 DEF ReceiveReply, Complete
  <2>3. phase[k] = "held"
    BY <2>1 DEF OwnerInv, PlaceInv, Free, Held, Queued
  <2> QED BY <2>1, <2>2, <2>3
<1>3. CASE \E k \in Calls : Invoke(k)
  BY <1>3 DEF Invoke, netVars
<1>4. CASE /\ ~\E k \in Calls, c \in Conns : ReceiveRequest(c, k)
           /\ ~\E k \in Calls, c \in Conns : ReceiveReply(c, k) /\ k \in async[c]
           /\ ~\E k \in Calls : Invoke(k)
  <2>1. \A k \in Calls : ~Returns(k)
    BY <1>4 DEF Returns
  <2>2. ran' = ran
    BY <1>4, RanSteps
  <2>3. CASE RunTime
    <3>1. RemoveRetry => \A k \in Calls : Fails(k)
      BY DEF RemoveRetry, callVars, Fails
    <3>2. \A k \in Calls : Fails(k)
      BY <2>1, <2>3, <3>1, CallPhases, ConnPhases, EndPhases DEF RunTime
    <3> QED BY <2>2, <3>2
  <2>4. CASE Environment
    <3>1. \A k \in Calls : Cancel(k) => \A j \in Calls : Fails(j)
      BY DEF Cancel, Fails
    <3>2. \A c \in Conns : Reset(c) => \A j \in Calls : Fails(j)
      BY DEF Reset, callVars, Fails
    <3>3. \A k \in Calls : Fails(k)
      BY <1>4, <2>4, <3>1, <3>2, EndPhases DEF Environment
    <3> QED BY <2>2, <3>3
  <2> QED BY <2>3, <2>4 DEF Next
<1> QED BY <1>1, <1>2, <1>3, <1>4

(* The mapping: a call as its caller and the servants see it. *)
St == [k \in Calls |-> Status(k)]
Rn == [k \in Calls |-> Executions(k)]

(* Nothing happens to a call that nobody has begun. *)
LEMMA InitRefines == Init => C!Init
<1> SUFFICES ASSUME Init
             PROVE  C!Init
  OBVIOUS
<1>1. \A k \in Calls : Status(k) = "idle"
  BY DEF Init, Status, Over
<1>2. \A k \in Calls : Executions(k) = 0
  <2>1. \A k : Servants(k) = {}
    BY DEF Init, Servants
  <2> QED BY <2>1, ExecutionFacts
<1> QED BY <1>1, <1>2 DEF C!Init

(* The servants of a call change when a request is read. *)
LEMMA RanSame ==
  ASSUME ran' = ran
  PROVE  Rn' = Rn
BY DEF Rn, Executions

(* Some calls fail, or none does. *)
LEMMA FailRefines ==
  ASSUME \A k \in Calls : Fails(k), ran' = ran
  PROVE  (\E S \in SUBSET Calls : C!Fail(S)) \/ (St' = St /\ Rn' = Rn)
<1> DEFINE S == {k \in Calls : Status(k) = "pending" /\ Status(k)' = "failed"}
<1>1. \A k \in Calls : Status(k)' = IF k \in S THEN "failed" ELSE Status(k)
  BY DEF Fails, Status, Over
<1>2. Rn' = Rn
  BY RanSame
<1>3. CASE S = {}
  <2>1. St' = St
    BY <1>1, <1>3 DEF St
  <2> QED BY <1>2, <2>1
<1>4. CASE S # {}
  <2>1. \A k \in S : k \in Calls /\ Status(k) = "pending"
    OBVIOUS
  <2>2. S \in SUBSET Calls
    OBVIOUS
  <2> HIDE DEF S
  <2>3. St' = [k \in Calls |-> IF k \in S THEN "failed" ELSE St[k]]
    BY <1>1 DEF St
  <2>4. C!Fail(S)
    BY <1>2, <1>4, <2>1, <2>2, <2>3 DEF C!Fail, St, Rn
  <2> QED BY <2>2, <2>4
<1> QED BY <1>3, <1>4

(* A request is run, unless the end of its servant ignores it. *)
LEMMA RunRefines ==
  ASSUME CallInv, ~BothReady, NEW c \in Conns, NEW k \in Calls, ReceiveRequest(c, k), phase' = phase
  PROVE  C!Run(k) \/ (St' = St /\ Rn' = Rn)
<1>1. TypeOK /\ "server" \in Ends
  BY DEF CallInv, OwnerInv, Ends
<1>2. St' = St
  BY DEF St, Status, Over
<1>3. CASE ran' = ran
  BY <1>2, <1>3, RanSame
<1>4. CASE ran' # ran
  <2>1. Accepts(c) /\ ran' = [ran EXCEPT ![c] = ran[c] \cup {k}] /\ Receive(c, "server", Request(k))
    BY <1>4 DEF ReceiveRequest
  <2>2. ran \in [Conns -> SUBSET Calls] /\ k \notin ran[c]
    BY <1>1, <1>4, <2>1 DEF TypeOK
  <2>3. Requested(c, k)
    <3>1. Peer("server") = "client"
      BY DEF Peer
    <3>2. wire[c]["client"] \in Seq(MessagesOf("client")) /\ wire[c]["client"] # <<>>
          /\ Request(k) = Head(wire[c]["client"])
      BY <1>1, <2>1, <3>1, ReceiveFacts
    <3> QED BY <3>2, HeadFacts DEF Requested
  <2>4. Status(k) # "idle"
    BY <2>3 DEF CallInv, ClientInv, GivenInv, Given, Status, Over
  <2>5. k \in Idempotent \/ Executions(k) = 0
    <3>1. SUFFICES ASSUME k \notin Idempotent
                   PROVE  Servants(k) = {}
      BY ExecutionFacts
    <3>2. Potential(c, k)
      BY <2>1, <2>3 DEF Potential, Accepts
    <3>3. \A d \in Conns : k \in ran[d] => d = c
      BY <3>1, <3>2 DEF CallInv, OnceInv, Potential
    <3> QED BY <2>2, <3>3 DEF Servants
  <2>6. Executions(k)' = Executions(k) + 1
    <3>1. Servants(k)' = Servants(k) \cup {c} /\ c \notin Servants(k)
      BY <2>1, <2>2 DEF Servants
    <3>2. Executions(k)' = Cardinality(Servants(k)')
      BY DEF Executions, Servants
    <3>3. Cardinality(Servants(k) \cup {c}) = Cardinality(Servants(k)) + 1
      BY <3>1, ExecutionFacts, FS_AddElement
    <3> QED BY <3>1, <3>2, <3>3, ExecutionFacts
  <2>7. \A j \in Calls : j # k => Executions(j)' = Executions(j)
    <3>1. \A j \in Calls, d \in Conns : j # k => (j \in ran'[d] <=> j \in ran[d])
      BY <2>1, <2>2
    <3>2. \A j \in Calls : j # k => {d \in Conns : j \in ran'[d]} = {d \in Conns : j \in ran[d]}
      BY <3>1
    <3> QED BY <3>2 DEF Executions
  <2>8. Rn' = [Rn EXCEPT ![k] = @ + 1]
    BY <2>6, <2>7 DEF Rn
  <2> QED BY <1>2, <2>4, <2>5, <2>8 DEF C!Run, St, Rn
<1> QED BY <1>3, <1>4

(* A reply is read only of a request that was run. *)
LEMMA ReturnRefines ==
  ASSUME CallInv, NEW c \in Conns, NEW k \in Calls, ReceiveReply(c, k), phase[k] = "held",
         phase' = [phase EXCEPT ![k] = "ok"], ran' = ran
  PROVE  C!Return(k)
<1>1. TypeOK /\ "client" \in Ends /\ Peer("client") = "server"
  BY DEF CallInv, OwnerInv, Ends, Peer
<1>2. Replied(c, k)
  <2>1. /\ wire[c]["server"] \in Seq(MessagesOf("server")) /\ wire[c]["server"] # <<>>
        /\ Reply(k) = Head(wire[c]["server"])
    BY <1>1, ReceiveFacts DEF ReceiveReply
  <2> QED BY <2>1, HeadFacts DEF Replied
<1>3. Executions(k) > 0
  <2>1. c \in Servants(k)
    BY <1>2 DEF CallInv, ServerInv, ReplyInv, Servants
  <2> QED BY <2>1, ExecutionFacts
<1>4. Status(k) = "pending" /\ \A j \in Calls : Status(j)' = IF j = k THEN "ok" ELSE Status(j)
  BY <1>1 DEF TypeOK, Status, Over
<1>5. St' = [St EXCEPT ![k] = "ok"]
  BY <1>4 DEF St
<1>6. Rn' = Rn
  BY RanSame
<1> QED BY <1>3, <1>4, <1>5, <1>6 DEF C!Return, St, Rn

(* Every step is a step of Call, or none. *)
LEMMA NextRefines == CallInv /\ ~BothReady /\ [Next]_vars => [C!Next]_(C!vars)
<1> SUFFICES ASSUME CallInv, ~BothReady, [Next]_vars
             PROVE  C!Next \/ (St' = St /\ Rn' = Rn)
  BY DEF C!vars, St, Rn
<1>1. CASE UNCHANGED vars
  <2>1. phase' = phase /\ ran' = ran
    BY <1>1 DEF vars, callVars, netVars
  <2> QED BY <2>1, RanSame DEF St, Status, Over
<1>2. CASE Next
  <2>1. CASE \E k \in Calls : /\ phase[k] = "idle" /\ phase' = [phase EXCEPT ![k] = "invoke"]
                              /\ ran' = ran
    <3>1. PICK k \in Calls : phase[k] = "idle" /\ phase' = [phase EXCEPT ![k] = "invoke"] /\ ran' = ran
      BY <2>1
    <3>2. Status(k) = "idle" /\ \A j \in Calls : Status(j)' = IF j = k THEN "pending" ELSE Status(j)
      BY <3>1 DEF CallInv, OwnerInv, TypeOK, Status, Over
    <3>3. St' = [St EXCEPT ![k] = "pending"] /\ Rn' = Rn
      BY <3>1, <3>2, RanSame DEF St
    <3>4. C!Begin(k)
      BY <3>2, <3>3 DEF C!Begin, St, Rn
    <3> QED BY <3>4 DEF C!Next
  <2>2. CASE \E k \in Calls, c \in Conns : /\ ReceiveReply(c, k) /\ phase[k] = "held"
                                           /\ phase' = [phase EXCEPT ![k] = "ok"] /\ ran' = ran
    BY <2>2, ReturnRefines DEF C!Next
  <2>3. CASE (\A k \in Calls : Fails(k)) /\ ran' = ran
    BY <2>3, FailRefines DEF C!Next
  <2>4. CASE \E k \in Calls, c \in Conns : ReceiveRequest(c, k) /\ phase' = phase
    BY <2>4, RunRefines DEF C!Next
  <2> QED BY <1>2, <2>1, <2>2, <2>3, <2>4, NextShape DEF CallInv
<1> QED BY <1>1, <1>2

(* The retry queue, the request handlers and the connections implement     *)
(* Call, if message() is told of one operation at a time: a call completes *)
(* once, returns a result only if a servant ran it, and runs at most once  *)
(* unless it is idempotent.                                                *)
THEOREM CallImplemented ==
  ASSUME ~BothReady
  PROVE  Spec => CallRefined
<1>1. Init => C!Init
  BY InitRefines
<1>2. CallInv /\ [Next]_vars => [C!Next]_(C!vars)
  BY NextRefines
<1> QED BY <1>1, <1>2, CallInvariant, PTL DEF Spec, CallRefined, C!Spec

=============================================================================
