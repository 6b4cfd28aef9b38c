-------------------------- MODULE InvocationProofs --------------------------
(***************************************************************************)
(* Theorems about Invocation, for any calls, scenarios and connections:    *)
(* who owns a call.                                                        *)
(*                                                                         *)
(* Three objects keep requests that are not over: the queue of a connect   *)
(* request handler, the requests of a connection and the retry queue.      *)
(* OneOwner counts those that have a call; that it is inductive takes what *)
(* each of them knows of the others: PlaceInv ties the queues to the phase *)
(* and the handler of the call, CancelInv what a cancellation is about to  *)
(* call, LinkInv what a request handler knows of its connection.           *)
(***************************************************************************)
EXTENDS Invocation, SequenceTheorems, TLAPS

(* No container has the call; a thread is about to look for one. *)
Free(k) ==
  /\ phase[k] \notin {"held", "queued"}
  /\ \A c \in Conns : k \notin async[c] /\ ~Contains(connq[c], k)
  /\ phase[k] \in {"send", "wait"} => handler[k] \in Conns

(* The connection of its handler has it, and nothing else. *)
Held(k) ==
  /\ phase[k] = "held" /\ handler[k] \in Conns
  /\ \A c \in Conns : (k \in async[c] <=> c = handler[k]) /\ ~Contains(connq[c], k)

(* The queue of its handler has it, and nothing else. *)
Queued(k) ==
  /\ phase[k] = "queued" /\ handler[k] \in Conns
  /\ \A c \in Conns : k \notin async[c] /\ (Contains(connq[c], k) <=> c = handler[k])

PlaceInv == \A k \in Calls : Free(k) \/ Held(k) \/ Queued(k)

(* A cancellation has asked, or would ask, connect request handler c. *)
Asks(k, c) == canceler[k] = ConnectHandler(c) \/ cancel[k] = ConnectHandler(c)

(* A handler that is still connecting is asked for calls it has.  (The     *)
(* code would otherwise use the connection that is not there yet.)         *)
CancelInv ==
  \A k \in Calls, c \in Conns :
    Asks(k, c) => /\ link[c] # "unused"
                  /\ link[c] = "connecting" => phase[k] = "queued" /\ handler[k] = c

(* No call is twice in a queue. *)
Once(s) == \A i, j \in 1..Len(s) : s[i] = s[j] => i = j
QueueInv == \A c \in Conns : Once(connq[c])

(* A handler has its connection when it flushes; a connection without an   *)
(* exception has not begun to close; one that has finished has no requests.*)
LinkInv ==
  \A c \in Conns :
    /\ link[c] \in {"flushing", "up"} => state[c]["client"] >= Active
    /\ exc[c] = "none" => state[c]["client"] <= Active
    /\ async[c] # {} => state[c]["client"] \in Active..Closed

OwnerInv == TypeOK /\ PlaceInv /\ CancelInv /\ QueueInv /\ LinkInv

-----------------------------------------------------------------------------
(* Sequences.                                                              *)

(* One more element. *)
LEMMA AppendIn ==
  ASSUME NEW S, NEW s \in Seq(S), NEW x \in S
  PROVE  /\ Append(s, x) \in Seq(S)
         /\ \A y : Contains(Append(s, x), y) <=> Contains(s, y) \/ y = x
         /\ Once(s) /\ ~Contains(s, x) => Once(Append(s, x))
<1> DEFINE t == Append(s, x)
<1>1. /\ t \in Seq(S) /\ Len(t) = Len(s) + 1 /\ Len(s) \in Nat
      /\ \A i \in 1..Len(s) : t[i] = s[i]
      /\ t[Len(s) + 1] = x
  BY AppendProperties
<1> HIDE DEF t
<1>2. \A i \in 1..Len(t) : i \in 1..Len(s) \/ i = Len(s) + 1
  BY <1>1
<1>3. \A y : Contains(t, y) <=> Contains(s, y) \/ y = x
  BY <1>1, <1>2 DEF Contains
<1>4. ASSUME Once(s), ~Contains(s, x)
      PROVE  Once(t)
  BY <1>1, <1>2, <1>4 DEF Once, Contains
<1> QED BY <1>1, <1>3, <1>4 DEF t

(* The first element goes. *)
LEMMA TailIn ==
  ASSUME NEW S, NEW s \in Seq(S), s # <<>>
  PROVE  /\ Tail(s) \in Seq(S) /\ Head(s) \in S /\ Contains(s, Head(s))
         /\ \A y : Contains(Tail(s), y) => Contains(s, y)
         /\ \A y : Contains(s, y) /\ y # Head(s) => Contains(Tail(s), y)
         /\ Once(s) => Once(Tail(s)) /\ ~Contains(Tail(s), Head(s))
<1> DEFINE t == Tail(s)
<1>1. /\ t \in Seq(S) /\ Len(t) = Len(s) - 1 /\ Len(s) \in Nat /\ Len(s) >= 1
      /\ \A i \in 1..Len(t) : t[i] = s[i + 1]
      /\ Head(s) = s[1] /\ Head(s) \in S
  BY HeadTailProperties, LenProperties, EmptySeq
<1> HIDE DEF t
<1>2. /\ \A i \in 1..Len(t) : i + 1 \in 1..Len(s)
      /\ \A i \in 1..Len(s) : i = 1 \/ (i - 1 \in 1..Len(t) /\ s[i] = t[i - 1])
  BY <1>1
<1>3. Contains(s, Head(s))
  BY <1>1 DEF Contains
<1>4. \A y : Contains(t, y) => Contains(s, y)
  BY <1>1, <1>2 DEF Contains
<1>5. \A y : Contains(s, y) /\ y # Head(s) => Contains(t, y)
  BY <1>1, <1>2 DEF Contains
<1>6. ASSUME Once(s)
      PROVE  Once(t) /\ ~Contains(t, Head(s))
  <2>1. Once(t)
    BY <1>1, <1>2, <1>6 DEF Once
  <2>2. ~Contains(t, Head(s))
    BY <1>1, <1>2, <1>6 DEF Once, Contains
  <2> QED BY <2>1, <2>2
<1> QED BY <1>1, <1>3, <1>4, <1>5, <1>6 DEF t

(* Any element goes. *)
LEMMA RemoveIn ==
  ASSUME NEW S, NEW s \in Seq(S), NEW p \in 1..Len(s)
  PROVE  /\ RemoveAt(s, p) \in Seq(S)
         /\ \A y : Contains(RemoveAt(s, p), y) => Contains(s, y)
         /\ \A y : Contains(s, y) /\ y # s[p] => Contains(RemoveAt(s, p), y)
         /\ Once(s) => Once(RemoveAt(s, p)) /\ ~Contains(RemoveAt(s, p), s[p])
<1> DEFINE a == SubSeq(s, 1, p - 1)
           b == SubSeq(s, p + 1, Len(s))
           t == RemoveAt(s, p)
<1>1. Len(s) \in Nat /\ p \in Nat /\ p >= 1 /\ p <= Len(s) /\ \A i \in 1..Len(s) : s[i] \in S
  BY LenProperties, ElementOfSeq
<1>2. /\ a \in Seq(S) /\ Len(a) = p - 1
      /\ \A i \in 1..(p - 1) : a[i] = s[i]
  <2>1. /\ a \in Seq(S) /\ Len(a) = IF 1 <= p - 1 THEN p - 1 - 1 + 1 ELSE 0
        /\ \A i \in 1..(p - 1 - 1 + 1) : a[i] = s[1 + i - 1]
    <3>1. 1 \in Int /\ p - 1 \in Int /\ \A i \in 1..(p - 1) : s[i] \in S
      BY <1>1
    <3> QED BY <3>1, SubSeqProperties
  <2> HIDE DEF a
  <2> QED BY <1>1, <2>1
<1>3. /\ b \in Seq(S) /\ Len(b) = Len(s) - p
      /\ \A i \in 1..(Len(s) - p) : b[i] = s[p + i]
  <2>1. /\ b \in Seq(S) /\ Len(b) = IF p + 1 <= Len(s) THEN Len(s) - (p + 1) + 1 ELSE 0
        /\ \A i \in 1..(Len(s) - (p + 1) + 1) : b[i] = s[p + 1 + i - 1]
    <3>1. p + 1 \in Int /\ Len(s) \in Int /\ \A i \in (p + 1)..Len(s) : s[i] \in S
      BY <1>1
    <3> QED BY <3>1, SubSeqProperties
  <2> HIDE DEF b
  <2> QED BY <1>1, <2>1
<1>4. /\ t \in Seq(S) /\ Len(t) = Len(a) + Len(b)
      /\ \A i \in 1..Len(a) + Len(b) : t[i] = IF i <= Len(a) THEN a[i] ELSE b[i - Len(a)]
  <2>1. t = a \o b
    BY DEF RemoveAt
  <2> HIDE DEF a, b, t
  <2> QED BY <1>2, <1>3, <2>1, ConcatProperties
<1> HIDE DEF a, b, t
<1>5. /\ Len(t) = Len(s) - 1
      /\ \A i \in 1..Len(t) : t[i] = IF i < p THEN s[i] ELSE s[i + 1]
  <2>1. Len(t) = Len(s) - 1 /\ Len(a) + Len(b) = Len(t)
    BY <1>1, <1>2, <1>3, <1>4
  <2>2. ASSUME NEW i \in 1..Len(t), i < p
        PROVE  t[i] = s[i]
    <3>1. i \in 1..(p - 1) /\ i <= Len(a)
      BY <1>1, <1>2, <2>1, <2>2
    <3> QED BY <1>2, <1>4, <2>1, <3>1
  <2>3. ASSUME NEW i \in 1..Len(t), ~(i < p)
        PROVE  t[i] = s[i + 1]
    <3>1. /\ ~(i <= Len(a)) /\ i - Len(a) \in 1..(Len(s) - p)
          /\ p + (i - Len(a)) = i + 1
      BY <1>1, <1>2, <2>1, <2>3
    <3>2. t[i] = b[i - Len(a)]
      BY <1>4, <2>1, <3>1
    <3> QED BY <1>3, <3>1, <3>2
  <2> QED BY <2>1, <2>2, <2>3
<1>6. \A y : Contains(t, y) => Contains(s, y)
  BY <1>1, <1>5 DEF Contains
<1>7. ASSUME NEW y, Contains(s, y), y # s[p]
      PROVE  Contains(t, y)
  <2>1. PICK i \in 1..Len(s) : s[i] = y
    BY <1>7 DEF Contains
  <2>2. CASE i < p
    <3>1. i \in 1..Len(t) /\ t[i] = y
      BY <1>1, <1>5, <2>1, <2>2
    <3> QED BY <3>1 DEF Contains
  <2>3. CASE i > p
    <3>1. i - 1 \in 1..Len(t) /\ t[i - 1] = y
      BY <1>1, <1>5, <2>1, <2>3
    <3> QED BY <3>1 DEF Contains
  <2> QED BY <1>1, <1>7, <2>1, <2>2, <2>3
<1>8. ASSUME Once(s)
      PROVE  Once(t) /\ ~Contains(t, s[p])
  <2> DEFINE at(i) == IF i < p THEN i ELSE i + 1
  <2>1. /\ \A i \in 1..Len(t) : at(i) \in 1..Len(s) /\ at(i) # p /\ t[i] = s[at(i)]
        /\ \A i, j \in 1..Len(t) : at(i) = at(j) => i = j
    BY <1>1, <1>5
  <2> HIDE DEF at
  <2>2. Once(t)
    BY <1>8, <2>1 DEF Once
  <2>3. ~Contains(t, s[p])
    BY <1>8, <2>1 DEF Once, Contains
  <2> QED BY <2>2, <2>3
<1> QED BY <1>4, <1>6, <1>7, <1>8 DEF t
(* A prefix, and what follows it. *)
LEMMA SplitIn ==
  ASSUME NEW S, NEW s \in Seq(S), NEW n \in 0..Len(s)
  PROVE  /\ SubSeq(s, 1, n) \in Seq(S) /\ SubSeq(s, n + 1, Len(s)) \in Seq(S)
         /\ Len(SubSeq(s, 1, n)) = n /\ Len(SubSeq(s, n + 1, Len(s))) = Len(s) - n
         /\ \A i \in 1..n : SubSeq(s, 1, n)[i] = s[i]
         /\ \A i \in 1..(Len(s) - n) : SubSeq(s, n + 1, Len(s))[i] = s[n + i]
<1> DEFINE a == SubSeq(s, 1, n)
           b == SubSeq(s, n + 1, Len(s))
<1>1. Len(s) \in Nat /\ n \in Nat /\ n <= Len(s) /\ \A i \in 1..Len(s) : s[i] \in S
  BY LenProperties, ElementOfSeq
<1>2. /\ a \in Seq(S) /\ Len(a) = IF 1 <= n THEN n - 1 + 1 ELSE 0
      /\ \A i \in 1..(n - 1 + 1) : a[i] = s[1 + i - 1]
  <2>1. 1 \in Int /\ n \in Int /\ \A i \in 1..n : s[i] \in S
    BY <1>1
  <2> QED BY <2>1, SubSeqProperties
<1>3. /\ b \in Seq(S) /\ Len(b) = IF n + 1 <= Len(s) THEN Len(s) - (n + 1) + 1 ELSE 0
      /\ \A i \in 1..(Len(s) - (n + 1) + 1) : b[i] = s[n + 1 + i - 1]
  <2>1. n + 1 \in Int /\ Len(s) \in Int /\ \A i \in (n + 1)..Len(s) : s[i] \in S
    BY <1>1
  <2> QED BY <2>1, SubSeqProperties
<1> HIDE DEF a, b
<1>4. Len(a) = n /\ \A i \in 1..n : a[i] = s[i]
  BY <1>1, <1>2
<1>5. Len(b) = Len(s) - n /\ \A i \in 1..(Len(s) - n) : b[i] = s[n + i]
  BY <1>1, <1>3
<1> QED BY <1>2, <1>3, <1>4, <1>5 DEF a, b

-----------------------------------------------------------------------------
(* The types, variable by variable.                                        *)

CallTypes ==
  /\ scenario \in Scenarios
  /\ phase \in [Calls -> Phases]
  /\ handler \in [Calls -> Conns \cup {None}]
  /\ sent \in [Calls -> BOOLEAN]
  /\ cnt \in [Calls -> 0..Len(scenario.intervals) + 1]
  /\ canceler \in [Calls -> CancelHandlers]
  /\ cancel \in [Calls -> {NotCanceled, Stored, Returned} \cup CancelHandlers]
  /\ running = NoTask \/ running \in [call : Calls, task : Nat, listed : BOOLEAN]
  /\ tasks \in [Calls -> Nat]

ProxyTypes ==
  /\ rh \in Conns \cup {None} /\ factory \in Conns \cup {None}
  /\ link \in [Conns -> {"unused", "connecting", "flushing", "up", "failed"}]
  /\ flushFailed \in [Conns -> BOOLEAN]
  /\ connq \in [Conns -> Seq(Calls)]

EndTypes ==
  /\ state \in [Conns -> [Ends -> NotUp..Finished]]
  /\ exc \in [Conns -> Exceptions]
  /\ async \in [Conns -> SUBSET Calls] /\ ran \in [Conns -> SUBSET Calls]
  /\ disp \in [Conns -> [Ends -> SUBSET Calls]]
  /\ shut \in [Conns -> [Ends -> BOOLEAN]]
  /\ broken \in [Conns -> BOOLEAN]

Stream(f) == f \in Streams /\ \A c \in Conns, e \in Ends : f[c][e] \in Seq(MessagesOf(e))

(* g is like f, but v for end e of c. *)
At(g, f, c, e, v) ==
  \A d \in Conns, h \in Ends : g[d][h] = IF d = c /\ h = e THEN v ELSE f[d][h]

(* Types are those of the calls, of the proxy, of the ends, of the streams. *)
LEMMA Types ==
  /\ TypeOK <=> CallTypes /\ ProxyTypes /\ EndTypes /\ Stream(out) /\ Stream(wire)
  /\ CallTypes' /\ ProxyTypes' /\ EndTypes' /\ Stream(out') /\ Stream(wire') => TypeOK'
<1>1. TypeOK <=> CallTypes /\ ProxyTypes /\ EndTypes /\ Stream(out) /\ Stream(wire)
  BY DEF TypeOK, CallTypes, ProxyTypes, EndTypes, Stream
<1>2. CallTypes' /\ ProxyTypes' /\ EndTypes' /\ Stream(out') /\ Stream(wire') => TypeOK'
  BY DEF TypeOK, CallTypes, ProxyTypes, EndTypes, Stream
<1> QED BY <1>1, <1>2

(* An end's stream is replaced. *)
LEMMA StreamExcept ==
  ASSUME NEW f, Stream(f), NEW c \in Conns, NEW e \in Ends, NEW s \in Seq(MessagesOf(e))
  PROVE  /\ Stream([f EXCEPT ![c][e] = s])
         /\ At([f EXCEPT ![c][e] = s], f, c, e, s)
<1> DEFINE M == UNION {MessagesOf(h) : h \in Ends}
           g == [f EXCEPT ![c][e] = s]
<1>1. f \in [Conns -> [Ends -> Seq(M)]]
  BY DEF Stream, Streams
<1>2. MessagesOf(e) \subseteq M
  OBVIOUS
<1> HIDE DEF M
<1>3. s \in Seq(M)
  BY <1>2, SeqMonotonic
<1>4. g \in [Conns -> [Ends -> Seq(M)]]
  BY <1>1, <1>3
<1>5. \A d \in Conns, h \in Ends : g[d][h] = IF d = c /\ h = e THEN s ELSE f[d][h]
  BY <1>1
<1> HIDE DEF g
<1>6. \A d \in Conns, h \in Ends : g[d][h] \in Seq(MessagesOf(h))
  BY <1>5 DEF Stream
<1>7. Stream(g)
  BY <1>4, <1>6 DEF Stream, Streams, M
<1> QED BY <1>5, <1>7 DEF g, At

(* A function of the ends is changed at one. *)
LEMMA EndExcept ==
  ASSUME NEW T, NEW f \in [Conns -> [Ends -> T]], NEW c \in Conns, NEW e \in Ends, NEW v \in T
  PROVE  /\ [f EXCEPT ![c][e] = v] \in [Conns -> [Ends -> T]]
         /\ At([f EXCEPT ![c][e] = v], f, c, e, v)
BY DEF At

-----------------------------------------------------------------------------
(* Steps.                                                                  *)

(* The place of a call does not change. *)
Stays(k) ==
  /\ phase'[k] = phase[k] /\ handler'[k] = handler[k]
  /\ \A c \in Conns : /\ k \in async'[c] <=> k \in async[c]
                      /\ Contains(connq'[c], k) <=> Contains(connq[c], k)

(* Every call stays, or is put in a place. *)
LEMMA PlaceStep ==
  ASSUME PlaceInv, \A k \in Calls : Stays(k) \/ (Free(k) \/ Held(k) \/ Queued(k))'
  PROVE  PlaceInv'
<1> SUFFICES ASSUME NEW k \in Calls, Stays(k)
             PROVE  (Free(k) \/ Held(k) \/ Queued(k))'
  BY DEF PlaceInv
<1>1. CASE Free(k)
  BY <1>1 DEF Free, Stays
<1>2. CASE Held(k)
  BY <1>2 DEF Held, Stays
<1>3. CASE Queued(k)
  BY <1>3 DEF Queued, Stays
<1> QED BY <1>1, <1>2, <1>3 DEF PlaceInv

(* Nobody asks a handler that connects for a call it does not have. *)
LEMMA CancelStep ==
  ASSUME CancelInv,
         \A k \in Calls, c \in Conns :
           Asks(k, c)' =>
             \/ link'[c] \notin {"unused", "connecting"}
             \/ link'[c] # "unused" /\ phase'[k] = "queued" /\ handler'[k] = c
             \/ /\ Asks(k, c) /\ phase'[k] = phase[k] /\ handler'[k] = handler[k]
                /\ link[c] # "unused" => link'[c] = link[c]
  PROVE  CancelInv'
BY DEF CancelInv

(* A connection goes on closing, if it does anything. *)
LEMMA LinkStep ==
  ASSUME TypeOK, LinkInv,
         \A c \in Conns : link'[c] \in {"flushing", "up"} => link[c] \in {"flushing", "up"},
         \A c \in Conns : async'[c] # {} => async[c] # {},
         \A c \in Conns :
           \/ state'[c]["client"] = state[c]["client"] /\ exc'[c] = exc[c]
           \/ /\ state[c]["client"] >= Active /\ state'[c]["client"] \in Active..Closed
              /\ exc'[c] # "none"
  PROVE  LinkInv'
<1>1. \A c \in Conns : state[c]["client"] \in NotUp..Finished
  BY DEF TypeOK, Ends
<1>2. SUFFICES ASSUME NEW c \in Conns
               PROVE  /\ link'[c] \in {"flushing", "up"} => state'[c]["client"] >= Active
                      /\ exc'[c] = "none" => state'[c]["client"] <= Active
                      /\ async'[c] # {} => state'[c]["client"] \in Active..Closed
  BY DEF LinkInv
<1>3. CASE state'[c]["client"] = state[c]["client"] /\ exc'[c] = exc[c]
  BY <1>3 DEF LinkInv
<1>4. CASE state'[c]["client"] \in Active..Closed /\ exc'[c] # "none"
  BY <1>4 DEF Active, Closed
<1> QED BY <1>3, <1>4

(* A step that leaves every call where it is, and the handlers alone. *)
LEMMA QuietStep ==
  ASSUME OwnerInv, TypeOK', LinkInv',
         UNCHANGED <<phase, handler, canceler, cancel, link, async, connq>>
  PROVE  OwnerInv'
<1>1. PlaceInv'
  BY PlaceStep DEF OwnerInv, Stays
<1>2. CancelInv'
  BY CancelStep DEF OwnerInv, Asks
<1>3. QueueInv'
  BY DEF OwnerInv, QueueInv
<1> QED BY <1>1, <1>2, <1>3 DEF OwnerInv
-----------------------------------------------------------------------------
(* The ends of a connection.                                               *)

(* What is written without blocking, and what waits. *)
LEMMA WriteFacts ==
  ASSUME Stream(out), Stream(wire), NEW c \in Conns, NEW e \in Ends,
         NEW ms \in Seq(MessagesOf(e)), NEW n \in 0..Len(ms), Write(c, e, ms, n)
  PROVE  /\ Stream(out') /\ Stream(wire')
         /\ At(wire', wire, c, e, wire[c][e] \o SubSeq(ms, 1, n))
         /\ At(out', out, c, e, out[c][e] \o SubSeq(ms, n + 1, Len(ms)))
<1>1. SubSeq(ms, 1, n) \in Seq(MessagesOf(e)) /\ SubSeq(ms, n + 1, Len(ms)) \in Seq(MessagesOf(e))
  BY SplitIn
<1>2. /\ wire[c][e] \o SubSeq(ms, 1, n) \in Seq(MessagesOf(e))
      /\ out[c][e] \o SubSeq(ms, n + 1, Len(ms)) \in Seq(MessagesOf(e))
  <2>1. wire[c][e] \in Seq(MessagesOf(e)) /\ out[c][e] \in Seq(MessagesOf(e))
    BY DEF Stream
  <2> QED BY <1>1, <2>1, ConcatProperties
<1> DEFINE w == wire[c][e] \o SubSeq(ms, 1, n)
           o == out[c][e] \o SubSeq(ms, n + 1, Len(ms))
<1>3. wire' = [wire EXCEPT ![c][e] = w] /\ out' = [out EXCEPT ![c][e] = o]
  BY DEF Write
<1> HIDE DEF w, o
<1>4. w \in Seq(MessagesOf(e)) /\ o \in Seq(MessagesOf(e))
  BY <1>2 DEF w, o
<1>5. /\ Stream(out') /\ Stream(wire') /\ At(wire', wire, c, e, w) /\ At(out', out, c, e, o)
  BY <1>3, <1>4, StreamExcept
<1> QED BY <1>5 DEF w, o

(* A failed write may leave a part of the messages on the wire. *)
LEMMA WriteFailsFacts ==
  ASSUME Stream(out), Stream(wire), NEW c \in Conns, NEW e \in Ends,
         NEW ms \in Seq(MessagesOf(e)), NEW n \in 0..Len(ms), WriteFails(c, e, ms, n)
  PROVE  /\ Stream(out') /\ Stream(wire')
         /\ At(wire', wire, c, e, wire[c][e] \o SubSeq(ms, 1, n))
         /\ out' = out /\ out[c][e] = <<>> /\ n < Len(ms)
<1>1. SubSeq(ms, 1, n) \in Seq(MessagesOf(e))
  BY SplitIn
<1>2. wire[c][e] \o SubSeq(ms, 1, n) \in Seq(MessagesOf(e))
  <2>1. wire[c][e] \in Seq(MessagesOf(e))
    BY DEF Stream
  <2> QED BY <1>1, <2>1, ConcatProperties
<1> DEFINE w == wire[c][e] \o SubSeq(ms, 1, n)
<1>3. wire' = [wire EXCEPT ![c][e] = w] /\ out' = out
  BY DEF WriteFails
<1>4. w \in Seq(MessagesOf(e))
  BY <1>2
<1> HIDE DEF w
<1>5. Stream(wire') /\ At(wire', wire, c, e, w)
  BY <1>3, <1>4, StreamExcept
<1> QED BY <1>3, <1>5 DEF WriteFails, w

(* The end has sent its messages, or failed to. *)
LEMMA SendAllFacts ==
  ASSUME TypeOK, NEW c \in Conns, NEW e \in Ends, NEW ms \in Seq(MessagesOf(e)),
         NEW st \in NotUp..Finished, SendAll(c, e, ms, st)
  PROVE  /\ Stream(out') /\ Stream(wire') /\ state' \in [Conns -> [Ends -> NotUp..Finished]]
         /\ \E v : /\ At(state', state, c, e, v)
                   /\ v = st \/ (ms # <<>> /\ v \in {ClosingPending, Closed})
                   /\ v = ClosingPending => v = st \/ Contains(ms, Close)
<1>1. Stream(out) /\ Stream(wire) /\ state \in [Conns -> [Ends -> NotUp..Finished]]
  BY Types DEF EndTypes
<1>2. \A v \in NotUp..Finished : LET f == [state EXCEPT ![c][e] = v]
                                 IN  f \in [Conns -> [Ends -> NotUp..Finished]] /\ At(f, state, c, e, v)
  BY <1>1 DEF At
<1>3. ClosingPending \in NotUp..Finished /\ Closed \in NotUp..Finished /\ ClosingPending # Closed
  BY DEF ClosingPending, Closed, NotUp, Finished
<1>4. ms = <<>> => Len(ms) = 0 /\ ~Contains(ms, Close)
  BY DEF Contains
<1>5. ASSUME NEW n \in 0..Len(ms), Write(c, e, ms, n),
             state' = [state EXCEPT ![c][e] =
                         IF Contains(ms, Close) /\ n = Len(ms) THEN ClosingPending ELSE st]
      PROVE  /\ Stream(out') /\ Stream(wire') /\ state' \in [Conns -> [Ends -> NotUp..Finished]]
             /\ \E v : /\ At(state', state, c, e, v)
                       /\ v = st \/ (ms # <<>> /\ v \in {ClosingPending, Closed})
                       /\ v = ClosingPending => v = st \/ Contains(ms, Close)
  <2>1. Stream(out') /\ Stream(wire')
    BY <1>1, <1>5, WriteFacts
  <2>2. CASE Contains(ms, Close) /\ n = Len(ms)
    <3>1. state' = [state EXCEPT ![c][e] = ClosingPending]
      BY <1>5, <2>2
    <3> QED BY <1>2, <1>3, <1>4, <2>1, <2>2, <3>1
  <2>3. CASE ~(Contains(ms, Close) /\ n = Len(ms))
    <3>1. state' = [state EXCEPT ![c][e] = st]
      BY <1>5, <2>3
    <3> QED BY <1>2, <2>1, <3>1
  <2> QED BY <2>2, <2>3
<1>6. ASSUME NEW n \in 0..Len(ms), WriteFails(c, e, ms, n), state' = [state EXCEPT ![c][e] = Closed]
      PROVE  /\ Stream(out') /\ Stream(wire') /\ state' \in [Conns -> [Ends -> NotUp..Finished]]
             /\ \E v : /\ At(state', state, c, e, v)
                       /\ v = st \/ (ms # <<>> /\ v \in {ClosingPending, Closed})
                       /\ v = ClosingPending => v = st \/ Contains(ms, Close)
  <2>1. Stream(out') /\ Stream(wire') /\ n < Len(ms)
    BY <1>1, <1>6, WriteFailsFacts
  <2>2. ms # <<>>
    BY <1>4, <2>1
  <2> QED BY <1>2, <1>3, <1>6, <2>1, <2>2
<1> QED BY <1>5, <1>6 DEF SendAll

(* The close message that an end may send. *)
LEMMA ShutdownFacts ==
  ASSUME NEW c \in Conns, NEW e \in Ends, NEW st, NEW count
  PROVE  /\ ShutdownMessage(c, e, st, count) \in {<<>>, <<Close>>}
         /\ ShutdownMessage(c, e, st, count) \in Seq(MessagesOf(e))
         /\ ShutdownMessage(c, e, st, count) # <<>> => st = Closing /\ count = {}
<1>1. Close \in MessagesOf(e)
  BY DEF MessagesOf
<1>2. <<>> \in Seq(MessagesOf(e)) /\ <<Close>> \in Seq(MessagesOf(e))
  BY <1>1
<1> QED BY <1>2 DEF ShutdownMessage, MayShutdown

(* setState() keeps the first exception. *)
LEMMA ExceptionFacts ==
  ASSUME TypeOK, NEW c \in Conns, NEW e \in Ends, NEW ex \in Exceptions, SetException(c, e, ex)
  PROVE  /\ exc' \in [Conns -> Exceptions]
         /\ \A d \in Conns : d # c \/ e = "server" => exc'[d] = exc[d]
         /\ e = "client" => exc'[c] = IF exc[c] = "none" THEN ex ELSE exc[c]
         /\ exc[c] # "none" => exc'[c] = exc[c]
BY DEF SetException, TypeOK, Ends

(* A graceful closure begins. *)
LEMMA GracefulCloseStep ==
  ASSUME OwnerInv, NEW c \in Conns, NEW e \in Ends, NEW ex \in Exceptions \ {"none"},
         GracefulClose(c, e, ex), UNCHANGED scenario
  PROVE  OwnerInv'
<1> DEFINE ms == ShutdownMessage(c, e, Closing, disp[c][e])
<1>1. /\ state[c][e] = Active
      /\ SendAll(c, e, ms, Closing) /\ SetException(c, e, ex)
      /\ shut' = [shut EXCEPT ![c][e] = MayShutdown(Closing, disp[c][e])]
      /\ UNCHANGED <<callVars, running, proxyVars, async, disp, broken, ran>>
  BY DEF GracefulClose
<1>2. ms \in Seq(MessagesOf(e)) /\ Closing \in NotUp..Finished
  BY ShutdownFacts DEF Closing, NotUp, Finished
<1>3. TypeOK
  BY DEF OwnerInv
<1> HIDE DEF ms
<1>4. /\ Stream(out') /\ Stream(wire') /\ state' \in [Conns -> [Ends -> NotUp..Finished]]
      /\ \E v : At(state', state, c, e, v) /\ v \in {Closing, ClosingPending, Closed}
  BY <1>1, <1>2, <1>3, SendAllFacts
<1>5. PICK v : At(state', state, c, e, v) /\ v \in {Closing, ClosingPending, Closed}
  BY <1>4
<1>6. /\ exc' \in [Conns -> Exceptions]
      /\ \A d \in Conns : d # c \/ e = "server" => exc'[d] = exc[d]
      /\ e = "client" => exc'[c] # "none"
  BY <1>1, <1>3, ExceptionFacts
<1>7. TypeOK'
  <2>1. shut' \in [Conns -> [Ends -> BOOLEAN]]
    <3>1. shut \in [Conns -> [Ends -> BOOLEAN]] /\ MayShutdown(Closing, disp[c][e]) \in BOOLEAN
      BY <1>3, Types DEF EndTypes, MayShutdown
    <3> QED BY <1>1, <3>1
  <2>2. CallTypes' /\ ProxyTypes'
    BY <1>1, <1>3, Types DEF CallTypes, ProxyTypes, callVars, proxyVars
  <2>3. EndTypes'
    BY <1>1, <1>3, <1>4, <1>6, <2>1, Types DEF EndTypes
  <2> QED BY <1>4, <2>2, <2>3, Types
<1>8. LinkInv'
  <2>1. \A d \in Conns :
           \/ state'[d]["client"] = state[d]["client"] /\ exc'[d] = exc[d]
           \/ /\ state[d]["client"] >= Active /\ state'[d]["client"] \in Active..Closed
              /\ exc'[d] # "none"
    <3>1. \A x \in {Closing, ClosingPending, Closed} : x \in Active..Closed
      BY DEF Active, Closing, ClosingPending, Closed
    <3>2. Active >= Active
      BY DEF Active
    <3>3. "client" \in Ends /\ Ends = {"client", "server"}
      BY DEF Ends
    <3> QED BY <1>1, <1>5, <1>6, <3>1, <3>2, <3>3 DEF At
  <2> QED BY <1>1, <1>3, <2>1, LinkStep DEF OwnerInv, proxyVars
<1> QED BY <1>1, <1>7, <1>8, QuietStep DEF callVars, proxyVars
(* The connection is closed at an end, which may have written or read      *)
(* something before.                                                       *)
LEMMA CloseWithStep ==
  ASSUME OwnerInv, NEW c \in Conns, NEW e \in Ends, NEW ex \in Exceptions \ {"none"},
         state[c][e] \in Active..ClosingPending, CloseWith(c, e, ex), Stream(wire'),
         UNCHANGED <<scenario, callVars, running, proxyVars, out, async, disp, shut, broken, ran>>
  PROVE  OwnerInv'
<1>1. state' = [state EXCEPT ![c][e] = Closed] /\ SetException(c, e, ex)
  BY DEF CloseWith
<1>2. TypeOK
  BY DEF OwnerInv
<1>3. /\ exc' \in [Conns -> Exceptions]
      /\ \A d \in Conns : d # c \/ e = "server" => exc'[d] = exc[d]
      /\ e = "client" => exc'[c] # "none"
  BY <1>1, <1>2, ExceptionFacts
<1>4. state' \in [Conns -> [Ends -> NotUp..Finished]] /\ At(state', state, c, e, Closed)
  <2>1. state \in [Conns -> [Ends -> NotUp..Finished]] /\ Closed \in NotUp..Finished
    BY <1>2, Types DEF EndTypes, Closed, NotUp, Finished
  <2> QED BY <1>1, <2>1, EndExcept
<1>5. TypeOK'
  <2>1. CallTypes' /\ ProxyTypes'
    BY <1>2, Types DEF CallTypes, ProxyTypes, callVars, proxyVars
  <2>2. EndTypes' /\ Stream(out')
    BY <1>2, <1>3, <1>4, Types DEF EndTypes
  <2> QED BY <2>1, <2>2, Types
<1>6. LinkInv'
  <2>1. \A d \in Conns :
           \/ state'[d]["client"] = state[d]["client"] /\ exc'[d] = exc[d]
           \/ /\ state[d]["client"] >= Active /\ state'[d]["client"] \in Active..Closed
              /\ exc'[d] # "none"
    <3>1. Closed \in Active..Closed
      BY DEF Active, Closed
    <3>2. state[c][e] >= Active
      BY DEF Active, ClosingPending
    <3>3. "client" \in Ends /\ Ends = {"client", "server"}
      BY DEF Ends
    <3> QED BY <1>3, <1>4, <3>1, <3>2, <3>3 DEF At
  <2> QED BY <1>2, <2>1, LinkStep DEF OwnerInv, proxyVars
<1> QED BY <1>5, <1>6, QuietStep DEF callVars, proxyVars

(* The head of a stream is read. *)
LEMMA ReceiveFacts ==
  ASSUME TypeOK, NEW c \in Conns, NEW e \in Ends, NEW m, Receive(c, e, m)
  PROVE  /\ Peer(e) \in Ends /\ Peer(e) # e
         /\ wire[c][Peer(e)] \in Seq(MessagesOf(Peer(e))) /\ wire[c][Peer(e)] # <<>>
         /\ m = Head(wire[c][Peer(e)])
         /\ state[c][e] \in Active..ClosingPending
         /\ Stream(wire') /\ At(wire', wire, c, Peer(e), Tail(wire[c][Peer(e)]))
<1>1. Peer(e) \in Ends /\ Peer(e) # e
  BY DEF Peer, Ends
<1>2. wire[c][Peer(e)] # <<>> /\ wire' = [wire EXCEPT ![c][Peer(e)] = Tail(wire[c][Peer(e)])]
  BY DEF Receive
<1>3. Stream(wire) /\ wire[c][Peer(e)] \in Seq(MessagesOf(Peer(e)))
  BY <1>1, Types DEF Stream
<1>4. Tail(wire[c][Peer(e)]) \in Seq(MessagesOf(Peer(e)))
  BY <1>2, <1>3, TailIn
<1>5. Stream(wire') /\ At(wire', wire, c, Peer(e), Tail(wire[c][Peer(e)]))
  BY <1>1, <1>2, <1>3, <1>4, StreamExcept
<1> QED BY <1>1, <1>2, <1>3, <1>5 DEF Receive

(* The messages read before the connection was found broken. *)
LEMMA ReadLostFacts ==
  ASSUME TypeOK, NEW c \in Conns, NEW e \in Ends, ReadLost(c, e)
  PROVE  /\ Stream(wire')
         /\ \/ wire' = wire
            \/ /\ BothReady /\ out[c][e] # <<>>
               /\ At(wire', wire, c, e, Append(wire[c][e], Head(out[c][e])))
<1>1. Stream(wire) /\ out[c][e] \in Seq(MessagesOf(e)) /\ wire[c][e] \in Seq(MessagesOf(e))
  BY Types DEF Stream
<1>2. CASE wire' = wire
  BY <1>1, <1>2
<1>3. ASSUME BothReady, out[c][e] # <<>>,
             wire' = [wire EXCEPT ![c][e] = Append(@, Head(out[c][e]))]
      PROVE  Stream(wire') /\ At(wire', wire, c, e, Append(wire[c][e], Head(out[c][e])))
  <2> DEFINE w == Append(wire[c][e], Head(out[c][e]))
  <2>1. Head(out[c][e]) \in MessagesOf(e)
    BY <1>1, <1>3, TailIn
  <2>2. w \in Seq(MessagesOf(e))
    BY <1>1, <2>1, AppendIn
  <2>3. wire' = [wire EXCEPT ![c][e] = w]
    BY <1>3
  <2> HIDE DEF w
  <2>4. Stream(wire') /\ At(wire', wire, c, e, w)
    BY <1>1, <2>2, <2>3, StreamExcept
  <2> QED BY <2>4 DEF w
<1> QED BY <1>2, <1>3 DEF ReadLost

(* A closure, a fault, or the end of one of the two directions. *)
LEMMA ClosureStep ==
  ASSUME OwnerInv, NEW c \in Conns, NEW e \in Ends, UNCHANGED scenario,
         Fault(c, e) \/ WriteLost(c, e) \/ ReadLost(c, e) \/ ReceiveClose(c, e)
  PROVE  OwnerInv'
<1>1. {"manual", "timeout", "lost", "closeConnection"} \subseteq Exceptions \ {"none"}
  BY DEF Exceptions
<1>2. TypeOK /\ Stream(wire)
  BY Types DEF OwnerInv
<1>3. CASE CloseGracefully(c, e)
  BY <1>1, <1>3, GracefulCloseStep DEF CloseGracefully
<1>4. CASE CloseIdle(c, e)
  BY <1>1, <1>4, GracefulCloseStep DEF CloseIdle
<1>5. CASE CloseForcefully(c, e)
  <2>1. Stream(wire')
    BY <1>2, <1>5 DEF CloseForcefully, netVars
  <2> QED BY <1>1, <1>5, <2>1, CloseWithStep DEF CloseForcefully, netVars
<1>6. CASE TimedOut(c, e)
  <2>1. Stream(wire')
    BY <1>2, <1>6 DEF TimedOut, netVars
  <2> QED BY <1>1, <1>6, <2>1, CloseWithStep DEF TimedOut, netVars
<1>7. CASE WriteLost(c, e)
  <2>1. Stream(wire')
    BY <1>2, <1>7 DEF WriteLost, netVars
  <2> QED BY <1>1, <1>7, <2>1, CloseWithStep DEF WriteLost, netVars
<1>8. CASE ReadLost(c, e)
  <2>1. Stream(wire')
    BY <1>2, <1>8, ReadLostFacts
  <2> QED BY <1>1, <1>8, <2>1, CloseWithStep DEF ReadLost
<1>9. CASE ReceiveClose(c, e)
  <2>1. Stream(wire') /\ state[c][e] \in Active..ClosingPending
    BY <1>2, <1>9, ReceiveFacts DEF ReceiveClose
  <2> QED BY <1>1, <1>9, <2>1, CloseWithStep DEF ReceiveClose
<1> QED BY <1>3, <1>4, <1>5, <1>6, <1>7, <1>8, <1>9 DEF Fault
(* The head of the stream is written, and what does not block after it. *)
LEMMA WriteReadyFacts ==
  ASSUME TypeOK, NEW c \in Conns, NEW e \in Ends, WriteReady(c, e)
  PROVE  \E n \in 1..Len(out[c][e]) :
           /\ At(wire', wire, c, e, wire[c][e] \o SubSeq(out[c][e], 1, n)) /\ Stream(wire')
           /\ At(out', out, c, e, SubSeq(out[c][e], n + 1, Len(out[c][e]))) /\ Stream(out')
           /\ IF e = "client" THEN MarkSent(SentRequests(c, SubSeq(out[c][e], 1, n)))
              ELSE UNCHANGED sent
           /\ state' = [state EXCEPT ![c][e] =
                          IF n = Len(out[c][e]) /\ @ = Closing /\ shut[c][e]
                          THEN ClosingPending ELSE @]
<1>1. /\ Stream(out) /\ Stream(wire)
      /\ out[c][e] \in Seq(MessagesOf(e)) /\ wire[c][e] \in Seq(MessagesOf(e))
  BY Types DEF Stream
<1>2. PICK n \in 1..Len(out[c][e]) :
        /\ wire' = [wire EXCEPT ![c][e] = @ \o SubSeq(out[c][e], 1, n)]
        /\ out' = [out EXCEPT ![c][e] = SubSeq(@, n + 1, Len(@))]
        /\ IF e = "client" THEN MarkSent(SentRequests(c, SubSeq(out[c][e], 1, n)))
           ELSE UNCHANGED sent
        /\ state' = [state EXCEPT ![c][e] =
                       IF n = Len(out[c][e]) /\ @ = Closing /\ shut[c][e]
                       THEN ClosingPending ELSE @]
  BY DEF WriteReady
<1> DEFINE w == wire[c][e] \o SubSeq(out[c][e], 1, n)
           o == SubSeq(out[c][e], n + 1, Len(out[c][e]))
<1>3. n \in 0..Len(out[c][e])
  BY <1>1, LenProperties
<1>4. w \in Seq(MessagesOf(e)) /\ o \in Seq(MessagesOf(e))
  <2>1. SubSeq(out[c][e], 1, n) \in Seq(MessagesOf(e)) /\ o \in Seq(MessagesOf(e))
    BY <1>1, <1>3, SplitIn
  <2> QED BY <1>1, <2>1, ConcatProperties
<1>5. wire' = [wire EXCEPT ![c][e] = w] /\ out' = [out EXCEPT ![c][e] = o]
  BY <1>2
<1> HIDE DEF w, o
<1>6. /\ Stream(wire') /\ At(wire', wire, c, e, w) /\ Stream(out') /\ At(out', out, c, e, o)
  BY <1>1, <1>4, <1>5, StreamExcept
<1> QED BY <1>2, <1>6 DEF w, o

(* A write goes on. *)
LEMMA WriteReadyStep ==
  ASSUME OwnerInv, NEW c \in Conns, NEW e \in Ends, WriteReady(c, e), UNCHANGED scenario
  PROVE  OwnerInv'
<1>1. TypeOK /\ CallTypes /\ ProxyTypes /\ EndTypes
  BY Types DEF OwnerInv
<1>2. PICK n \in 1..Len(out[c][e]) :
        /\ Stream(wire') /\ Stream(out')
        /\ IF e = "client" THEN MarkSent(SentRequests(c, SubSeq(out[c][e], 1, n)))
           ELSE UNCHANGED sent
        /\ state' = [state EXCEPT ![c][e] =
                       IF n = Len(out[c][e]) /\ @ = Closing /\ shut[c][e]
                       THEN ClosingPending ELSE @]
  BY <1>1, WriteReadyFacts
<1>3. UNCHANGED <<phase, handler, cnt, canceler, cancel, tasks, running, proxyVars,
                  exc, async, disp, shut, broken, ran>>
  BY DEF WriteReady
<1>4. PICK v : /\ state' = [state EXCEPT ![c][e] = v] /\ v \in NotUp..Finished
               /\ v = state[c][e] \/ (state[c][e] = Closing /\ v = ClosingPending)
  <2>1. state[c][e] \in NotUp..Finished /\ ClosingPending \in NotUp..Finished
    BY <1>1 DEF EndTypes, ClosingPending, NotUp, Finished
  <2>2. CASE n = Len(out[c][e]) /\ state[c][e] = Closing /\ shut[c][e]
    <3>1. state' = [state EXCEPT ![c][e] = ClosingPending]
      BY <1>2, <2>2
    <3> QED BY <2>1, <2>2, <3>1
  <2>3. CASE ~(n = Len(out[c][e]) /\ state[c][e] = Closing /\ shut[c][e])
    <3>1. state' = [state EXCEPT ![c][e] = state[c][e]]
      BY <1>2, <2>3
    <3> QED BY <2>1, <3>1
  <2> QED BY <2>2, <2>3
<1>5. state' \in [Conns -> [Ends -> NotUp..Finished]] /\ At(state', state, c, e, v)
  BY <1>1, <1>4, EndExcept DEF EndTypes
<1>6. sent' \in [Calls -> BOOLEAN]
  BY <1>1, <1>2 DEF CallTypes, MarkSent
<1>7. TypeOK'
  <2>1. CallTypes' /\ ProxyTypes'
    BY <1>1, <1>3, <1>6 DEF CallTypes, ProxyTypes, proxyVars
  <2>2. EndTypes'
    BY <1>1, <1>3, <1>5 DEF EndTypes
  <2> QED BY <1>2, <2>1, <2>2, Types
<1>8. LinkInv'
  <2>1. ASSUME NEW d \in Conns
        PROVE  \/ state'[d]["client"] = state[d]["client"] /\ exc'[d] = exc[d]
               \/ /\ state[d]["client"] >= Active /\ state'[d]["client"] \in Active..Closed
                  /\ exc'[d] # "none"
    <3>1. "client" \in Ends
      BY DEF Ends
    <3>2. CASE state'[d]["client"] = state[d]["client"]
      BY <1>3, <3>2
    <3>3. CASE d = c /\ e = "client" /\ state[c][e] = Closing /\ v = ClosingPending
      <4>1. exc[c] # "none"
        BY <3>3 DEF OwnerInv, LinkInv, Closing, Active
      <4> QED BY <1>3, <1>5, <3>1, <3>3, <4>1 DEF At, Active, Closing, ClosingPending, Closed
    <3> QED BY <1>4, <1>5, <3>1, <3>2, <3>3 DEF At
  <2> QED BY <1>1, <1>3, <2>1, LinkStep DEF OwnerInv, proxyVars
<1> QED BY <1>3, <1>7, <1>8, QuietStep DEF proxyVars

(* The network resets a connection. *)
LEMMA ResetStep ==
  ASSUME OwnerInv, NEW c \in Conns, Reset(c), UNCHANGED scenario
  PROVE  OwnerInv'
<1>1. TypeOK
  BY DEF OwnerInv
<1>2. /\ broken' = [broken EXCEPT ![c] = TRUE]
      /\ UNCHANGED <<callVars, running, proxyVars, endVars, wire, ran>>
  BY DEF Reset
<1>3. TypeOK'
  <2>1. CallTypes' /\ ProxyTypes'
    BY <1>1, <1>2, Types DEF CallTypes, ProxyTypes, callVars, proxyVars
  <2>2. EndTypes' /\ Stream(out') /\ Stream(wire')
    BY <1>1, <1>2, Types DEF EndTypes, endVars
  <2> QED BY <2>1, <2>2, Types
<1>4. LinkInv'
  BY <1>1, <1>2, LinkStep DEF OwnerInv, endVars, proxyVars
<1> QED BY <1>2, <1>3, <1>4, QuietStep DEF callVars, proxyVars, endVars

(* A request is dispatched, or ignored. *)
LEMMA ReceiveRequestStep ==
  ASSUME OwnerInv, NEW c \in Conns, NEW k \in Calls, ReceiveRequest(c, k), UNCHANGED scenario
  PROVE  OwnerInv'
<1>1. TypeOK /\ EndTypes /\ "server" \in Ends
  BY Types DEF OwnerInv, Ends
<1>2. /\ UNCHANGED <<callVars, running, proxyVars, state, exc, out, async, shut, broken>>
      /\ Receive(c, "server", Request(k))
  BY DEF ReceiveRequest
<1>3. Stream(wire')
  BY <1>1, <1>2, ReceiveFacts
<1>4. disp' \in [Conns -> [Ends -> SUBSET Calls]] /\ ran' \in [Conns -> SUBSET Calls]
  <2>1. CASE Accepts(c)
    <3>1. disp' = [disp EXCEPT ![c]["server"] = disp[c]["server"] \cup {k}]
      BY <2>1 DEF ReceiveRequest
    <3>2. disp[c]["server"] \cup {k} \in SUBSET Calls
      BY <1>1 DEF EndTypes
    <3>3. ran' = [ran EXCEPT ![c] = @ \cup {k}]
      BY <2>1 DEF ReceiveRequest
    <3> QED BY <1>1, <3>1, <3>2, <3>3, EndExcept DEF EndTypes
  <2>2. CASE ~Accepts(c)
    BY <1>1, <2>2 DEF ReceiveRequest, EndTypes
  <2> QED BY <2>1, <2>2
<1>5. TypeOK'
  <2>1. CallTypes' /\ ProxyTypes'
    BY <1>1, <1>2, Types DEF CallTypes, ProxyTypes, callVars, proxyVars
  <2>2. EndTypes' /\ Stream(out')
    BY <1>1, <1>2, <1>4, Types DEF EndTypes
  <2> QED BY <1>3, <2>1, <2>2, Types
<1>6. LinkInv'
  BY <1>1, <1>2, LinkStep DEF OwnerInv, proxyVars
<1> QED BY <1>2, <1>5, <1>6, QuietStep DEF callVars, proxyVars

(* What the end of a dispatch sends. *)
LEMMA ResponseFacts ==
  ASSUME NEW c \in Conns, NEW e \in Ends, NEW k \in Calls
  PROVE  /\ ResponseMessages(c, e, k) \in Seq(MessagesOf(e))
         /\ e = "client" /\ ResponseMessages(c, e, k) # <<>> => state[c][e] = Closing
<1> DEFINE s == ShutdownMessage(c, e, state[c][e], disp[c][e] \ {k})
<1>1. /\ s \in Seq(MessagesOf(e))
      /\ s # <<>> => state[c][e] = Closing
  BY ShutdownFacts
<1> HIDE DEF s
<1>2. e = "server" => <<Reply(k)>> \in Seq(MessagesOf(e))
  BY DEF MessagesOf
<1>3. <<>> \in Seq(MessagesOf(e)) /\ <<>> \o s = s
  BY <1>1, ConcatEmptySeq
<1>4. e = "server" => <<Reply(k)>> \o s \in Seq(MessagesOf(e))
  BY <1>1, <1>2, ConcatProperties
<1>5. ResponseMessages(c, e, k) \in {<<>>, s} \/ (e = "server" /\ ResponseMessages(c, e, k) = <<Reply(k)>> \o s)
  BY <1>3 DEF ResponseMessages, s
<1>6. e = "client" => e # "server"
  OBVIOUS
<1> QED BY <1>1, <1>3, <1>4, <1>5, <1>6

(* A dispatch ends. *)
LEMMA DispatchDoneStep ==
  ASSUME OwnerInv, NEW c \in Conns, NEW e \in Ends, NEW k \in Calls, DispatchDone(c, e, k),
         UNCHANGED scenario
  PROVE  OwnerInv'
<1> DEFINE ms == ResponseMessages(c, e, k)
<1>1. TypeOK /\ EndTypes
  BY Types DEF OwnerInv
<1>2. /\ disp' = [disp EXCEPT ![c][e] = @ \ {k}]
      /\ SendAll(c, e, ms, state[c][e])
      /\ shut' = [shut EXCEPT ![c][e] = @ \/ Contains(ms, Close)]
      /\ UNCHANGED <<callVars, running, proxyVars, exc, async, broken, ran>>
  BY DEF DispatchDone
<1>3. ms \in Seq(MessagesOf(e)) /\ (e = "client" /\ ms # <<>> => state[c][e] = Closing)
  BY ResponseFacts
<1> HIDE DEF ms
<1>4. state[c][e] \in NotUp..Finished
  BY <1>1 DEF EndTypes
<1>5. /\ Stream(out') /\ Stream(wire') /\ state' \in [Conns -> [Ends -> NotUp..Finished]]
      /\ \E v : /\ At(state', state, c, e, v)
                /\ v = state[c][e] \/ (ms # <<>> /\ v \in {ClosingPending, Closed})
  BY <1>1, <1>2, <1>3, <1>4, SendAllFacts
<1>6. PICK v : /\ At(state', state, c, e, v)
               /\ v = state[c][e] \/ (ms # <<>> /\ v \in {ClosingPending, Closed})
  BY <1>5
<1>7. disp' \in [Conns -> [Ends -> SUBSET Calls]] /\ shut' \in [Conns -> [Ends -> BOOLEAN]]
  BY <1>1, <1>2 DEF EndTypes
<1>8. TypeOK'
  <2>1. CallTypes' /\ ProxyTypes'
    BY <1>1, <1>2, Types DEF CallTypes, ProxyTypes, callVars, proxyVars
  <2>2. EndTypes'
    BY <1>1, <1>2, <1>5, <1>7 DEF EndTypes
  <2> QED BY <1>5, <2>1, <2>2, Types
<1>9. LinkInv'
  <2>1. ASSUME NEW d \in Conns
        PROVE  \/ state'[d]["client"] = state[d]["client"] /\ exc'[d] = exc[d]
               \/ /\ state[d]["client"] >= Active /\ state'[d]["client"] \in Active..Closed
                  /\ exc'[d] # "none"
    <3>1. "client" \in Ends
      BY DEF Ends
    <3>2. CASE state'[d]["client"] = state[d]["client"]
      BY <1>2, <3>2
    <3>3. CASE d = c /\ e = "client" /\ state[c][e] = Closing /\ v \in {ClosingPending, Closed}
      <4>1. exc[c] # "none"
        BY <3>3 DEF OwnerInv, LinkInv, Closing, Active
      <4> QED BY <1>2, <1>6, <3>1, <3>3, <4>1 DEF At, Active, Closing, ClosingPending, Closed
    <3> QED BY <1>3, <1>6, <3>1, <3>2, <3>3 DEF At
  <2> QED BY <1>1, <1>2, <2>1, LinkStep DEF OwnerInv, proxyVars
<1> QED BY <1>2, <1>8, <1>9, QuietStep DEF callVars, proxyVars
-----------------------------------------------------------------------------
(* The calls.                                                              *)

(* The cancellation handlers are different things. *)
LEMMA HandlerFacts ==
  /\ NoHandler \in CancelHandlers
  /\ \A n \in Nat : RetryTask(n) \in CancelHandlers
  /\ \A c \in Conns : ConnectHandler(c) \in CancelHandlers /\ ConnectionHandler(c) \in CancelHandlers
  /\ \A c \in Conns : /\ ConnectHandler(c) # NoHandler /\ ConnectHandler(c) # NotCanceled
                      /\ ConnectHandler(c) # Stored /\ ConnectHandler(c) # Returned
                      /\ \A n : ConnectHandler(c) # RetryTask(n)
                      /\ \A d : ConnectHandler(c) # ConnectionHandler(d)
                      /\ \A d : ConnectHandler(c) = ConnectHandler(d) => c = d
<1>1. /\ NoHandler \in CancelHandlers
      /\ \A n \in Nat : RetryTask(n) \in CancelHandlers
      /\ \A c \in Conns : ConnectHandler(c) \in CancelHandlers
      /\ \A c \in Conns : ConnectionHandler(c) \in CancelHandlers
  BY DEF CancelHandlers, NoHandler, RetryTask, ConnectHandler, ConnectionHandler
<1>2. ASSUME NEW c \in Conns
      PROVE  /\ ConnectHandler(c) # NoHandler /\ ConnectHandler(c) # NotCanceled
             /\ ConnectHandler(c) # Stored /\ ConnectHandler(c) # Returned
             /\ \A n : ConnectHandler(c) # RetryTask(n)
             /\ \A d : ConnectHandler(c) # ConnectionHandler(d)
             /\ \A d : ConnectHandler(c) = ConnectHandler(d) => c = d
  <2>1. ConnectHandler(c).kind = "connect" /\ \A d : ConnectHandler(d).conn = d
    BY DEF ConnectHandler
  <2>2. /\ NoHandler.kind = "none" /\ NotCanceled.kind = "no" /\ Stored.kind = "stored"
        /\ Returned.kind = "returned" /\ (\A n : RetryTask(n).kind = "task")
        /\ (\A d : ConnectionHandler(d).kind = "connection")
    BY DEF NoHandler, NotCanceled, Stored, Returned, RetryTask, ConnectionHandler
  <2> QED BY <2>1, <2>2
<1> QED BY <1>1, <1>2

(* The number of retries of a call stays within its limit. *)
LEMMA RetryCount ==
  ASSUME TypeOK, NEW k \in Calls, NEW ex, WithinLimit(k, ex)
  PROVE  cnt[k] + 1 \in 0..Len(scenario.intervals) + 1
<1>1. cnt[k] \in 0..Len(scenario.intervals) + 1 /\ scenario \in Scenarios
  BY DEF TypeOK
<1>2. Len(scenario.intervals) \in Nat
  BY <1>1, ScenarioAssumption, LenProperties
<1>3. cnt[k] <= Len(scenario.intervals)
  BY <1>1, <1>2 DEF WithinLimit, RetryIntervals
<1> QED BY <1>1, <1>2, <1>3

(* Calls are told of an exception. *)
LEMMA NotifyFacts ==
  ASSUME TypeOK, NEW S \in SUBSET Calls, NEW c, NEW ex, NotifyException(S, c, ex)
  PROVE  /\ phase' \in [Calls -> Phases] /\ tasks' \in [Calls -> Nat]
         /\ cnt' \in [Calls -> 0..Len(scenario.intervals) + 1]
         /\ canceler' \in [Calls -> CancelHandlers]
         /\ rh' \in Conns \cup {None}
         /\ \A k \in S : /\ phase'[k] = "failed" \/ (phase'[k] = "retry" /\ Retries(k, ex))
                         /\ \A d \in Conns : canceler'[k] # ConnectHandler(d)
         /\ \A k \in Calls \ S : phase'[k] = phase[k] /\ canceler'[k] = canceler[k]
<1> DEFINE again == {k \in S : Retries(k, ex)}
<1>1. /\ phase' = [k \in Calls |-> CASE k \in again -> "retry"
                                    [] k \in S \ again -> "failed"
                                    [] OTHER -> phase[k]]
      /\ tasks' = [k \in Calls |-> IF k \in again THEN tasks[k] + 1 ELSE tasks[k]]
      /\ cnt' = [k \in Calls |-> IF k \in again THEN cnt[k] + 1 ELSE cnt[k]]
      /\ canceler' = [k \in Calls |-> CASE k \in again -> RetryTask(tasks[k] + 1)
                                       [] k \in S \ again -> NoHandler
                                       [] OTHER -> canceler[k]]
      /\ IF S # {} THEN ForgetHandler(c) ELSE UNCHANGED rh
  BY DEF NotifyException
<1>2. /\ phase \in [Calls -> Phases] /\ tasks \in [Calls -> Nat]
      /\ cnt \in [Calls -> 0..Len(scenario.intervals) + 1]
      /\ canceler \in [Calls -> CancelHandlers] /\ rh \in Conns \cup {None}
  BY DEF TypeOK
<1>3. \A k \in again : WithinLimit(k, ex) /\ Retries(k, ex)
  BY DEF Retries
<1>4. again \subseteq S
  OBVIOUS
<1> HIDE DEF again
<1>5. \A k \in Calls : /\ k \in again => phase'[k] = "retry" /\ canceler'[k] = RetryTask(tasks[k] + 1)
                       /\ k \in S \ again => phase'[k] = "failed" /\ canceler'[k] = NoHandler
                       /\ k \notin S => phase'[k] = phase[k] /\ canceler'[k] = canceler[k]
  BY <1>1, <1>4
<1>6. phase' \in [Calls -> Phases]
  <2>1. \A k \in Calls : phase'[k] \in Phases
    BY <1>2, <1>5 DEF Phases
  <2> QED BY <1>1, <2>1
<1>7. tasks' \in [Calls -> Nat]
  BY <1>1, <1>2
<1>8. cnt' \in [Calls -> 0..Len(scenario.intervals) + 1]
  <2>1. \A k \in again : cnt[k] + 1 \in 0..Len(scenario.intervals) + 1
    BY <1>3, <1>4, RetryCount
  <2> QED BY <1>1, <1>2, <2>1
<1>9. canceler' \in [Calls -> CancelHandlers]
  <2>1. \A k \in Calls : tasks[k] + 1 \in Nat
    BY <1>2
  <2>2. \A k \in Calls : canceler'[k] \in CancelHandlers
    BY <1>2, <1>5, <2>1, HandlerFacts
  <2> QED BY <1>1, <2>2
<1>10. rh' \in Conns \cup {None}
  BY <1>1, <1>2 DEF ForgetHandler
<1>11. \A k \in S : /\ phase'[k] = "failed" \/ (phase'[k] = "retry" /\ Retries(k, ex))
                    /\ \A d \in Conns : canceler'[k] # ConnectHandler(d)
  BY <1>3, <1>5, HandlerFacts
<1> QED BY <1>5, <1>6, <1>7, <1>8, <1>9, <1>10, <1>11

(* Every call stays or is put in a place, and nobody asks a handler that   *)
(* connects for a call it does not have.                                   *)
LEMMA MoveStep ==
  ASSUME OwnerInv, TypeOK', LinkInv', QueueInv',
         \A c \in Conns : link[c] # "unused" => \/ link'[c] = link[c]
                                                \/ link'[c] \notin {"unused", "connecting"},
         \A k \in Calls : Stays(k) \/ (Free(k) \/ Held(k) \/ Queued(k))',
         \A k \in Calls, c \in Conns :
           Asks(k, c)' =>
             \/ link'[c] \notin {"unused", "connecting"}
             \/ link'[c] = "connecting" /\ phase'[k] = "queued" /\ handler'[k] = c
             \/ /\ Asks(k, c)
                /\ link'[c] = "connecting" => phase'[k] = phase[k] /\ handler'[k] = handler[k]
  PROVE  OwnerInv'
<1>1. PlaceInv'
  BY PlaceStep DEF OwnerInv
<1>2. CancelInv'
  <2>1. SUFFICES ASSUME NEW k \in Calls, NEW c \in Conns, Asks(k, c)'
                 PROVE  /\ link'[c] # "unused"
                        /\ link'[c] = "connecting" => phase'[k] = "queued" /\ handler'[k] = c
    BY DEF CancelInv
  <2>2. CASE Asks(k, c) /\ (link'[c] = "connecting" => phase'[k] = phase[k] /\ handler'[k] = handler[k])
    BY <2>2 DEF OwnerInv, CancelInv
  <2> QED BY <2>1, <2>2
<1> QED BY <1>1, <1>2 DEF OwnerInv
(* A reply is read; the call is over unless it was canceled. *)
LEMMA ReceiveReplyStep ==
  ASSUME OwnerInv, NEW c \in Conns, NEW k \in Calls, ReceiveReply(c, k), UNCHANGED scenario
  PROVE  OwnerInv'
<1>1. TypeOK /\ CallTypes /\ ProxyTypes /\ EndTypes /\ "client" \in Ends
  BY Types DEF OwnerInv, Ends
<1>2. /\ UNCHANGED <<handler, sent, cnt, cancel, tasks, running, proxyVars, state, exc, out, shut,
                     broken, ran>>
      /\ Receive(c, "client", Reply(k))
  BY DEF ReceiveReply
<1>3. Stream(wire') /\ Stream(out')
  BY <1>1, <1>2, ReceiveFacts, Types
<1>4. CASE k \notin async[c]
  <2>1. UNCHANGED <<async, disp, phase, canceler>>
    BY <1>4 DEF ReceiveReply
  <2>2. TypeOK'
    <3>1. CallTypes' /\ ProxyTypes' /\ EndTypes'
      BY <1>1, <1>2, <2>1 DEF CallTypes, ProxyTypes, EndTypes, proxyVars
    <3> QED BY <1>3, <3>1, Types
  <2>3. LinkInv'
    BY <1>1, <1>2, <2>1, LinkStep DEF OwnerInv, proxyVars
  <2> QED BY <1>2, <2>1, <2>2, <2>3, QuietStep DEF proxyVars
<1>5. CASE k \in async[c]
  <2>1. /\ async' = [async EXCEPT ![c] = @ \ {k}]
        /\ disp' = [disp EXCEPT ![c]["client"] = disp[c]["client"] \cup {k}]
        /\ phase' = [phase EXCEPT ![k] = "ok"]
        /\ canceler' = [canceler EXCEPT ![k] = NoHandler]
    BY <1>5 DEF ReceiveReply, Complete
  <2>2. CallTypes' /\ ProxyTypes'
    BY <1>1, <1>2, <2>1, HandlerFacts DEF CallTypes, ProxyTypes, proxyVars, Phases
  <2>3. EndTypes'
    <3>1. disp[c]["client"] \cup {k} \in SUBSET Calls
      BY <1>1 DEF EndTypes
    <3>2. disp' \in [Conns -> [Ends -> SUBSET Calls]]
      BY <1>1, <2>1, <3>1, EndExcept DEF EndTypes
    <3>3. async' \in [Conns -> SUBSET Calls]
      BY <1>1, <2>1 DEF EndTypes
    <3> QED BY <1>1, <1>2, <3>2, <3>3 DEF EndTypes
  <2>4. TypeOK'
    BY <1>3, <2>2, <2>3, Types
  <2>5. \A d \in Conns : async'[d] = IF d = c THEN async[c] \ {k} ELSE async[d]
    BY <1>1, <2>1 DEF EndTypes
  <2>6. LinkInv'
    BY <1>1, <1>2, <2>5, LinkStep DEF OwnerInv, proxyVars
  <2>7. Held(k) /\ handler[k] = c
    BY <1>5 DEF OwnerInv, PlaceInv, Free, Held, Queued
  <2>8. /\ phase'[k] = "ok" /\ \A j \in Calls : j # k => phase'[j] = phase[j]
        /\ canceler'[k] = NoHandler /\ \A j \in Calls : j # k => canceler'[j] = canceler[j]
    BY <1>1, <2>1 DEF CallTypes
  <2>9. Free(k)'
    BY <1>2, <2>5, <2>7, <2>8 DEF Free, Held, proxyVars
  <2>10. \A j \in Calls : j # k => Stays(j)
    BY <1>2, <2>5, <2>8 DEF Stays, proxyVars
  <2>11. \A j \in Calls, d \in Conns : Asks(j, d)' => Asks(j, d) /\ (j = k => link[d] # "connecting")
    <3>1. \A d \in Conns : Asks(k, d) => link[d] # "connecting"
      BY <2>7 DEF OwnerInv, CancelInv, Held
    <3>2. \A j \in Calls, d \in Conns : Asks(j, d)' => Asks(j, d)
      BY <1>2, <2>8, HandlerFacts DEF Asks
    <3> QED BY <3>1, <3>2
  <2>12. QueueInv'
    BY <1>2 DEF OwnerInv, QueueInv, proxyVars
  <2> QED BY <1>2, <2>4, <2>6, <2>8, <2>9, <2>10, <2>11, <2>12, MoveStep DEF proxyVars
<1> QED BY <1>4, <1>5

(* A closed end is finished; the client tells the calls it still has. *)
LEMMA FinishStep ==
  ASSUME OwnerInv, NEW c \in Conns, NEW e \in Ends, Finish(c, e), UNCHANGED scenario
  PROVE  OwnerInv'
<1>1. TypeOK /\ CallTypes /\ ProxyTypes /\ EndTypes /\ "client" \in Ends
  BY Types DEF OwnerInv, Ends
<1>2. /\ state[c][e] = Closed
      /\ state' = [state EXCEPT ![c][e] = Finished]
      /\ out' = [out EXCEPT ![c][e] = <<>>]
      /\ wire' = [wire EXCEPT ![c][Peer(e)] = <<>>]
      /\ UNCHANGED <<handler, sent, cancel, running, factory, link, flushFailed, connq,
                     exc, disp, shut, broken, ran>>
  BY DEF Finish
<1>3. Stream(wire') /\ Stream(out')
  <2>1. Stream(wire) /\ Stream(out) /\ Peer(e) \in Ends /\ \A h : <<>> \in Seq(MessagesOf(h))
    BY <1>1, Types DEF Peer, Ends
  <2> QED BY <1>2, <2>1, StreamExcept
<1>4. state' \in [Conns -> [Ends -> NotUp..Finished]] /\ At(state', state, c, e, Finished)
  <2>1. Finished \in NotUp..Finished
    BY DEF Finished, NotUp
  <2> QED BY <1>1, <1>2, <2>1, EndExcept DEF EndTypes
<1>5. CASE e # "client"
  <2>1. UNCHANGED <<phase, cnt, canceler, tasks, rh, async>>
    BY <1>5 DEF Finish
  <2>2. TypeOK'
    <3>1. CallTypes' /\ ProxyTypes' /\ EndTypes'
      BY <1>1, <1>2, <1>4, <2>1 DEF CallTypes, ProxyTypes, EndTypes
    <3> QED BY <1>3, <3>1, Types
  <2>3. \A d \in Conns : state'[d]["client"] = state[d]["client"]
    BY <1>1, <1>4, <1>5 DEF At
  <2>4. LinkInv'
    BY <1>1, <1>2, <2>1, <2>3, LinkStep DEF OwnerInv
  <2> QED BY <1>2, <2>1, <2>2, <2>4, QuietStep
<1>6. CASE e = "client"
  <2>1. NotifyException(async[c], c, exc[c]) /\ async' = [async EXCEPT ![c] = {}]
    BY <1>6 DEF Finish
  <2>2. async[c] \in SUBSET Calls
    BY <1>1 DEF EndTypes
  <2>3. /\ phase' \in [Calls -> Phases] /\ tasks' \in [Calls -> Nat]
        /\ cnt' \in [Calls -> 0..Len(scenario.intervals) + 1]
        /\ canceler' \in [Calls -> CancelHandlers]
        /\ rh' \in Conns \cup {None}
        /\ \A k \in async[c] : /\ phase'[k] \in {"failed", "retry"}
                               /\ \A d \in Conns : canceler'[k] # ConnectHandler(d)
        /\ \A k \in Calls \ async[c] : phase'[k] = phase[k] /\ canceler'[k] = canceler[k]
    <3>1. \E S \in SUBSET Calls : S = async[c] /\ NotifyException(S, c, exc[c])
      BY <2>1, <2>2
    <3>2. PICK S \in SUBSET Calls : S = async[c] /\ NotifyException(S, c, exc[c])
      BY <3>1
    <3>3. TypeOK
      BY <1>1
    <3>4. \A k \in S : phase'[k] = "failed" \/ (phase'[k] = "retry" /\ Retries(k, exc[c]))
      BY <3>2, <3>3, NotifyFacts
    <3> QED BY <3>2, <3>3, <3>4, NotifyFacts
  <2>4. \A d \in Conns : async'[d] = IF d = c THEN {} ELSE async[d]
    BY <1>1, <2>1 DEF EndTypes
  <2>5. TypeOK'
    <3>1. CallTypes' /\ ProxyTypes'
      BY <1>1, <1>2, <2>3 DEF CallTypes, ProxyTypes
    <3>2. async' \in [Conns -> SUBSET Calls]
      BY <1>1, <2>1 DEF EndTypes
    <3>3. EndTypes'
      BY <1>1, <1>2, <1>4, <3>2 DEF EndTypes
    <3> QED BY <1>3, <3>1, <3>3, Types
  <2>6. LinkInv'
    <3>1. exc[c] # "none"
      BY <1>2, <1>6 DEF OwnerInv, LinkInv, Closed, Active
    <3>2. \A d \in Conns : state'[d]["client"] = IF d = c THEN Finished ELSE state[d]["client"]
      BY <1>1, <1>4, <1>6 DEF At
    <3>3. Finished >= Active
      BY DEF Finished, Active
    <3> QED BY <1>2, <2>4, <3>1, <3>2, <3>3 DEF OwnerInv, LinkInv
  <2>7. \A k \in async[c] : Held(k) /\ handler[k] = c
    BY <2>2 DEF OwnerInv, PlaceInv, Free, Held, Queued
  <2>8. ASSUME NEW k \in async[c]
        PROVE  Free(k)'
    <3>1. phase'[k] \notin {"held", "queued", "send", "wait"}
      BY <2>3
    <3>2. \A d \in Conns : k \notin async'[d] /\ ~Contains(connq'[d], k)
      BY <1>2, <2>4, <2>7 DEF Held
    <3> QED BY <3>1, <3>2 DEF Free
  <2>9. \A k \in Calls \ async[c] : Stays(k)
    BY <1>2, <2>3, <2>4 DEF Stays
  <2>10. \A k \in Calls, d \in Conns :
           Asks(k, d)' => Asks(k, d) /\ (k \in async[c] => link[d] # "connecting")
    <3>1. \A k \in async[c], d \in Conns : Asks(k, d) => link[d] # "connecting"
      BY <2>2, <2>7 DEF OwnerInv, CancelInv, Held
    <3>2. \A k \in Calls, d \in Conns : Asks(k, d)' => Asks(k, d)
      BY <1>2, <2>3 DEF Asks
    <3> QED BY <3>1, <3>2
  <2>11. QueueInv'
    BY <1>2 DEF OwnerInv, QueueInv
  <2>12. \A k \in Calls \ async[c] : phase'[k] = phase[k] /\ handler'[k] = handler[k]
    BY <1>2, <2>3
  <2> QED BY <1>2, <2>5, <2>6, <2>8, <2>9, <2>10, <2>11, <2>12, MoveStep
<1> QED BY <1>5, <1>6
(* A call that is in no container, and stays so. *)
LEMMA FreeStep ==
  ASSUME OwnerInv, TypeOK', LinkInv', NEW k \in Calls, Free(k), async' = async, connq' = connq,
         \A c \in Conns : link[c] # "unused" => \/ link'[c] = link[c]
                                                \/ link'[c] \notin {"unused", "connecting"},
         \A j \in Calls \ {k} : phase'[j] = phase[j] /\ handler'[j] = handler[j],
         \A j \in Calls \ {k}, c \in Conns : Asks(j, c)' => Asks(j, c),
         phase'[k] \notin {"held", "queued"},
         phase'[k] \in {"send", "wait"} => handler'[k] \in Conns,
         \A c \in Conns : Asks(k, c)' => Asks(k, c) \/ link'[c] \notin {"unused", "connecting"}
  PROVE  OwnerInv'
<1>1. \A j \in Calls \ {k} : Stays(j)
  BY DEF Stays
<1>2. Free(k)'
  BY DEF Free
<1>3. \A c \in Conns : Asks(k, c) => link[c] # "connecting" /\ link[c] # "unused"
  BY DEF Free, OwnerInv, CancelInv
<1>4. QueueInv'
  BY DEF OwnerInv, QueueInv
<1>5. \A j \in Calls : Stays(j) \/ (Free(j) \/ Held(j) \/ Queued(j))'
  BY <1>1, <1>2
<1>6. ASSUME NEW j \in Calls, NEW c \in Conns, Asks(j, c)'
      PROVE  \/ link'[c] \notin {"unused", "connecting"}
             \/ /\ Asks(j, c)
                /\ link'[c] = "connecting" => phase'[j] = phase[j] /\ handler'[j] = handler[j]
  <2>1. CASE j = k
    BY <1>3, <1>6, <2>1
  <2>2. CASE j # k
    BY <1>6, <2>2
  <2> QED BY <2>1, <2>2
<1> QED BY <1>4, <1>5, <1>6, MoveStep

(* Its thread caught an exception. *)
LEMMA InvokeFacts ==
  ASSUME TypeOK, NEW k \in Calls, NEW c, NEW ex, NEW h \in CancelHandlers,
         InvokeException(k, c, ex, h)
  PROVE  /\ phase' \in [Calls -> Phases] /\ tasks' \in [Calls -> Nat]
         /\ cnt' \in [Calls -> 0..Len(scenario.intervals) + 1]
         /\ canceler' \in [Calls -> CancelHandlers]
         /\ rh' \in Conns \cup {None}
         /\ phase'[k] = "failed" \/ (phase'[k] \in {"retry", "invoke"} /\ Retries(k, ex))
         /\ canceler'[k] = h \/ \A d \in Conns : canceler'[k] # ConnectHandler(d)
         /\ \A j \in Calls \ {k} : phase'[j] = phase[j] /\ canceler'[j] = canceler[j]
<1>1. /\ phase \in [Calls -> Phases] /\ tasks \in [Calls -> Nat]
      /\ cnt \in [Calls -> 0..Len(scenario.intervals) + 1]
      /\ canceler \in [Calls -> CancelHandlers] /\ rh \in Conns \cup {None}
  BY DEF TypeOK
<1>2. rh' \in Conns \cup {None}
  BY <1>1 DEF InvokeException, ForgetHandler
<1>3. CASE ~Retries(k, ex)
  <2>1. /\ phase' = [phase EXCEPT ![k] = "failed"] /\ canceler' = [canceler EXCEPT ![k] = NoHandler]
        /\ UNCHANGED <<cnt, tasks>>
    BY <1>3 DEF InvokeException, Complete
  <2> QED BY <1>1, <1>2, <2>1, HandlerFacts DEF Phases
<1>4. CASE Retries(k, ex)
  <2>1. /\ cnt' = [cnt EXCEPT ![k] = cnt[k] + 1]
        /\ phase' = [phase EXCEPT ![k] = IF Interval(k) > 0 THEN "retry" ELSE "invoke"]
        /\ IF Interval(k) > 0
           THEN NewTask(k)
           ELSE canceler' = [canceler EXCEPT ![k] = h] /\ UNCHANGED tasks
    BY <1>4 DEF InvokeException
  <2>2. cnt[k] + 1 \in 0..Len(scenario.intervals) + 1
    BY <1>4, RetryCount DEF Retries
  <2>3. cnt' \in [Calls -> 0..Len(scenario.intervals) + 1]
    BY <1>1, <2>1, <2>2
  <2>4. /\ phase' \in [Calls -> Phases] /\ phase'[k] \in {"retry", "invoke"}
        /\ \A j \in Calls \ {k} : phase'[j] = phase[j]
    BY <1>1, <2>1 DEF Phases
  <2>5. CASE Interval(k) > 0
    <3>1. /\ tasks' = [tasks EXCEPT ![k] = tasks[k] + 1]
          /\ canceler' = [canceler EXCEPT ![k] = RetryTask(tasks[k] + 1)]
      BY <2>1, <2>5 DEF NewTask
    <3>2. tasks[k] + 1 \in Nat
      BY <1>1
    <3>3. RetryTask(tasks[k] + 1) \in CancelHandlers
      BY <3>2, HandlerFacts
    <3>4. \A d \in Conns : RetryTask(tasks[k] + 1) # ConnectHandler(d)
      BY HandlerFacts
    <3> QED BY <1>1, <1>2, <1>4, <2>3, <2>4, <3>1, <3>2, <3>3, <3>4
  <2>6. CASE ~(Interval(k) > 0)
    <3>1. canceler' = [canceler EXCEPT ![k] = h] /\ tasks' = tasks
      BY <2>1, <2>6
    <3> QED BY <1>1, <1>2, <1>4, <2>3, <2>4, <3>1
  <2> QED BY <2>5, <2>6
<1> QED BY <1>3, <1>4

(* A call whose thread is in invokeImpl(), or that waits for a retry, is   *)
(* in no container.                                                        *)
LEMMA FreeFacts ==
  ASSUME OwnerInv, NEW k \in Calls, phase[k] \notin {"held", "queued"}
  PROVE  Free(k) /\ (phase[k] \in {"send", "wait"} => handler[k] \in Conns)
BY DEF OwnerInv, PlaceInv, Free, Held, Queued

(* The thread of a call, or the timer, starts. *)
LEMMA StartStep ==
  ASSUME OwnerInv, NEW k \in Calls, Invoke(k) \/ RunRetry(k), UNCHANGED scenario
  PROVE  OwnerInv'
<1>1. TypeOK /\ CallTypes /\ ProxyTypes /\ EndTypes /\ Stream(out) /\ Stream(wire)
  BY Types DEF OwnerInv
<1>2. /\ phase[k] \in {"idle", "retry"} /\ phase' = [phase EXCEPT ![k] = "invoke"]
      /\ UNCHANGED <<handler, sent, cnt, canceler, cancel, tasks, proxyVars, endVars, netVars>>
  BY DEF Invoke, RunRetry
<1>3. running' = NoTask \/ running' \in [call : Calls, task : Nat, listed : BOOLEAN]
  <2>1. tasks[k] \in Nat
    BY <1>1 DEF CallTypes
  <2>2. CASE Invoke(k)
    BY <1>1, <2>2 DEF Invoke, CallTypes
  <2>3. CASE RunRetry(k)
    <3>1. running' = [call |-> k, task |-> tasks[k], listed |-> TRUE]
      BY <2>3 DEF RunRetry
    <3> QED BY <2>1, <3>1
  <2> QED BY <2>2, <2>3
<1>4. CallTypes'
  BY <1>1, <1>2, <1>3 DEF CallTypes, Phases
<1>5. TypeOK' /\ LinkInv'
  <2>1. ProxyTypes' /\ EndTypes' /\ Stream(out') /\ Stream(wire')
    BY <1>1, <1>2 DEF ProxyTypes, EndTypes, proxyVars, endVars, netVars
  <2>2. LinkInv'
    BY <1>2 DEF OwnerInv, LinkInv, proxyVars, endVars
  <2> QED BY <1>4, <2>1, <2>2, Types
<1>6. Free(k)
  BY <1>2, FreeFacts
<1>7. phase'[k] = "invoke" /\ \A j \in Calls \ {k} : phase'[j] = phase[j]
  BY <1>1, <1>2 DEF CallTypes
<1>8. \A j \in Calls, c \in Conns : Asks(j, c)' => Asks(j, c)
  BY <1>2 DEF Asks
<1> QED BY <1>2, <1>5, <1>6, <1>7, <1>8, FreeStep DEF proxyVars, endVars

(* RetryQueue::remove. *)
LEMMA RemoveRetryStep ==
  ASSUME OwnerInv, RemoveRetry, UNCHANGED scenario
  PROVE  OwnerInv'
<1>1. TypeOK /\ CallTypes /\ ProxyTypes /\ EndTypes /\ Stream(out) /\ Stream(wire)
  BY Types DEF OwnerInv
<1>2. running' = NoTask /\ UNCHANGED <<callVars, proxyVars, endVars, netVars>>
  BY DEF RemoveRetry
<1>3. CallTypes' /\ ProxyTypes' /\ EndTypes' /\ Stream(out') /\ Stream(wire')
  BY <1>1, <1>2 DEF CallTypes, ProxyTypes, EndTypes, callVars, proxyVars, endVars, netVars
<1>4. LinkInv'
  BY <1>2 DEF OwnerInv, LinkInv, proxyVars, endVars
<1> QED BY <1>2, <1>3, <1>4, Types, QuietStep DEF callVars, proxyVars, endVars

(* cancel() reads the handler it will call. *)
LEMMA CancelReadStep ==
  ASSUME OwnerInv, NEW k \in Calls, Cancel(k), UNCHANGED scenario
  PROVE  OwnerInv'
<1>1. TypeOK /\ CallTypes /\ ProxyTypes /\ EndTypes /\ Stream(out) /\ Stream(wire)
  BY Types DEF OwnerInv
<1>2. /\ cancel' = [cancel EXCEPT ![k] = IF canceler[k] = NoHandler THEN Stored ELSE canceler[k]]
      /\ UNCHANGED <<phase, handler, sent, cnt, canceler, tasks, running, proxyVars, endVars, netVars>>
  BY DEF Cancel
<1>3. CallTypes' /\ ProxyTypes' /\ EndTypes' /\ Stream(out') /\ Stream(wire')
  BY <1>1, <1>2 DEF CallTypes, ProxyTypes, EndTypes, proxyVars, endVars, netVars
<1>4. LinkInv' /\ QueueInv'
  BY <1>2 DEF OwnerInv, LinkInv, QueueInv, proxyVars, endVars
<1>5. \A j \in Calls : Stays(j)
  BY <1>2 DEF Stays, proxyVars, endVars
<1>6. \A j \in Calls, c \in Conns : Asks(j, c)' => Asks(j, c)
  <2>1. \A j \in Calls : cancel'[j] \in {cancel[j], canceler[j], Stored}
    BY <1>1, <1>2 DEF CallTypes
  <2> QED BY <1>2, <2>1, HandlerFacts DEF Asks
<1> QED BY <1>2, <1>3, <1>4, <1>5, <1>6, Types, MoveStep DEF proxyVars
(* The attempt gets its handler, and makes the factory connect a new one. *)
LEMMA GetRequestHandlerStep ==
  ASSUME OwnerInv, NEW k \in Calls, GetRequestHandler(k), UNCHANGED scenario
  PROVE  OwnerInv'
<1>1. TypeOK /\ CallTypes /\ ProxyTypes /\ EndTypes /\ Stream(out) /\ Stream(wire)
  BY Types DEF OwnerInv
<1>2. Candidates \subseteq Conns
  <2>1. Fresh \subseteq Conns /\ Reusable \subseteq Conns
    BY DEF Fresh, Reusable
  <2>2. rh # None => rh \in Conns
    BY <1>1 DEF ProxyTypes
  <2>3. factory # None => factory \in Conns
    BY <1>1 DEF ProxyTypes
  <2> QED BY <2>1, <2>2, <2>3 DEF Candidates
<1>3. PICK c \in Conns :
        /\ handler' = [handler EXCEPT ![k] = c]
        /\ rh' = c
        /\ IF link[c] = "unused"
           THEN factory' = c /\ link' = [link EXCEPT ![c] = "connecting"]
           ELSE UNCHANGED <<factory, link>>
  BY <1>2 DEF GetRequestHandler
<1>4. /\ phase[k] = "invoke" /\ phase' = [phase EXCEPT ![k] = "send"]
      /\ sent' = [sent EXCEPT ![k] = FALSE]
      /\ UNCHANGED <<cnt, canceler, cancel, tasks, running, flushFailed, connq, endVars, netVars>>
  BY DEF GetRequestHandler
<1>5. /\ link' \in [Conns -> {"unused", "connecting", "flushing", "up", "failed"}]
      /\ factory' \in Conns \cup {None}
      /\ \A d \in Conns : link'[d] = link[d] \/ (link[d] = "unused" /\ link'[d] = "connecting")
  BY <1>1, <1>3 DEF ProxyTypes
<1>6. TypeOK'
  <2>1. CallTypes'
    BY <1>1, <1>3, <1>4 DEF CallTypes, Phases
  <2>2. ProxyTypes'
    BY <1>1, <1>3, <1>4, <1>5 DEF ProxyTypes
  <2>3. EndTypes' /\ Stream(out') /\ Stream(wire')
    BY <1>1, <1>4 DEF EndTypes, endVars, netVars
  <2> QED BY <2>1, <2>2, <2>3, Types
<1>7. LinkInv'
  BY <1>1, <1>4, <1>5, LinkStep DEF OwnerInv, endVars
<1>8. Free(k)
  BY <1>4, FreeFacts
<1>9. /\ phase'[k] = "send" /\ handler'[k] \in Conns
      /\ \A j \in Calls \ {k} : phase'[j] = phase[j] /\ handler'[j] = handler[j]
  BY <1>1, <1>3, <1>4 DEF CallTypes
<1>10. \A j \in Calls, d \in Conns : Asks(j, d)' => Asks(j, d)
  BY <1>4 DEF Asks
<1> QED BY <1>4, <1>5, <1>6, <1>7, <1>8, <1>9, <1>10, FreeStep DEF endVars

(* The call was canceled before it had a handler. *)
LEMMA SendCanceledStep ==
  ASSUME OwnerInv, NEW k \in Calls, SendCanceled(k), UNCHANGED scenario
  PROVE  OwnerInv'
<1>1. TypeOK /\ CallTypes /\ ProxyTypes /\ EndTypes /\ Stream(out) /\ Stream(wire)
  BY Types DEF OwnerInv
<1>2. /\ phase[k] = "send"
      /\ cancel' = [cancel EXCEPT ![k] = Returned]
      /\ rh' = IF rh = handler[k] THEN None ELSE rh
      /\ phase' = [phase EXCEPT ![k] = "failed"]
      /\ canceler' = [canceler EXCEPT ![k] = NoHandler]
      /\ UNCHANGED <<handler, sent, cnt, tasks, running, factory, link, flushFailed, connq,
                     endVars, netVars>>
  BY DEF SendCanceled, ForgetHandler, Complete
<1>3. TypeOK'
  <2>1. CallTypes'
    BY <1>1, <1>2, HandlerFacts DEF CallTypes, Phases
  <2>2. ProxyTypes' /\ EndTypes' /\ Stream(out') /\ Stream(wire')
    BY <1>1, <1>2 DEF ProxyTypes, EndTypes, endVars, netVars
  <2> QED BY <2>1, <2>2, Types
<1>4. LinkInv'
  BY <1>2 DEF OwnerInv, LinkInv, endVars
<1>5. Free(k)
  BY <1>2, FreeFacts
<1>6. /\ phase'[k] = "failed"
      /\ \A j \in Calls \ {k} : phase'[j] = phase[j] /\ handler'[j] = handler[j]
  BY <1>1, <1>2 DEF CallTypes
<1>7. \A j \in Calls, d \in Conns : Asks(j, d)' => Asks(j, d)
  <2>1. \A j \in Calls : /\ cancel'[j] = cancel[j] \/ cancel'[j] = Returned
                         /\ canceler'[j] = canceler[j] \/ canceler'[j] = NoHandler
    BY <1>1, <1>2 DEF CallTypes
  <2> QED BY <2>1, HandlerFacts DEF Asks
<1> QED BY <1>2, <1>3, <1>4, <1>5, <1>6, <1>7, FreeStep DEF endVars

(* The request waits for the connection, or its thread for the flush. *)
LEMMA SendQueuedStep ==
  ASSUME OwnerInv, NEW k \in Calls, SendQueued(k), UNCHANGED scenario
  PROVE  OwnerInv'
<1> DEFINE c == handler[k]
<1>1. TypeOK /\ CallTypes /\ ProxyTypes /\ EndTypes /\ Stream(out) /\ Stream(wire)
  BY Types DEF OwnerInv
<1>2. /\ phase[k] = "send"
      /\ canceler' = [canceler EXCEPT ![k] = ConnectHandler(c)]
      /\ UNCHANGED <<handler, sent, cnt, cancel, tasks, running, rh, factory, link, flushFailed,
                     endVars, netVars>>
  BY DEF SendQueued
<1>3. Free(k) /\ c \in Conns
  BY <1>2, FreeFacts
<1>4. \/ /\ link[c] = "connecting"
         /\ connq' = [connq EXCEPT ![c] = Append(@, k)]
         /\ phase' = [phase EXCEPT ![k] = "queued"]
      \/ /\ link[c] = "flushing"
         /\ phase' = [phase EXCEPT ![k] = "wait"]
         /\ UNCHANGED connq
  BY DEF SendQueued
<1> HIDE DEF c
<1>5. CallTypes'
  <2>1. phase' \in [Calls -> Phases]
    BY <1>1, <1>4 DEF CallTypes, Phases
  <2> QED BY <1>1, <1>2, <1>3, <2>1, HandlerFacts DEF CallTypes
<1>6. EndTypes' /\ Stream(out') /\ Stream(wire')
  BY <1>1, <1>2 DEF EndTypes, endVars, netVars
<1>7. LinkInv'
  BY <1>2 DEF OwnerInv, LinkInv, endVars
<1>8. /\ canceler'[k] = ConnectHandler(c)
      /\ \A j \in Calls \ {k} : canceler'[j] = canceler[j]
      /\ \A j \in Calls \ {k} : phase'[j] = phase[j]
  BY <1>1, <1>2, <1>4 DEF CallTypes
<1>9. /\ \A j \in Calls \ {k}, d \in Conns : Asks(j, d)' => Asks(j, d)
      /\ \A d \in Conns : Asks(k, d)' => Asks(k, d) \/ d = c
  BY <1>2, <1>3, <1>8, HandlerFacts DEF Asks
<1>10. CASE link[c] = "flushing" /\ phase' = [phase EXCEPT ![k] = "wait"] /\ UNCHANGED connq
  <2>1. TypeOK'
    <3>1. ProxyTypes'
      BY <1>1, <1>2, <1>10 DEF ProxyTypes
    <3> QED BY <1>5, <1>6, <3>1, Types
  <2>2. phase'[k] = "wait" /\ handler'[k] \in Conns
    BY <1>1, <1>2, <1>3, <1>10 DEF CallTypes, c
  <2>3. \A d \in Conns : Asks(k, d)' => Asks(k, d) \/ link'[d] \notin {"unused", "connecting"}
    BY <1>2, <1>9, <1>10
  <2> QED BY <1>2, <1>3, <1>7, <1>8, <1>9, <1>10, <2>1, <2>2, <2>3, FreeStep DEF endVars
<1>11. CASE /\ link[c] = "connecting"
            /\ connq' = [connq EXCEPT ![c] = Append(@, k)]
            /\ phase' = [phase EXCEPT ![k] = "queued"]
  <2> DEFINE q == Append(connq[c], k)
  <2>1. connq[c] \in Seq(Calls) /\ ~Contains(connq[c], k) /\ Once(connq[c])
    BY <1>1, <1>3 DEF ProxyTypes, Free, OwnerInv, QueueInv
  <2>2. /\ q \in Seq(Calls) /\ Once(q)
        /\ \A y : Contains(q, y) <=> Contains(connq[c], y) \/ y = k
    BY <2>1, AppendIn
  <2>3. connq' = [connq EXCEPT ![c] = q]
    BY <1>11
  <2> HIDE DEF q
  <2>4. /\ connq' \in [Conns -> Seq(Calls)]
        /\ \A d \in Conns : connq'[d] = IF d = c THEN q ELSE connq[d]
    BY <1>1, <2>2, <2>3 DEF ProxyTypes
  <2>5. TypeOK'
    <3>1. ProxyTypes'
      BY <1>1, <1>2, <2>4 DEF ProxyTypes
    <3> QED BY <1>5, <1>6, <3>1, Types
  <2>6. QueueInv'
    BY <2>2, <2>4 DEF OwnerInv, QueueInv
  <2>7. phase'[k] = "queued" /\ handler'[k] = c
    BY <1>1, <1>2, <1>11 DEF CallTypes, c
  <2>8. Queued(k)'
    <3>1. \A d \in Conns : k \notin async'[d] /\ (Contains(connq'[d], k) <=> d = c)
      BY <1>2, <1>3, <2>2, <2>4 DEF Free, endVars
    <3> QED BY <1>3, <2>7, <3>1 DEF Queued
  <2>9. \A j \in Calls \ {k} : Stays(j)
    <3>1. \A j \in Calls \ {k}, d \in Conns : Contains(connq'[d], j) <=> Contains(connq[d], j)
      BY <2>2, <2>4
    <3> QED BY <1>2, <1>8, <3>1 DEF Stays, endVars
  <2>10. ASSUME NEW j \in Calls, NEW d \in Conns, Asks(j, d)'
         PROVE  \/ link'[d] \notin {"unused", "connecting"}
                \/ link'[d] = "connecting" /\ phase'[j] = "queued" /\ handler'[j] = d
                \/ /\ Asks(j, d)
                   /\ link'[d] = "connecting" => phase'[j] = phase[j] /\ handler'[j] = handler[j]
    <3>1. CASE j # k
      BY <1>2, <1>8, <1>9, <2>10, <3>1
    <3>2. CASE j = k /\ d = c
      BY <1>2, <1>11, <2>7, <3>2
    <3>3. CASE j = k /\ d # c
      <4>1. Asks(k, d)
        BY <1>9, <2>10, <3>3
      <4>2. link[d] # "connecting"
        BY <1>2, <4>1 DEF OwnerInv, CancelInv
      <4> QED BY <1>2, <3>3, <4>1, <4>2
    <3> QED BY <3>1, <3>2, <3>3
  <2> QED BY <1>2, <1>7, <2>5, <2>6, <2>8, <2>9, <2>10, MoveStep
<1> QED BY <1>4, <1>10, <1>11
(* The connection could not be established, or is closed already: the      *)
(* thread goes on, or gives up.                                            *)
LEMMA SendAgainStep ==
  ASSUME OwnerInv, NEW k \in Calls, SendRefused(k) \/ SendRetried(k), UNCHANGED scenario
  PROVE  OwnerInv'
<1> DEFINE c == handler[k]
<1>1. TypeOK /\ CallTypes /\ ProxyTypes /\ EndTypes /\ Stream(out) /\ Stream(wire)
  BY Types DEF OwnerInv
<1>2. /\ phase[k] \in {"send", "wait"} /\ link[c] \in {"up", "failed"}
      /\ UNCHANGED <<handler, sent, cancel, running, factory, link, flushFailed, connq,
                     endVars, netVars>>
  BY DEF SendRefused, SendRetried
<1>3. Free(k) /\ c \in Conns
  BY <1>2, FreeFacts
<1>4. /\ phase' \in [Calls -> Phases] /\ tasks' \in [Calls -> Nat]
      /\ cnt' \in [Calls -> 0..Len(scenario.intervals) + 1]
      /\ canceler' \in [Calls -> CancelHandlers]
      /\ rh' \in Conns \cup {None}
      /\ phase'[k] \in {"failed", "retry", "invoke"}
      /\ canceler'[k] \in {canceler[k], ConnectHandler(c)} \/ \A d \in Conns : canceler'[k] # ConnectHandler(d)
      /\ \A j \in Calls \ {k} : phase'[j] = phase[j] /\ canceler'[j] = canceler[j]
  <2>1. CASE SendRefused(k)
    <3>1. InvokeException(k, c, "lost", ConnectHandler(c)) /\ ConnectHandler(c) \in CancelHandlers
      BY <1>3, <2>1, HandlerFacts DEF SendRefused
    <3> QED BY <1>1, <3>1, InvokeFacts
  <2>2. CASE SendRetried(k)
    <3>1. /\ rh' = IF rh = c THEN None ELSE rh
          /\ phase' = [phase EXCEPT ![k] = "invoke"]
          /\ canceler' = [canceler EXCEPT ![k] = IF Uninitialized(c) THEN ConnectHandler(c) ELSE @]
          /\ UNCHANGED <<cnt, tasks>>
      BY <2>2 DEF SendRetried, ForgetHandler
    <3>2. ConnectHandler(c) \in CancelHandlers
      BY <1>3, HandlerFacts
    <3> QED BY <1>1, <3>1, <3>2 DEF CallTypes, ProxyTypes, Phases
  <2> QED BY <2>1, <2>2
<1> HIDE DEF c
<1>5. TypeOK'
  <2>1. CallTypes' /\ ProxyTypes' /\ EndTypes' /\ Stream(out') /\ Stream(wire')
    BY <1>1, <1>2, <1>4 DEF CallTypes, ProxyTypes, EndTypes, endVars, netVars
  <2> QED BY <2>1, Types
<1>6. LinkInv'
  BY <1>2 DEF OwnerInv, LinkInv, endVars
<1>7. /\ \A j \in Calls \ {k}, d \in Conns : Asks(j, d)' => Asks(j, d)
      /\ \A d \in Conns : Asks(k, d)' => Asks(k, d) \/ d = c
  BY <1>2, <1>3, <1>4, HandlerFacts DEF Asks
<1>8. \A d \in Conns : Asks(k, d)' => Asks(k, d) \/ link'[d] \notin {"unused", "connecting"}
  BY <1>2, <1>7
<1> QED BY <1>2, <1>3, <1>4, <1>5, <1>6, <1>7, <1>8, FreeStep DEF endVars

(* The connection takes a request, written or not. *)
LEMMA TakesFacts ==
  ASSUME OwnerInv, NEW k \in Calls, NEW c \in Conns, link[c] \in {"flushing", "up"},
         exc[c] = "none", ConnectionTakes(k, c)
  PROVE  /\ state[c]["client"] = Active
         /\ phase' \in [Calls -> Phases] /\ phase'[k] = "held"
         /\ \A j \in Calls \ {k} : phase'[j] = phase[j] /\ canceler'[j] = canceler[j]
         /\ canceler' \in [Calls -> CancelHandlers]
         /\ \A d \in Conns : canceler'[k] # ConnectHandler(d)
         /\ sent' \in [Calls -> BOOLEAN]
         /\ async' \in [Conns -> SUBSET Calls]
         /\ \A d \in Conns : async'[d] = IF d = c THEN async[c] \cup {k} ELSE async[d]
         /\ Stream(out') /\ Stream(wire')
         /\ UNCHANGED <<cnt, tasks, rh, state, exc>>
<1>1. TypeOK /\ CallTypes /\ ProxyTypes /\ EndTypes /\ Stream(out) /\ Stream(wire)
  BY Types DEF OwnerInv
<1>2. /\ async' = [async EXCEPT ![c] = @ \cup {k}]
      /\ phase' = [phase EXCEPT ![k] = "held"]
      /\ canceler' = [canceler EXCEPT ![k] = ConnectionHandler(c)]
      /\ UNCHANGED <<cnt, tasks, rh, state, exc>>
  BY DEF ConnectionTakes
<1>3. PICK n \in 0..1 : /\ Write(c, "client", <<Request(k)>>, n)
                        /\ sent' = [sent EXCEPT ![k] = n = 1]
  BY DEF ConnectionTakes
<1>4. Stream(out') /\ Stream(wire')
  <2> DEFINE ms == <<Request(k)>>
  <2>1. "client" \in Ends /\ ms \in Seq(MessagesOf("client")) /\ Len(ms) = 1
    BY DEF Ends, MessagesOf
  <2>2. Write(c, "client", ms, n)
    BY <1>3
  <2> HIDE DEF ms
  <2>3. n \in 0..Len(ms)
    BY <2>1
  <2> QED BY <1>1, <2>1, <2>2, <2>3, WriteFacts
<1>5. state[c]["client"] = Active
  <2>1. "client" \in Ends /\ state[c]["client"] \in NotUp..Finished
    BY <1>1 DEF Ends, EndTypes
  <2>2. state[c]["client"] >= Active /\ state[c]["client"] <= Active
    BY DEF OwnerInv, LinkInv
  <2> QED BY <2>1, <2>2 DEF Active, NotUp, Finished
<1>6. sent' \in [Calls -> BOOLEAN]
  BY <1>1, <1>3 DEF CallTypes
<1>7. phase' \in [Calls -> Phases] /\ phase'[k] = "held" /\ \A j \in Calls \ {k} : phase'[j] = phase[j]
  BY <1>1, <1>2 DEF CallTypes, Phases
<1>8. /\ canceler' \in [Calls -> CancelHandlers]
      /\ \A j \in Calls \ {k} : canceler'[j] = canceler[j]
      /\ canceler'[k] = ConnectionHandler(c)
  BY <1>1, <1>2, HandlerFacts DEF CallTypes
<1>9. \A d \in Conns : canceler'[k] # ConnectHandler(d)
  BY <1>8, HandlerFacts
<1>10. /\ async' \in [Conns -> SUBSET Calls]
       /\ \A d \in Conns : async'[d] = IF d = c THEN async[c] \cup {k} ELSE async[d]
  BY <1>1, <1>2 DEF EndTypes
<1> QED BY <1>2, <1>4, <1>5, <1>6, <1>7, <1>8, <1>9, <1>10

(* What the connection does not write closes it. *)
LEMMA RefusesFacts ==
  ASSUME OwnerInv, NEW k \in Calls, NEW c \in Conns, link[c] \in {"flushing", "up"},
         exc[c] = "none", WriteFails(c, "client", <<Request(k)>>, 0), CloseWith(c, "client", "lost")
  PROVE  /\ out' = out /\ Stream(wire') /\ wire' = wire
         /\ state' \in [Conns -> [Ends -> NotUp..Finished]] /\ At(state', state, c, "client", Closed)
         /\ exc' \in [Conns -> Exceptions] /\ exc'[c] # "none"
         /\ \A d \in Conns : d # c => exc'[d] = exc[d]
         /\ state[c]["client"] >= Active
<1>1. TypeOK /\ CallTypes /\ ProxyTypes /\ EndTypes /\ Stream(out) /\ Stream(wire) /\ "client" \in Ends
  BY Types DEF OwnerInv, Ends
<1>2. out' = out /\ Stream(wire') /\ wire' = wire
  <2>1. /\ out' = out
        /\ wire' = [wire EXCEPT ![c]["client"] = wire[c]["client"] \o SubSeq(<<Request(k)>>, 1, 0)]
    BY DEF WriteFails
  <2>2. wire[c]["client"] \in Seq(MessagesOf("client"))
    BY <1>1 DEF Stream
  <2>3. SubSeq(<<Request(k)>>, 1, 0) = <<>>
    OBVIOUS
  <2>4. wire[c]["client"] \o SubSeq(<<Request(k)>>, 1, 0) = wire[c]["client"]
    BY <2>2, <2>3, ConcatEmptySeq
  <2>5. wire' = wire
    BY <1>1, <2>1, <2>4 DEF Stream, Streams
  <2> QED BY <1>1, <2>1, <2>5
<1>3. Closed \in NotUp..Finished /\ "lost" \in Exceptions
  BY DEF Closed, NotUp, Finished, Exceptions
<1>4. state' \in [Conns -> [Ends -> NotUp..Finished]] /\ At(state', state, c, "client", Closed)
  BY <1>1, <1>3, EndExcept DEF CloseWith, EndTypes
<1>5. /\ exc' \in [Conns -> Exceptions] /\ exc'[c] # "none"
      /\ \A d \in Conns : d # c => exc'[d] = exc[d]
  <2>1. SetException(c, "client", "lost")
    BY DEF CloseWith
  <2> QED BY <1>1, <1>3, <2>1, ExceptionFacts
<1> QED BY <1>2, <1>4, <1>5 DEF OwnerInv, LinkInv
(* The thread of a call hands it to the connection. *)
LEMMA SendStep ==
  ASSUME OwnerInv, NEW k \in Calls, Send(k), UNCHANGED scenario
  PROVE  OwnerInv'
<1> DEFINE c == handler[k]
<1>1. TypeOK /\ CallTypes /\ ProxyTypes /\ EndTypes /\ Stream(out) /\ Stream(wire) /\ "client" \in Ends
  BY Types DEF OwnerInv, Ends
<1>2. /\ phase[k] \in {"send", "wait"} /\ link[c] = "up" /\ exc[c] = "none"
      /\ UNCHANGED <<handler, cancel, running, factory, link, flushFailed, connq, disp, shut,
                     broken, ran>>
      /\ \/ ConnectionTakes(k, c)
         \/ /\ WriteFails(c, "client", <<Request(k)>>, 0)
            /\ CloseWith(c, "client", "lost")
            /\ InvokeException(k, c, "lost", ConnectionHandler(c))
            /\ UNCHANGED <<sent, async>>
  BY DEF Send
<1>3. Free(k) /\ c \in Conns
  BY <1>2, FreeFacts
<1>4. QueueInv'
  BY <1>2 DEF OwnerInv, QueueInv
<1>5. handler'[k] = c
  BY <1>2
<1> HIDE DEF c
<1>6. CASE ConnectionTakes(k, c)
  <2>1. /\ state[c]["client"] = Active
        /\ phase' \in [Calls -> Phases] /\ phase'[k] = "held"
        /\ \A j \in Calls \ {k} : phase'[j] = phase[j] /\ canceler'[j] = canceler[j]
        /\ canceler' \in [Calls -> CancelHandlers]
        /\ \A d \in Conns : canceler'[k] # ConnectHandler(d)
        /\ sent' \in [Calls -> BOOLEAN]
        /\ async' \in [Conns -> SUBSET Calls]
        /\ \A d \in Conns : async'[d] = IF d = c THEN async[c] \cup {k} ELSE async[d]
        /\ Stream(out') /\ Stream(wire')
        /\ UNCHANGED <<cnt, tasks, rh, state, exc>>
    BY <1>2, <1>3, <1>6, TakesFacts
  <2>2. TypeOK'
    <3>1. CallTypes' /\ ProxyTypes' /\ EndTypes'
      BY <1>1, <1>2, <2>1 DEF CallTypes, ProxyTypes, EndTypes
    <3> QED BY <2>1, <3>1, Types
  <2>3. LinkInv'
    <3>1. Active \in Active..Closed
      BY DEF Active, Closed
    <3> QED BY <1>2, <2>1, <3>1 DEF OwnerInv, LinkInv
  <2>4. Held(k)'
    <3>1. \A d \in Conns : (k \in async'[d] <=> d = c) /\ ~Contains(connq'[d], k)
      BY <1>2, <1>3, <2>1 DEF Free
    <3> QED BY <1>3, <1>5, <2>1, <3>1 DEF Held
  <2>5. \A j \in Calls \ {k} : Stays(j)
    BY <1>2, <2>1 DEF Stays
  <2>6. ASSUME NEW j \in Calls, NEW d \in Conns, Asks(j, d)'
        PROVE  \/ link'[d] \notin {"unused", "connecting"}
               \/ /\ Asks(j, d)
                  /\ link'[d] = "connecting" => phase'[j] = phase[j] /\ handler'[j] = handler[j]
    <3>1. Asks(j, d)
      BY <1>2, <2>1, <2>6 DEF Asks
    <3>2. CASE j = k
      BY <1>2, <3>1, <3>2 DEF OwnerInv, CancelInv
    <3>3. CASE j # k
      BY <1>2, <2>1, <3>1, <3>3
    <3> QED BY <3>2, <3>3
  <2> QED BY <1>2, <1>4, <2>2, <2>3, <2>4, <2>5, <2>6, MoveStep
<1>7. CASE /\ WriteFails(c, "client", <<Request(k)>>, 0)
           /\ CloseWith(c, "client", "lost")
           /\ InvokeException(k, c, "lost", ConnectionHandler(c))
           /\ UNCHANGED <<sent, async>>
  <2>1. /\ out' = out /\ Stream(wire')
        /\ state' \in [Conns -> [Ends -> NotUp..Finished]] /\ At(state', state, c, "client", Closed)
        /\ exc' \in [Conns -> Exceptions] /\ exc'[c] # "none"
        /\ \A d \in Conns : d # c => exc'[d] = exc[d]
        /\ state[c]["client"] >= Active
    BY <1>2, <1>3, <1>7, RefusesFacts
  <2>2. /\ phase' \in [Calls -> Phases] /\ tasks' \in [Calls -> Nat]
        /\ cnt' \in [Calls -> 0..Len(scenario.intervals) + 1]
        /\ canceler' \in [Calls -> CancelHandlers]
        /\ rh' \in Conns \cup {None}
        /\ phase'[k] \in {"failed", "retry", "invoke"}
        /\ canceler'[k] = ConnectionHandler(c) \/ \A d \in Conns : canceler'[k] # ConnectHandler(d)
        /\ \A j \in Calls \ {k} : phase'[j] = phase[j] /\ canceler'[j] = canceler[j]
    <3>1. ConnectionHandler(c) \in CancelHandlers
      BY <1>3, HandlerFacts
    <3> QED BY <1>1, <1>7, <3>1, InvokeFacts
  <2>3. TypeOK'
    <3>1. CallTypes' /\ ProxyTypes'
      BY <1>1, <1>2, <1>7, <2>2 DEF CallTypes, ProxyTypes
    <3>2. EndTypes' /\ Stream(out')
      BY <1>1, <1>2, <1>7, <2>1 DEF EndTypes
    <3> QED BY <2>1, <3>1, <3>2, Types
  <2>4. LinkInv'
    <3>1. ASSUME NEW d \in Conns
          PROVE  \/ state'[d]["client"] = state[d]["client"] /\ exc'[d] = exc[d]
                 \/ /\ state[d]["client"] >= Active /\ state'[d]["client"] \in Active..Closed
                    /\ exc'[d] # "none"
      BY <1>1, <2>1 DEF At, Active, Closed
    <3> QED BY <1>1, <1>2, <1>7, <3>1, LinkStep DEF OwnerInv
  <2>5. \A j \in Calls, d \in Conns : Asks(j, d)' => Asks(j, d)
    <3>1. \A d \in Conns : canceler'[k] # ConnectHandler(d)
      BY <2>2, HandlerFacts
    <3> QED BY <1>2, <2>2, <3>1 DEF Asks
  <2> QED BY <1>2, <1>3, <1>7, <2>2, <2>3, <2>4, <2>5, FreeStep
<1> QED BY <1>2, <1>6, <1>7

(* The connection is established; its queue is empty. *)
LEMMA LinkUpStep ==
  ASSUME OwnerInv, NEW c \in Conns, ConnectDone(c) \/ FlushDone(c), UNCHANGED scenario
  PROVE  OwnerInv'
<1>1. TypeOK /\ CallTypes /\ ProxyTypes /\ EndTypes /\ Stream(out) /\ Stream(wire) /\ "client" \in Ends
  BY Types DEF OwnerInv, Ends
<1>2. UNCHANGED <<callVars, running, rh, flushFailed, connq, exc, out, async, disp, shut, netVars>>
  BY DEF ConnectDone, FlushDone, endVars
<1>3. /\ state' \in [Conns -> [Ends -> NotUp..Finished]]
      /\ link' \in [Conns -> {"unused", "connecting", "flushing", "up", "failed"}]
      /\ factory' \in Conns \cup {None}
      /\ \A d \in Conns : d # c => link'[d] = link[d] /\ state'[d] = state[d]
      /\ link'[c] \in {"flushing", "up"} /\ link[c] \in {"connecting", "flushing"}
      /\ state'[c]["client"] = Active \/ (link[c] = "flushing" /\ state'[c] = state[c])
  <2>1. CASE ConnectDone(c)
    <3>1. /\ link[c] = "connecting"
          /\ link' = [link EXCEPT ![c] = "flushing"]
          /\ state' = [state EXCEPT ![c] = [e \in Ends |-> Active]]
          /\ factory' = factory
      BY <2>1 DEF ConnectDone
    <3>2. [e \in Ends |-> Active] \in [Ends -> NotUp..Finished]
      BY DEF Active, NotUp, Finished
    <3>3. state' \in [Conns -> [Ends -> NotUp..Finished]] /\ state'[c] = [e \in Ends |-> Active]
      BY <1>1, <3>1, <3>2 DEF EndTypes
    <3>4. \A d \in Conns : d # c => state'[d] = state[d]
      BY <1>1, <3>1 DEF EndTypes
    <3>5. state'[c]["client"] = Active
      BY <1>1, <3>3
    <3> QED BY <1>1, <3>1, <3>3, <3>4, <3>5 DEF ProxyTypes
  <2>2. CASE FlushDone(c)
    <3>1. /\ link[c] = "flushing"
          /\ link' = [link EXCEPT ![c] = "up"]
          /\ factory' \in {None, factory}
          /\ state' = state
      BY <2>2 DEF FlushDone, endVars
    <3> QED BY <1>1, <3>1 DEF ProxyTypes, EndTypes
  <2> QED BY <2>1, <2>2
<1>4. TypeOK'
  <2>1. CallTypes' /\ ProxyTypes' /\ EndTypes' /\ Stream(out') /\ Stream(wire')
    BY <1>1, <1>2, <1>3 DEF CallTypes, ProxyTypes, EndTypes, callVars, netVars
  <2> QED BY <2>1, Types
<1>5. LinkInv'
  <2>1. Active \in Active..Closed /\ Active >= Active /\ Active <= Active
    BY DEF Active, Closed
  <2> QED BY <1>2, <1>3, <2>1 DEF OwnerInv, LinkInv
<1>6. QueueInv' /\ \A k \in Calls : Stays(k)
  BY <1>2 DEF OwnerInv, QueueInv, Stays, callVars
<1>7. \A k \in Calls, d \in Conns : Asks(k, d)' => Asks(k, d)
  BY <1>2 DEF Asks, callVars
<1> QED BY <1>2, <1>3, <1>4, <1>5, <1>6, <1>7, MoveStep DEF callVars
(* The connection could not be established: the queue is told. *)
LEMMA ConnectFailedStep ==
  ASSUME OwnerInv, NEW c \in Conns, ConnectFailed(c), UNCHANGED scenario
  PROVE  OwnerInv'
<1> DEFINE S == ToSet(connq[c])
<1>1. TypeOK /\ CallTypes /\ ProxyTypes /\ EndTypes /\ Stream(out) /\ Stream(wire)
  BY Types DEF OwnerInv
<1>2. /\ link[c] = "connecting" /\ link' = [link EXCEPT ![c] = "failed"]
      /\ factory' = IF factory = c THEN None ELSE factory
      /\ NotifyException(S, c, "lost")
      /\ connq' = [connq EXCEPT ![c] = <<>>]
      /\ UNCHANGED <<handler, sent, cancel, running, flushFailed, endVars, netVars>>
  BY DEF ConnectFailed
<1>3. S \in SUBSET Calls /\ \A k : k \in S <=> Contains(connq[c], k)
  <2>1. connq[c] \in Seq(Calls)
    BY <1>1 DEF ProxyTypes
  <2> QED BY <2>1 DEF ToSet, Contains
<1> HIDE DEF S
<1>4. /\ phase' \in [Calls -> Phases] /\ tasks' \in [Calls -> Nat]
      /\ cnt' \in [Calls -> 0..Len(scenario.intervals) + 1]
      /\ canceler' \in [Calls -> CancelHandlers]
      /\ rh' \in Conns \cup {None}
      /\ \A k \in S : /\ phase'[k] \in {"failed", "retry"}
                      /\ \A d \in Conns : canceler'[k] # ConnectHandler(d)
      /\ \A k \in Calls \ S : phase'[k] = phase[k] /\ canceler'[k] = canceler[k]
  BY <1>1, <1>2, <1>3, NotifyFacts
<1>5. /\ connq' \in [Conns -> Seq(Calls)]
      /\ \A d \in Conns : connq'[d] = IF d = c THEN <<>> ELSE connq[d]
      /\ link' \in [Conns -> {"unused", "connecting", "flushing", "up", "failed"}]
      /\ \A d \in Conns : link'[d] = IF d = c THEN "failed" ELSE link[d]
  BY <1>1, <1>2 DEF ProxyTypes
<1>6. \A k : ~Contains(<<>>, k)
  BY DEF Contains
<1>7. TypeOK'
  <2>1. CallTypes' /\ ProxyTypes'
    BY <1>1, <1>2, <1>4, <1>5 DEF CallTypes, ProxyTypes
  <2>2. EndTypes' /\ Stream(out') /\ Stream(wire')
    BY <1>1, <1>2 DEF EndTypes, endVars, netVars
  <2> QED BY <2>1, <2>2, Types
<1>8. LinkInv'
  BY <1>1, <1>2, <1>5, LinkStep DEF OwnerInv, endVars
<1>9. QueueInv'
  <2>1. Once(<<>>)
    BY DEF Once
  <2> QED BY <1>5, <2>1 DEF OwnerInv, QueueInv
<1>10. ASSUME NEW k \in S
       PROVE  Free(k)'
  <2>1. Queued(k) /\ handler[k] = c
    BY <1>3 DEF OwnerInv, PlaceInv, Free, Held, Queued
  <2>2. \A d \in Conns : k \notin async'[d] /\ ~Contains(connq'[d], k)
    BY <1>2, <1>5, <1>6, <2>1 DEF Queued, endVars
  <2>3. phase'[k] \notin {"held", "queued", "send", "wait"}
    BY <1>4
  <2> QED BY <2>2, <2>3 DEF Free
<1>11. ASSUME NEW k \in Calls \ S
       PROVE  Stays(k)
  <2>1. \A d \in Conns : Contains(connq'[d], k) <=> Contains(connq[d], k)
    BY <1>3, <1>5, <1>6
  <2> QED BY <1>2, <1>4, <2>1 DEF Stays, endVars
<1>12. ASSUME NEW k \in Calls, NEW d \in Conns, Asks(k, d)'
       PROVE  \/ link'[d] \notin {"unused", "connecting"}
              \/ /\ Asks(k, d)
                 /\ link'[d] = "connecting" => phase'[k] = phase[k] /\ handler'[k] = handler[k]
  <2>1. Asks(k, d)
    BY <1>2, <1>4, <1>12 DEF Asks
  <2>2. CASE k \in S
    <3>1. handler[k] = c
      BY <1>3, <2>2 DEF OwnerInv, PlaceInv, Free, Held, Queued
    <3>2. link[d] = "connecting" => d = c
      BY <2>1, <3>1 DEF OwnerInv, CancelInv
    <3> QED BY <1>5, <2>1, <3>2
  <2>3. CASE k \notin S
    BY <1>2, <1>4, <2>1, <2>3
  <2> QED BY <2>2, <2>3
<1> QED BY <1>5, <1>7, <1>8, <1>9, <1>10, <1>11, <1>12, MoveStep

(* The next request of the queue is sent. *)
LEMMA FlushNextStep ==
  ASSUME OwnerInv, NEW c \in Conns, FlushNext(c), UNCHANGED scenario
  PROVE  OwnerInv'
<1>1. TypeOK /\ CallTypes /\ ProxyTypes /\ EndTypes /\ Stream(out) /\ Stream(wire) /\ "client" \in Ends
  BY Types DEF OwnerInv, Ends
<1> DEFINE q == Tail(connq[c])
<1>2. link[c] = "flushing" /\ connq[c] # <<>> /\ connq[c] \in Seq(Calls) /\ Once(connq[c])
  BY <1>1 DEF FlushNext, ProxyTypes, OwnerInv, QueueInv
<1>3. PICK k \in Calls :
        /\ k = Head(connq[c]) /\ q \in Seq(Calls) /\ Contains(connq[c], k) /\ Once(q) /\ ~Contains(q, k)
        /\ \A y : y # k => (Contains(q, y) <=> Contains(connq[c], y))
  BY <1>2, TailIn
<1>4. /\ link[c] = "flushing" /\ connq[c] # <<>>
      /\ connq' = [connq EXCEPT ![c] = Tail(connq[c])]
      /\ UNCHANGED <<handler, cancel, running, link, disp, shut, broken, ran>>
      /\ \/ /\ exc[c] = "none"
            /\ ConnectionTakes(k, c)
            /\ UNCHANGED <<factory, flushFailed>>
         \/ /\ exc[c] = "none"
            /\ WriteFails(c, "client", <<Request(k)>>, 0)
            /\ CloseWith(c, "client", "lost")
            /\ NotifyException({k}, c, "lost")
            /\ flushFailed' = [flushFailed EXCEPT ![c] = TRUE]
            /\ UNCHANGED <<factory, sent, async>>
         \/ /\ exc[c] # "none"
            /\ factory' = IF factory = c THEN None ELSE factory
            /\ flushFailed' = [flushFailed EXCEPT ![c] = TRUE]
            /\ ForgetHandler(c)
            /\ phase' = [phase EXCEPT ![k] = "retry"]
            /\ NewTask(k)
            /\ UNCHANGED <<sent, cnt, state, exc, out, async, wire>>
  BY <1>3 DEF FlushNext
<1>5. connq' = [connq EXCEPT ![c] = q]
  BY <1>4
<1> HIDE DEF q
<1>6. /\ connq' \in [Conns -> Seq(Calls)]
      /\ \A d \in Conns : connq'[d] = IF d = c THEN q ELSE connq[d]
  BY <1>1, <1>3, <1>5 DEF ProxyTypes
<1>7. QueueInv'
  BY <1>3, <1>6 DEF OwnerInv, QueueInv
<1>8. Queued(k) /\ handler[k] = c
  BY <1>3 DEF OwnerInv, PlaceInv, Free, Held, Queued
<1>9. /\ \A d \in Conns : ~Contains(connq'[d], k)
      /\ \A j \in Calls \ {k}, d \in Conns : Contains(connq'[d], j) <=> Contains(connq[d], j)
  BY <1>3, <1>6, <1>8 DEF Queued
<1>10. \A d \in Conns : Asks(k, d) => link[d] # "connecting"
  BY <1>4, <1>3, <1>8 DEF OwnerInv, CancelInv
<1>11. CASE exc[c] = "none" /\ ConnectionTakes(k, c) /\ UNCHANGED <<factory, flushFailed>>
  <2>1. /\ state[c]["client"] = Active
        /\ phase' \in [Calls -> Phases] /\ phase'[k] = "held"
        /\ \A j \in Calls \ {k} : phase'[j] = phase[j] /\ canceler'[j] = canceler[j]
        /\ canceler' \in [Calls -> CancelHandlers]
        /\ \A d \in Conns : canceler'[k] # ConnectHandler(d)
        /\ sent' \in [Calls -> BOOLEAN]
        /\ async' \in [Conns -> SUBSET Calls]
        /\ \A d \in Conns : async'[d] = IF d = c THEN async[c] \cup {k} ELSE async[d]
        /\ Stream(out') /\ Stream(wire')
        /\ UNCHANGED <<cnt, tasks, rh, state, exc>>
    BY <1>4, <1>3, <1>11, TakesFacts
  <2>2. TypeOK'
    <3>1. CallTypes' /\ ProxyTypes' /\ EndTypes'
      BY <1>1, <1>4, <1>6, <1>11, <2>1 DEF CallTypes, ProxyTypes, EndTypes
    <3> QED BY <2>1, <3>1, Types
  <2>3. LinkInv'
    <3>1. Active \in Active..Closed
      BY DEF Active, Closed
    <3> QED BY <1>4, <2>1, <3>1 DEF OwnerInv, LinkInv
  <2>4. Held(k)'
    <3>1. handler'[k] = c
      BY <1>4, <1>8
    <3>2. \A d \in Conns : k \in async'[d] <=> d = c
      BY <1>8, <2>1 DEF Queued
    <3> QED BY <1>9, <2>1, <3>1, <3>2 DEF Held
  <2>5. \A j \in Calls \ {k} : Stays(j)
    BY <1>4, <1>9, <2>1 DEF Stays
  <2>6. ASSUME NEW j \in Calls, NEW d \in Conns, Asks(j, d)'
        PROVE  \/ link'[d] \notin {"unused", "connecting"}
               \/ /\ Asks(j, d)
                  /\ link'[d] = "connecting" => phase'[j] = phase[j] /\ handler'[j] = handler[j]
    <3>1. Asks(j, d)
      BY <1>4, <2>1, <2>6 DEF Asks
    <3> QED BY <1>4, <1>10, <2>1, <3>1
  <2> QED BY <1>4, <1>7, <2>2, <2>3, <2>4, <2>5, <2>6, MoveStep
<1>12. ASSUME TypeOK', LinkInv', async' = async, phase'[k] \in {"failed", "retry"},
              \A d \in Conns : canceler'[k] # ConnectHandler(d),
              \A j \in Calls \ {k} : phase'[j] = phase[j] /\ canceler'[j] = canceler[j]
       PROVE  OwnerInv'
  <2>1. Free(k)'
    <3>1. phase'[k] \notin {"held", "queued", "send", "wait"}
      BY <1>12
    <3>2. \A d \in Conns : k \notin async'[d]
      BY <1>8, <1>12 DEF Queued
    <3> QED BY <1>9, <3>1, <3>2 DEF Free
  <2>2. \A j \in Calls \ {k} : Stays(j)
    BY <1>4, <1>9, <1>12 DEF Stays
  <2>3. ASSUME NEW j \in Calls, NEW d \in Conns, Asks(j, d)'
        PROVE  \/ link'[d] \notin {"unused", "connecting"}
               \/ /\ Asks(j, d)
                  /\ link'[d] = "connecting" => phase'[j] = phase[j] /\ handler'[j] = handler[j]
    <3>1. Asks(j, d)
      BY <1>4, <1>12, <2>3 DEF Asks
    <3> QED BY <1>4, <1>10, <1>12, <3>1
  <2> QED BY <1>4, <1>7, <1>12, <2>1, <2>2, <2>3, MoveStep
<1>13. CASE /\ exc[c] = "none"
            /\ WriteFails(c, "client", <<Request(k)>>, 0)
            /\ CloseWith(c, "client", "lost")
            /\ NotifyException({k}, c, "lost")
            /\ flushFailed' = [flushFailed EXCEPT ![c] = TRUE]
            /\ UNCHANGED <<factory, sent, async>>
  <2>1. /\ out' = out /\ Stream(wire')
        /\ state' \in [Conns -> [Ends -> NotUp..Finished]] /\ At(state', state, c, "client", Closed)
        /\ exc' \in [Conns -> Exceptions] /\ exc'[c] # "none"
        /\ \A d \in Conns : d # c => exc'[d] = exc[d]
        /\ state[c]["client"] >= Active
    BY <1>4, <1>3, <1>13, RefusesFacts
  <2>2. {k} \in SUBSET Calls
    BY <1>3
  <2>3. /\ phase' \in [Calls -> Phases] /\ tasks' \in [Calls -> Nat]
        /\ cnt' \in [Calls -> 0..Len(scenario.intervals) + 1]
        /\ canceler' \in [Calls -> CancelHandlers]
        /\ rh' \in Conns \cup {None}
        /\ phase'[k] \in {"failed", "retry"}
        /\ \A d \in Conns : canceler'[k] # ConnectHandler(d)
        /\ \A j \in Calls \ {k} : phase'[j] = phase[j] /\ canceler'[j] = canceler[j]
    BY <1>1, <1>13, <2>2, NotifyFacts
  <2>4. TypeOK'
    <3>1. CallTypes' /\ ProxyTypes'
      BY <1>1, <1>4, <1>6, <1>13, <2>3 DEF CallTypes, ProxyTypes
    <3>2. EndTypes' /\ Stream(out')
      BY <1>1, <1>4, <1>13, <2>1 DEF EndTypes
    <3> QED BY <2>1, <3>1, <3>2, Types
  <2>5. LinkInv'
    <3>1. ASSUME NEW d \in Conns
          PROVE  \/ state'[d]["client"] = state[d]["client"] /\ exc'[d] = exc[d]
                 \/ /\ state[d]["client"] >= Active /\ state'[d]["client"] \in Active..Closed
                    /\ exc'[d] # "none"
      BY <1>1, <2>1 DEF At, Active, Closed
    <3> QED BY <1>1, <1>4, <1>13, <3>1, LinkStep DEF OwnerInv
  <2> QED BY <1>12, <1>13, <2>3, <2>4, <2>5
<1>14. CASE /\ exc[c] # "none"
            /\ factory' = IF factory = c THEN None ELSE factory
            /\ flushFailed' = [flushFailed EXCEPT ![c] = TRUE]
            /\ ForgetHandler(c)
            /\ phase' = [phase EXCEPT ![k] = "retry"]
            /\ NewTask(k)
            /\ UNCHANGED <<sent, cnt, state, exc, out, async, wire>>
  <2>1. tasks[k] + 1 \in Nat
    BY <1>1, <1>3 DEF CallTypes
  <2>2. /\ tasks' = [tasks EXCEPT ![k] = tasks[k] + 1]
        /\ canceler' = [canceler EXCEPT ![k] = RetryTask(tasks[k] + 1)]
    BY <1>14 DEF NewTask
  <2>3. /\ RetryTask(tasks[k] + 1) \in CancelHandlers
        /\ \A d \in Conns : RetryTask(tasks[k] + 1) # ConnectHandler(d)
    BY <2>1, HandlerFacts
  <2>4. TypeOK'
    <3>1. CallTypes'
      BY <1>1, <1>4, <1>14, <2>1, <2>2, <2>3 DEF CallTypes, Phases
    <3>2. ProxyTypes'
      BY <1>1, <1>4, <1>6, <1>14 DEF ProxyTypes, ForgetHandler
    <3>3. EndTypes' /\ Stream(out') /\ Stream(wire')
      BY <1>1, <1>4, <1>14 DEF EndTypes
    <3> QED BY <3>1, <3>2, <3>3, Types
  <2>5. LinkInv'
    BY <1>4, <1>14 DEF OwnerInv, LinkInv
  <2>6. phase'[k] = "retry" /\ \A j \in Calls \ {k} : phase'[j] = phase[j] /\ canceler'[j] = canceler[j]
    BY <1>1, <1>3, <1>14, <2>2 DEF CallTypes
  <2>7. \A d \in Conns : canceler'[k] # ConnectHandler(d)
    BY <1>1, <1>3, <2>2, <2>3 DEF CallTypes
  <2> QED BY <1>12, <1>14, <2>4, <2>5, <2>6, <2>7
<1> QED BY <1>4, <1>11, <1>13, <1>14
(* cancel() calls the handler it has read. *)
LEMMA CancelRequestStep ==
  ASSUME OwnerInv, NEW k \in Calls, CancelRequest(k), UNCHANGED scenario
  PROVE  OwnerInv'
<1>1. TypeOK /\ CallTypes /\ ProxyTypes /\ EndTypes /\ Stream(out) /\ Stream(wire) /\ "client" \in Ends
  BY Types DEF OwnerInv, Ends
<1>2. /\ cancel' = [cancel EXCEPT ![k] = Returned]
      /\ UNCHANGED <<handler, sent, factory, link, flushFailed, state, exc, disp, shut, netVars>>
      /\ \/ \E c \in Conns : CancelQueued(k, c) \/ CancelHeld(k, c)
         \/ CancelRetry(k)
         \/ CancelIgnored(k)
  BY DEF CancelRequest
<1>3. /\ cancel' \in [Calls -> {NotCanceled, Stored, Returned} \cup CancelHandlers]
      /\ cancel'[k] = Returned /\ \A j \in Calls \ {k} : cancel'[j] = cancel[j]
  BY <1>1, <1>2 DEF CallTypes
<1>4. ASSUME Abort(k)
      PROVE  /\ phase' \in [Calls -> Phases] /\ tasks' \in [Calls -> Nat]
             /\ cnt' \in [Calls -> 0..Len(scenario.intervals) + 1]
             /\ canceler' \in [Calls -> CancelHandlers]
             /\ rh' \in Conns \cup {None}
             /\ phase'[k] \in {"failed", "retry"}
             /\ \A d \in Conns : canceler'[k] # ConnectHandler(d)
             /\ \A j \in Calls \ {k} : phase'[j] = phase[j] /\ canceler'[j] = canceler[j]
  <2>1. NotifyException({k}, handler[k], "canceled") /\ {k} \in SUBSET Calls
    BY <1>4 DEF Abort
  <2> QED BY <1>1, <2>1, NotifyFacts
<1>5. ASSUME Abort(k), TypeOK', async' \in [Conns -> SUBSET Calls],
             \A d \in Conns : async'[d] = async[d] \ {k},
             \A d \in Conns : /\ ~Contains(connq'[d], k) /\ Once(connq'[d])
                              /\ \A y : y # k => (Contains(connq'[d], y) <=> Contains(connq[d], y))
      PROVE  OwnerInv'
  <2>1. LinkInv'
    <3>1. \A d \in Conns : async'[d] # {} => async[d] # {}
      BY <1>5
    <3> QED BY <1>1, <1>2, <3>1, LinkStep DEF OwnerInv
  <2>2. QueueInv'
    BY <1>5 DEF QueueInv
  <2>3. Free(k)'
    <3>1. phase'[k] \notin {"held", "queued", "send", "wait"}
      BY <1>4, <1>5
    <3>2. \A d \in Conns : k \notin async'[d] /\ ~Contains(connq'[d], k)
      BY <1>5
    <3> QED BY <3>1, <3>2 DEF Free
  <2>4. \A j \in Calls \ {k} : Stays(j)
    BY <1>2, <1>4, <1>5 DEF Stays
  <2>5. \A d \in Conns : ~Asks(k, d)'
    BY <1>3, <1>4, <1>5, HandlerFacts DEF Asks
  <2>6. \A j \in Calls \ {k}, d \in Conns :
          Asks(j, d)' => Asks(j, d) /\ phase'[j] = phase[j] /\ handler'[j] = handler[j]
    BY <1>2, <1>3, <1>4, <1>5 DEF Asks
  <2>7. \A j \in Calls, d \in Conns :
          Asks(j, d)' => Asks(j, d) /\ phase'[j] = phase[j] /\ handler'[j] = handler[j]
    BY <2>5, <2>6
  <2>8. \A j \in Calls : Stays(j) \/ Free(j)'
    BY <2>3, <2>4
  <2> QED BY <1>2, <1>5, <2>1, <2>2, <2>7, <2>8, MoveStep
<1>6. ASSUME NEW c \in Conns, CancelQueued(k, c)
      PROVE  OwnerInv'
  <2>1. /\ cancel[k] = ConnectHandler(c) /\ link[c] = "connecting" /\ Abort(k)
        /\ UNCHANGED <<out, async, running>>
    BY <1>6 DEF CancelQueued
  <2>2. Queued(k) /\ handler[k] = c
    BY <2>1 DEF OwnerInv, CancelInv, PlaceInv, Asks, Free, Held, Queued
  <2>3. connq[c] \in Seq(Calls) /\ Once(connq[c])
    BY <1>1 DEF ProxyTypes, OwnerInv, QueueInv
  <2>4. PICK p \in 1..Len(connq[c]) :
          connq[c][p] = k /\ connq' = [connq EXCEPT ![c] = RemoveAt(@, p)]
    BY <1>6, <2>3, LenProperties DEF CancelQueued
  <2> DEFINE q == RemoveAt(connq[c], p)
  <2>5. /\ q \in Seq(Calls) /\ Once(q) /\ ~Contains(q, k)
        /\ \A y : y # k => (Contains(q, y) <=> Contains(connq[c], y))
    BY <2>3, <2>4, RemoveIn
  <2>6. connq' = [connq EXCEPT ![c] = q]
    BY <2>4
  <2> HIDE DEF q
  <2>7. /\ connq' \in [Conns -> Seq(Calls)]
        /\ \A d \in Conns : connq'[d] = IF d = c THEN q ELSE connq[d]
    BY <1>1, <2>5, <2>6 DEF ProxyTypes
  <2>8. TypeOK'
    <3>1. CallTypes' /\ ProxyTypes'
      BY <1>1, <1>2, <1>3, <1>4, <2>1, <2>7 DEF CallTypes, ProxyTypes
    <3>2. EndTypes' /\ Stream(out') /\ Stream(wire')
      BY <1>1, <1>2, <2>1 DEF EndTypes, netVars
    <3> QED BY <3>1, <3>2, Types
  <2>9. /\ async' \in [Conns -> SUBSET Calls]
        /\ \A d \in Conns : async'[d] = async[d] \ {k}
    BY <1>1, <2>1, <2>2 DEF EndTypes, Queued
  <2>10. \A d \in Conns : /\ ~Contains(connq'[d], k) /\ Once(connq'[d])
                          /\ \A y : y # k => (Contains(connq'[d], y) <=> Contains(connq[d], y))
    BY <2>2, <2>5, <2>7 DEF Queued, OwnerInv, QueueInv
  <2> QED BY <1>5, <2>1, <2>8, <2>9, <2>10
<1>7. ASSUME NEW c \in Conns, CancelHeld(k, c)
      PROVE  OwnerInv'
  <2>1. /\ k \in async[c] /\ async' = [async EXCEPT ![c] = @ \ {k}] /\ Abort(k)
        /\ UNCHANGED <<connq, running>>
    BY <1>7 DEF CancelHeld
  <2>2. Held(k) /\ handler[k] = c
    BY <2>1 DEF OwnerInv, PlaceInv, Free, Held, Queued
  <2>3. Stream(out')
    <3>1. out[c]["client"] \in Seq(MessagesOf("client"))
      BY <1>1 DEF Stream
    <3>2. ASSUME NEW p \in Waiting(k, c), out' = [out EXCEPT ![c]["client"] = RemoveAt(@, p)]
          PROVE  Stream(out')
      <4>1. p \in 1..Len(out[c]["client"])
        BY <3>1, LenProperties DEF Waiting
      <4>2. RemoveAt(out[c]["client"], p) \in Seq(MessagesOf("client"))
        BY <3>1, <4>1, RemoveIn
      <4> QED BY <1>1, <3>2, <4>2, StreamExcept
    <3> QED BY <1>1, <1>7, <3>2 DEF CancelHeld
  <2>4. /\ async' \in [Conns -> SUBSET Calls]
        /\ \A d \in Conns : async'[d] = async[d] \ {k}
    BY <1>1, <2>1, <2>2 DEF EndTypes, Held
  <2>5. TypeOK'
    <3>1. CallTypes' /\ ProxyTypes'
      BY <1>1, <1>2, <1>3, <1>4, <2>1 DEF CallTypes, ProxyTypes
    <3>2. EndTypes' /\ Stream(wire')
      BY <1>1, <1>2, <2>4 DEF EndTypes, netVars
    <3> QED BY <2>3, <3>1, <3>2, Types
  <2>6. \A d \in Conns : /\ ~Contains(connq'[d], k) /\ Once(connq'[d])
                         /\ \A y : y # k => (Contains(connq'[d], y) <=> Contains(connq[d], y))
    BY <2>1, <2>2 DEF Held, OwnerInv, QueueInv
  <2> QED BY <1>5, <2>1, <2>4, <2>5, <2>6
<1>8. CASE CancelRetry(k)
  <2>1. UNCHANGED <<connq, out, async>>
    BY <1>8 DEF CancelRetry
  <2>2. EndTypes' /\ Stream(out') /\ Stream(wire')
    BY <1>1, <1>2, <2>1 DEF EndTypes, netVars
  <2>3. CASE Scheduled(k) /\ Abort(k) /\ UNCHANGED running
    <3>1. Free(k)
      BY <2>3, FreeFacts DEF Scheduled
    <3>2. CallTypes' /\ ProxyTypes'
      BY <1>1, <1>2, <1>3, <1>4, <2>1, <2>3 DEF CallTypes, ProxyTypes
    <3>3. TypeOK'
      BY <2>2, <3>2, Types
    <3>4. /\ async' \in [Conns -> SUBSET Calls]
          /\ \A d \in Conns : async'[d] = async[d] \ {k}
      BY <1>1, <2>1, <3>1 DEF EndTypes, Free
    <3>5. \A d \in Conns : /\ ~Contains(connq'[d], k) /\ Once(connq'[d])
                           /\ \A y : y # k => (Contains(connq'[d], y) <=> Contains(connq[d], y))
      BY <2>1, <3>1 DEF Free, OwnerInv, QueueInv
    <3> QED BY <1>5, <2>3, <3>3, <3>4, <3>5
  <2>4. CASE /\ Running(k)
             /\ running' = [running EXCEPT !.listed = FALSE]
             /\ UNCHANGED <<phase, cnt, canceler, tasks, rh>>
    <3>1. running' = NoTask \/ running' \in [call : Calls, task : Nat, listed : BOOLEAN]
      <4>1. running # NoTask
        BY <2>4 DEF Running, NoTask
      <4>2. running \in [call : Calls, task : Nat, listed : BOOLEAN]
        BY <1>1, <4>1 DEF CallTypes
      <4> QED BY <2>4, <4>2
    <3>2. CallTypes' /\ ProxyTypes'
      BY <1>1, <1>2, <1>3, <2>1, <2>4, <3>1 DEF CallTypes, ProxyTypes
    <3>3. TypeOK'
      BY <2>2, <3>2, Types
    <3>4. LinkInv' /\ QueueInv'
      BY <1>2, <2>1 DEF OwnerInv, LinkInv, QueueInv
    <3>5. \A j \in Calls : Stays(j)
      BY <1>2, <2>1, <2>4 DEF Stays
    <3>6. \A j \in Calls, d \in Conns : Asks(j, d)' => Asks(j, d)
      BY <1>3, <2>4, HandlerFacts DEF Asks
    <3> QED BY <1>2, <2>4, <3>3, <3>4, <3>5, <3>6, MoveStep
  <2> QED BY <1>8, <2>3, <2>4 DEF CancelRetry
<1>9. CASE CancelIgnored(k)
  <2>1. UNCHANGED <<phase, cnt, canceler, tasks, rh, connq, out, async, running>>
    BY <1>9 DEF CancelIgnored
  <2>2. CallTypes' /\ ProxyTypes' /\ EndTypes' /\ Stream(out') /\ Stream(wire')
    BY <1>1, <1>2, <1>3, <2>1 DEF CallTypes, ProxyTypes, EndTypes, netVars
  <2>3. LinkInv' /\ QueueInv'
    BY <1>2, <2>1 DEF OwnerInv, LinkInv, QueueInv
  <2>4. \A j \in Calls : Stays(j)
    BY <1>2, <2>1 DEF Stays
  <2>5. \A j \in Calls, d \in Conns : Asks(j, d)' => Asks(j, d)
    BY <1>3, <2>1, HandlerFacts DEF Asks
  <2> QED BY <1>2, <2>1, <2>2, <2>3, <2>4, <2>5, Types, MoveStep
<1> QED BY <1>2, <1>6, <1>7, <1>8, <1>9
-----------------------------------------------------------------------------
(* The invariant.                                                          *)

(* It holds at first ... *)
LEMMA InitOwner == Init => OwnerInv
<1> SUFFICES ASSUME Init
             PROVE  OwnerInv
  OBVIOUS
<1>1. \A k : ~Contains(<<>>, k)
  BY DEF Contains
<1>2. \A c \in Conns : connq[c] = <<>> /\ async[c] = {}
  BY DEF Init
<1>3. TypeOK
  <2>1. scenario \in Scenarios /\ Len(scenario.intervals) \in Nat
    BY ScenarioAssumption, LenProperties DEF Init
  <2>2. CallTypes
    <3>1. cnt \in [Calls -> 0..Len(scenario.intervals) + 1]
      BY <2>1 DEF Init
    <3>2. canceler \in [Calls -> CancelHandlers]
      BY HandlerFacts DEF Init
    <3> QED BY <2>1, <3>1, <3>2 DEF Init, CallTypes, Phases
  <2>3. ProxyTypes
    BY DEF Init, ProxyTypes
  <2>4. EndTypes
    <3>1. NotUp \in NotUp..Finished
      BY DEF NotUp, Finished
    <3> QED BY <3>1 DEF Init, EndTypes, Exceptions
  <2>5. Stream(out) /\ Stream(wire)
    <3>1. <<>> \in Seq(UNION {MessagesOf(e) : e \in Ends}) /\ \A e \in Ends : <<>> \in Seq(MessagesOf(e))
      OBVIOUS
    <3>2. \A c \in Conns, e \in Ends : out[c][e] = <<>> /\ wire[c][e] = <<>>
      BY DEF Init
    <3>3. out \in Streams /\ wire \in Streams
      BY <3>1 DEF Init, Streams
    <3> QED BY <3>1, <3>2, <3>3 DEF Stream
  <2> QED BY <2>2, <2>3, <2>4, <2>5, Types
<1>4. PlaceInv
  <2>1. \A k \in Calls : phase[k] = "idle"
    BY DEF Init
  <2> QED BY <1>1, <1>2, <2>1 DEF PlaceInv, Free
<1>5. CancelInv
  <2>1. \A k \in Calls : canceler[k] = NoHandler /\ cancel[k] = NotCanceled
    BY DEF Init
  <2> QED BY <2>1, HandlerFacts DEF CancelInv, Asks
<1>6. QueueInv
  <2>1. Once(<<>>)
    BY DEF Once
  <2> QED BY <1>2, <2>1 DEF QueueInv
<1>7. LinkInv
  <2>1. \A c \in Conns : link[c] = "unused" /\ state[c]["client"] = NotUp /\ async[c] = {}
    BY DEF Init, Ends
  <2> QED BY <2>1 DEF LinkInv, NotUp, Active
<1> QED BY <1>3, <1>4, <1>5, <1>6, <1>7 DEF OwnerInv

(* ... and every step keeps it. *)
LEMMA NextOwner == OwnerInv /\ [Next]_vars => OwnerInv'
<1> SUFFICES ASSUME OwnerInv, [Next]_vars
             PROVE  OwnerInv'
  OBVIOUS
<1>1. CASE UNCHANGED vars
  <2>1. UNCHANGED <<scenario, callVars, running, proxyVars, endVars, netVars>>
    BY <1>1 DEF vars
  <2>2. CallTypes' /\ ProxyTypes' /\ EndTypes' /\ Stream(out') /\ Stream(wire')
    BY <2>1, Types DEF OwnerInv, CallTypes, ProxyTypes, EndTypes, callVars, proxyVars, endVars, netVars
  <2>3. LinkInv'
    BY <2>1 DEF OwnerInv, LinkInv, proxyVars, endVars
  <2> QED BY <2>1, <2>2, <2>3, Types, QuietStep DEF callVars, proxyVars, endVars
<1>2. ASSUME NEW k \in Calls, CallStep(k), UNCHANGED scenario
      PROVE  OwnerInv'
  BY <1>2, GetRequestHandlerStep, SendCanceledStep, SendQueuedStep, SendAgainStep, SendStep,
     StartStep, CancelRequestStep DEF CallStep
<1>3. ASSUME NEW c \in Conns, ConnStep(c), UNCHANGED scenario
      PROVE  OwnerInv'
  BY <1>3, LinkUpStep, ConnectFailedStep, FlushNextStep, ReceiveRequestStep, ReceiveReplyStep
     DEF ConnStep
<1>4. ASSUME NEW c \in Conns, NEW e \in Ends, EndStep(c, e), UNCHANGED scenario
      PROVE  OwnerInv'
  BY <1>4, WriteReadyStep, ClosureStep, FinishStep, DispatchDoneStep DEF EndStep
<1>5. CASE RunTime
  BY <1>2, <1>3, <1>4, <1>5, RemoveRetryStep DEF RunTime
<1>6. CASE Environment
  BY <1>6, StartStep, CancelReadStep, ResetStep, ClosureStep DEF Environment
<1> QED BY <1>1, <1>5, <1>6 DEF Next

-----------------------------------------------------------------------------
(* Theorems.                                                               *)

(* The places of the calls are an invariant of the specification: what the *)
(* queue of a request handler (ConnectRequestHandler), the requests of a   *)
(* connection (ConnectionI) and a cancellation (OutgoingAsync) know of a   *)
(* call never disagree.                                                    *)
THEOREM OwnerInvariant == Spec => []OwnerInv
<1>1. Init => OwnerInv
  BY InitOwner
<1>2. OwnerInv /\ [Next]_vars => OwnerInv'
  BY NextOwner
<1> QED BY <1>1, <1>2, PTL DEF Spec

(* The variables keep their types; cnt, the retries of a call, stays       *)
(* within the limit of checkRetryAfterException, plus the one that a       *)
(* CloseConnectionException may take (ProxyFactory.cpp).                   *)
THEOREM TypeCorrect == Spec => []TypeOK
<1>1. OwnerInv => TypeOK
  BY DEF OwnerInv
<1> QED BY <1>1, OwnerInvariant, PTL

(* A pending call has exactly one owner that will complete it, and one     *)
(* that is over, or whose thread is at work, has none: a request is        *)
(* neither lost nor completed twice between the queue of a handler, a      *)
(* connection that closes, the retry queue and a cancellation.             *)
THEOREM SingleOwner == Spec => []OneOwner
<1>1. OwnerInv => OneOwner
  <2> SUFFICES ASSUME OwnerInv, NEW k \in Calls
               PROVE  /\ phase[k] = "held" => Owners(k) = {handler[k]}
                      /\ phase[k] = "queued" => Owners(k) = {MaxConns + handler[k]}
                      /\ phase[k] \notin {"held", "queued"} => Owners(k) = {}
    BY DEF OneOwner
  <2>1. \A c \in Conns : k \in async[c] => state[c]["client"] \in Active..Closed
    BY DEF OwnerInv, LinkInv
  <2>2. CASE Free(k)
    <3>1. Owners(k) = {}
      BY <2>2 DEF Owners, Free
    <3> QED BY <2>2, <3>1 DEF Free
  <2>3. CASE Held(k)
    <3>1. {c \in Conns : k \in async[c] /\ state[c]["client"] \in Active..Closed} = {handler[k]}
      BY <2>1, <2>3 DEF Held
    <3>2. {d \in Conns : Contains(connq[d], k)} = {}
      BY <2>3 DEF Held
    <3>3. Owners(k) = {handler[k]}
      BY <3>1, <3>2 DEF Owners
    <3> QED BY <2>3, <3>3 DEF Held
  <2>4. CASE Queued(k)
    <3>1. {c \in Conns : k \in async[c] /\ state[c]["client"] \in Active..Closed} = {}
      BY <2>4 DEF Queued
    <3>2. {d \in Conns : Contains(connq[d], k)} = {handler[k]}
      BY <2>4 DEF Queued
    <3>3. Owners(k) = {MaxConns + handler[k]}
      BY <3>1, <3>2 DEF Owners
    <3> QED BY <2>4, <3>3 DEF Queued
  <2> QED BY <2>2, <2>3, <2>4 DEF OwnerInv, PlaceInv
<1> QED BY <1>1, OwnerInvariant, PTL

=============================================================================
