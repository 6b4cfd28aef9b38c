-------------------------- MODULE ThreadPoolProofs --------------------------
(***************************************************************************)
(* Theorems about the threads of ThreadPool, for every set of threads and  *)
(* handlers, every configuration and every bound: the lead, the counts and *)
(* the wake-ups.                                                           *)
(*                                                                         *)
(* CoreInv is the inductive invariant.  Its parts say where a thread can   *)
(* be, that the lead is never lost or doubled, that the two counts are     *)
(* numbers of threads, and that a thread is joined once and after it has   *)
(* left the pool.                                                          *)
(***************************************************************************)
EXTENDS ThreadPool, SequenceTheorems, FiniteSetTheorems, TLAPS

Multi == conf.sizeMax > 1

(* Threads that do IO, and threads in the application. *)
IOThreads == {t \in threads : cur[t] # NoHandler /\ ~ioCompleted[t]}
UsedThreads == {t \in threads : pc[t] # "exited" /\ cur[t] # NoHandler /\ ioCompleted[t]}

Selectors == {"select", "selected", "timedOut"}

(* Where a thread can be, and with which handler. *)
ThreadInv ==
    \A t \in Threads :
        /\ pc[t] \in {"none", "exiting"} => t \notin threads
        /\ pc[t] \notin {"none", "exiting", "exited"} => t \in threads
        /\ t \notin threads => cur[t] = NoHandler
        /\ pc[t] \in {"idle", "wait"} \cup Selectors => cur[t] = NoHandler
        /\ pc[t] \in {"io", "exec"} => cur[t] # NoHandler /\ ~ioCompleted[t]
        /\ pc[t] \in {"user", "dying"} => cur[t] # NoHandler /\ ioCompleted[t]
        /\ pc[t] = "done" => cur[t] # NoHandler
        /\ pc[t] \in {"exec", "dying"} => cur[t] = WorkQueue
        /\ pc[t] = "exited" /\ t \in threads => cur[t] = WorkQueue /\ ioCompleted[t]

(* There is one leader or a promotion is pending, and only a leader        *)
(* selects; a leader that calls the application gives the lead up.         *)
LeaderInv ==
    /\ \A t \in Threads :
         leader[t] => /\ ~promote /\ t \in threads /\ pc[t] \notin {"idle", "wait"}
                      /\ Multi => ~(cur[t] # NoHandler /\ ioCompleted[t])
    /\ \A t, u \in Threads : leader[t] /\ leader[u] => t = u
    /\ ~promote => \E t \in Threads : leader[t]
    /\ \A t \in Threads : pc[t] \in Selectors => leader[t]

(* A thread to join has left the pool, and is joined once. *)
GoneThreads == {t \in Threads \ threads : pc[t] \in {"exiting", "exited"}}

Joins(t) == pc[t] = "exec" /\ item[t].kind = "join"

JoinInv ==
    /\ \A i \in 1..Len(workItems) : workItems[i].kind = "join" => workItems[i].arg \in GoneThreads
    /\ \A t \in Threads : Joins(t) => item[t].arg \in GoneThreads
    /\ \A i, j \in 1..Len(workItems) :
         workItems[i].kind = "join" /\ workItems[i] = workItems[j] => i = j
    /\ \A t, u \in Threads : Joins(t) /\ item[t] = item[u] /\ Joins(u) => t = u
    /\ \A t \in Threads, i \in 1..Len(workItems) : Joins(t) => workItems[i] # item[t]

(* The counts are the numbers of those threads; nothing does IO while the  *)
(* leader selects.                                                         *)
CountInv ==
    /\ Multi => inUseIO = Cardinality(IOThreads) /\ inUse = Cardinality(UsedThreads)
    /\ ~Multi => inUseIO = 0
    /\ inUseIO <= conf.sizeIO
    /\ Cardinality(threads) <= conf.sizeMax
    /\ Selecting => inUseIO = 0

SpareInv ==
    ~destroyed /\ ~conf.startFails /\ Multi =>
        inUse < Cardinality(threads) \/ inUse = conf.sizeMax

-----------------------------------------------------------------------------
(* Facts about the operators.                                              *)

(* A set of numbers that is not empty has a least element. *)
LEMMA MinInSet ==
    ASSUME NEW S \in SUBSET Nat, S # {}
    PROVE  Min(S) \in S
<1>1. PICK x \in S : \A y \in S : ~(<<y, x>> \in OpToRel(<, Nat))
  BY NatLessThanWellFounded, WFMin
<1>2. \A y \in S : ~(y < x)
  BY <1>1 DEF OpToRel
<1>3. \A y \in S : x <= y
  BY <1>2
<1> QED BY <1>3 DEF Min

-----------------------------------------------------------------------------
(* What the steps do to the threads.  A round of run() is described by the *)
(* four ways in which it can end; io is the number of other threads that   *)
(* do IO and list is what is left to serve.                                *)

ThreadTypes ==
    /\ pc \in [Threads -> PCs]
    /\ cur \in [Threads -> EventHandlers \cup {NoHandler}]
    /\ leader \in [Threads -> BOOLEAN]
    /\ ioCompleted \in [Threads -> BOOLEAN]

(* Another thread keeps its handler and its role, and at most wakes up. *)
OthersKept(t) ==
    \A u \in Threads \ {t} :
        /\ cur'[u] = cur[u] /\ leader'[u] = leader[u] /\ ioCompleted'[u] = ioCompleted[u]
        /\ pc'[u] = pc[u] \/ (pc[u] = "wait" /\ pc'[u] = "idle")

(* A thread is about to take the lead, if any waits for it. *)
SomeoneAwake == (\E u \in Threads : pc[u] = "idle") \/ (\A u \in Threads : pc[u] # "wait")

TakesHandler(t, io, list) ==
    \E i \in 1..Len(list) :
        /\ list[i] \in registered \ disabled'
        /\ cur'[t] = list[i] /\ pc'[t] = "io" /\ ioCompleted'[t] = FALSE
        /\ handlers' = SubSeq(list, i + 1, Len(list))
        /\ inUseIO' = IF Multi THEN io + 1 ELSE io
        /\ promote' = ~leader'[t]
        /\ promote' => Multi /\ SomeoneAwake'

GivesUpLead(t, io) ==
    /\ io > 0
    /\ cur'[t] = NoHandler /\ pc'[t] = "idle" /\ leader'[t] = FALSE
    /\ handlers' = <<>> /\ inUseIO' = io /\ promote' = TRUE

StartsSelect(t, io) ==
    /\ io = 0
    /\ cur'[t] = NoHandler /\ pc'[t] = "select" /\ leader'[t] = TRUE
    /\ handlers' = <<>> /\ inUseIO' = io /\ promote' = FALSE

Waits(t, io) ==
    /\ ~MayLead(io)
    /\ cur'[t] = NoHandler /\ pc'[t] = "wait" /\ leader'[t] = leader[t]
    /\ UNCHANGED <<handlers, promote>> /\ inUseIO' = io
    /\ \A u \in Threads \ {t} : pc'[u] = pc[u]

(* notify() wakes one of the threads that wait. *)
LEMMA NotifyEffect ==
    ASSUME NEW f \in [Threads -> PCs], NEW g \in Notify(f)
    PROVE  /\ g \in [Threads -> PCs]
           /\ \A u \in Threads : g[u] = f[u] \/ (f[u] = "wait" /\ g[u] = "idle")
           /\ (\E u \in Threads : g[u] = "idle") \/ (\A u \in Threads : g[u] # "wait")
<1>1. CASE {w \in Threads : f[w] = "wait"} = {}
  <2>1. g = f
    BY <1>1 DEF Notify
  <2>2. \A u \in Threads : g[u] # "wait"
    BY <1>1, <2>1
  <2>3. \A u \in Threads : g[u] = f[u] \/ (f[u] = "wait" /\ g[u] = "idle")
    BY <2>1
  <2>4. g \in [Threads -> PCs]
    BY <2>1
  <2> QED BY <2>2, <2>3, <2>4, Zenon
<1>2. CASE {w \in Threads : f[w] = "wait"} # {}
  <2>1. PICK w \in Threads : f[w] = "wait" /\ g = [f EXCEPT ![w] = "idle"]
    BY <1>2 DEF Notify
  <2>2. "idle" \in PCs
    BY DEF PCs
  <2>3. g[w] = "idle" /\ \A u \in Threads \ {w} : g[u] = f[u]
    BY <2>1
  <2>4. g \in [Threads -> PCs]
    BY <2>1, <2>2
  <2>5. \A u \in Threads : g[u] = f[u] \/ (f[u] = "wait" /\ g[u] = "idle")
    BY <2>1, <2>3
  <2>6. \E u \in Threads : g[u] = "idle"
    BY <2>1, <2>3
  <2> QED BY <2>4, <2>5, <2>6, Zenon
<1> QED BY <1>1, <1>2

(* The end of a round that leads: a handler of the list, the lead given    *)
(* up, or a select.                                                        *)
LEMMA NextHandlerEffect ==
    ASSUME ThreadTypes, conf \in Configs, NEW t \in Threads, NEW io \in Nat,
           NEW list \in Seq(EventHandlers), GetNextHandler(t, io, list)
    PROVE  /\ ThreadTypes' /\ OthersKept(t)
           /\ TakesHandler(t, io, list) \/ GivesUpLead(t, io) \/ StartsSelect(t, io)
<1> DEFINE usable == {i \in DOMAIN list : list[i] \in registered \ disabled'}
           rest   == IF usable = {} THEN <<>> ELSE SubSeq(list, Min(usable), Len(list))
           give   == conf.sizeMax > 1 /\ rest # <<>> /\ Tail(rest) # <<>> /\ io + 1 < conf.sizeIO
<1>0. {"io", "idle", "select"} \subseteq PCs /\ NoHandler \in EventHandlers \cup {NoHandler}
  BY DEF PCs
<1>1. CASE /\ rest # <<>>
           /\ cur' = [cur EXCEPT ![t] = Head(rest)]
           /\ ioCompleted' = [ioCompleted EXCEPT ![t] = FALSE]
           /\ handlers' = Tail(rest)
           /\ inUseIO' = IF conf.sizeMax > 1 THEN io + 1 ELSE io
           /\ promote' = give
           /\ leader' = [leader EXCEPT ![t] = ~give]
           /\ IF give THEN pc' \in Notify([pc EXCEPT ![t] = "io"])
              ELSE pc' = [pc EXCEPT ![t] = "io"]
  <2>0. DOMAIN list = 1..Len(list) /\ Len(list) \in Nat
    BY LenProperties
  <2>u. usable \in SUBSET Nat
    BY <2>0
  <2>1. usable # {}
    BY <1>1
  <2>2. Min(usable) \in usable
    BY <2>u, <2>1, MinInSet
  <2> DEFINE m == Min(usable)
  <2>3. m \in 1..Len(list) /\ list[m] \in registered \ disabled' /\ rest = SubSeq(list, m, Len(list))
    BY <2>0, <2>1, <2>2
  <2> HIDE DEF usable, m, rest
  <2>l. Len(list) \in m..Len(list)
    BY <2>0, <2>3
  <2>4. Head(rest) = list[m] /\ Tail(rest) = SubSeq(list, m + 1, Len(list))
    <3>1. /\ Head(SubSeq(list, m, Len(list))) = list[m]
          /\ Tail(SubSeq(list, m, Len(list))) = SubSeq(list, m + 1, Len(list))
      BY <2>3, <2>l, HeadTailOfSubSeq
    <3> QED BY <2>3, <3>1
  <2>5. list[m] \in EventHandlers
    BY <2>3
  <2>6. give \in BOOLEAN /\ (give => Multi)
    BY DEF Multi
  <2> HIDE DEF give
  <2>7. cur' \in [Threads -> EventHandlers \cup {NoHandler}] /\ ioCompleted' \in [Threads -> BOOLEAN]
    BY <1>1, <2>4, <2>5 DEF ThreadTypes
  <2>8. leader' \in [Threads -> BOOLEAN] /\ leader'[t] = ~give
    BY <1>1, <2>6 DEF ThreadTypes
  <2>9. /\ pc' \in [Threads -> PCs] /\ pc'[t] = "io"
        /\ \A u \in Threads \ {t} : pc'[u] = pc[u] \/ (pc[u] = "wait" /\ pc'[u] = "idle")
        /\ give => SomeoneAwake'
    <3> DEFINE f == [pc EXCEPT ![t] = "io"]
    <3>0. f \in [Threads -> PCs] /\ f[t] = "io" /\ \A u \in Threads \ {t} : f[u] = pc[u]
      BY <1>0 DEF ThreadTypes
    <3>1. CASE give
      <4>1. pc' \in Notify(f)
        BY <1>1, <3>1
      <4> HIDE DEF f
      <4> QED BY <3>0, <4>1, NotifyEffect DEF SomeoneAwake
    <3>2. CASE ~give
      <4>1. pc' = f
        BY <1>1, <3>2
      <4> HIDE DEF f
      <4>3. pc' \in [Threads -> PCs]
        BY <3>0, <4>1
      <4>4. pc'[t] = "io"
        BY <3>0, <4>1
      <4>5. \A u \in Threads \ {t} : pc'[u] = pc[u]
        BY <3>0, <4>1
      <4> QED BY <3>2, <4>3, <4>4, <4>5, Zenon
    <3> QED BY <3>1, <3>2
  <2>10. ThreadTypes'
    BY <2>7, <2>8, <2>9 DEF ThreadTypes
  <2>11. /\ cur'[t] = list[m] /\ ioCompleted'[t] = FALSE
         /\ \A u \in Threads \ {t} : /\ cur'[u] = cur[u] /\ leader'[u] = leader[u]
                                     /\ ioCompleted'[u] = ioCompleted[u]
    BY <1>1, <2>4 DEF ThreadTypes
  <2>12. TakesHandler(t, io, list)
    BY <1>1, <2>3, <2>4, <2>6, <2>8, <2>9, <2>11 DEF TakesHandler, Multi
  <2> QED BY <2>9, <2>10, <2>11, <2>12 DEF OthersKept
<1>2. CASE /\ rest = <<>> /\ io > 0
           /\ cur' = [cur EXCEPT ![t] = NoHandler]
           /\ handlers' = <<>>
           /\ inUseIO' = io
           /\ promote' = TRUE
           /\ leader' = [leader EXCEPT ![t] = FALSE]
           /\ pc' = [pc EXCEPT ![t] = "idle"]
           /\ UNCHANGED ioCompleted
  <2>1. ThreadTypes'
    <3>1. cur' \in [Threads -> EventHandlers \cup {NoHandler}]
      BY <1>0, <1>2 DEF ThreadTypes
    <3>2. pc' \in [Threads -> PCs]
      BY <1>0, <1>2 DEF ThreadTypes
    <3>3. leader' \in [Threads -> BOOLEAN] /\ ioCompleted' \in [Threads -> BOOLEAN]
      BY <1>2 DEF ThreadTypes
    <3> QED BY <3>1, <3>2, <3>3 DEF ThreadTypes
  <2>0. OthersKept(t)
    BY <1>2 DEF ThreadTypes, OthersKept
  <2>2. GivesUpLead(t, io)
    BY <1>2 DEF GivesUpLead, ThreadTypes
  <2> QED BY <2>0, <2>1, <2>2
<1>3. CASE /\ rest = <<>> /\ io = 0
           /\ cur' = [cur EXCEPT ![t] = NoHandler]
           /\ handlers' = <<>>
           /\ inUseIO' = io
           /\ promote' = FALSE
           /\ leader' = [leader EXCEPT ![t] = TRUE]
           /\ pc' = [pc EXCEPT ![t] = "select"]
           /\ UNCHANGED ioCompleted
  <2>1. ThreadTypes'
    <3>1. cur' \in [Threads -> EventHandlers \cup {NoHandler}]
      BY <1>0, <1>3 DEF ThreadTypes
    <3>2. pc' \in [Threads -> PCs]
      BY <1>0, <1>3 DEF ThreadTypes
    <3>3. leader' \in [Threads -> BOOLEAN] /\ ioCompleted' \in [Threads -> BOOLEAN]
      BY <1>3 DEF ThreadTypes
    <3> QED BY <3>1, <3>2, <3>3 DEF ThreadTypes
  <2>0. OthersKept(t)
    BY <1>3 DEF ThreadTypes, OthersKept
  <2>2. StartsSelect(t, io)
    BY <1>3 DEF StartsSelect, ThreadTypes
  <2> QED BY <2>0, <2>1, <2>2
<1> QED BY <1>1, <1>2, <1>3 DEF GetNextHandler

-----------------------------------------------------------------------------
(* The part of the invariant about threads, and the kinds of steps.        *)

(* Nobody queues the item that stands for an empty queue. *)
QueuedItems == Items \ {NoItem, DestroyedItem}

(* The part of TypeOK that the handlers' data is not about. *)
CoreTypes ==
    /\ conf \in Configs /\ ThreadTypes
    /\ item \in [Threads -> Items]
    /\ threads \in SUBSET Threads
    /\ promote \in BOOLEAN /\ destroyed \in BOOLEAN
    /\ inUse \in Int /\ inUseIO \in Nat
    /\ handlers \in Seq(EventHandlers)
    /\ workItems \in Seq(QueuedItems)
    /\ registered \in SUBSET EventHandlers /\ disabled \in SUBSET Handlers
    /\ ready \in SUBSET EventHandlers /\ events \in SUBSET Handlers

PoolInv == ThreadInv /\ LeaderInv /\ CountInv /\ SpareInv /\ NoLostWakeup

CoreInv == CoreTypes /\ PoolInv /\ JoinInv

(* A thread ends a round of run(), leading or waiting. *)
Round(t, io, list) ==
    /\ t \in threads /\ pc[t] \in {"idle", "wait", "selected", "done"}
    /\ io \in Nat /\ list \in Seq(EventHandlers)
    /\ ThreadTypes' /\ OthersKept(t)
    /\ UNCHANGED <<conf, threads, workItems, destroyed>>
    /\ Multi => /\ io = Cardinality(IOThreads \ {t})
                /\ inUse' = Cardinality(UsedThreads \ {t})
    /\ ~Multi => io = 0 /\ inUse' = inUse
    /\ \/ /\ leader[t] \/ promote
          /\ io < conf.sizeIO
          /\ TakesHandler(t, io, list) \/ GivesUpLead(t, io) \/ StartsSelect(t, io)
       \/ ~leader[t] /\ Waits(t, io)
    /\ item' \in [Threads -> Items]
    /\ \A u \in Threads : item'[u] = item[u] \/ (u = t /\ item'[u] = NoItem)

(* What a configuration is. *)
LEMMA ConfFacts ==
    ASSUME CoreTypes
    PROVE  /\ conf.size \in Nat /\ conf.sizeMax \in Nat /\ conf.sizeIO \in Nat
           /\ conf.sizeMax > 0 /\ conf.sizeIO > 0 /\ conf.size > 0
           /\ conf.size <= conf.sizeMax /\ conf.sizeIO <= conf.sizeMax
           /\ conf.serialize \in BOOLEAN /\ conf.startFails \in BOOLEAN
           /\ Multi \in BOOLEAN
<1>1. conf \in Configs
  BY DEF CoreTypes
<1>2. conf \in [size : Nat \ {0}, sizeMax : Nat \ {0}, sizeIO : Nat \ {0},
                serialize : BOOLEAN, idle : BOOLEAN, serverIdle : BOOLEAN,
                startFails : BOOLEAN]
  BY <1>1, ConfigsAssumption
<1>3. conf.size <= conf.sizeMax /\ conf.sizeIO <= conf.sizeMax
  BY <1>1, SizesAssumption
<1> QED BY <1>2, <1>3 DEF Multi

(* The sets of threads that are counted are finite. *)
LEMMA CountFacts ==
    ASSUME CoreTypes
    PROVE  /\ IsFiniteSet(threads) /\ IsFiniteSet(IOThreads) /\ IsFiniteSet(UsedThreads)
           /\ Cardinality(threads) \in Nat /\ Cardinality(IOThreads) \in Nat
           /\ Cardinality(UsedThreads) \in Nat
           /\ IOThreads \subseteq threads /\ UsedThreads \subseteq threads
           /\ Cardinality(UsedThreads) <= Cardinality(threads)
<1>1. IsFiniteSet(threads)
  BY ThreadsAssumption, FS_Subset DEF CoreTypes
<1>2. IOThreads \subseteq threads /\ UsedThreads \subseteq threads
  BY DEF IOThreads, UsedThreads
<1> QED BY <1>1, <1>2, FS_Subset, FS_CardinalityType

(* Leaving a thread out of a count. *)
LEMMA LeaveOut ==
    ASSUME NEW S, IsFiniteSet(S), NEW t
    PROVE  /\ IsFiniteSet(S \ {t}) /\ Cardinality(S \ {t}) \in Nat
           /\ Cardinality(S) \in Nat
           /\ t \in S => Cardinality(S \ {t}) = Cardinality(S) - 1
           /\ t \notin S => S \ {t} = S
<1>1. IsFiniteSet(S \ {t})
  BY FS_Subset, S \ {t} \subseteq S
<1>2. Cardinality(S \ {t}) \in Nat /\ Cardinality(S) \in Nat
  BY <1>1, FS_CardinalityType
<1>3. t \in S => Cardinality(S \ {t}) = Cardinality(S) - 1
  BY FS_RemoveElement
<1> QED BY <1>1, <1>2, <1>3

(* The end of a round that does not lead. *)
LEMMA WaitEffect ==
    ASSUME ThreadTypes, NEW t \in Threads, NEW io,
           ~MayLead(io),
           pc' = [pc EXCEPT ![t] = "wait"], cur' = [cur EXCEPT ![t] = NoHandler],
           inUseIO' = io, UNCHANGED <<leader, ioCompleted, promote, handlers>>
    PROVE  ThreadTypes' /\ OthersKept(t) /\ Waits(t, io)
<1>1. "wait" \in PCs
  BY DEF PCs
<1>2. pc' \in [Threads -> PCs]
  BY <1>1 DEF ThreadTypes
<1>3. cur' \in [Threads -> EventHandlers \cup {NoHandler}]
  BY DEF ThreadTypes
<1>4. ThreadTypes'
  BY <1>2, <1>3 DEF ThreadTypes
<1>5. pc'[t] = "wait" /\ \A u \in Threads \ {t} : pc'[u] = pc[u]
  BY DEF ThreadTypes
<1>6. cur'[t] = NoHandler /\ \A u \in Threads \ {t} : cur'[u] = cur[u]
  BY DEF ThreadTypes
<1>7. OthersKept(t)
  BY <1>5, <1>6 DEF OthersKept
<1>8. Waits(t, io)
  BY <1>5, <1>6 DEF Waits
<1> QED BY <1>4, <1>7, <1>8

-----------------------------------------------------------------------------
(* An order of a finite set is a sequence that holds each element once. *)
LEMMA OrdersFacts ==
    ASSUME NEW S, IsFiniteSet(S), NEW s \in Orders(S)
    PROVE  /\ s \in Seq(S) /\ Len(s) \in Nat
           /\ \A i \in 1..Len(s) : s[i] \in S
           /\ \A i, j \in 1..Len(s) : s[i] = s[j] => i = j
<1>1. Cardinality(S) \in Nat
  BY FS_CardinalityType
<1>2. s \in [1..Cardinality(S) -> S] /\ \A i, j \in DOMAIN s : s[i] = s[j] => i = j
  BY DEF Orders
<1>3. s \in Seq(S)
  BY <1>1, <1>2, SeqDef
<1>4. DOMAIN s = 1..Len(s) /\ Len(s) \in Nat
  BY <1>3, LenProperties
<1>5. \A i \in 1..Len(s) : s[i] \in S
  BY <1>2, <1>4
<1> QED BY <1>2, <1>3, <1>4, <1>5

(* The list that finishSelect() makes holds a handler once, and those that *)
(* were ready without the select come last.                                *)
LEMMA ListFacts ==
    ASSUME NEW E \in SUBSET Handlers, NEW R \in SUBSET EventHandlers,
           NEW list \in HandlerLists(E, R)
    PROVE  /\ list \in Seq(EventHandlers) /\ Len(list) \in Nat
           /\ \A i \in 1..Len(list) : list[i] \in E \cup R
           /\ \A i, j \in 1..Len(list) : list[i] = list[j] => i = j
           /\ \A i, j \in 1..Len(list) : i < j /\ list[i] \in R => list[j] \in R
<1>1. IsFiniteSet(EventHandlers)
  BY HandlersAssumption, FS_AddElement DEF EventHandlers
<1>2. IsFiniteSet(E \ R) /\ IsFiniteSet(R)
  <2>1. E \ R \subseteq EventHandlers
    BY DEF EventHandlers
  <2> QED BY <1>1, <2>1, FS_Subset
<1>3. PICK p \in Orders(E \ R), o \in Orders(R) : list = p \o o
  BY DEF HandlerLists
<1>4. /\ p \in Seq(E \ R) /\ Len(p) \in Nat
      /\ \A i \in 1..Len(p) : p[i] \in E \ R
      /\ \A i, j \in 1..Len(p) : p[i] = p[j] => i = j
  BY <1>2, OrdersFacts
<1>5. /\ o \in Seq(R) /\ Len(o) \in Nat
      /\ \A i \in 1..Len(o) : o[i] \in R
      /\ \A i, j \in 1..Len(o) : o[i] = o[j] => i = j
  BY <1>2, OrdersFacts
<1>6. p \in Seq(EventHandlers) /\ o \in Seq(EventHandlers)
  <2>1. E \ R \subseteq EventHandlers
    BY DEF EventHandlers
  <2>2. \A i \in 1..Len(p) : p[i] \in EventHandlers
    BY <1>4, <2>1
  <2>3. \A i \in 1..Len(o) : o[i] \in EventHandlers
    BY <1>5
  <2>4. p \in [1..Len(p) -> EventHandlers]
    BY <1>4, <2>2, LenProperties
  <2>5. o \in [1..Len(o) -> EventHandlers]
    BY <1>5, <2>3, LenProperties
  <2> QED BY <1>4, <1>5, <2>4, <2>5, SeqDef
<1>7. /\ list \in Seq(EventHandlers) /\ Len(list) = Len(p) + Len(o)
      /\ \A i \in 1..Len(list) : list[i] = IF i <= Len(p) THEN p[i] ELSE o[i - Len(p)]
  BY <1>3, <1>6, ConcatProperties
<1>8. \A i \in 1..Len(list) :
        IF i <= Len(p) THEN i \in 1..Len(p) /\ list[i] = p[i] /\ list[i] \in E \ R
        ELSE i - Len(p) \in 1..Len(o) /\ list[i] = o[i - Len(p)] /\ list[i] \in R
  BY <1>4, <1>5, <1>7
<1>9. \A i, j \in 1..Len(list) : list[i] = list[j] => i = j
  <2> SUFFICES ASSUME NEW i \in 1..Len(list), NEW j \in 1..Len(list), list[i] = list[j]
               PROVE  i = j
    OBVIOUS
  <2>1. CASE i <= Len(p) /\ j <= Len(p)
    BY <1>4, <1>8, <2>1
  <2>2. CASE ~(i <= Len(p)) /\ ~(j <= Len(p))
    <3>1. i - Len(p) \in 1..Len(o) /\ j - Len(p) \in 1..Len(o) /\ o[i - Len(p)] = o[j - Len(p)]
      BY <1>8, <2>2
    <3>2. i - Len(p) = j - Len(p)
      BY <1>5, <3>1
    <3> QED BY <1>4, <1>5, <1>7, <3>2
  <2>3. CASE (i <= Len(p)) # (j <= Len(p))
    BY <1>8, <2>3
  <2> QED BY <2>1, <2>2, <2>3
<1>10. \A i, j \in 1..Len(list) : i < j /\ list[i] \in R => list[j] \in R
  BY <1>4, <1>5, <1>7, <1>8
<1>11. Len(list) \in Nat /\ \A i \in 1..Len(list) : list[i] \in E \cup R
  BY <1>4, <1>5, <1>7, <1>8
<1> QED BY <1>7, <1>9, <1>10, <1>11

-----------------------------------------------------------------------------
(* The four steps that end a round of run().                               *)

(* A thread without a handler is in none of the counts. *)
LEMMA NotCounted ==
    ASSUME CoreInv, NEW t \in Threads, cur[t] = NoHandler
    PROVE  /\ IOThreads \ {t} = IOThreads /\ UsedThreads \ {t} = UsedThreads
           /\ Multi => /\ inUseIO = Cardinality(IOThreads \ {t})
                       /\ inUse = Cardinality(UsedThreads \ {t})
           /\ ~Multi => inUseIO = 0
<1>1. IOThreads \ {t} = IOThreads /\ UsedThreads \ {t} = UsedThreads
  BY DEF IOThreads, UsedThreads
<1> QED BY <1>1 DEF CoreInv, PoolInv, CountInv

(* A follower enters followerWait() or leaves it. *)
LEMMA FollowRound ==
    ASSUME CoreInv, NEW t \in Threads, Follow(t) \/ TimedOutWanted(t)
    PROVE  Round(t, inUseIO, handlers)
<1>0. CoreTypes /\ ThreadTypes /\ conf \in Configs
  BY DEF CoreInv, CoreTypes
<1>1. pc[t] \in {"idle", "wait"}
  BY DEF Follow, TimedOutWanted
<1>2. t \in threads /\ cur[t] = NoHandler
  BY <1>1 DEF CoreInv, PoolInv, ThreadInv
<1>3. ~leader[t]
  BY <1>1 DEF CoreInv, PoolInv, LeaderInv
<1>4. inUseIO \in Nat /\ inUseIO <= conf.sizeIO /\ handlers \in Seq(EventHandlers)
  BY <1>0 DEF CoreInv, CoreTypes, PoolInv, CountInv
<1>5. UNCHANGED <<conf, threads, workItems, destroyed, item, inUse>>
  BY DEF Follow, TimedOutWanted
<1>6. /\ Multi => /\ inUseIO = Cardinality(IOThreads \ {t})
                  /\ inUse' = Cardinality(UsedThreads \ {t})
      /\ ~Multi => inUseIO = 0 /\ inUse' = inUse
  BY <1>2, <1>5, NotCounted
<1>7. item' \in [Threads -> Items] /\ \A u \in Threads : item'[u] = item[u]
  BY <1>0, <1>5 DEF CoreTypes
<1>8. CASE MayLead(inUseIO) /\ GetNextHandler(t, inUseIO, handlers)
  <2>1. promote /\ inUseIO < conf.sizeIO
    BY <1>0, <1>4, <1>8, ConfFacts DEF MayLead
  <2>2. /\ ThreadTypes' /\ OthersKept(t)
        /\ \/ TakesHandler(t, inUseIO, handlers) \/ GivesUpLead(t, inUseIO)
           \/ StartsSelect(t, inUseIO)
    BY <1>0, <1>4, <1>8, NextHandlerEffect
  <2> QED BY <1>1, <1>2, <1>4, <1>5, <1>6, <1>7, <2>1, <2>2 DEF Round
<1>9. CASE ~MayLead(inUseIO) /\ FollowerWait(t, inUseIO)
  <2>1. /\ pc' = [pc EXCEPT ![t] = "wait"] /\ cur' = [cur EXCEPT ![t] = NoHandler]
        /\ inUseIO' = inUseIO /\ UNCHANGED <<leader, ioCompleted, promote, handlers>>
    BY <1>9 DEF FollowerWait
  <2>2. ThreadTypes' /\ OthersKept(t) /\ Waits(t, inUseIO)
    BY <1>0, <1>9, <2>1, WaitEffect
  <2> QED BY <1>1, <1>2, <1>3, <1>4, <1>5, <1>6, <1>7, <2>2 DEF Round
<1>10. \/ MayLead(inUseIO) /\ GetNextHandler(t, inUseIO, handlers)
       \/ ~MayLead(inUseIO) /\ FollowerWait(t, inUseIO)
  BY DEF Follow, TimedOutWanted, FollowerWait
<1> QED BY <1>8, <1>9, <1>10

(* The leader returns from select(). *)
LEMMA SelectRound ==
    ASSUME CoreInv, NEW t \in Threads, FinishSelect(t)
    PROVE  \E list \in HandlerLists(events, ReadyHandlers(ready, registered, disabled)) :
               Round(t, inUseIO, list)
<1>0. CoreTypes /\ ThreadTypes /\ conf \in Configs
  BY DEF CoreInv, CoreTypes
<1>1. pc[t] = "selected"
  BY DEF FinishSelect
<1>2. t \in threads /\ cur[t] = NoHandler
  BY <1>1 DEF CoreInv, PoolInv, ThreadInv, Selectors
<1>3. leader[t]
  BY <1>1 DEF CoreInv, PoolInv, LeaderInv, Selectors
<1>4. inUseIO \in Nat /\ inUseIO < conf.sizeIO
  BY <1>0, <1>1, ConfFacts DEF CoreInv, PoolInv, CountInv, Selecting
<1>5. UNCHANGED <<conf, threads, workItems, destroyed, item, inUse>>
  BY DEF FinishSelect
<1>6. /\ Multi => /\ inUseIO = Cardinality(IOThreads \ {t})
                  /\ inUse' = Cardinality(UsedThreads \ {t})
      /\ ~Multi => inUseIO = 0 /\ inUse' = inUse
  BY <1>2, <1>5, NotCounted
<1>7. item' \in [Threads -> Items] /\ \A u \in Threads : item'[u] = item[u]
  BY <1>0, <1>5 DEF CoreTypes
<1>8. PICK list \in HandlerLists(events, ReadyHandlers(ready, registered, disabled)) :
        GetNextHandler(t, inUseIO, list)
  BY DEF FinishSelect
<1>9. list \in Seq(EventHandlers)
  <2>1. events \in SUBSET Handlers /\ ReadyHandlers(ready, registered, disabled) \in SUBSET EventHandlers
    BY <1>0 DEF CoreTypes, ReadyHandlers
  <2> QED BY <2>1, ListFacts
<1>10. /\ ThreadTypes' /\ OthersKept(t)
       /\ TakesHandler(t, inUseIO, list) \/ GivesUpLead(t, inUseIO) \/ StartsSelect(t, inUseIO)
  BY <1>0, <1>4, <1>8, <1>9, NextHandlerEffect
<1>11. Round(t, inUseIO, list)
  BY <1>1, <1>2, <1>3, <1>4, <1>5, <1>6, <1>7, <1>9, <1>10 DEF Round
<1> QED BY <1>11

(* message() has returned. *)
LEMMA MessageDoneRound ==
    ASSUME CoreInv, NEW t \in Threads, MessageDone(t)
    PROVE  Round(t, IOAfterMessage(t), handlers)
<1> DEFINE io == IOAfterMessage(t)
<1>0. CoreTypes /\ ThreadTypes /\ conf \in Configs
  BY DEF CoreInv, CoreTypes
<1>1. pc[t] = "done"
  BY DEF MessageDone
<1>2. t \in threads /\ cur[t] # NoHandler
  BY <1>1 DEF CoreInv, PoolInv, ThreadInv
<1>3. /\ IsFiniteSet(IOThreads) /\ IsFiniteSet(UsedThreads)
      /\ inUseIO \in Nat /\ inUseIO <= conf.sizeIO /\ inUse \in Int
      /\ handlers \in Seq(EventHandlers) /\ ioCompleted[t] \in BOOLEAN
  BY <1>0, CountFacts DEF CoreInv, CoreTypes, PoolInv, CountInv, ThreadTypes
<1>4. UNCHANGED <<conf, threads, workItems, destroyed>>
  BY DEF MessageDone
<1>5. inUse' = IF conf.sizeMax > 1 /\ ioCompleted[t] THEN inUse - 1 ELSE inUse
  BY DEF MessageDone
<1>6. ASSUME Multi
      PROVE  /\ io = Cardinality(IOThreads \ {t})
             /\ inUse' = Cardinality(UsedThreads \ {t})
             /\ ~ioCompleted[t] => io < conf.sizeIO
  <2>1. inUseIO = Cardinality(IOThreads) /\ inUse = Cardinality(UsedThreads)
    BY <1>6 DEF CoreInv, PoolInv, CountInv
  <2>2. CASE ioCompleted[t]
    <3>1. t \in UsedThreads /\ t \notin IOThreads
      BY <1>1, <1>2, <2>2 DEF UsedThreads, IOThreads
    <3>2. io = inUseIO /\ inUse' = inUse - 1
      BY <1>5, <1>6, <2>2 DEF IOAfterMessage, Multi
    <3> QED BY <1>3, <2>1, <2>2, <3>1, <3>2, LeaveOut
  <2>3. CASE ~ioCompleted[t]
    <3>1. t \notin UsedThreads /\ t \in IOThreads
      BY <1>1, <1>2, <2>3 DEF UsedThreads, IOThreads
    <3>2. io = inUseIO - 1 /\ inUse' = inUse
      BY <1>5, <1>6, <2>3 DEF IOAfterMessage, Multi
    <3>3. io < conf.sizeIO
      BY <1>0, <1>3, <3>2, ConfFacts
    <3> QED BY <1>3, <2>1, <3>1, <3>2, <3>3, LeaveOut
  <2> QED BY <1>3, <2>2, <2>3
<1>7. ASSUME ~Multi
      PROVE  io = 0 /\ inUse' = inUse
  BY <1>5, <1>7 DEF CoreInv, PoolInv, CountInv, IOAfterMessage, Multi
<1>8. io \in Nat
  <2>1. CASE Multi
    <3>1. Cardinality(IOThreads \ {t}) \in Nat
      BY <1>3, LeaveOut
    <3>2. io = Cardinality(IOThreads \ {t})
      BY <1>6, <2>1
    <3> HIDE DEF io
    <3> QED BY <3>1, <3>2
  <2>2. CASE ~Multi
    BY <1>7, <2>2
  <2> QED BY <2>1, <2>2
<1>9. item' \in [Threads -> Items] /\ \A u \in Threads : item'[u] = item[u] \/ (u = t /\ item'[u] = NoItem)
  <2>1. item' = [item EXCEPT ![t] = NoItem] /\ NoItem \in Items
    BY DEF MessageDone, Items
  <2> QED BY <1>0, <2>1 DEF CoreTypes
<1>10. ASSUME leader[t]
       PROVE  io < conf.sizeIO
  <2>1. CASE Multi
    <3>1. ~ioCompleted[t]
      BY <1>2, <1>10, <2>1 DEF CoreInv, PoolInv, LeaderInv
    <3> QED BY <1>6, <2>1, <3>1
  <2>2. CASE ~Multi
    BY <1>0, <1>7, <2>2, ConfFacts
  <2> QED BY <2>1, <2>2
<1>11. CASE GetNextHandler(t, io, handlers) /\ (leader[t] \/ MayLead(io))
  <2>1. leader[t] \/ promote
    BY <1>11 DEF MayLead
  <2>2. io < conf.sizeIO
    <3>1. CASE leader[t]
      BY <1>10, <3>1
    <3>2. CASE MayLead(io)
      <4>1. io # conf.sizeIO
        BY <3>2 DEF MayLead
      <4>2. io <= conf.sizeIO
        BY <1>0, <1>3, ConfFacts DEF IOAfterMessage
      <4> HIDE DEF io
      <4> QED BY <1>0, <1>8, <4>1, <4>2, ConfFacts
    <3> QED BY <1>11, <3>1, <3>2
  <2> HIDE DEF io
  <2>3. /\ ThreadTypes' /\ OthersKept(t)
        /\ TakesHandler(t, io, handlers) \/ GivesUpLead(t, io) \/ StartsSelect(t, io)
    BY <1>0, <1>3, <1>8, <1>11, NextHandlerEffect
  <2>4. Round(t, io, handlers)
    BY <1>1, <1>2, <1>3, <1>4, <1>6, <1>7, <1>8, <1>9, <2>1, <2>2, <2>3 DEF Round
  <2> QED BY <2>4 DEF io
<1>12. CASE ~leader[t] /\ ~MayLead(io) /\ FollowerWait(t, io)
  <2> HIDE DEF io
  <2>1. /\ pc' = [pc EXCEPT ![t] = "wait"] /\ cur' = [cur EXCEPT ![t] = NoHandler]
        /\ inUseIO' = io /\ UNCHANGED <<leader, ioCompleted, promote, handlers>>
    BY <1>12 DEF FollowerWait
  <2>2. ThreadTypes' /\ OthersKept(t) /\ Waits(t, io)
    BY <1>0, <1>12, <2>1, WaitEffect
  <2>3. Round(t, io, handlers)
    BY <1>1, <1>2, <1>3, <1>4, <1>6, <1>7, <1>8, <1>9, <1>12, <2>2 DEF Round
  <2> QED BY <2>3 DEF io
<1>13. \/ GetNextHandler(t, io, handlers) /\ (leader[t] \/ MayLead(io))
       \/ ~leader[t] /\ ~MayLead(io) /\ FollowerWait(t, io)
  BY DEF MessageDone, FollowerWait
<1> QED BY <1>11, <1>12, <1>13

-----------------------------------------------------------------------------
(* What a round does to the sets that are counted. *)
LEMMA RoundSets ==
    ASSUME CoreInv, NEW t \in Threads, NEW io, NEW list, Round(t, io, list)
    PROVE  /\ pc'[t] \in {"io", "idle", "select", "wait"}
           /\ pc'[t] = "io" => /\ cur'[t] # NoHandler /\ ~ioCompleted'[t]
                               /\ TakesHandler(t, io, list)
           /\ pc'[t] # "io" => cur'[t] = NoHandler
           /\ IOThreads' = IF pc'[t] = "io" THEN (IOThreads \ {t}) \cup {t} ELSE IOThreads \ {t}
           /\ UsedThreads' = UsedThreads \ {t}
           /\ \A u \in Threads \ {t} :
                leader[t] \/ promote =>
                    ~leader[u] /\ ~leader'[u] /\ pc[u] \notin Selectors /\ pc'[u] \notin Selectors
<1> DEFINE takes == TakesHandler(t, io, list)
           leads == /\ leader[t] \/ promote
                    /\ io < conf.sizeIO
                    /\ takes \/ GivesUpLead(t, io) \/ StartsSelect(t, io)
           waits == ~leader[t] /\ Waits(t, io)
<1>0. CoreTypes /\ ThreadTypes /\ ThreadTypes' /\ OthersKept(t) /\ t \in threads
  BY DEF CoreInv, CoreTypes, Round
<1>1. /\ pc[t] \in {"idle", "wait", "selected", "done"}
      /\ io \in Nat /\ threads' = threads /\ conf' = conf /\ destroyed' = destroyed
      /\ (leads \/ waits)
  BY DEF Round
<1>2. pc'[t] \in {"io", "idle", "select", "wait"}
  BY <1>1 DEF TakesHandler, GivesUpLead, StartsSelect, Waits
<1>3. pc'[t] = "io" => cur'[t] # NoHandler /\ ~ioCompleted'[t] /\ takes
  <2>1. ASSUME takes PROVE cur'[t] # NoHandler /\ ~ioCompleted'[t]
    <3>1. PICK i \in 1..Len(list) : cur'[t] = list[i] /\ ioCompleted'[t] = FALSE
      BY <2>1 DEF TakesHandler
    <3>2. list[i] \in EventHandlers
      BY <3>1 DEF Round
    <3> QED BY <3>1, <3>2, HandlersAssumption DEF EventHandlers, NoHandler, WorkQueue
  <2>2. pc'[t] = "io" => takes
    BY <1>1 DEF GivesUpLead, StartsSelect, Waits
  <2> QED BY <2>1, <2>2
<1>4. pc'[t] # "io" => cur'[t] = NoHandler
  BY <1>1 DEF TakesHandler, GivesUpLead, StartsSelect, Waits
<1>6. \A u \in Threads \ {t} :
        leader[t] \/ promote =>
            ~leader[u] /\ ~leader'[u] /\ pc[u] \notin Selectors /\ pc'[u] \notin Selectors
  <2> SUFFICES ASSUME NEW u \in Threads \ {t}, leader[t] \/ promote
               PROVE  ~leader[u] /\ ~leader'[u] /\ pc[u] \notin Selectors /\ pc'[u] \notin Selectors
    OBVIOUS
  <2>1. ~leader[u]
    BY DEF CoreInv, PoolInv, LeaderInv
  <2>2. pc[u] \notin Selectors
    BY <2>1 DEF CoreInv, PoolInv, LeaderInv
  <2> QED BY <1>0, <2>1, <2>2 DEF OthersKept, Selectors
<1>9. IOThreads' = IF pc'[t] = "io" THEN (IOThreads \ {t}) \cup {t} ELSE IOThreads \ {t}
  <2>1. \A u \in threads : u # t => (u \in IOThreads' <=> u \in IOThreads)
    BY <1>0, <1>1 DEF IOThreads, OthersKept, CoreTypes
  <2>2. t \in IOThreads' <=> pc'[t] = "io"
    BY <1>0, <1>1, <1>3, <1>4 DEF IOThreads
  <2>3. IOThreads' \subseteq threads /\ IOThreads \subseteq threads
    BY <1>1 DEF IOThreads
  <2> QED BY <2>1, <2>2, <2>3
<1>10. UsedThreads' = UsedThreads \ {t}
  <2>1. \A u \in threads : u # t => (u \in UsedThreads' <=> u \in UsedThreads)
    BY <1>0, <1>1 DEF UsedThreads, OthersKept, CoreTypes
  <2>2. t \notin UsedThreads'
    BY <1>3, <1>4 DEF UsedThreads
  <2>3. UsedThreads' \subseteq threads /\ UsedThreads \subseteq threads
    BY <1>1 DEF UsedThreads
  <2> QED BY <2>1, <2>2, <2>3
<1> QED BY <1>2, <1>3, <1>4, <1>6, <1>9, <1>10

(* A round keeps the invariant.                                            *)
LEMMA RoundKeeps ==
    ASSUME CoreInv, NEW t \in Threads, NEW io, NEW list, Round(t, io, list)
    PROVE  PoolInv'
<1> DEFINE takes == TakesHandler(t, io, list)
           leads == /\ leader[t] \/ promote
                    /\ io < conf.sizeIO
                    /\ takes \/ GivesUpLead(t, io) \/ StartsSelect(t, io)
           waits == ~leader[t] /\ Waits(t, io)
<1>0. CoreTypes /\ ThreadTypes /\ ThreadTypes' /\ OthersKept(t) /\ t \in threads
  BY DEF CoreInv, CoreTypes, Round
<1>1. /\ pc[t] \in {"idle", "wait", "selected", "done"}
      /\ io \in Nat /\ threads' = threads /\ conf' = conf /\ destroyed' = destroyed
      /\ (leads \/ waits)
  BY DEF Round
<1>2. pc'[t] \in {"io", "idle", "select", "wait"}
  BY RoundSets
<1>3. pc'[t] = "io" => cur'[t] # NoHandler /\ ~ioCompleted'[t] /\ takes
  BY RoundSets
<1>4. pc'[t] # "io" => cur'[t] = NoHandler
  BY RoundSets
<1>5. ThreadInv'
  <2> SUFFICES ASSUME NEW u \in Threads
               PROVE  /\ pc'[u] \in {"none", "exiting"} => u \notin threads
                      /\ pc'[u] \notin {"none", "exiting", "exited"} => u \in threads
                      /\ u \notin threads => cur'[u] = NoHandler
                      /\ pc'[u] \in {"idle", "wait"} \cup Selectors => cur'[u] = NoHandler
                      /\ pc'[u] \in {"io", "exec"} => cur'[u] # NoHandler /\ ~ioCompleted'[u]
                      /\ pc'[u] \in {"user", "dying"} => cur'[u] # NoHandler /\ ioCompleted'[u]
                      /\ pc'[u] = "done" => cur'[u] # NoHandler
                      /\ pc'[u] \in {"exec", "dying"} => cur'[u] = WorkQueue
                      /\ pc'[u] = "exited" /\ u \in threads => cur'[u] = WorkQueue /\ ioCompleted'[u]
    BY <1>1 DEF ThreadInv
  <2>1. CASE u = t
    BY <1>0, <1>2, <1>3, <1>4, <2>1 DEF Selectors
  <2>2. CASE u # t
    <3>1. cur'[u] = cur[u] /\ ioCompleted'[u] = ioCompleted[u]
      BY <1>0, <2>2 DEF OthersKept
    <3>2. CASE pc'[u] = pc[u]
      BY <3>1, <3>2 DEF CoreInv, PoolInv, ThreadInv
    <3>3. CASE pc[u] = "wait" /\ pc'[u] = "idle"
      BY <3>1, <3>3 DEF CoreInv, PoolInv, ThreadInv
    <3> QED BY <1>0, <2>2, <3>2, <3>3 DEF OthersKept
  <2> QED BY <2>1, <2>2
<1>6. \A u \in Threads \ {t} : leads => ~leader[u] /\ ~leader'[u] /\ pc'[u] \notin Selectors
  BY RoundSets
<1>7. ASSUME waits
      PROVE  /\ promote' = promote /\ handlers' = handlers /\ inUseIO' = io
             /\ ~leader[t] /\ ~leader'[t] /\ pc'[t] = "wait"
             /\ \A u \in Threads \ {t} : pc'[u] = pc[u] /\ leader'[u] = leader[u]
  BY <1>0, <1>7 DEF Waits, OthersKept
<1>8. LeaderInv'
  <2>1. CASE leads
    <3>1. leader'[t] = ~promote' /\ promote' \in BOOLEAN
      BY <1>0, <2>1 DEF TakesHandler, GivesUpLead, StartsSelect, ThreadTypes
    <3>2. leader'[t] => pc'[t] \in {"io", "select"}
      BY <2>1 DEF TakesHandler, GivesUpLead, StartsSelect
    <3>3. leader'[t] => ~(cur'[t] # NoHandler /\ ioCompleted'[t])
      BY <1>3, <1>4
    <3>4. pc'[t] \in Selectors => leader'[t]
      BY <2>1 DEF TakesHandler, GivesUpLead, StartsSelect, Selectors
    <3> QED BY <1>0, <1>1, <1>6, <2>1, <3>1, <3>2, <3>3, <3>4 DEF LeaderInv
  <2>2. CASE waits
    <3>1. \A u \in Threads : leader'[u] => u # t /\ leader[u]
      BY <1>7, <2>2
    <3>2. \A u \in Threads : leader'[u] => /\ ~promote' /\ u \in threads' /\ pc'[u] \notin {"idle", "wait"}
                                           /\ Multi' => ~(cur'[u] # NoHandler /\ ioCompleted'[u])
      <4> SUFFICES ASSUME NEW u \in Threads, leader'[u]
                   PROVE  /\ ~promote' /\ u \in threads' /\ pc'[u] \notin {"idle", "wait"}
                          /\ Multi' => ~(cur'[u] # NoHandler /\ ioCompleted'[u])
        OBVIOUS
      <4>1. u # t /\ leader[u]
        BY <3>1
      <4>2. cur'[u] = cur[u] /\ ioCompleted'[u] = ioCompleted[u] /\ pc'[u] = pc[u]
        BY <1>0, <1>7, <2>2, <4>1 DEF OthersKept
      <4> QED BY <1>1, <1>7, <2>2, <4>1, <4>2 DEF CoreInv, PoolInv, LeaderInv, Multi
    <3>3. ~promote' => \E u \in Threads : leader'[u]
      BY <1>7, <2>2 DEF CoreInv, PoolInv, LeaderInv
    <3>4. \A u \in Threads : pc'[u] \in Selectors => leader'[u]
      BY <1>7, <2>2 DEF CoreInv, PoolInv, LeaderInv, Selectors
    <3>5. \A u, v \in Threads : leader'[u] /\ leader'[v] => u = v
      BY <3>1 DEF CoreInv, PoolInv, LeaderInv
    <3> QED BY <3>2, <3>3, <3>4, <3>5 DEF LeaderInv
  <2> QED BY <1>1, <2>1, <2>2
<1>9. IOThreads' = IF pc'[t] = "io" THEN (IOThreads \ {t}) \cup {t} ELSE IOThreads \ {t}
  BY RoundSets
<1>10. UsedThreads' = UsedThreads \ {t}
  BY RoundSets
<1>11. /\ IsFiniteSet(IOThreads) /\ IsFiniteSet(UsedThreads) /\ IsFiniteSet(threads)
       /\ Cardinality(IOThreads) \in Nat /\ Cardinality(UsedThreads) \in Nat
       /\ Cardinality(threads) \in Nat /\ Cardinality(UsedThreads) <= Cardinality(threads)
       /\ UsedThreads \subseteq threads
  BY <1>0, CountFacts
<1>12. inUseIO' = IF pc'[t] = "io" /\ Multi THEN io + 1 ELSE io
  <2>1. Multi \in BOOLEAN
    BY <1>0, ConfFacts
  <2>2. CASE takes
    BY <1>3, <2>1, <2>2 DEF TakesHandler
  <2>3. CASE ~takes
    BY <1>1, <1>3, <2>3 DEF GivesUpLead, StartsSelect, Waits
  <2> QED BY <2>2, <2>3
<1>13. CountInv'
  <2>1. Multi' = Multi /\ Cardinality(threads') <= conf'.sizeMax
    BY <1>1 DEF CoreInv, PoolInv, CountInv, Multi
  <2>2. ASSUME Multi PROVE inUseIO' = Cardinality(IOThreads') /\ inUse' = Cardinality(UsedThreads')
    <3>1. io = Cardinality(IOThreads \ {t}) /\ inUse' = Cardinality(UsedThreads \ {t})
      BY <2>2 DEF Round
    <3>2. Cardinality((IOThreads \ {t}) \cup {t}) = Cardinality(IOThreads \ {t}) + 1
      BY <1>11, LeaveOut, FS_AddElement
    <3> QED BY <1>9, <1>10, <1>12, <2>2, <3>1, <3>2
  <2>3. ~Multi => inUseIO' = 0
    BY <1>12 DEF Round
  <2>4. inUseIO' <= conf'.sizeIO
    <3>1. CASE leads
      BY <1>0, <1>1, <1>12, <3>1, ConfFacts
    <3>2. CASE waits
      <4>1. CASE Multi
        <5>1. io = Cardinality(IOThreads \ {t}) /\ inUseIO = Cardinality(IOThreads)
          BY <4>1 DEF Round, CoreInv, PoolInv, CountInv
        <5>2. io <= inUseIO
          <6>1. CASE t \in IOThreads
            <7>1. Cardinality(IOThreads \ {t}) = Cardinality(IOThreads) - 1
              BY <1>11, <6>1, LeaveOut
            <7> QED BY <1>11, <5>1, <7>1
          <6>2. CASE t \notin IOThreads
            <7>1. IOThreads \ {t} = IOThreads
              BY <6>2
            <7> QED BY <1>11, <5>1, <7>1
          <6> QED BY <6>1, <6>2
        <5> QED BY <1>0, <1>1, <1>7, <3>2, <5>2, ConfFacts DEF CoreInv, CoreTypes, PoolInv, CountInv
      <4>2. CASE ~Multi
        BY <1>0, <1>1, <2>3, <4>2, ConfFacts
      <4> QED BY <4>1, <4>2
    <3> QED BY <1>1, <3>1, <3>2
  <2>5. Selecting' => inUseIO' = 0
    <3>1. CASE leads
      <4>1. ASSUME Selecting' PROVE StartsSelect(t, io)
        <5>1. pc'[t] \in Selectors
          BY <1>6, <3>1, <4>1 DEF Selecting, Selectors
        <5> QED BY <3>1, <5>1 DEF TakesHandler, GivesUpLead, Selectors
      <4> QED BY <4>1 DEF StartsSelect
    <3>2. CASE waits
      <4> SUFFICES ASSUME Selecting' PROVE io = 0
        BY <1>7, <3>2
      <4>1. Selecting
        BY <1>7, <3>2 DEF Selecting
      <4>2. CASE Multi
        <5>1. Cardinality(IOThreads) = 0
          BY <4>1, <4>2 DEF CoreInv, PoolInv, CountInv
        <5>2. IOThreads = {}
          BY <1>11, <5>1, FS_EmptySet
        <5> QED BY <4>2, <5>2, FS_EmptySet DEF Round
      <4>3. CASE ~Multi
        BY <4>3 DEF Round
      <4> QED BY <4>2, <4>3
    <3> QED BY <1>1, <3>1, <3>2
  <2> QED BY <2>1, <2>2, <2>3, <2>4, <2>5 DEF CountInv
<1>14. SpareInv'
  <2> SUFFICES ASSUME ~destroyed, ~conf.startFails, Multi
               PROVE  inUse' < Cardinality(threads) \/ inUse' = conf.sizeMax
    BY <1>1 DEF SpareInv, Multi
  <2>1. inUse = Cardinality(UsedThreads) /\ inUse' = Cardinality(UsedThreads \ {t})
    BY DEF Round, CoreInv, PoolInv, CountInv
  <2>2. inUse < Cardinality(threads) \/ inUse = conf.sizeMax
    BY DEF CoreInv, PoolInv, SpareInv
  <2>3. CASE t \in UsedThreads
    BY <1>11, <2>1, <2>3, LeaveOut
  <2>4. CASE t \notin UsedThreads
    BY <1>11, <2>1, <2>2, <2>4, LeaveOut
  <2> QED BY <2>3, <2>4
<1>15. NoLostWakeup'
  <2> SUFFICES ASSUME MayLead(inUseIO)', \E u \in Threads : pc'[u] = "wait"
               PROVE  \E u \in Threads : pc'[u] = "idle"
    BY DEF NoLostWakeup
  <2>1. promote'
    BY DEF MayLead
  <2>2. CASE takes
    BY <2>1, <2>2 DEF TakesHandler, SomeoneAwake
  <2>3. CASE GivesUpLead(t, io)
    BY <2>3 DEF GivesUpLead
  <2>4. CASE StartsSelect(t, io)
    BY <2>1, <2>4 DEF StartsSelect
  <2>5. CASE waits
    <3>1. ~MayLead(io)
      BY <2>5 DEF Waits
    <3> QED BY <1>1, <1>7, <2>5, <3>1 DEF MayLead
  <2> QED BY <1>1, <2>2, <2>3, <2>4, <2>5
<1> QED BY <1>5, <1>8, <1>13, <1>14, <1>15 DEF PoolInv

-----------------------------------------------------------------------------
(* ioCompleted().                                                          *)

(* A thread leaves its IO for `next'; S holds the thread that is created,  *)
(* if any.                                                                 *)
Completes(t, next, S) ==
    /\ t \in threads /\ pc[t] \in {"io", "exec"} /\ next \in {"user", "dying"}
    /\ S \subseteq {n \in Threads : pc[n] = "none"}
    /\ S = {} \/ \E n \in Threads : S = {n}
    /\ threads' = threads \cup S
    /\ ThreadTypes' /\ UNCHANGED <<conf, cur, handlers>>
    /\ pc'[t] = next /\ ioCompleted'[t] = TRUE
    /\ \A u \in Threads \ {t} :
         /\ leader'[u] = leader[u] /\ ioCompleted'[u] = ioCompleted[u]
         /\ IF u \in S THEN pc'[u] = "idle"
            ELSE pc'[u] = pc[u] \/ (pc[u] = "wait" /\ pc'[u] = "idle")
    /\ IF Multi
       THEN /\ inUseIO' = inUseIO - 1 /\ inUse' = inUse + 1
            /\ promote' = (promote \/ leader[t]) /\ leader'[t] = FALSE
            /\ S = {} => ~Grows(inUse + 1) \/ conf.startFails
            /\ S # {} => Grows(inUse + 1)
            /\ WakesFollower(t, inUseIO - 1) => SomeoneAwake'
       ELSE /\ UNCHANGED <<inUseIO, inUse, promote>> /\ leader'[t] = leader[t]
            /\ S = {}
            /\ \A u \in Threads \ {t} : pc'[u] = pc[u]

(* The steps that call ioCompleted() do that. *)
LEMMA CompletesEffect ==
    ASSUME CoreInv, NEW t \in Threads, pc[t] \in {"io", "exec"},
           NEW next \in {"user", "dying"}, IoCompleted(t, next), UNCHANGED <<conf, cur>>
    PROVE  \E S \in SUBSET Threads : Completes(t, next, S)
<1> DEFINE f == [pc EXCEPT ![t] = next]
<1>0. CoreTypes /\ ThreadTypes
  BY DEF CoreInv, CoreTypes
<1>1. t \in threads
  BY DEF CoreInv, PoolInv, ThreadInv
<1>2. next \in PCs /\ "idle" \in PCs
  BY DEF PCs
<1>3. f \in [Threads -> PCs] /\ f[t] = next /\ \A u \in Threads \ {t} : f[u] = pc[u]
  BY <1>0, <1>2 DEF ThreadTypes
<1>4. /\ ioCompleted' \in [Threads -> BOOLEAN] /\ ioCompleted'[t] = TRUE
      /\ \A u \in Threads \ {t} : ioCompleted'[u] = ioCompleted[u]
  BY <1>0 DEF ThreadTypes, IoCompleted
<1>5. cur' \in [Threads -> EventHandlers \cup {NoHandler}]
  BY <1>0 DEF ThreadTypes
<1>6. CASE conf.sizeMax = 1
  <2>1. pc' = f /\ UNCHANGED <<leader, threads, promote, inUse, inUseIO, handlers>>
    BY <1>6 DEF IoCompleted, poolVars
  <2> HIDE DEF f
  <2>2. ~Multi
    BY <1>0, <1>6, ConfFacts DEF Multi
  <2>3. ThreadTypes'
    BY <1>0, <1>3, <1>4, <1>5, <2>1 DEF ThreadTypes
  <2>4. Completes(t, next, {})
    BY <1>1, <1>3, <1>4, <2>1, <2>2, <2>3 DEF Completes
  <2> QED BY <2>4
<1>7. CASE conf.sizeMax # 1
  <2>1. Multi
    BY <1>0, <1>7, ConfFacts DEF Multi
  <2>2. /\ inUseIO' = inUseIO - 1 /\ inUse' = inUse + 1
        /\ promote' = (promote \/ leader[t])
        /\ leader' = [leader EXCEPT ![t] = FALSE] /\ handlers' = handlers
    BY <1>7 DEF IoCompleted
  <2>3. PICK g \in (IF WakesFollower(t, inUseIO - 1) THEN Notify(f) ELSE {f}) :
          \/ ~Grows(inUse + 1) /\ pc' = g /\ UNCHANGED threads
          \/ Grows(inUse + 1) /\ conf.startFails /\ pc' = g /\ UNCHANGED threads
          \/ /\ Grows(inUse + 1)
             /\ \E n \in Threads :
                  /\ pc[n] = "none"
                  /\ threads' = threads \cup {n}
                  /\ pc' = [g EXCEPT ![n] = "idle"]
    BY <1>7 DEF IoCompleted
  <2> HIDE DEF f
  <2>4. /\ g \in [Threads -> PCs]
        /\ \A u \in Threads : g[u] = f[u] \/ (f[u] = "wait" /\ g[u] = "idle")
        /\ WakesFollower(t, inUseIO - 1) =>
             (\E u \in Threads : g[u] = "idle") \/ (\A u \in Threads : g[u] # "wait")
    <3>1. CASE WakesFollower(t, inUseIO - 1)
      <4>1. g \in Notify(f)
        BY <2>3, <3>1
      <4> QED BY <1>3, <4>1, NotifyEffect
    <3>2. CASE ~WakesFollower(t, inUseIO - 1)
      <4>1. g = f
        BY <2>3, <3>2
      <4> QED BY <1>3, <3>2, <4>1
    <3> QED BY <3>1, <3>2
  <2>5. g[t] = next /\ \A u \in Threads \ {t} : g[u] = pc[u] \/ (pc[u] = "wait" /\ g[u] = "idle")
    BY <1>3, <2>4
  <2>6. leader' \in [Threads -> BOOLEAN] /\ leader'[t] = FALSE /\ \A u \in Threads \ {t} : leader'[u] = leader[u]
    BY <1>0, <2>2 DEF ThreadTypes
  <2>7. CASE pc' = g /\ UNCHANGED threads /\ (~Grows(inUse + 1) \/ conf.startFails)
    <3>1. ThreadTypes'
      BY <1>4, <1>5, <2>4, <2>6, <2>7 DEF ThreadTypes
    <3>2. WakesFollower(t, inUseIO - 1) => SomeoneAwake'
      BY <2>4, <2>7 DEF SomeoneAwake
    <3>3. Completes(t, next, {})
      BY <1>1, <1>4, <2>1, <2>2, <2>5, <2>6, <2>7, <3>1, <3>2 DEF Completes
    <3> QED BY <3>3
  <2>8. CASE /\ Grows(inUse + 1)
             /\ \E n \in Threads :
                  /\ pc[n] = "none"
                  /\ threads' = threads \cup {n}
                  /\ pc' = [g EXCEPT ![n] = "idle"]
    <3>1. PICK n \in Threads : /\ pc[n] = "none" /\ threads' = threads \cup {n}
                               /\ pc' = [g EXCEPT ![n] = "idle"]
      BY <2>8
    <3>2. n # t
      BY <3>1
    <3>3. /\ pc' \in [Threads -> PCs] /\ pc'[n] = "idle"
          /\ \A u \in Threads \ {n} : pc'[u] = g[u]
      BY <1>2, <2>4, <3>1
    <3>4. ThreadTypes'
      BY <1>4, <1>5, <2>6, <3>3 DEF ThreadTypes
    <3>5. SomeoneAwake'
      BY <3>3 DEF SomeoneAwake
    <3>6. {n} \subseteq {m \in Threads : pc[m] = "none"}
      BY <3>1
    <3>7. \A u \in Threads \ {t} :
            IF u \in {n} THEN pc'[u] = "idle"
            ELSE pc'[u] = pc[u] \/ (pc[u] = "wait" /\ pc'[u] = "idle")
      BY <2>5, <3>3
    <3>8. pc'[t] = next
      BY <2>5, <3>2, <3>3
    <3>9. Completes(t, next, {n})
      BY <1>1, <1>4, <2>1, <2>2, <2>6, <2>8, <3>1, <3>4, <3>5, <3>6, <3>7, <3>8 DEF Completes
    <3> QED BY <3>9
  <2> QED BY <2>3, <2>7, <2>8
<1> QED BY <1>6, <1>7

(* ioCompleted() keeps the invariant. *)
LEMMA CompletesKeeps ==
    ASSUME CoreInv, NEW t \in Threads, NEW next, NEW S, Completes(t, next, S),
           next = "dying" => pc[t] = "exec", UNCHANGED destroyed
    PROVE  PoolInv'
<1>0. CoreTypes /\ ThreadTypes /\ ThreadTypes' /\ t \in threads
  BY DEF CoreInv, CoreTypes, Completes
<1>1. /\ pc[t] \in {"io", "exec"} /\ next \in {"user", "dying"} /\ pc'[t] = next
      /\ threads' = threads \cup S /\ cur' = cur /\ conf' = conf /\ handlers' = handlers
      /\ ioCompleted'[t] = TRUE /\ S \subseteq Threads
      /\ \A u \in S : pc[u] = "none" /\ u # t /\ pc'[u] = "idle"
      /\ \A u \in (Threads \ {t}) \ S : pc'[u] = pc[u] \/ (pc[u] = "wait" /\ pc'[u] = "idle")
      /\ \A u \in Threads \ {t} : leader'[u] = leader[u] /\ ioCompleted'[u] = ioCompleted[u]
  <2>1. S \subseteq {n \in Threads : pc[n] = "none"} /\ pc[t] \in {"io", "exec"}
    BY DEF Completes
  <2>2. \A u \in S : u \in Threads /\ pc[u] = "none" /\ u # t
    BY <2>1
  <2>3. \A u \in S : pc'[u] = "idle"
    BY <2>2 DEF Completes
  <2>4. \A u \in (Threads \ {t}) \ S : pc'[u] = pc[u] \/ (pc[u] = "wait" /\ pc'[u] = "idle")
    BY DEF Completes
  <2> QED BY <2>1, <2>2, <2>3, <2>4 DEF Completes
<1>2. \A u \in S : u \notin threads /\ cur[u] = NoHandler
  BY <1>1 DEF CoreInv, PoolInv, ThreadInv
<1>3. cur[t] # NoHandler /\ ~ioCompleted[t] /\ (next = "dying" => cur[t] = WorkQueue)
  BY <1>1 DEF CoreInv, PoolInv, ThreadInv
<1>4. ThreadInv'
  <2> SUFFICES ASSUME NEW u \in Threads
               PROVE  /\ pc'[u] \in {"none", "exiting"} => u \notin threads'
                      /\ pc'[u] \notin {"none", "exiting", "exited"} => u \in threads'
                      /\ u \notin threads' => cur'[u] = NoHandler
                      /\ pc'[u] \in {"idle", "wait"} \cup Selectors => cur'[u] = NoHandler
                      /\ pc'[u] \in {"io", "exec"} => cur'[u] # NoHandler /\ ~ioCompleted'[u]
                      /\ pc'[u] \in {"user", "dying"} => cur'[u] # NoHandler /\ ioCompleted'[u]
                      /\ pc'[u] = "done" => cur'[u] # NoHandler
                      /\ pc'[u] \in {"exec", "dying"} => cur'[u] = WorkQueue
                      /\ pc'[u] = "exited" /\ u \in threads' => cur'[u] = WorkQueue /\ ioCompleted'[u]
    BY DEF ThreadInv
  <2>1. CASE u = t
    BY <1>0, <1>1, <1>3, <2>1 DEF Selectors
  <2>2. CASE u \in S
    BY <1>1, <1>2, <2>2 DEF Selectors
  <2>3. CASE u # t /\ u \notin S
    <3>1. cur'[u] = cur[u] /\ ioCompleted'[u] = ioCompleted[u] /\ (u \in threads' <=> u \in threads)
      BY <1>1, <2>3
    <3>2. CASE pc'[u] = pc[u]
      BY <3>1, <3>2 DEF CoreInv, PoolInv, ThreadInv
    <3>3. CASE pc[u] = "wait" /\ pc'[u] = "idle"
      BY <3>1, <3>3 DEF CoreInv, PoolInv, ThreadInv
    <3> QED BY <1>1, <2>3, <3>2, <3>3
  <2> QED BY <2>1, <2>2, <2>3
<1>5. LeaderInv'
  <2>1. ~Multi => promote' = promote /\ leader'[t] = leader[t]
    BY DEF Completes
  <2>2. Multi => promote' = (promote \/ leader[t]) /\ leader'[t] = FALSE
    BY DEF Completes
  <2>3. Multi' = Multi /\ Multi \in BOOLEAN /\ promote \in BOOLEAN /\ leader[t] \in BOOLEAN
    BY <1>0, <1>1, ConfFacts DEF Multi, CoreTypes, ThreadTypes
  <2>4. \A u \in Threads : leader'[u] =>
             /\ ~promote' /\ u \in threads' /\ pc'[u] \notin {"idle", "wait"}
             /\ Multi' => ~(cur'[u] # NoHandler /\ ioCompleted'[u])
    <3> SUFFICES ASSUME NEW u \in Threads, leader'[u]
                 PROVE  /\ ~promote' /\ u \in threads' /\ pc'[u] \notin {"idle", "wait"}
                        /\ Multi' => ~(cur'[u] # NoHandler /\ ioCompleted'[u])
      OBVIOUS
    <3>1. CASE u = t
      <4>1. ~Multi
        BY <2>2, <3>1
      <4> QED BY <1>0, <1>1, <2>1, <2>3, <3>1, <4>1 DEF CoreInv, PoolInv, LeaderInv
    <3>2. CASE u # t
      <4>1. leader[u]
        BY <1>1, <3>2
      <4>2. /\ ~promote /\ u \in threads /\ pc[u] \notin {"idle", "wait"}
            /\ Multi => ~(cur[u] # NoHandler /\ ioCompleted[u])
        BY <4>1 DEF CoreInv, PoolInv, LeaderInv
      <4>3. ~leader[t]
        BY <3>2, <4>1 DEF CoreInv, PoolInv, LeaderInv
      <4>4. pc'[u] = pc[u]
        BY <1>1, <1>2, <3>2, <4>2
      <4> QED BY <1>1, <2>1, <2>2, <2>3, <3>2, <4>2, <4>3, <4>4
    <3> QED BY <3>1, <3>2
  <2>5. \A u \in Threads : leader'[u] => leader[u]
    BY <1>1, <2>1, <2>2, <2>3
  <2>6. \A u, v \in Threads : leader'[u] /\ leader'[v] => u = v
    BY <2>5 DEF CoreInv, PoolInv, LeaderInv
  <2>7. ~promote' => \E u \in Threads : leader'[u]
    <3> SUFFICES ASSUME ~promote' PROVE \E u \in Threads : leader'[u]
      OBVIOUS
    <3>1. ~promote /\ (Multi => ~leader[t])
      BY <2>1, <2>2, <2>3
    <3>2. PICK u \in Threads : leader[u]
      BY <3>1 DEF CoreInv, PoolInv, LeaderInv
    <3>3. leader'[u]
      BY <1>1, <2>1, <2>3, <3>1, <3>2
    <3> QED BY <3>3
  <2>8. \A u \in Threads : pc'[u] \in Selectors => leader'[u]
    BY <1>1 DEF Selectors, CoreInv, PoolInv, LeaderInv
  <2> QED BY <2>4, <2>6, <2>7, <2>8 DEF LeaderInv
<1>6. IOThreads' = IOThreads \ {t} /\ t \in IOThreads
  <2>1. \A u \in threads : u # t => (u \in IOThreads' <=> u \in IOThreads)
    BY <1>0, <1>1 DEF IOThreads, CoreTypes
  <2>2. t \notin IOThreads' /\ t \in IOThreads
    BY <1>0, <1>1, <1>3 DEF IOThreads
  <2>3. \A u \in S : u \notin IOThreads'
    BY <1>1, <1>2 DEF IOThreads
  <2>4. IOThreads' \subseteq threads \cup S /\ IOThreads \subseteq threads
    BY <1>1 DEF IOThreads
  <2> QED BY <2>1, <2>2, <2>3, <2>4
<1>7. UsedThreads' = UsedThreads \cup {t} /\ t \notin UsedThreads
  <2>1. \A u \in threads : u # t => (u \in UsedThreads' <=> u \in UsedThreads)
    <3> SUFFICES ASSUME NEW u \in threads, u # t
                 PROVE  u \in UsedThreads' <=> u \in UsedThreads
      OBVIOUS
    <3>1. u \in Threads /\ u \notin S
      BY <1>0, <1>2 DEF CoreTypes
    <3> QED BY <1>1, <3>1 DEF UsedThreads
  <2>2. t \in UsedThreads' /\ t \notin UsedThreads
    BY <1>0, <1>1, <1>3 DEF UsedThreads
  <2>3. \A u \in S : u \notin UsedThreads'
    BY <1>1, <1>2 DEF UsedThreads
  <2>4. UsedThreads' \subseteq threads \cup S /\ UsedThreads \subseteq threads
    BY <1>1 DEF UsedThreads
  <2> QED BY <2>1, <2>2, <2>3, <2>4
<1>8. /\ IsFiniteSet(IOThreads) /\ IsFiniteSet(UsedThreads) /\ IsFiniteSet(threads)
      /\ Cardinality(IOThreads) \in Nat /\ Cardinality(UsedThreads) \in Nat
      /\ Cardinality(threads) \in Nat
  BY <1>0, CountFacts
<1>9. Cardinality(IOThreads') = Cardinality(IOThreads) - 1
  BY <1>6, <1>8, LeaveOut
<1>10. Cardinality(UsedThreads') = Cardinality(UsedThreads) + 1
  BY <1>7, <1>8, FS_AddElement
<1>11. Cardinality(UsedThreads) + 1 <= Cardinality(threads)
  <2>1. UsedThreads \cup {t} \subseteq threads
    BY <1>0 DEF UsedThreads
  <2>2. Cardinality(UsedThreads \cup {t}) = Cardinality(UsedThreads) + 1
    BY <1>7, <1>8, FS_AddElement
  <2>3. Cardinality(UsedThreads \cup {t}) <= Cardinality(threads)
    BY <1>8, <2>1, FS_Subset
  <2> QED BY <2>2, <2>3
<1>12. S # {} => Cardinality(threads') = Cardinality(threads) + 1
  <2> SUFFICES ASSUME S # {} PROVE Cardinality(threads') = Cardinality(threads) + 1
    OBVIOUS
  <2>1. PICK n \in Threads : S = {n}
    BY DEF Completes
  <2>2. n \notin threads
    BY <1>2, <2>1
  <2>3. Cardinality(threads \cup {n}) = Cardinality(threads) + 1
    BY <1>8, <2>2, FS_AddElement
  <2> QED BY <1>1, <2>1, <2>3
<1>c. /\ conf.sizeMax \in Nat /\ conf.sizeIO \in Nat /\ Multi' = Multi /\ Multi \in BOOLEAN
      /\ inUseIO \in Nat /\ inUse \in Int
  BY <1>0, <1>1, ConfFacts DEF Multi, CoreTypes
<1>13. CountInv'
  <2>1. CASE Multi
    <3>1. /\ inUseIO' = inUseIO - 1 /\ inUse' = inUse + 1
          /\ inUseIO = Cardinality(IOThreads) /\ inUse = Cardinality(UsedThreads)
          /\ inUseIO <= conf.sizeIO /\ Cardinality(threads) <= conf.sizeMax
      BY <2>1 DEF Completes, CoreInv, PoolInv, CountInv
    <3>2. inUseIO' = Cardinality(IOThreads') /\ inUse' = Cardinality(UsedThreads')
      BY <1>9, <1>10, <3>1
    <3>3. inUseIO' <= conf'.sizeIO
      BY <1>1, <1>c, <3>1
    <3>4. Cardinality(threads') <= conf'.sizeMax
      <4>1. CASE S = {}
        <5>1. threads' = threads
          BY <1>1, <4>1
        <5> QED BY <1>1, <3>1, <5>1
      <4>2. CASE S # {}
        <5>1. Grows(inUse + 1)
          BY <2>1, <4>2 DEF Completes
        <5>2. inUse + 1 < conf.sizeMax /\ inUse + 1 = Cardinality(threads)
          BY <5>1 DEF Grows
        <5> QED BY <1>1, <1>8, <1>12, <1>c, <4>2, <5>2
      <4> QED BY <4>1, <4>2
    <3>5. ~Selecting'
      <4>1. ~Selecting
        <5>1. inUseIO # 0
          BY <1>6, <1>8, <3>1, FS_EmptySet
        <5> QED BY <5>1 DEF CoreInv, PoolInv, CountInv
      <4>2. \A u \in Threads : pc'[u] \in Selectors => pc[u] \in Selectors
        BY <1>1 DEF Selectors
      <4> QED BY <4>1, <4>2 DEF Selecting, Selectors
    <3> QED BY <1>c, <2>1, <3>2, <3>3, <3>4, <3>5 DEF CountInv
  <2>2. CASE ~Multi
    <3>1. inUseIO' = inUseIO /\ threads' = threads
      BY <1>1, <2>2 DEF Completes
    <3>2. inUseIO = 0 /\ inUseIO <= conf.sizeIO /\ Cardinality(threads) <= conf.sizeMax
      BY <2>2 DEF CoreInv, PoolInv, CountInv
    <3> QED BY <1>1, <1>c, <2>2, <3>1, <3>2 DEF CountInv
  <2> QED BY <2>1, <2>2
<1>14. SpareInv'
  <2> SUFFICES ASSUME ~destroyed, ~conf.startFails, Multi
               PROVE  inUse' < Cardinality(threads') \/ inUse' = conf.sizeMax
    BY <1>1 DEF SpareInv, Multi
  <2>1. /\ inUse' = inUse + 1 /\ inUse = Cardinality(UsedThreads)
        /\ Cardinality(threads) <= conf.sizeMax
    BY DEF Completes, CoreInv, PoolInv, CountInv
  <2>2. CASE S = {}
    <3>1. threads' = threads
      BY <1>1, <2>2
    <3>2. ~(inUse + 1 < conf.sizeMax /\ inUse + 1 = Cardinality(threads))
      BY <2>2 DEF Completes, Grows
    <3> QED BY <1>8, <1>11, <1>c, <2>1, <3>1, <3>2
  <2>3. CASE S # {}
    BY <1>8, <1>11, <1>12, <1>c, <2>1, <2>3 DEF Completes, Grows
  <2> QED BY <2>2, <2>3
<1>15. NoLostWakeup'
  <2> SUFFICES ASSUME MayLead(inUseIO)', \E u \in Threads : pc'[u] = "wait"
               PROVE  \E u \in Threads : pc'[u] = "idle"
    BY DEF NoLostWakeup
  <2>0. promote' /\ inUseIO' # conf.sizeIO /\ ~(handlers = <<>> /\ inUseIO' > 0)
    BY <1>1 DEF MayLead
  <2>1. CASE Multi
    <3>1. /\ inUseIO' = inUseIO - 1 /\ promote' = (promote \/ leader[t])
          /\ inUseIO = Cardinality(IOThreads) /\ inUseIO <= conf.sizeIO
      BY <2>1 DEF Completes, CoreInv, PoolInv, CountInv
    <3>2. inUseIO - 1 \in Nat /\ inUseIO - 1 < conf.sizeIO
      <4>1. inUseIO # 0
        BY <1>6, <1>8, <3>1, FS_EmptySet
      <4> QED BY <1>c, <3>1, <4>1
    <3>3. WakesFollower(t, inUseIO - 1)
      <4>0. inUseIO' > 0 \/ inUseIO - 1 = 0
        <5>1. inUseIO' = inUseIO - 1
          BY <3>1
        <5> QED BY <1>c, <3>2, <5>1
      <4>1. handlers # <<>> \/ inUseIO - 1 = 0
        BY <2>0, <4>0, Zenon
      <4>2. ~leader[t] => promote
        BY <2>0, <3>1
      <4> QED BY <3>2, <4>1, <4>2 DEF WakesFollower
    <3>4. SomeoneAwake'
      BY <2>1, <3>3 DEF Completes
    <3> QED BY <3>4 DEF SomeoneAwake
  <2>2. CASE ~Multi
    <3>1. promote' = promote /\ inUseIO' = inUseIO /\ \A u \in Threads \ {t} : pc'[u] = pc[u]
      BY <2>2 DEF Completes
    <3>2. MayLead(inUseIO)
      BY <2>0, <3>1 DEF MayLead
    <3>3. \E u \in Threads : pc[u] = "wait"
      BY <1>1, <3>1
    <3>4. PICK u \in Threads : pc[u] = "idle"
      BY <3>2, <3>3 DEF CoreInv, PoolInv, NoLostWakeup
    <3> QED BY <1>1, <3>1, <3>4
  <2> QED BY <2>1, <2>2
<1> QED BY <1>4, <1>5, <1>13, <1>14, <1>15 DEF PoolInv

-----------------------------------------------------------------------------
(* The other steps.                                                        *)

(* The steps that only take a thread from one place to the next. *)
Moves == {<<"exiting", "exited">>, <<"select", "selected">>, <<"select", "timedOut">>,
          <<"timedOut", "select">>, <<"io", "done">>, <<"io", "exec">>,
          <<"exec", "done">>, <<"user", "done">>}

(* What a thread has and what the pool knows of its threads. *)
coreVars == <<conf, cur, leader, ioCompleted, poolVars, destroyed>>

Move(t, p) ==
    /\ <<pc[t], p>> \in Moves /\ (p = "exec" => cur[t] = WorkQueue)
    /\ pc' = [pc EXCEPT ![t] = p]
    /\ UNCHANGED coreVars

(* Such a step keeps the invariant. *)
LEMMA MoveKeeps ==
    ASSUME CoreInv, NEW t \in Threads, NEW p, Move(t, p)
    PROVE  PoolInv' /\ ThreadTypes'
<1>0. CoreTypes /\ ThreadTypes
  BY DEF CoreInv, CoreTypes
<1>1. UNCHANGED <<conf, cur, leader, ioCompleted, threads, promote, inUse, inUseIO, handlers, destroyed>>
  BY DEF Move, coreVars, poolVars
<1>2. \/ pc[t] = "exiting" /\ p = "exited"
      \/ pc[t] \in Selectors /\ p \in Selectors
      \/ pc[t] \in {"io", "exec", "user"} /\ p = "done"
      \/ pc[t] = "io" /\ p = "exec" /\ cur[t] = WorkQueue
  BY DEF Move, Moves, Selectors
<1>3. p \in PCs /\ p \notin {"idle", "wait"} /\ pc[t] \notin {"idle", "wait"}
  BY <1>2 DEF PCs, Selectors
<1>4. pc' \in [Threads -> PCs] /\ pc'[t] = p /\ \A u \in Threads \ {t} : pc'[u] = pc[u]
  BY <1>0, <1>3 DEF Move, ThreadTypes
<1>5. ThreadTypes'
  BY <1>0, <1>1, <1>4 DEF ThreadTypes
<1>6. ThreadInv'
  <2>1. \A u \in Threads \ {t} :
          /\ pc'[u] = pc[u] /\ cur'[u] = cur[u] /\ ioCompleted'[u] = ioCompleted[u]
    BY <1>1, <1>4
  <2>2. /\ p \in {"none", "exiting"} => t \notin threads
        /\ p \notin {"none", "exiting", "exited"} => t \in threads
        /\ t \notin threads => cur[t] = NoHandler
        /\ p \in {"idle", "wait"} \cup Selectors => cur[t] = NoHandler
        /\ p \in {"io", "exec"} => cur[t] # NoHandler /\ ~ioCompleted[t]
        /\ p \in {"user", "dying"} => cur[t] # NoHandler /\ ioCompleted[t]
        /\ p = "done" => cur[t] # NoHandler
        /\ p \in {"exec", "dying"} => cur[t] = WorkQueue
        /\ p = "exited" /\ t \in threads => cur[t] = WorkQueue /\ ioCompleted[t]
    BY <1>2 DEF CoreInv, PoolInv, ThreadInv, Selectors
  <2>3. cur' = cur /\ ioCompleted' = ioCompleted /\ threads' = threads
    BY <1>1
  <2> SUFFICES ASSUME NEW u \in Threads
               PROVE  /\ pc'[u] \in {"none", "exiting"} => u \notin threads'
                      /\ pc'[u] \notin {"none", "exiting", "exited"} => u \in threads'
                      /\ u \notin threads' => cur'[u] = NoHandler
                      /\ pc'[u] \in {"idle", "wait"} \cup Selectors => cur'[u] = NoHandler
                      /\ pc'[u] \in {"io", "exec"} => cur'[u] # NoHandler /\ ~ioCompleted'[u]
                      /\ pc'[u] \in {"user", "dying"} => cur'[u] # NoHandler /\ ioCompleted'[u]
                      /\ pc'[u] = "done" => cur'[u] # NoHandler
                      /\ pc'[u] \in {"exec", "dying"} => cur'[u] = WorkQueue
                      /\ pc'[u] = "exited" /\ u \in threads' => cur'[u] = WorkQueue /\ ioCompleted'[u]
    BY DEF ThreadInv
  <2>4. CASE u = t
    BY <1>4, <2>2, <2>3, <2>4
  <2>5. CASE u # t
    BY <2>1, <2>3, <2>5 DEF CoreInv, PoolInv, ThreadInv
  <2> QED BY <2>4, <2>5
<1>7. \A u \in Threads : pc'[u] \in Selectors <=> pc[u] \in Selectors
  BY <1>2, <1>4 DEF Selectors
<1>8. LeaderInv'
  <2>1. \A u \in Threads : leader'[u] =>
             /\ ~promote' /\ u \in threads' /\ pc'[u] \notin {"idle", "wait"}
             /\ Multi' => ~(cur'[u] # NoHandler /\ ioCompleted'[u])
    BY <1>1, <1>3, <1>4 DEF CoreInv, PoolInv, LeaderInv, Multi
  <2> QED BY <1>1, <1>7, <2>1 DEF CoreInv, PoolInv, LeaderInv
<1>9. IOThreads' = IOThreads
  BY <1>1 DEF IOThreads
<1>10. UsedThreads' = UsedThreads
  <2>1. t \in threads => pc'[t] # "exited" /\ pc[t] # "exited"
    BY <1>2, <1>4 DEF CoreInv, PoolInv, ThreadInv, Selectors
  <2>2. \A u \in threads : pc'[u] # "exited" <=> pc[u] # "exited"
    BY <1>0, <1>4, <2>1 DEF CoreTypes
  <2> QED BY <1>1, <2>2 DEF UsedThreads
<1>11. CountInv'
  <2>1. Selecting' => Selecting
    BY <1>7 DEF Selecting, Selectors
  <2> QED BY <1>1, <1>9, <1>10, <2>1 DEF CoreInv, PoolInv, CountInv, Multi
<1>12. SpareInv'
  BY <1>1 DEF CoreInv, PoolInv, SpareInv, Multi
<1>13. NoLostWakeup'
  <2>1. MayLead(inUseIO)' <=> MayLead(inUseIO)
    BY <1>1 DEF MayLead
  <2>2. \A u \in Threads : /\ pc'[u] = "wait" <=> pc[u] = "wait"
                           /\ pc'[u] = "idle" <=> pc[u] = "idle"
    BY <1>3, <1>4
  <2> QED BY <2>1, <2>2 DEF CoreInv, PoolInv, NoLostWakeup
<1> QED BY <1>5, <1>6, <1>8, <1>11, <1>12, <1>13 DEF PoolInv

(* Steps that change neither the threads nor what the pool knows of them. *)
LEMMA QuietKeeps ==
    ASSUME CoreInv, destroyed => destroyed',
           UNCHANGED <<conf, pc, cur, leader, ioCompleted, poolVars>>
    PROVE  PoolInv' /\ ThreadTypes'
<1>1. UNCHANGED <<conf, pc, cur, leader, ioCompleted, threads, promote, inUse, inUseIO, handlers>>
  BY DEF poolVars
<1>2. ThreadTypes'
  BY <1>1 DEF CoreInv, CoreTypes, ThreadTypes
<1>3. ThreadInv'
  BY <1>1 DEF CoreInv, PoolInv, ThreadInv
<1>4. LeaderInv'
  BY <1>1 DEF CoreInv, PoolInv, LeaderInv, Multi
<1>5. CountInv'
  BY <1>1 DEF CoreInv, PoolInv, CountInv, Multi, IOThreads, UsedThreads, Selecting
<1>6. SpareInv'
  BY <1>1 DEF CoreInv, PoolInv, SpareInv, Multi
<1>7. NoLostWakeup'
  BY <1>1 DEF CoreInv, PoolInv, NoLostWakeup, MayLead
<1> QED BY <1>2, <1>3, <1>4, <1>5, <1>6, <1>7 DEF PoolInv

(* A thread that may not lead is not the last one: another does IO or      *)
(* leads.                                                                  *)
LEMMA WaitsNotAlone ==
    ASSUME CoreInv, NEW t \in Threads, pc[t] = "wait", ~MayLead(inUseIO)
    PROVE  /\ t \in threads /\ Cardinality(threads) > 1 /\ Multi
           /\ \E u \in threads \ {t} : u \notin UsedThreads
<1>0. CoreTypes /\ t \in threads /\ cur[t] = NoHandler /\ ~leader[t]
  BY DEF CoreInv, PoolInv, ThreadInv, LeaderInv
<1>1. PICK u \in threads \ {t} : Multi => u \notin UsedThreads
  <2>1. CASE ~promote
    <3>1. PICK u \in Threads : leader[u]
      BY <2>1 DEF CoreInv, PoolInv, LeaderInv
    <3>2. u \in threads /\ u # t /\ (Multi => ~(cur[u] # NoHandler /\ ioCompleted[u]))
      BY <1>0, <3>1 DEF CoreInv, PoolInv, LeaderInv
    <3> QED BY <3>2 DEF UsedThreads
  <2>2. CASE promote
    <3>1. inUseIO # 0
      BY <1>0, <2>2, ConfFacts DEF MayLead, CoreTypes
    <3>2. IOThreads # {}
      <4>1. inUseIO = Cardinality(IOThreads)
        BY <3>1 DEF CoreInv, PoolInv, CountInv
      <4> QED BY <3>1, <4>1, FS_EmptySet
    <3>3. PICK u : u \in IOThreads
      BY <3>2
    <3>4. u \in threads /\ u # t /\ u \notin UsedThreads
      BY <1>0, <3>3 DEF IOThreads, UsedThreads
    <3> QED BY <3>4
  <2> QED BY <2>1, <2>2
<1>2. IsFiniteSet(threads) /\ Cardinality(threads) \in Nat
  BY <1>0, CountFacts
<1>3. Cardinality(threads) > 1
  <2>1. Cardinality({t, u}) = 2
    <3>1. IsFiniteSet({t}) /\ Cardinality({t}) = 1
      BY FS_Singleton
    <3>2. {t} \cup {u} = {t, u} /\ u \notin {t}
      BY <1>1
    <3>3. Cardinality({t} \cup {u}) = Cardinality({t}) + 1
      BY <3>1, <3>2, FS_AddElement
    <3> QED BY <3>1, <3>2, <3>3
  <2>2. {t, u} \subseteq threads
    BY <1>0, <1>1
  <2> QED BY <1>2, <2>1, <2>2, FS_Subset
<1>4. Multi
  <2>1. Cardinality(threads) <= conf.sizeMax
    BY DEF CoreInv, PoolInv, CountInv
  <2> QED BY <1>0, <1>2, <1>3, <2>1, ConfFacts DEF Multi
<1> QED BY <1>0, <1>1, <1>3, <1>4

(* A thread that nobody wants leaves the pool. *)
LEMMA ShrinkKeeps ==
    ASSUME CoreInv, NEW t \in Threads, Shrink(t)
    PROVE  PoolInv' /\ ThreadTypes'
<1>0. CoreTypes /\ ThreadTypes
  BY DEF CoreInv, CoreTypes
<1>1. pc[t] = "wait" /\ ~MayLead(inUseIO) /\ ~destroyed
  BY DEF Shrink
<1>2. t \in threads /\ Multi /\ cur[t] = NoHandler /\ ~leader[t]
  BY <1>1, WaitsNotAlone DEF CoreInv, PoolInv, ThreadInv, LeaderInv
<1>3. /\ threads' = threads \ {t}
      /\ UNCHANGED <<conf, cur, leader, ioCompleted, promote, inUse, inUseIO, handlers, destroyed>>
  BY DEF Shrink
<1>4. /\ pc' \in [Threads -> PCs] /\ pc'[t] = "exiting"
      /\ \A u \in Threads \ {t} : pc'[u] = pc[u]
  <2>1. "exiting" \in PCs
    BY DEF PCs
  <2> QED BY <1>0, <2>1 DEF Shrink, ThreadTypes
<1>5. ThreadTypes'
  BY <1>0, <1>3, <1>4 DEF ThreadTypes
<1>6. ThreadInv'
  <2> SUFFICES ASSUME NEW u \in Threads
               PROVE  /\ pc'[u] \in {"none", "exiting"} => u \notin threads'
                      /\ pc'[u] \notin {"none", "exiting", "exited"} => u \in threads'
                      /\ u \notin threads' => cur'[u] = NoHandler
                      /\ pc'[u] \in {"idle", "wait"} \cup Selectors => cur'[u] = NoHandler
                      /\ pc'[u] \in {"io", "exec"} => cur'[u] # NoHandler /\ ~ioCompleted'[u]
                      /\ pc'[u] \in {"user", "dying"} => cur'[u] # NoHandler /\ ioCompleted'[u]
                      /\ pc'[u] = "done" => cur'[u] # NoHandler
                      /\ pc'[u] \in {"exec", "dying"} => cur'[u] = WorkQueue
                      /\ pc'[u] = "exited" /\ u \in threads' => cur'[u] = WorkQueue /\ ioCompleted'[u]
    BY DEF ThreadInv
  <2>1. cur' = cur /\ ioCompleted' = ioCompleted
    BY <1>3
  <2>2. CASE u = t
    BY <1>2, <1>3, <1>4, <2>1, <2>2 DEF Selectors
  <2>3. CASE u # t
    <3>1. u \in threads' <=> u \in threads
      BY <1>3, <2>3
    <3>2. pc'[u] = pc[u]
      BY <1>4, <2>3
    <3> QED BY <2>1, <3>1, <3>2 DEF CoreInv, PoolInv, ThreadInv
  <2> QED BY <2>2, <2>3
<1>7. LeaderInv'
  <2>1. \A u \in Threads : leader'[u] =>
             /\ ~promote' /\ u \in threads' /\ pc'[u] \notin {"idle", "wait"}
             /\ Multi' => ~(cur'[u] # NoHandler /\ ioCompleted'[u])
    BY <1>2, <1>3, <1>4 DEF CoreInv, PoolInv, LeaderInv, Multi
  <2>2. \A u \in Threads : pc'[u] \in Selectors => leader'[u]
    BY <1>3, <1>4 DEF CoreInv, PoolInv, LeaderInv, Selectors
  <2> QED BY <1>3, <2>1, <2>2 DEF CoreInv, PoolInv, LeaderInv
<1>8. IOThreads' = IOThreads
  BY <1>2, <1>3 DEF IOThreads
<1>9. UsedThreads' = UsedThreads
  <2>1. \A u \in threads \ {t} : u \in UsedThreads' <=> u \in UsedThreads
    BY <1>0, <1>3, <1>4 DEF UsedThreads, CoreTypes
  <2>2. t \notin UsedThreads' /\ t \notin UsedThreads
    BY <1>2, <1>3 DEF UsedThreads
  <2>3. UsedThreads' \subseteq threads \ {t} /\ UsedThreads \subseteq threads
    BY <1>3 DEF UsedThreads
  <2> QED BY <2>1, <2>2, <2>3
<1>10. /\ IsFiniteSet(threads) /\ Cardinality(threads) \in Nat
       /\ Cardinality(threads') = Cardinality(threads) - 1
       /\ IsFiniteSet(threads') /\ Cardinality(threads') \in Nat
  BY <1>0, <1>2, <1>3, CountFacts, LeaveOut
<1>11. CountInv'
  <2>1. Selecting' => Selecting
    BY <1>4 DEF Selecting
  <2>2. Cardinality(threads') <= conf'.sizeMax
    <3>1. Cardinality(threads) <= conf.sizeMax
      BY DEF CoreInv, PoolInv, CountInv
    <3> QED BY <1>0, <1>3, <1>10, <3>1, ConfFacts
  <2> QED BY <1>3, <1>8, <1>9, <2>1, <2>2 DEF CoreInv, PoolInv, CountInv, Multi
<1>12. SpareInv'
  <2>1. PICK u \in threads \ {t} : u \notin UsedThreads
    BY <1>1, WaitsNotAlone
  <2>2. UsedThreads \subseteq threads' \ {u}
    BY <1>2, <1>3, <2>1 DEF UsedThreads
  <2>3. Cardinality(threads' \ {u}) = Cardinality(threads') - 1 /\ IsFiniteSet(threads' \ {u})
    BY <1>3, <1>10, <2>1, LeaveOut
  <2>4. Cardinality(UsedThreads) <= Cardinality(threads' \ {u}) /\ Cardinality(UsedThreads) \in Nat
    BY <1>0, <2>2, <2>3, CountFacts, FS_Subset
  <2>5. inUse = Cardinality(UsedThreads)
    BY <1>2 DEF CoreInv, PoolInv, CountInv
  <2>6. inUse' < Cardinality(threads')
    BY <1>3, <1>10, <2>3, <2>4, <2>5
  <2> QED BY <2>6 DEF SpareInv
<1>13. NoLostWakeup'
  <2>1. ~MayLead(inUseIO)'
    BY <1>1, <1>3 DEF MayLead
  <2> QED BY <2>1 DEF NoLostWakeup
<1> QED BY <1>5, <1>6, <1>7, <1>11, <1>12, <1>13 DEF PoolInv

(* The exception ends a thread. *)
LEMMA DieKeeps ==
    ASSUME CoreInv, NEW t \in Threads, Die(t)
    PROVE  PoolInv' /\ ThreadTypes'
<1>0. CoreTypes /\ ThreadTypes
  BY DEF CoreInv, CoreTypes
<1>1. pc[t] = "dying" /\ inUse' = inUse - 1
  BY DEF Die
<1>2. t \in threads /\ cur[t] = WorkQueue /\ cur[t] # NoHandler /\ ioCompleted[t]
  BY <1>1 DEF CoreInv, PoolInv, ThreadInv
<1>3. UNCHANGED <<conf, cur, leader, ioCompleted, threads, promote, inUseIO, handlers, destroyed>>
  BY DEF Die
<1>4. /\ pc' \in [Threads -> PCs] /\ pc'[t] = "exited"
      /\ \A u \in Threads \ {t} : pc'[u] = pc[u]
  <2>1. "exited" \in PCs
    BY DEF PCs
  <2> QED BY <1>0, <2>1 DEF Die, ThreadTypes
<1>5. ThreadTypes'
  BY <1>0, <1>3, <1>4 DEF ThreadTypes
<1>6. ThreadInv'
  <2> SUFFICES ASSUME NEW u \in Threads
               PROVE  /\ pc'[u] \in {"none", "exiting"} => u \notin threads'
                      /\ pc'[u] \notin {"none", "exiting", "exited"} => u \in threads'
                      /\ u \notin threads' => cur'[u] = NoHandler
                      /\ pc'[u] \in {"idle", "wait"} \cup Selectors => cur'[u] = NoHandler
                      /\ pc'[u] \in {"io", "exec"} => cur'[u] # NoHandler /\ ~ioCompleted'[u]
                      /\ pc'[u] \in {"user", "dying"} => cur'[u] # NoHandler /\ ioCompleted'[u]
                      /\ pc'[u] = "done" => cur'[u] # NoHandler
                      /\ pc'[u] \in {"exec", "dying"} => cur'[u] = WorkQueue
                      /\ pc'[u] = "exited" /\ u \in threads' => cur'[u] = WorkQueue /\ ioCompleted'[u]
    BY DEF ThreadInv
  <2>1. cur' = cur /\ ioCompleted' = ioCompleted /\ threads' = threads
    BY <1>3
  <2>2. CASE u = t
    BY <1>2, <1>4, <2>1, <2>2 DEF Selectors
  <2>3. CASE u # t
    BY <1>4, <2>1, <2>3 DEF CoreInv, PoolInv, ThreadInv
  <2> QED BY <2>2, <2>3
<1>7. LeaderInv'
  <2>1. \A u \in Threads : leader'[u] =>
             /\ ~promote' /\ u \in threads' /\ pc'[u] \notin {"idle", "wait"}
             /\ Multi' => ~(cur'[u] # NoHandler /\ ioCompleted'[u])
    BY <1>3, <1>4 DEF CoreInv, PoolInv, LeaderInv, Multi
  <2>2. \A u \in Threads : pc'[u] \in Selectors => leader'[u]
    BY <1>3, <1>4 DEF CoreInv, PoolInv, LeaderInv, Selectors
  <2> QED BY <1>3, <2>1, <2>2 DEF CoreInv, PoolInv, LeaderInv
<1>8. IOThreads' = IOThreads
  BY <1>3 DEF IOThreads
<1>9. UsedThreads' = UsedThreads \ {t} /\ t \in UsedThreads
  <2>1. \A u \in threads \ {t} : u \in UsedThreads' <=> u \in UsedThreads
    BY <1>0, <1>3, <1>4 DEF UsedThreads, CoreTypes
  <2>2. t \notin UsedThreads' /\ t \in UsedThreads
    BY <1>1, <1>2, <1>4 DEF UsedThreads
  <2>3. UsedThreads' \subseteq threads /\ UsedThreads \subseteq threads
    BY <1>3 DEF UsedThreads
  <2> QED BY <2>1, <2>2, <2>3
<1>10. CountInv'
  <2>1. Selecting' => Selecting
    BY <1>4 DEF Selecting
  <2>2. Multi => inUse' = Cardinality(UsedThreads')
    <3>1. Cardinality(UsedThreads') = Cardinality(UsedThreads) - 1
      BY <1>0, <1>9, CountFacts, LeaveOut
    <3> QED BY <1>1, <3>1 DEF CoreInv, PoolInv, CountInv
  <2> QED BY <1>3, <1>8, <2>1, <2>2 DEF CoreInv, PoolInv, CountInv, Multi
<1>11. SpareInv'
  <2> SUFFICES ASSUME Multi PROVE inUse' < Cardinality(threads')
    BY <1>3 DEF SpareInv, Multi
  <2>1. inUse = Cardinality(UsedThreads)
    BY DEF CoreInv, PoolInv, CountInv
  <2> QED BY <1>0, <1>1, <1>3, <2>1, CountFacts
<1>12. NoLostWakeup'
  <2>1. MayLead(inUseIO)' <=> MayLead(inUseIO)
    BY <1>3 DEF MayLead
  <2>2. \A u \in Threads : /\ pc'[u] = "wait" => pc[u] = "wait"
                           /\ pc[u] = "idle" => pc'[u] = "idle"
    BY <1>1, <1>4
  <2> QED BY <2>1, <2>2 DEF CoreInv, PoolInv, NoLostWakeup
<1> QED BY <1>5, <1>6, <1>7, <1>10, <1>11, <1>12 DEF PoolInv

-----------------------------------------------------------------------------
(* The work items.                                                         *)

(* An item to join a thread is the one of that thread. *)
LEMMA JoinItems ==
    ASSUME NEW i \in Items, i.kind = "join"
    PROVE  i.arg \in Threads /\ i = JoinItem(i.arg) /\ i \in QueuedItems
<1>1. i \in {JoinItem(t) : t \in Threads}
  BY DEF Items, NoItem, DispatchItem, ShutdownItem, DestroyedItem, FinishedItem
<1>2. PICK t \in Threads : i = JoinItem(t)
  BY <1>1
<1>3. i.arg = t
  BY <1>2 DEF JoinItem
<1> QED BY <1>2, <1>3 DEF QueuedItems, JoinItem, NoItem, DestroyedItem

(* A thread waits for one that has ended and is joined by no other. *)
LEMMA ExecuteJoinKeeps ==
    ASSUME CoreInv, NEW t \in Threads, ExecuteJoin(t)
    PROVE  PoolInv' /\ ThreadTypes'
<1> DEFINE a == item[t].arg
<1>0. CoreTypes /\ ThreadTypes
  BY DEF CoreInv, CoreTypes
<1>1. pc[t] = "exec" /\ item[t].kind = "join" /\ pc[a] = "exited"
  BY DEF ExecuteJoin
<1>2. a \in GoneThreads
  BY <1>1 DEF CoreInv, JoinInv, Joins
<1>3. a \in Threads /\ a \notin threads /\ t \in threads /\ a # t
  BY <1>1, <1>2 DEF CoreInv, PoolInv, ThreadInv, GoneThreads
<1> HIDE DEF a
<1>4. UNCHANGED <<conf, cur, leader, ioCompleted, threads, promote, inUse, inUseIO, handlers, destroyed>>
  BY DEF ExecuteJoin, poolVars
<1>5. /\ pc' \in [Threads -> PCs] /\ pc'[t] = "done" /\ pc'[a] = "none"
      /\ \A u \in Threads \ {t, a} : pc'[u] = pc[u]
  <2>1. "done" \in PCs /\ "none" \in PCs
    BY DEF PCs
  <2>2. pc' = [pc EXCEPT ![t] = "done", ![a] = "none"]
    BY DEF ExecuteJoin, a
  <2> QED BY <1>0, <1>3, <2>1, <2>2 DEF ThreadTypes
<1>6. ThreadTypes'
  BY <1>0, <1>4, <1>5 DEF ThreadTypes
<1>7. cur[a] = NoHandler /\ cur[t] # NoHandler /\ pc[t] = "exec" /\ pc[a] = "exited"
  BY <1>1, <1>3 DEF CoreInv, PoolInv, ThreadInv, a
<1>8. ThreadInv'
  <2> SUFFICES ASSUME NEW u \in Threads
               PROVE  /\ pc'[u] \in {"none", "exiting"} => u \notin threads'
                      /\ pc'[u] \notin {"none", "exiting", "exited"} => u \in threads'
                      /\ u \notin threads' => cur'[u] = NoHandler
                      /\ pc'[u] \in {"idle", "wait"} \cup Selectors => cur'[u] = NoHandler
                      /\ pc'[u] \in {"io", "exec"} => cur'[u] # NoHandler /\ ~ioCompleted'[u]
                      /\ pc'[u] \in {"user", "dying"} => cur'[u] # NoHandler /\ ioCompleted'[u]
                      /\ pc'[u] = "done" => cur'[u] # NoHandler
                      /\ pc'[u] \in {"exec", "dying"} => cur'[u] = WorkQueue
                      /\ pc'[u] = "exited" /\ u \in threads' => cur'[u] = WorkQueue /\ ioCompleted'[u]
    BY DEF ThreadInv
  <2>1. cur' = cur /\ ioCompleted' = ioCompleted /\ threads' = threads
    BY <1>4
  <2>2. CASE u = t
    BY <1>3, <1>5, <1>7, <2>1, <2>2 DEF Selectors
  <2>3. CASE u = a
    BY <1>3, <1>5, <1>7, <2>1, <2>3 DEF Selectors
  <2>4. CASE u # t /\ u # a
    BY <1>5, <2>1, <2>4 DEF CoreInv, PoolInv, ThreadInv
  <2> QED BY <2>2, <2>3, <2>4
<1>9. LeaderInv'
  <2>0. \A u \in Threads : leader[u] => u # a
    BY <1>3 DEF CoreInv, PoolInv, LeaderInv
  <2>1. \A u \in Threads : leader'[u] =>
             /\ ~promote' /\ u \in threads' /\ pc'[u] \notin {"idle", "wait"}
             /\ Multi' => ~(cur'[u] # NoHandler /\ ioCompleted'[u])
    BY <1>4, <1>5, <2>0 DEF CoreInv, PoolInv, LeaderInv, Multi
  <2>2. \A u \in Threads : pc'[u] \in Selectors => leader'[u]
    BY <1>4, <1>5 DEF CoreInv, PoolInv, LeaderInv, Selectors
  <2> QED BY <1>4, <2>1, <2>2 DEF CoreInv, PoolInv, LeaderInv
<1>10. IOThreads' = IOThreads
  BY <1>4 DEF IOThreads
<1>11. UsedThreads' = UsedThreads
  <2>1. \A u \in threads : pc'[u] # "exited" <=> pc[u] # "exited"
    BY <1>0, <1>3, <1>5, <1>7 DEF CoreTypes
  <2> QED BY <1>4, <2>1 DEF UsedThreads
<1>12. CountInv'
  <2>1. Selecting' => Selecting
    BY <1>5 DEF Selecting
  <2> QED BY <1>4, <1>10, <1>11, <2>1 DEF CoreInv, PoolInv, CountInv, Multi
<1>13. SpareInv'
  BY <1>4 DEF CoreInv, PoolInv, SpareInv, Multi
<1>14. NoLostWakeup'
  <2>1. MayLead(inUseIO)' <=> MayLead(inUseIO)
    BY <1>4 DEF MayLead
  <2>2. \A u \in Threads : /\ pc'[u] = "wait" => pc[u] = "wait"
                           /\ pc[u] = "idle" => pc'[u] = "idle"
    BY <1>5, <1>7
  <2> QED BY <2>1, <2>2 DEF CoreInv, PoolInv, NoLostWakeup
<1> QED BY <1>6, <1>8, <1>9, <1>12, <1>13, <1>14 DEF PoolInv

-----------------------------------------------------------------------------
(* The items to join threads are left alone by every other step.           *)

(* Nothing is queued or taken. *)
LEMMA JoinKept ==
    ASSUME JoinInv, workItems' = workItems,
           \A u \in Threads : Joins(u)' => Joins(u) /\ item'[u] = item[u],
           GoneThreads \subseteq GoneThreads'
    PROVE  JoinInv'
<1>1. \A i \in 1..Len(workItems) : workItems[i].kind = "join" => workItems[i].arg \in GoneThreads'
  <2>1. \A i \in 1..Len(workItems) : workItems[i].kind = "join" => workItems[i].arg \in GoneThreads
    BY DEF JoinInv
  <2> QED BY <2>1 DEF GoneThreads
<1>2. \A t \in Threads : Joins(t)' => item[t].arg \in GoneThreads'
  <2>1. \A t \in Threads : Joins(t)' => item[t].arg \in GoneThreads
    BY DEF JoinInv
  <2> QED BY <2>1 DEF GoneThreads
<1>3. \A t \in Threads : Joins(t)' => item'[t].arg \in GoneThreads'
  BY <1>2
<1>4. \A t, u \in Threads : Joins(t)' /\ item'[t] = item'[u] /\ Joins(u)' => t = u
  BY DEF JoinInv
<1>5. \A t \in Threads, i \in 1..Len(workItems) : Joins(t)' => workItems[i] # item'[t]
  BY DEF JoinInv
<1>6. \A i, j \in 1..Len(workItems) : workItems[i].kind = "join" /\ workItems[i] = workItems[j] => i = j
  BY DEF JoinInv
<1> QED BY <1>1, <1>3, <1>4, <1>5, <1>6 DEF JoinInv

(* An item that does not join a thread is queued. *)
LEMMA JoinQueued ==
    ASSUME JoinInv, workItems \in Seq(QueuedItems), NEW x \in QueuedItems, x.kind # "join",
           workItems' = Append(workItems, x),
           item' = item, \A u \in Threads : Joins(u)' = Joins(u),
           GoneThreads' = GoneThreads
    PROVE  JoinInv'
<1>1. /\ Len(workItems') = Len(workItems) + 1 /\ Len(workItems) \in Nat
      /\ \A i \in 1..Len(workItems) : workItems'[i] = workItems[i]
      /\ workItems'[Len(workItems) + 1] = x
  BY AppendProperties, LenProperties
<1>2. \A i \in 1..Len(workItems') : workItems'[i].kind = "join" => i \in 1..Len(workItems) /\ workItems'[i] = workItems[i]
  BY <1>1
<1>5. \A i \in 1..Len(workItems') : workItems'[i].kind = "join" => workItems'[i].arg \in GoneThreads'
  BY <1>2 DEF JoinInv
<1>6. \A t \in Threads : Joins(t)' => item'[t].arg \in GoneThreads'
  BY DEF JoinInv
<1>7. \A i, j \in 1..Len(workItems') :
        workItems'[i].kind = "join" /\ workItems'[i] = workItems'[j] => i = j
  BY <1>2 DEF JoinInv
<1>8. \A t, u \in Threads : Joins(t)' /\ item'[t] = item'[u] /\ Joins(u)' => t = u
  BY DEF JoinInv
<1>9. \A t \in Threads, i \in 1..Len(workItems') : Joins(t)' => workItems'[i] # item'[t]
  BY <1>2 DEF JoinInv, Joins
<1> QED BY <1>5, <1>6, <1>7, <1>8, <1>9 DEF JoinInv

(* A round does not. *)
LEMMA RoundJoins ==
    ASSUME CoreInv, NEW t \in Threads, NEW io, NEW list, Round(t, io, list)
    PROVE  JoinInv'
<1>1. workItems' = workItems /\ threads' = threads /\ t \in threads
  BY DEF Round
<1>2. pc'[t] \in {"io", "idle", "select", "wait"}
  BY DEF Round, TakesHandler, GivesUpLead, StartsSelect, Waits
<1>3. \A u \in Threads \ {t} : pc'[u] = pc[u] \/ (pc[u] = "wait" /\ pc'[u] = "idle")
  BY DEF Round, OthersKept
<1>4. \A u \in Threads : pc'[u] = "exec" => pc[u] = "exec" /\ item'[u] = item[u]
  BY <1>2, <1>3 DEF Round
<1>5. \A u \in Threads : Joins(u)' => Joins(u) /\ item'[u] = item[u]
  BY <1>4 DEF Joins
<1>6. GoneThreads \subseteq GoneThreads'
  BY <1>1, <1>3 DEF GoneThreads
<1> QED BY <1>1, <1>5, <1>6, JoinKept DEF CoreInv

(* ioCompleted() does not. *)
LEMMA CompletesJoins ==
    ASSUME CoreInv, NEW t \in Threads, NEW next, NEW S, Completes(t, next, S),
           UNCHANGED <<item, workItems>>
    PROVE  JoinInv'
<1>1. /\ t \in threads /\ threads' = threads \cup S /\ S \subseteq {n \in Threads : pc[n] = "none"}
      /\ pc'[t] \in {"user", "dying"}
      /\ \A u \in Threads \ {t} : IF u \in S THEN pc'[u] = "idle"
                                  ELSE pc'[u] = pc[u] \/ (pc[u] = "wait" /\ pc'[u] = "idle")
  BY DEF Completes
<1>2. \A u \in Threads : pc'[u] = "exec" => pc[u] = "exec"
  BY <1>1
<1>3. \A u \in Threads : Joins(u)' => Joins(u) /\ item'[u] = item[u]
  BY <1>2 DEF Joins
<1>4. GoneThreads \subseteq GoneThreads'
  BY <1>1 DEF GoneThreads
<1> QED BY <1>3, <1>4, JoinKept DEF CoreInv

(* A thread that moves on does not, unless it takes an item. *)
LEMMA MoveJoins ==
    ASSUME CoreInv, NEW t \in Threads, NEW p, Move(t, p), p # "exec",
           UNCHANGED <<item, workItems>>
    PROVE  JoinInv'
<1>1. threads' = threads /\ <<pc[t], p>> \in Moves /\ pc' = [pc EXCEPT ![t] = p]
  BY DEF Move, coreVars, poolVars
<1>2. pc[t] = "exiting" => p = "exited"
  BY <1>1 DEF Moves
<1>3. pc[t] \in {"exiting", "exited"} => p \in {"exiting", "exited"}
  BY <1>1 DEF Moves
<1>4. pc'[t] = p /\ \A u \in Threads \ {t} : pc'[u] = pc[u]
  BY <1>1 DEF CoreInv, CoreTypes, ThreadTypes
<1>5. \A u \in Threads : Joins(u)' => Joins(u) /\ item'[u] = item[u]
  BY <1>4 DEF Joins
<1>6. GoneThreads \subseteq GoneThreads'
  BY <1>1, <1>3, <1>4 DEF GoneThreads
<1> QED BY <1>5, <1>6, JoinKept DEF CoreInv

(* The thread that takes an item is the only one with it. *)
LEMMA TakeItemJoins ==
    ASSUME CoreInv, NEW t \in Threads, TakeItem(t)
    PROVE  JoinInv' /\ item' \in [Threads -> Items] /\ workItems' \in Seq(QueuedItems)
<1>0. CoreTypes /\ workItems \in Seq(QueuedItems) /\ item \in [Threads -> Items]
  BY DEF CoreInv, CoreTypes
<1>1. /\ threads' = threads /\ pc[t] = "io" /\ pc' = [pc EXCEPT ![t] = "exec"]
  BY DEF TakeItem, poolVars
<1>2. pc'[t] = "exec" /\ \A u \in Threads \ {t} : pc'[u] = pc[u]
  BY <1>0, <1>1 DEF CoreTypes, ThreadTypes
<1>3. GoneThreads' = GoneThreads
  BY <1>1, <1>2 DEF GoneThreads
<1>4. CASE workItems = <<>>
  <2>1. workItems' = workItems /\ item' = [item EXCEPT ![t] = DestroyedItem]
    BY <1>4 DEF TakeItem
  <2>2. DestroyedItem \in Items /\ DestroyedItem.kind # "join"
    BY DEF Items, DestroyedItem
  <2>3. item'[t] = DestroyedItem /\ \A u \in Threads \ {t} : item'[u] = item[u]
    BY <1>0, <2>1
  <2>4. \A u \in Threads : Joins(u)' => Joins(u) /\ item'[u] = item[u]
    BY <1>2, <2>2, <2>3 DEF Joins
  <2>5. JoinInv'
    BY <1>3, <2>1, <2>4, JoinKept DEF CoreInv
  <2> QED BY <1>0, <2>1, <2>2, <2>5
<1>5. CASE workItems # <<>>
  <2>1. item' = [item EXCEPT ![t] = Head(workItems)] /\ workItems' = Tail(workItems)
    BY <1>5 DEF TakeItem
  <2>2. /\ Head(workItems) \in QueuedItems /\ Tail(workItems) \in Seq(QueuedItems)
        /\ Len(Tail(workItems)) = Len(workItems) - 1
        /\ \A i \in 1..Len(Tail(workItems)) : Tail(workItems)[i] = workItems[i + 1]
    BY <1>0, <1>5, HeadTailProperties
  <2>3. Head(workItems) = workItems[1] /\ Len(workItems) \in Nat /\ 1 \in 1..Len(workItems)
    BY <1>0, <1>5, LenProperties
  <2>4. QueuedItems \subseteq Items
    BY DEF QueuedItems
  <2>5. item'[t] = workItems[1] /\ \A u \in Threads \ {t} : item'[u] = item[u]
    BY <1>0, <2>1, <2>3
  <2>6. \A i \in 1..Len(workItems') : i + 1 \in 1..Len(workItems) /\ workItems'[i] = workItems[i + 1]
    BY <2>1, <2>2, <2>3
  <2>7. \A u \in Threads \ {t} : Joins(u)' = Joins(u)
    BY <1>2, <2>5 DEF Joins
  <2>8. Joins(t)' => workItems[1].kind = "join"
    BY <2>5 DEF Joins
  <2>9. \A i \in 1..Len(workItems') : workItems'[i].kind = "join" => workItems'[i].arg \in GoneThreads'
    BY <1>3, <2>6 DEF CoreInv, JoinInv
  <2>10. \A u \in Threads : Joins(u)' => item'[u].arg \in GoneThreads'
    BY <1>3, <2>3, <2>5, <2>7, <2>8 DEF CoreInv, JoinInv
  <2>11. \A i, j \in 1..Len(workItems') :
           workItems'[i].kind = "join" /\ workItems'[i] = workItems'[j] => i = j
    <3> SUFFICES ASSUME NEW i \in 1..Len(workItems'), NEW j \in 1..Len(workItems'),
                        workItems'[i].kind = "join", workItems'[i] = workItems'[j]
                 PROVE  i = j
      OBVIOUS
    <3>1. i + 1 = j + 1
      BY <2>6 DEF CoreInv, JoinInv
    <3> QED BY <2>1, <2>2, <2>3, <3>1
  <2>12. \A u \in Threads \ {t} : Joins(u)' => item'[u] # item'[t]
    BY <2>3, <2>5, <2>7 DEF CoreInv, JoinInv
  <2>13. \A u, v \in Threads : Joins(u)' /\ item'[u] = item'[v] /\ Joins(v)' => u = v
    <3> SUFFICES ASSUME NEW u \in Threads, NEW v \in Threads,
                        Joins(u)', Joins(v)', item'[u] = item'[v]
                 PROVE  u = v
      OBVIOUS
    <3>1. CASE u = t \/ v = t
      BY <2>12, <3>1
    <3>2. CASE u # t /\ v # t
      BY <2>5, <2>7, <3>2 DEF CoreInv, JoinInv
    <3> QED BY <3>1, <3>2
  <2>14. \A u \in Threads, i \in 1..Len(workItems') : Joins(u)' => workItems'[i] # item'[u]
    <3> SUFFICES ASSUME NEW u \in Threads, NEW i \in 1..Len(workItems'), Joins(u)',
                        workItems'[i] = item'[u]
                 PROVE  FALSE
      OBVIOUS
    <3>1. CASE u = t
      <4>1. workItems[1].kind = "join" /\ workItems[1] = workItems[i + 1]
        BY <2>5, <2>6, <2>8, <3>1
      <4>2. 1 = i + 1
        BY <2>3, <2>6, <4>1 DEF CoreInv, JoinInv
      <4>3. i \in Nat /\ i > 0
        BY <2>1, <2>2, <2>3
      <4> QED BY <4>2, <4>3
    <3>2. CASE u # t
      BY <2>5, <2>6, <2>7, <3>2 DEF CoreInv, JoinInv
    <3> QED BY <3>1, <3>2
  <2>15. JoinInv'
    BY <2>9, <2>10, <2>11, <2>13, <2>14 DEF JoinInv
  <2>16. item' \in [Threads -> Items]
    BY <1>0, <2>1, <2>2, <2>4
  <2> QED BY <2>1, <2>2, <2>15, <2>16
<1> QED BY <1>4, <1>5

(* A thread that leaves the pool is joined by nobody yet. *)
LEMMA ShrinkJoins ==
    ASSUME CoreInv, NEW t \in Threads, Shrink(t)
    PROVE  JoinInv' /\ workItems' \in Seq(QueuedItems)
<1>0. /\ CoreTypes /\ workItems \in Seq(QueuedItems) /\ t \in threads
      /\ item \in [Threads -> Items]
  BY WaitsNotAlone DEF CoreInv, CoreTypes, Shrink
<1>1. /\ item' = item /\ threads' = threads \ {t} /\ pc[t] = "wait"
      /\ pc' = [pc EXCEPT ![t] = "exiting"] /\ workItems' = Append(workItems, JoinItem(t))
  BY DEF Shrink, Queue
<1>2. pc'[t] = "exiting" /\ \A u \in Threads \ {t} : pc'[u] = pc[u]
  BY <1>0, <1>1 DEF CoreTypes, ThreadTypes
<1>3. t \notin GoneThreads /\ GoneThreads' = GoneThreads \cup {t}
  BY <1>0, <1>1, <1>2 DEF GoneThreads
<1>4. JoinItem(t) \in QueuedItems /\ JoinItem(t).kind = "join" /\ JoinItem(t).arg = t
  BY DEF QueuedItems, Items, JoinItem, NoItem, DestroyedItem
<1>5. /\ Len(workItems') = Len(workItems) + 1 /\ Len(workItems) \in Nat
      /\ \A i \in 1..Len(workItems) : workItems'[i] = workItems[i]
      /\ workItems'[Len(workItems) + 1] = JoinItem(t)
      /\ workItems' \in Seq(QueuedItems)
  BY <1>0, <1>1, <1>4, AppendProperties, LenProperties
<1>6. \A u \in Threads : Joins(u)' = Joins(u)
  BY <1>1, <1>2 DEF Joins
<1>7. \A i \in 1..Len(workItems) : workItems[i] # JoinItem(t)
  BY <1>3, <1>4 DEF CoreInv, JoinInv
<1>8. \A u \in Threads : Joins(u) => item[u] # JoinItem(t)
  BY <1>3, <1>4 DEF CoreInv, JoinInv
<1>9. \A i \in 1..Len(workItems') : i \in 1..Len(workItems) \/ (i = Len(workItems) + 1 /\ workItems'[i] = JoinItem(t))
  BY <1>5
<1>10. \A i \in 1..Len(workItems') : workItems'[i].kind = "join" => workItems'[i].arg \in GoneThreads'
  <2> SUFFICES ASSUME NEW i \in 1..Len(workItems'), workItems'[i].kind = "join"
               PROVE  workItems'[i].arg \in GoneThreads'
    OBVIOUS
  <2>1. CASE i \in 1..Len(workItems)
    BY <1>3, <1>5, <2>1 DEF CoreInv, JoinInv
  <2>2. CASE workItems'[i] = JoinItem(t)
    BY <1>3, <1>4, <2>2
  <2> QED BY <1>9, <2>1, <2>2
<1>11. \A u \in Threads : Joins(u)' => item'[u].arg \in GoneThreads'
  BY <1>1, <1>3, <1>6 DEF CoreInv, JoinInv
<1>12. \A i, j \in 1..Len(workItems') :
         workItems'[i].kind = "join" /\ workItems'[i] = workItems'[j] => i = j
  BY <1>5, <1>7, <1>9 DEF CoreInv, JoinInv
<1>13. \A u, v \in Threads : Joins(u)' /\ item'[u] = item'[v] /\ Joins(v)' => u = v
  BY <1>1, <1>6 DEF CoreInv, JoinInv
<1>14. \A u \in Threads, i \in 1..Len(workItems') : Joins(u)' => workItems'[i] # item'[u]
  BY <1>1, <1>5, <1>6, <1>8, <1>9 DEF CoreInv, JoinInv
<1> QED BY <1>5, <1>10, <1>11, <1>12, <1>13, <1>14 DEF JoinInv

(* The thread that is joined was to be joined once. *)
LEMMA ExecuteJoinJoins ==
    ASSUME CoreInv, NEW t \in Threads, ExecuteJoin(t)
    PROVE  JoinInv'
<1> DEFINE a == item[t].arg
<1>0. CoreTypes /\ workItems \in Seq(QueuedItems) /\ item \in [Threads -> Items]
  BY DEF CoreInv, CoreTypes
<1>1. /\ item' = item /\ workItems' = workItems /\ threads' = threads
      /\ pc[t] = "exec" /\ item[t].kind = "join"
      /\ pc' = [pc EXCEPT ![t] = "done", ![a] = "none"]
  BY DEF ExecuteJoin, poolVars
<1>2. Joins(t) /\ a \in GoneThreads
  BY <1>1 DEF Joins, CoreInv, JoinInv
<1>3. item[t] = JoinItem(a)
  BY <1>0, <1>1, JoinItems
<1> HIDE DEF a
<1>4. a \in Threads /\ a # t
  BY <1>1, <1>2 DEF GoneThreads
<1>5. /\ pc'[t] = "done" /\ pc'[a] = "none"
      /\ \A u \in Threads \ {t, a} : pc'[u] = pc[u]
  BY <1>0, <1>1, <1>4 DEF CoreTypes, ThreadTypes
<1>6. \A u \in Threads : Joins(u)' => Joins(u) /\ u # t
  BY <1>1, <1>5 DEF Joins
<1>7. GoneThreads \ {a} \subseteq GoneThreads'
  BY <1>1, <1>5 DEF GoneThreads
<1>8. \A i \in 1..Len(workItems) : workItems[i].kind = "join" => workItems[i].arg # a
  <2> SUFFICES ASSUME NEW i \in 1..Len(workItems), workItems[i].kind = "join", workItems[i].arg = a
               PROVE  FALSE
    OBVIOUS
  <2>1. workItems[i] \in Items
    BY <1>0, ElementOfSeq DEF QueuedItems
  <2>2. workItems[i] = item[t]
    BY <1>3, <2>1, JoinItems
  <2> QED BY <1>2, <2>2 DEF CoreInv, JoinInv
<1>9. \A u \in Threads \ {t} : Joins(u) => item[u].arg # a
  <2> SUFFICES ASSUME NEW u \in Threads \ {t}, Joins(u), item[u].arg = a
               PROVE  FALSE
    OBVIOUS
  <2>1. item[u] \in Items /\ item[u].kind = "join"
    BY <1>0 DEF Joins
  <2>2. item[u] = item[t]
    BY <1>3, <2>1, JoinItems
  <2> QED BY <1>2, <2>2 DEF CoreInv, JoinInv
<1>10. \A i \in 1..Len(workItems) : workItems[i].kind = "join" => workItems[i].arg \in GoneThreads'
  BY <1>7, <1>8 DEF CoreInv, JoinInv
<1>11. \A u \in Threads : Joins(u)' => item[u].arg \in GoneThreads'
  BY <1>6, <1>7, <1>9 DEF CoreInv, JoinInv
<1>12. \A u, v \in Threads : Joins(u)' /\ item[u] = item[v] /\ Joins(v)' => u = v
  BY <1>6 DEF CoreInv, JoinInv
<1>13. \A u \in Threads, i \in 1..Len(workItems) : Joins(u)' => workItems[i] # item[u]
  BY <1>6 DEF CoreInv, JoinInv
<1> QED BY <1>1, <1>10, <1>11, <1>12, <1>13 DEF CoreInv, JoinInv

-----------------------------------------------------------------------------
(* Types.                                                                  *)

PoolTypes ==
    /\ conf \in Configs /\ threads \in SUBSET Threads /\ promote \in BOOLEAN
    /\ inUse \in Int /\ inUseIO \in Nat /\ handlers \in Seq(EventHandlers)

QueueTypes ==
    /\ workItems \in Seq(QueuedItems)
    /\ registered \in SUBSET EventHandlers /\ disabled \in SUBSET Handlers
    /\ ready \in SUBSET EventHandlers /\ events \in SUBSET Handlers
    /\ destroyed \in BOOLEAN

(* Queueing an item. *)
LEMMA QueueEffect ==
    ASSUME CoreTypes, NEW x \in QueuedItems, Queue(x)
    PROVE  /\ workItems' = Append(workItems, x)
           /\ workItems' \in Seq(QueuedItems) /\ ready' \in SUBSET EventHandlers
<1>1. workItems' = Append(workItems, x) /\ ready' \in {ready, ready \cup {WorkQueue}}
  BY DEF Queue
<1>2. workItems' \in Seq(QueuedItems)
  BY <1>1, AppendProperties DEF CoreTypes
<1>3. ready' \in SUBSET EventHandlers
  BY <1>1 DEF CoreTypes, EventHandlers
<1> QED BY <1>1, <1>2, <1>3

(* What is left of a list is a list. *)
LEMMA RestOfList ==
    ASSUME NEW S, NEW list \in Seq(S), NEW i \in 1..Len(list)
    PROVE  /\ SubSeq(list, i + 1, Len(list)) \in Seq(S)
           /\ Len(SubSeq(list, i + 1, Len(list))) = Len(list) - i
           /\ Len(list) \in Nat /\ i \in Nat
           /\ \A j \in 1..Len(list) - i :
                SubSeq(list, i + 1, Len(list))[j] = list[i + j] /\ i + j \in 1..Len(list)
<1>1. Len(list) \in Nat /\ i \in Nat /\ i <= Len(list)
  BY LenProperties
<1>2. \A j \in i + 1..Len(list) : list[j] \in S
  BY <1>1, ElementOfSeq
<1>3. i + 1 \in Int /\ Len(list) \in Int
  BY <1>1
<1>4. /\ SubSeq(list, i + 1, Len(list)) \in Seq(S)
      /\ Len(SubSeq(list, i + 1, Len(list))) = IF i + 1 <= Len(list) THEN Len(list) - (i + 1) + 1 ELSE 0
      /\ \A j \in 1..Len(list) - (i + 1) + 1 : SubSeq(list, i + 1, Len(list))[j] = list[i + 1 + j - 1]
  <2> DEFINE m == i + 1
             n == Len(list)
  <2>1. m \in Int /\ n \in Int /\ \A j \in m..n : list[j] \in S
    BY <1>2, <1>3
  <2> HIDE DEF m, n
  <2>2. /\ SubSeq(list, m, n) \in Seq(S)
        /\ Len(SubSeq(list, m, n)) = IF m <= n THEN n - m + 1 ELSE 0
        /\ \A j \in 1..n - m + 1 : SubSeq(list, m, n)[j] = list[m + j - 1]
    BY <2>1, SubSeqProperties
  <2> QED BY <2>2 DEF m, n
<1>5. Len(SubSeq(list, i + 1, Len(list))) = Len(list) - i
  <2>1. \A k, l \in Nat : k <= l => (IF k + 1 <= l THEN l - (k + 1) + 1 ELSE 0) = l - k
    OBVIOUS
  <2>2. Len(SubSeq(list, i + 1, Len(list))) =
            IF i + 1 <= Len(list) THEN Len(list) - (i + 1) + 1 ELSE 0
    BY <1>4
  <2> QED BY ONLY <1>1, <2>1, <2>2
<1>6. \A j \in 1..Len(list) - i : i + 1 + j - 1 = i + j /\ i + j \in 1..Len(list)
                                  /\ j \in 1..Len(list) - (i + 1) + 1
  BY <1>1
<1> QED BY <1>1, <1>4, <1>5, <1>6

(* A round keeps the types. *)
LEMMA RoundTypes ==
    ASSUME CoreInv, NEW t \in Threads, NEW io, NEW list, Round(t, io, list)
    PROVE  PoolTypes' /\ ThreadTypes'
<1>0. /\ CoreTypes /\ ThreadTypes' /\ io \in Nat /\ list \in Seq(EventHandlers)
      /\ threads' = threads /\ conf' = conf
  BY DEF CoreInv, Round
<1>1. promote' \in BOOLEAN
  <2>1. leader'[t] \in BOOLEAN
    BY <1>0 DEF ThreadTypes
  <2> QED BY <1>0, <2>1 DEF Round, TakesHandler, GivesUpLead, StartsSelect, Waits, CoreTypes
<1>2. inUse' \in Int
  <2>1. CASE Multi
    <3>1. inUse' = Cardinality(UsedThreads \ {t})
      BY <2>1 DEF Round
    <3>2. Cardinality(UsedThreads \ {t}) \in Nat
      BY <1>0, CountFacts, LeaveOut
    <3> QED BY <3>1, <3>2
  <2>2. CASE ~Multi
    BY <1>0, <2>2 DEF Round, CoreTypes
  <2> QED BY <2>1, <2>2
<1>3. inUseIO' \in Nat
  <2>1. inUseIO' \in {io, io + 1}
    BY DEF Round, TakesHandler, GivesUpLead, StartsSelect, Waits
  <2> QED BY <1>0, <2>1
<1>4. handlers' \in Seq(EventHandlers)
  <2>1. CASE TakesHandler(t, io, list)
    <3>1. PICK i \in 1..Len(list) : handlers' = SubSeq(list, i + 1, Len(list))
      BY <2>1 DEF TakesHandler
    <3> QED BY <1>0, <3>1, RestOfList
  <2>2. CASE handlers' = <<>>
    BY <2>2
  <2>3. CASE handlers' = handlers
    BY <1>0, <2>3 DEF CoreTypes
  <2> QED BY <2>1, <2>2, <2>3 DEF Round, GivesUpLead, StartsSelect, Waits
<1> QED BY <1>0, <1>1, <1>2, <1>3, <1>4 DEF PoolTypes, CoreTypes

(* So does ioCompleted(). *)
LEMMA CompletesTypes ==
    ASSUME CoreInv, NEW t \in Threads, NEW next, NEW S, Completes(t, next, S)
    PROVE  PoolTypes' /\ ThreadTypes'
<1>0. /\ CoreTypes /\ ThreadTypes' /\ conf' = conf /\ handlers' = handlers
      /\ t \in threads /\ pc[t] \in {"io", "exec"} /\ S \subseteq Threads
      /\ threads' = threads \cup S
  BY DEF CoreInv, Completes
<1>1. CASE Multi
  <2>1. /\ inUseIO' = inUseIO - 1 /\ inUse' = inUse + 1
        /\ inUseIO = Cardinality(IOThreads)
    BY <1>1 DEF Completes, CoreInv, PoolInv, CountInv
  <2>2. t \in IOThreads
    BY <1>0 DEF IOThreads, CoreInv, PoolInv, ThreadInv
  <2>3. inUseIO \in Nat /\ inUseIO # 0 /\ inUse \in Int
    BY <1>0, <2>1, <2>2, CountFacts, FS_EmptySet DEF CoreTypes
  <2>4. promote' \in BOOLEAN
    BY <1>1 DEF Completes
  <2>5. inUseIO' \in Nat /\ inUse' \in Int
    BY <2>1, <2>3
  <2> QED BY <1>0, <2>4, <2>5 DEF PoolTypes, CoreTypes
<1>2. CASE ~Multi
  <2>1. UNCHANGED <<inUseIO, inUse, promote>>
    BY <1>2 DEF Completes
  <2> QED BY <1>0, <2>1 DEF PoolTypes, CoreTypes
<1> QED BY <1>1, <1>2

-----------------------------------------------------------------------------
(* Every step keeps the invariant.                                         *)

(* The steps that end a round. *)
LEMMA RoundsNext ==
    ASSUME CoreInv, NEW t \in Threads,
           Follow(t) \/ TimedOutWanted(t) \/ FinishSelect(t) \/ MessageDone(t)
    PROVE  CoreInv'
<1>0. CoreTypes
  BY DEF CoreInv
<1>1. \E io, list : Round(t, io, list)
  BY FollowRound, SelectRound, MessageDoneRound
<1>2. PoolInv' /\ JoinInv' /\ PoolTypes' /\ ThreadTypes'
  BY <1>1, RoundKeeps, RoundJoins, RoundTypes
<1>3. item' \in [Threads -> Items]
  BY <1>1 DEF Round
<1>4. UNCHANGED <<workItems, registered, ready, destroyed>> /\ (events' = {} \/ events' = events)
  BY DEF Follow, TimedOutWanted, FinishSelect, MessageDone
<1>5. disabled' \in SUBSET Handlers
  BY <1>0 DEF Follow, TimedOutWanted, FinishSelect, MessageDone, DisabledAfterMessage, CoreTypes
<1> QED BY <1>0, <1>2, <1>3, <1>4, <1>5 DEF CoreInv, CoreTypes, PoolTypes

(* The steps that take a thread on, with nothing queued or taken. *)
LEMMA MovesNext ==
    ASSUME CoreInv, NEW t \in Threads, NEW p, p # "exec", Move(t, p),
           UNCHANGED <<item, workItems>>, QueueTypes'
    PROVE  CoreInv'
<1>1. PoolInv' /\ ThreadTypes' /\ JoinInv'
  BY MoveKeeps, MoveJoins
<1>2. UNCHANGED <<conf, threads, promote, inUse, inUseIO, handlers>>
  BY DEF Move, coreVars, poolVars
<1> QED BY <1>1, <1>2 DEF CoreInv, CoreTypes, QueueTypes

(* The steps that call ioCompleted(). *)
LEMMA CompletesNext ==
    ASSUME CoreInv, NEW t \in Threads, pc[t] \in {"io", "exec"},
           NEW next \in {"user", "dying"}, IoCompleted(t, next),
           next = "dying" => pc[t] = "exec",
           UNCHANGED <<conf, cur, item, workItems, destroyed, registered, events>>,
           ready' \in SUBSET EventHandlers
    PROVE  CoreInv'
<1>0. CoreTypes
  BY DEF CoreInv
<1>1. PICK S \in SUBSET Threads : Completes(t, next, S)
  BY CompletesEffect
<1>2. PoolInv' /\ JoinInv' /\ PoolTypes' /\ ThreadTypes'
  BY <1>1, CompletesKeeps, CompletesJoins, CompletesTypes
<1>3. disabled' \in SUBSET Handlers
  <2>1. cur[t] \in EventHandlers \cup {NoHandler} /\ cur[t] # NoHandler
    BY <1>0 DEF CoreTypes, ThreadTypes, CoreInv, PoolInv, ThreadInv
  <2>2. disabled' = disabled \/ disabled' = DisabledByDispatch(t)
    BY DEF IoCompleted
  <2> QED BY <1>0, <2>1, <2>2 DEF DisabledByDispatch, CoreTypes, EventHandlers
<1> QED BY <1>0, <1>2, <1>3 DEF CoreInv, CoreTypes, PoolTypes

(* What is queued by calls from elsewhere. *)
LEMMA OtherItems ==
    /\ DispatchItem \in QueuedItems /\ DispatchItem.kind # "join"
    /\ ShutdownItem \in QueuedItems /\ ShutdownItem.kind # "join"
    /\ \A h \in Handlers : FinishedItem(h) \in QueuedItems /\ FinishedItem(h).kind # "join"
BY DEF QueuedItems, Items, DispatchItem, ShutdownItem, FinishedItem, NoItem, DestroyedItem

(* Calls from other threads. *)
LEMMA CallsNext ==
    ASSUME CoreInv,
           \/ Dispatch \/ Destroy
           \/ \E h \in Handlers : Update(h) \/ Finish(h) \/ Arrive(h)
           \/ UNCHANGED vars
    PROVE  CoreInv'
<1>0. CoreTypes
  BY DEF CoreInv
<1>1. UNCHANGED <<conf, pc, cur, leader, ioCompleted, item, threads, promote, inUse, inUseIO,
                  handlers, disabled, events>>
      /\ destroyed' \in BOOLEAN /\ (destroyed => destroyed')
  <2>1. destroyed \in BOOLEAN
    BY <1>0 DEF CoreTypes
  <2>2. CASE Dispatch
    BY <2>1, <2>2 DEF Dispatch, threadVars, poolVars
  <2>3. CASE Destroy
    BY <2>1, <2>3 DEF Destroy, threadVars, poolVars
  <2>4. CASE \E h \in Handlers : Update(h) \/ Finish(h)
    BY <2>1, <2>4 DEF Update, Finish, threadVars, poolVars
  <2>5. CASE (\E h \in Handlers : Arrive(h)) \/ UNCHANGED vars
    BY <2>1, <2>5 DEF Arrive, vars, threadVars, poolVars, selectorVars
  <2> QED BY <2>2, <2>3, <2>4, <2>5
<1>2. PoolInv' /\ ThreadTypes'
  BY <1>1, QuietKeeps DEF poolVars
<1>3. /\ workItems' \in Seq(QueuedItems) /\ ready' \in SUBSET EventHandlers
      /\ \/ workItems' = workItems
         \/ \E x \in QueuedItems : x.kind # "join" /\ workItems' = Append(workItems, x)
  <2>1. CASE Dispatch
    BY <1>0, <2>1, QueueEffect, OtherItems DEF Dispatch
  <2>2. CASE \E h \in Handlers : Finish(h)
    BY <1>0, <2>2, QueueEffect, OtherItems DEF Finish
  <2>3. CASE Destroy
    BY <1>0, <2>3 DEF Destroy, CoreTypes, EventHandlers
  <2>4. CASE \/ \E h \in Handlers : Update(h) \/ Arrive(h)
             \/ UNCHANGED vars
    BY <1>0, <2>4 DEF Update, Arrive, vars, selectorVars, CoreTypes
  <2> QED BY <2>1, <2>2, <2>3, <2>4
<1>4. registered' \in SUBSET EventHandlers
  BY <1>0 DEF Dispatch, Destroy, Update, Finish, Arrive, vars, selectorVars, CoreTypes, EventHandlers
<1>5. GoneThreads' = GoneThreads /\ \A u \in Threads : Joins(u)' = Joins(u)
  BY <1>1 DEF GoneThreads, Joins
<1>6. JoinInv'
  <2>1. CASE workItems' = workItems
    BY <1>1, <1>5, <2>1, JoinKept DEF CoreInv
  <2>2. CASE \E x \in QueuedItems : x.kind # "join" /\ workItems' = Append(workItems, x)
    BY <1>0, <1>1, <1>5, <2>2, JoinQueued DEF CoreInv, CoreTypes
  <2> QED BY <1>3, <2>1, <2>2
<1> QED BY <1>0, <1>1, <1>2, <1>3, <1>4, <1>6 DEF CoreInv, CoreTypes

(* An idle server may be shut down; its leader selects again. *)
LEMMA SelectTimeoutNext ==
    ASSUME CoreInv, NEW t \in Threads, SelectTimeout(t)
    PROVE  CoreInv'
<1>0. CoreTypes
  BY DEF CoreInv
<1>1. Move(t, "select") /\ item' = item /\ pc[t] = "timedOut"
  BY DEF SelectTimeout, Move, Moves, coreVars
<1>2. PoolInv' /\ ThreadTypes'
  BY <1>1, MoveKeeps
<1>3. UNCHANGED <<conf, threads, promote, inUse, inUseIO, handlers, destroyed,
                  registered, disabled, events>>
  BY DEF SelectTimeout, poolVars
<1>4. pc'[t] = "select" /\ \A u \in Threads \ {t} : pc'[u] = pc[u]
  BY <1>0 DEF SelectTimeout, CoreTypes, ThreadTypes
<1>5. GoneThreads' = GoneThreads /\ \A u \in Threads : Joins(u)' = Joins(u)
  BY <1>1, <1>3, <1>4 DEF GoneThreads, Joins
<1>6. workItems' \in Seq(QueuedItems) /\ ready' \in SUBSET EventHandlers /\ JoinInv'
  <2>1. CASE UNCHANGED <<workItems, ready>>
    BY <1>0, <1>1, <1>5, <2>1, JoinKept DEF CoreInv, CoreTypes
  <2>2. CASE Queue(ShutdownItem)
    <3>1. /\ workItems' = Append(workItems, ShutdownItem)
          /\ workItems' \in Seq(QueuedItems) /\ ready' \in SUBSET EventHandlers
      BY <1>0, <2>2, QueueEffect, OtherItems
    <3> QED BY <1>0, <1>1, <1>5, <3>1, JoinQueued, OtherItems DEF CoreInv, CoreTypes
  <2> QED BY <2>1, <2>2 DEF SelectTimeout
<1> QED BY <1>0, <1>1, <1>2, <1>3, <1>6 DEF CoreInv, CoreTypes

(* message() of a connection. *)
LEMMA MessageNext ==
    ASSUME CoreInv, NEW t \in Threads, Message(t)
    PROVE  CoreInv'
<1>0. CoreTypes /\ cur[t] \in EventHandlers
  BY DEF CoreInv, CoreTypes, Message, PoolInv, ThreadInv, ThreadTypes
<1>1. /\ pc[t] = "io" /\ UNCHANGED <<conf, cur, item, workItems, destroyed, registered, events>>
      /\ ready' \in SUBSET EventHandlers
  BY <1>0 DEF Message, CoreTypes
<1>2. CASE /\ pc' = [pc EXCEPT ![t] = "done"]
           /\ UNCHANGED <<leader, ioCompleted, poolVars, disabled>>
  <2>1. Move(t, "done")
    BY <1>1, <1>2 DEF Move, Moves, coreVars
  <2>2. QueueTypes'
    BY <1>0, <1>1, <1>2 DEF QueueTypes, CoreTypes
  <2> QED BY <1>1, <2>1, <2>2, MovesNext
<1>3. CASE IoCompleted(t, "user")
  BY <1>1, <1>3, CompletesNext
<1> QED BY <1>2, <1>3 DEF Message

(* The other steps of a thread. *)
LEMMA ThreadNext ==
    ASSUME CoreInv, NEW t \in Threads,
           \/ Exit(t) \/ Select(t) \/ SelectTimesOut(t) \/ TakeItem(t) \/ ExecuteFinished(t)
           \/ UserReturn(t) \/ ExecuteBlocking(t) \/ ExecuteJoin(t) \/ Die(t) \/ Shrink(t)
    PROVE  CoreInv'
<1>0. CoreTypes
  BY DEF CoreInv
<1>1. CASE Exit(t)
  <2>1. Move(t, "exited") /\ UNCHANGED <<item, workItems>>
    BY <1>1 DEF Exit, Move, Moves, coreVars
  <2>2. QueueTypes'
    BY <1>0, <1>1 DEF Exit, QueueTypes, CoreTypes, selectorVars
  <2> QED BY <2>1, <2>2, MovesNext
<1>2. CASE Select(t)
  <2>1. Move(t, "selected") /\ UNCHANGED <<item, workItems>>
    BY <1>2 DEF Select, Move, Moves, coreVars
  <2>2. events' \in SUBSET Handlers
    BY <1>2 DEF Select
  <2>3. QueueTypes'
    BY <1>0, <1>2, <2>2 DEF Select, QueueTypes, CoreTypes
  <2> QED BY <2>1, <2>3, MovesNext
<1>3. CASE SelectTimesOut(t)
  <2>1. Move(t, "timedOut") /\ UNCHANGED <<item, workItems>>
    BY <1>3 DEF SelectTimesOut, Move, Moves, coreVars
  <2>2. QueueTypes'
    BY <1>0, <1>3 DEF SelectTimesOut, QueueTypes, CoreTypes, selectorVars
  <2> QED BY <2>1, <2>2, MovesNext
<1>4. CASE TakeItem(t)
  <2>1. Move(t, "exec")
    BY <1>4 DEF TakeItem, Move, Moves, coreVars
  <2>2. PoolInv' /\ ThreadTypes'
    BY <2>1, MoveKeeps
  <2>3. JoinInv' /\ item' \in [Threads -> Items] /\ workItems' \in Seq(QueuedItems)
    BY <1>4, TakeItemJoins
  <2>4. ready' \subseteq ready
    BY <1>4 DEF TakeItem, ReadyAfterTake
  <2>5. UNCHANGED <<conf, threads, promote, inUse, inUseIO, handlers, destroyed,
                    registered, disabled, events>>
    BY <1>4 DEF TakeItem, poolVars
  <2> QED BY <1>0, <2>2, <2>3, <2>4, <2>5 DEF CoreInv, CoreTypes
<1>5. CASE ExecuteFinished(t)
  <2>1. Move(t, "done") /\ UNCHANGED <<item, workItems>>
    BY <1>5 DEF ExecuteFinished, Move, Moves, coreVars
  <2>2. QueueTypes'
    BY <1>0, <1>5 DEF ExecuteFinished, QueueTypes, CoreTypes, selectorVars
  <2> QED BY <2>1, <2>2, MovesNext
<1>6. CASE UserReturn(t)
  <2>1. Move(t, "done") /\ UNCHANGED <<item, workItems>>
    BY <1>6 DEF UserReturn, Move, Moves, coreVars
  <2>2. QueueTypes'
    BY <1>0, <1>6 DEF UserReturn, QueueTypes, CoreTypes, selectorVars
  <2> QED BY <2>1, <2>2, MovesNext
<1>7. CASE ExecuteBlocking(t)
  <2>1. PICK next \in {"user", "dying"} : IoCompleted(t, next)
    BY <1>7 DEF ExecuteBlocking
  <2>2. /\ pc[t] = "exec" /\ UNCHANGED <<conf, cur, item, workItems, destroyed, registered, events>>
        /\ ready' \in SUBSET EventHandlers
    BY <1>0, <1>7 DEF ExecuteBlocking, CoreTypes
  <2> QED BY <2>1, <2>2, CompletesNext
<1>8. CASE ExecuteJoin(t)
  <2>1. PoolInv' /\ ThreadTypes' /\ JoinInv'
    BY <1>8, ExecuteJoinKeeps, ExecuteJoinJoins
  <2> QED BY <1>0, <1>8, <2>1 DEF ExecuteJoin, poolVars, selectorVars, CoreInv, CoreTypes
<1>9. CASE Die(t)
  <2>1. PoolInv' /\ ThreadTypes'
    BY <1>9, DieKeeps
  <2>2. UNCHANGED <<conf, item, threads, promote, inUseIO, handlers, workItems, destroyed,
                    registered, disabled, ready, events>>
    BY <1>9 DEF Die, selectorVars
  <2>3. pc[t] = "dying" /\ pc'[t] = "exited" /\ \A u \in Threads \ {t} : pc'[u] = pc[u]
    BY <1>0, <1>9 DEF Die, CoreTypes, ThreadTypes
  <2>4. GoneThreads \subseteq GoneThreads' /\ \A u \in Threads : Joins(u)' => Joins(u) /\ item'[u] = item[u]
    BY <2>2, <2>3 DEF GoneThreads, Joins
  <2>5. JoinInv'
    BY <2>2, <2>4, JoinKept DEF CoreInv
  <2>6. inUse' \in Int
    BY <1>0, <1>9 DEF Die, CoreTypes
  <2> QED BY <1>0, <2>1, <2>2, <2>5, <2>6 DEF CoreInv, CoreTypes
<1>10. CASE Shrink(t)
  <2>1. PoolInv' /\ ThreadTypes' /\ JoinInv' /\ workItems' \in Seq(QueuedItems)
    BY <1>10, ShrinkKeeps, ShrinkJoins
  <2>2. ready' \in SUBSET EventHandlers
    BY <1>0, <1>10 DEF Shrink, Queue, CoreTypes, EventHandlers
  <2>3. /\ UNCHANGED <<conf, item, promote, inUse, inUseIO, handlers, destroyed, registered,
                       disabled, events>>
        /\ threads' \subseteq threads
    BY <1>10 DEF Shrink
  <2> QED BY <1>0, <2>1, <2>2, <2>3 DEF CoreInv, CoreTypes
<1> QED BY <1>1, <1>2, <1>3, <1>4, <1>5, <1>6, <1>7, <1>8, <1>9, <1>10

(* All together. *)
LEMMA CoreNext ==
    ASSUME CoreInv, [Next]_vars
    PROVE  CoreInv'
<1>1. CASE \/ Dispatch \/ Destroy
           \/ \E h \in Handlers : Update(h) \/ Finish(h) \/ Arrive(h)
           \/ UNCHANGED vars
  BY <1>1, CallsNext
<1>2. CASE \E t \in Threads : RunStep(t) \/ Shrink(t) \/ TimedOutWanted(t) \/ SelectTimesOut(t)
  <2>1. PICK t \in Threads : RunStep(t) \/ Shrink(t) \/ TimedOutWanted(t) \/ SelectTimesOut(t)
    BY <1>2
  <2>2. \/ Follow(t) \/ TimedOutWanted(t) \/ FinishSelect(t) \/ MessageDone(t)
        \/ SelectTimeout(t) \/ Message(t)
        \/ Exit(t) \/ Select(t) \/ SelectTimesOut(t) \/ TakeItem(t) \/ ExecuteFinished(t)
        \/ UserReturn(t) \/ ExecuteBlocking(t) \/ ExecuteJoin(t) \/ Die(t) \/ Shrink(t)
    BY <2>1 DEF RunStep
  <2> QED BY <2>2, RoundsNext, SelectTimeoutNext, MessageNext, ThreadNext
<1> QED BY <1>1, <1>2 DEF Next

(* The pool starts with threads that wait for work. *)
LEMMA CoreInit ==
    ASSUME Init
    PROVE  CoreInv
<1>1. PICK S \in SUBSET Threads :
        /\ Cardinality(S) = conf.size /\ threads = S
        /\ pc = [t \in Threads |-> IF t \in S THEN "idle" ELSE "none"]
  BY DEF Init
<1>2. CoreTypes
  <2>1. "idle" \in PCs /\ "none" \in PCs /\ NoItem \in Items
    BY DEF PCs, Items
  <2>2. pc \in [Threads -> PCs]
    BY <1>1, <2>1
  <2>3. cur \in [Threads -> EventHandlers \cup {NoHandler}]
    BY DEF Init
  <2>4. ThreadTypes
    BY <2>2, <2>3 DEF Init, ThreadTypes
  <2>5. handlers \in Seq(EventHandlers) /\ workItems \in Seq(QueuedItems)
    BY DEF Init
  <2>6. item \in [Threads -> Items]
    BY <2>1 DEF Init
  <2>7. /\ registered \in SUBSET EventHandlers /\ disabled \in SUBSET Handlers
        /\ ready \in SUBSET EventHandlers /\ events \in SUBSET Handlers
    <3>1. registered = EventHandlers /\ disabled = {} /\ ready = {} /\ events = {}
      BY DEF Init
    <3> QED BY <3>1
  <2>8. /\ conf \in Configs /\ promote \in BOOLEAN /\ destroyed \in BOOLEAN
        /\ inUse \in Int /\ inUseIO \in Nat
    <3>1. conf \in Configs /\ inUse = 0 /\ inUseIO = 0
      BY DEF Init
    <3>2. promote = TRUE
      BY DEF Init
    <3>3. destroyed = FALSE
      BY DEF Init
    <3>4. promote \in BOOLEAN /\ destroyed \in BOOLEAN
      BY <3>2, <3>3
    <3> QED BY <3>1, <3>4
  <2> QED BY <1>1, <2>4, <2>5, <2>6, <2>7, <2>8 DEF CoreTypes
<1>3. \A t \in Threads : pc[t] = (IF t \in threads THEN "idle" ELSE "none") /\ cur[t] = NoHandler
                         /\ leader[t] = FALSE /\ ioCompleted[t] = FALSE /\ item[t] = NoItem
  BY <1>1 DEF Init
<1>4. ThreadInv
  BY <1>3 DEF ThreadInv, Selectors
<1>5. LeaderInv
  BY <1>3 DEF LeaderInv, Selectors, Init
<1>6. JoinInv
  <2>1. Len(workItems) = 0 /\ 1..Len(workItems) = {}
    BY DEF Init
  <2>2. \A t \in Threads : ~Joins(t)
    BY <1>3 DEF Joins
  <2> QED BY <2>1, <2>2 DEF JoinInv
<1>7. CountInv /\ SpareInv
  <2>1. IOThreads = {} /\ UsedThreads = {}
    BY <1>2, <1>3 DEF IOThreads, UsedThreads, CoreTypes
  <2>2. inUse = 0 /\ inUseIO = 0
    BY DEF Init
  <2>3. Cardinality(threads) = conf.size
    BY <1>1
  <2> QED BY <1>2, <2>1, <2>2, <2>3, ConfFacts, FS_EmptySet, <1>3 DEF CountInv, SpareInv, Selecting
<1>8. NoLostWakeup
  BY <1>3 DEF NoLostWakeup
<1> QED BY <1>2, <1>4, <1>5, <1>6, <1>7, <1>8 DEF CoreInv, PoolInv

(* The invariant holds in every run. *)
THEOREM CoreInvariant == Spec => []CoreInv
<1>1. Init => CoreInv
  BY CoreInit
<1>2. CoreInv /\ [Next]_vars => CoreInv'
  BY CoreNext
<1> QED BY <1>1, <1>2, PTL DEF Spec

-----------------------------------------------------------------------------
(* There is one leader or a pending promotion, in every run of every pool: *)
(* what promoteFollower() asserts, and what keeps the pool selecting.      *)
THEOREM OneLeaderAlways == Spec => []OneLeader
<1>1. CoreInv => OneLeader
  <2> SUFFICES ASSUME CoreInv
               PROVE  Cardinality({t \in threads : leader[t]}) = IF promote THEN 0 ELSE 1
    BY DEF OneLeader
  <2>1. CASE promote
    <3>1. {t \in threads : leader[t]} = {}
      BY <2>1 DEF CoreInv, CoreTypes, PoolInv, LeaderInv
    <3> QED BY <2>1, <3>1, FS_EmptySet
  <2>2. CASE ~promote
    <3>1. PICK t \in Threads : leader[t]
      BY <2>2 DEF CoreInv, PoolInv, LeaderInv
    <3>2. {u \in threads : leader[u]} = {t}
      <4>1. t \in threads /\ \A u \in threads : leader[u] => u = t
        BY <3>1 DEF CoreInv, CoreTypes, PoolInv, LeaderInv
      <4> QED BY <3>1, <4>1
    <3> QED BY <2>2, <3>2, FS_Singleton
  <2> QED BY <2>1, <2>2
<1> QED BY <1>1, CoreInvariant, PTL

(* _inUseIO and _inUse are the numbers of the threads that do IO and that  *)
(* are in the application, and stay within SizeIO and SizeMax, through     *)
(* ioCompleted(), run(), growth, shrinking and the exception.              *)
THEOREM CountsExact == Spec => []InUseAccounted
<1>1. CoreInv => InUseAccounted
  <2> SUFFICES ASSUME CoreInv, Multi
               PROVE  /\ inUseIO = Cardinality(IOThreads)
                      /\ inUse = Cardinality(UsedThreads)
                      /\ inUseIO <= conf.sizeIO
                      /\ inUse <= Cardinality(threads) /\ Cardinality(threads) <= conf.sizeMax
    BY DEF InUseAccounted, Multi, IOThreads, UsedThreads
  <2> QED BY CountFacts DEF CoreInv, PoolInv, CountInv
<1> QED BY <1>1, CoreInvariant, PTL

(* No wake-up is lost: a follower that may lead does not sleep unless      *)
(* another thread is about to lead, although notify() is called only where *)
(* the code expects a change.                                              *)
THEOREM NoWakeupLost == Spec => []NoLostWakeup
<1>1. CoreInv => NoLostWakeup
  BY DEF CoreInv, PoolInv
<1> QED BY <1>1, CoreInvariant, PTL

(* destroy() freezes _threads: no later ioCompleted() adds a thread and no *)
(* time-out removes one, so joinWithAllThreads() may read it unlocked.     *)
THEOREM NoThreadAfterDestroy == Spec => ThreadsImmutable
<1>1. [Next]_vars => [destroyed => threads' = threads]_vars
  <2> SUFFICES ASSUME Next, destroyed PROVE threads' = threads
    BY DEF vars, poolVars
  <2>1. ASSUME NEW t \in Threads, NEW next, IoCompleted(t, next) PROVE threads' = threads
    BY <2>1 DEF IoCompleted, poolVars, Grows
  <2>2. ASSUME NEW t \in Threads, RunStep(t) PROVE threads' = threads
    <3>1. CASE Message(t)
      BY <2>1, <3>1 DEF Message, poolVars
    <3>2. CASE ExecuteBlocking(t)
      BY <2>1, <3>2 DEF ExecuteBlocking
    <3>3. CASE Follow(t) \/ FinishSelect(t) \/ MessageDone(t) \/ Die(t)
      BY <3>3 DEF Follow, FinishSelect, MessageDone, Die
    <3>4. CASE Exit(t) \/ Select(t) \/ SelectTimeout(t) \/ TakeItem(t) \/ ExecuteFinished(t)
               \/ ExecuteJoin(t) \/ UserReturn(t)
      BY <3>4 DEF Exit, Select, SelectTimeout, TakeItem, ExecuteFinished, ExecuteJoin,
                  UserReturn, poolVars
    <3> QED BY <2>2, <3>1, <3>2, <3>3, <3>4 DEF RunStep
  <2>3. ASSUME NEW t \in Threads, Shrink(t) \/ TimedOutWanted(t) \/ SelectTimesOut(t)
        PROVE  threads' = threads
    BY <2>3 DEF Shrink, TimedOutWanted, SelectTimesOut, poolVars
  <2>4. CASE Dispatch \/ Destroy \/ \E h \in Handlers : Update(h) \/ Finish(h) \/ Arrive(h)
    BY <2>4 DEF Dispatch, Destroy, Update, Finish, Arrive, poolVars
  <2> QED BY <2>2, <2>3, <2>4 DEF Next
<1> QED BY <1>1, PTL DEF Spec, ThreadsImmutable

=============================================================================
