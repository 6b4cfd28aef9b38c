---------------------- MODULE ThreadPoolHandlerProofs ----------------------
(***************************************************************************)
(* Theorems about the handlers and the work items of ThreadPool.           *)
(*                                                                         *)
(* HandlerInv is the inductive invariant, beside CoreInv.  It says of each *)
(* handler that select() reported, that waits in the list or that a thread *)
(* reads, that there is something to read and that it is not finished; and *)
(* why a finished() in the queue is not run while its handler waits in the *)
(* list behind the queue itself.                                           *)
(***************************************************************************)
EXTENDS ThreadPoolProofs

(* The rest of the types. *)
DataTypes ==
    /\ selectNow \in BOOLEAN /\ interrupted \in BOOLEAN
    /\ hstate \in [Handlers -> {"open", "closing", "finished"}]
    /\ data \in [Handlers -> 0..MaxData]
    /\ arrived \in [Handlers -> 0..MaxData]
    /\ dispatched \in 0..MaxDispatch
    /\ \A h \in Handlers : data[h] <= arrived[h]

InIO(h) == \E t \in Threads : pc[t] = "io" /\ cur[t] = h

WorkLeft == workItems # <<>> \/ destroyed

(* The next item to be taken is not the end of handler h. *)
NotFirst(h) == workItems # <<>> => Head(workItems) # FinishedItem(h)

(* Handler h may be served: the call that finishes it is not under way and *)
(* is not about to be.                                                     *)
Servable(h) ==
    /\ data[h] > 0
    /\ hstate[h] # "finished"
    /\ \A t \in Threads : pc[t] \in {"exec", "user"} => item[t] # FinishedItem(h)
    /\ InIO(WorkQueue) => NotFirst(h)

(* A list of handlers that may be served while the threads of S do IO. *)
ListOK(list, S) ==
    /\ \A i, j \in 1..Len(list) : list[i] = list[j] => i = j
    /\ \A u \in S, i \in 1..Len(list) : list[i] # cur[u]
    /\ \A h \in Handlers, i \in 1..Len(list) : list[i] = h => Servable(h)
    /\ \A i \in 1..Len(list) : list[i] = WorkQueue => WorkLeft
    /\ \A h \in Handlers, i, j \in 1..Len(list) :
         i < j /\ list[i] = WorkQueue /\ list[j] = h => NotFirst(h)

(* No two threads do IO on one handler, none while the leader selects, and *)
(* there is something to read.                                             *)
IOInv ==
    /\ \A t, u \in IOThreads : cur[t] = cur[u] => t = u
    /\ Selecting => IOThreads = {} /\ handlers = <<>>
    /\ \A t \in Threads : pc[t] = "io" /\ cur[t] \in Handlers => data[cur[t]] > 0
    /\ \A t \in Threads : pc[t] = "io" /\ cur[t] = WorkQueue => WorkLeft

ReadyInv ==
    /\ \A h \in ready \cap Handlers : data[h] > 0
    /\ WorkQueue \in ready => WorkLeft

EventsInv ==
    /\ \A h \in events : Servable(h)
    /\ events # {} => \E t \in Threads : pc[t] = "selected"

(* A connection is finished after it was unregistered, by one work item. *)
FinishInv ==
    \A h \in Handlers :
        /\ hstate[h] # "open" => h \notin registered
        /\ \A t \in Threads : item[t] = FinishedItem(h) => pc[t] \in {"exec", "user", "done"}
        /\ hstate[h] = "open" =>
             /\ \A i \in 1..Len(workItems) : workItems[i] # FinishedItem(h)
             /\ \A t \in Threads : item[t] # FinishedItem(h)

(* A thread ends in a destroyed pool only. *)
DestroyInv ==
    /\ destroyed => \A h \in Handlers : hstate[h] = "finished"
    /\ \A t \in Threads :
         /\ item[t] = DestroyedItem => destroyed
         /\ pc[t] = "dying" \/ (pc[t] = "exited" /\ t \in threads) => destroyed

(* In a pool that serializes, a connection in the application is disabled. *)
ExclusiveInv ==
    conf.serialize =>
        /\ Multi => \A t \in threads :
               cur[t] \in Handlers /\ ioCompleted[t] => cur[t] \in disabled \/ destroyed
        /\ \A t, u \in threads :
               cur[t] = cur[u] /\ cur[t] \in Handlers => t = u

HandlerInv ==
    /\ DataTypes /\ ListOK(handlers, IOThreads) /\ IOInv /\ ReadyInv /\ EventsInv
    /\ FinishInv /\ DestroyInv /\ ExclusiveInv

Inv == CoreInv /\ HandlerInv

-----------------------------------------------------------------------------
(* Facts about the work items and the lists.                               *)

(* A thread does IO only with a handler that it reads. *)
LEMMA InIOThreads ==
    ASSUME CoreInv, NEW t \in Threads, pc[t] \in {"io", "exec"}
    PROVE  t \in IOThreads /\ t \in threads
BY DEF CoreInv, PoolInv, ThreadInv, IOThreads

(* The end of a connection is not in the queue of an open one. *)
LEMMA OpenNotFirst ==
    ASSUME CoreTypes, FinishInv, NEW h \in Handlers, hstate[h] = "open"
    PROVE  NotFirst(h)
<1> SUFFICES ASSUME workItems # <<>> PROVE Head(workItems) # FinishedItem(h)
  BY DEF NotFirst
<1>1. Head(workItems) = workItems[1] /\ 1 \in 1..Len(workItems)
  BY LenProperties DEF CoreTypes
<1> QED BY <1>1 DEF FinishInv

(* What a round takes from the other variables. *)
RoundUses(t, list) ==
    /\ UNCHANGED <<registered, ready, workItems, destroyed, hstate, data, arrived, dispatched>>
    /\ \/ list = handlers /\ pc[t] # "selected" /\ events' = events
       \/ /\ pc[t] = "selected" /\ events' = {}
          /\ list \in HandlerLists(events, ReadyHandlers(ready, registered, disabled))
    /\ disabled' \subseteq disabled
    /\ \A h \in disabled : h # cur[t] => h \in disabled'
    /\ pc[t] = "done" => item'[t] = NoItem
    /\ interrupted' \in BOOLEAN /\ selectNow' \in BOOLEAN

(* The end of a round keeps the types of the selector's flags. *)
LEMMA NextHandlerFlags ==
    ASSUME DataTypes, NEW t, NEW io, NEW list,
           GetNextHandler(t, io, list) \/ FollowerWait(t, io)
    PROVE  interrupted' \in BOOLEAN /\ selectNow' \in BOOLEAN
<1>1. interrupted \in BOOLEAN /\ selectNow \in BOOLEAN
  BY DEF DataTypes
<1>2. ASSUME NEW l, GetNextHandler(t, io, l)
      PROVE  interrupted' \in BOOLEAN /\ selectNow' \in BOOLEAN
  BY <1>1, <1>2 DEF GetNextHandler
<1>3. CASE FollowerWait(t, io)
  <2>1. CASE GetNextHandler(t, io, handlers)
    BY <1>2, <2>1
  <2>2. CASE UNCHANGED selectNow /\ (UNCHANGED interrupted \/ CheckReady(cur[t], ready, registered, disabled'))
    BY <1>1, <2>2 DEF CheckReady
  <2> QED BY <1>3, <2>1, <2>2 DEF FollowerWait
<1> QED BY <1>2, <1>3

(* The steps that end a round do that. *)
LEMMA RoundsUse ==
    ASSUME Inv, NEW t \in Threads,
           Follow(t) \/ TimedOutWanted(t) \/ FinishSelect(t) \/ MessageDone(t)
    PROVE  \E io, list : Round(t, io, list) /\ RoundUses(t, list)
<1>0. CoreInv /\ DataTypes
  BY DEF Inv, HandlerInv
<1>1. CASE Follow(t) \/ TimedOutWanted(t)
  <2>1. Round(t, inUseIO, handlers)
    BY <1>0, <1>1, FollowRound
  <2>2. interrupted' \in BOOLEAN /\ selectNow' \in BOOLEAN
    BY <1>0, <1>1, NextHandlerFlags DEF Follow, TimedOutWanted
  <2>3. RoundUses(t, handlers)
    BY <1>1, <2>2 DEF Follow, TimedOutWanted, RoundUses, handlerVars
  <2> QED BY <2>1, <2>3
<1>2. CASE FinishSelect(t)
  <2>1. PICK list \in HandlerLists(events, ReadyHandlers(ready, registered, disabled)) :
          Round(t, inUseIO, list)
    BY <1>0, <1>2, SelectRound
  <2>2. interrupted' \in BOOLEAN /\ selectNow' \in BOOLEAN
    BY <1>0, <1>2, NextHandlerFlags DEF FinishSelect
  <2>3. RoundUses(t, list)
    BY <1>2, <2>1, <2>2 DEF FinishSelect, RoundUses, handlerVars
  <2> QED BY <2>1, <2>3
<1>3. CASE MessageDone(t)
  <2>1. Round(t, IOAfterMessage(t), handlers)
    BY <1>0, <1>3, MessageDoneRound
  <2>2. interrupted' \in BOOLEAN /\ selectNow' \in BOOLEAN
    BY <1>0, <1>3, NextHandlerFlags DEF MessageDone
  <2>3. disabled' = disabled \/ disabled' = disabled \ {cur[t]}
    BY <1>3 DEF MessageDone, DisabledAfterMessage
  <2>4. item'[t] = NoItem
    BY <1>0, <1>3 DEF MessageDone, CoreInv, CoreTypes
  <2>5. RoundUses(t, handlers)
    BY <1>3, <2>2, <2>3, <2>4 DEF MessageDone, RoundUses, handlerVars
  <2> QED BY <2>1, <2>5
<1> QED BY <1>1, <1>2, <1>3

(* The list of a round may be served: what select() reported is not stale  *)
(* when finishSelect() makes the list.                                     *)
LEMMA RoundListOK ==
    ASSUME Inv, NEW t \in Threads, NEW list, RoundUses(t, list)
    PROVE  ListOK(list, IOThreads \ {t})
<1>0. CoreTypes /\ FinishInv
  BY DEF Inv, CoreInv, HandlerInv
<1>1. CASE list = handlers
  BY <1>1 DEF Inv, HandlerInv, ListOK
<1>2. CASE /\ pc[t] = "selected"
           /\ list \in HandlerLists(events, ReadyHandlers(ready, registered, disabled))
  <2> DEFINE R == ReadyHandlers(ready, registered, disabled)
  <2>1. events \in SUBSET Handlers /\ R \in SUBSET EventHandlers /\ R \subseteq ready /\ R \subseteq registered
    BY <1>0 DEF CoreTypes, ReadyHandlers
  <2> HIDE DEF R
  <2>2. /\ list \in Seq(EventHandlers) /\ Len(list) \in Nat
        /\ \A i \in 1..Len(list) : list[i] \in events \cup R
        /\ \A i, j \in 1..Len(list) : list[i] = list[j] => i = j
        /\ \A i, j \in 1..Len(list) : i < j /\ list[i] \in R => list[j] \in R
    BY <1>2, <2>1, ListFacts DEF R
  <2>3. IOThreads = {}
    BY <1>2 DEF Inv, HandlerInv, IOInv, Selecting
  <2>4. \A h : ~InIO(h)
    BY <2>3, InIOThreads DEF Inv, InIO
  <2>5. \A h \in R \cap Handlers : hstate[h] = "open" /\ data[h] > 0
    BY <2>1 DEF Inv, HandlerInv, FinishInv, ReadyInv
  <2>6. \A h \in R \cap Handlers : Servable(h) /\ NotFirst(h)
    <3> SUFFICES ASSUME NEW h \in R \cap Handlers PROVE Servable(h) /\ NotFirst(h)
      OBVIOUS
    <3>1. hstate[h] = "open" /\ data[h] > 0
      BY <2>5
    <3>2. \A u \in Threads : item[u] # FinishedItem(h)
      BY <1>0, <3>1 DEF FinishInv
    <3>3. NotFirst(h)
      BY <1>0, <3>1, OpenNotFirst
    <3> QED BY <3>1, <3>2, <3>3 DEF Servable
  <2>7. \A h \in events : Servable(h)
    BY DEF Inv, HandlerInv, EventsInv
  <2>8. \A h \in Handlers, i \in 1..Len(list) : list[i] = h => Servable(h)
    BY <2>2, <2>6, <2>7
  <2>9. WorkQueue \notin Handlers
    BY HandlersAssumption
  <2>10. \A i \in 1..Len(list) : list[i] = WorkQueue => list[i] \in R
    BY <2>1, <2>2, <2>9
  <2>11. \A i \in 1..Len(list) : list[i] = WorkQueue => WorkLeft
    BY <2>1, <2>10 DEF Inv, HandlerInv, ReadyInv
  <2>12. \A h \in Handlers, i, j \in 1..Len(list) :
           i < j /\ list[i] = WorkQueue /\ list[j] = h => NotFirst(h)
    BY <2>2, <2>6, <2>10
  <2> QED BY <2>2, <2>3, <2>8, <2>11, <2>12 DEF ListOK
<1> QED BY <1>1, <1>2 DEF RoundUses

(* A pool of one thread has one. *)
LEMMA SingleThread ==
    ASSUME CoreInv, ~Multi, NEW t \in threads, NEW u \in threads
    PROVE  t = u
<1> SUFFICES ASSUME t # u PROVE FALSE
  OBVIOUS
<1>1. Cardinality({t}) = 1 /\ IsFiniteSet({t})
  BY FS_Singleton
<1>2. {t} \cup {u} \subseteq threads /\ Cardinality({t} \cup {u}) = 2
  BY <1>1, FS_AddElement
<1>3. /\ IsFiniteSet(threads) /\ Cardinality(threads) \in Nat
      /\ conf.sizeMax \in Nat /\ ~(conf.sizeMax > 1) /\ Cardinality(threads) <= conf.sizeMax
  BY CountFacts, ConfFacts DEF CoreInv, PoolInv, CountInv, Multi
<1>4. 2 <= Cardinality(threads)
  BY <1>2, <1>3, FS_Subset
<1> QED BY <1>3, <1>4

(* The handlers in a round. *)
LEMMA RoundHandlers ==
    ASSUME Inv, NEW t \in Threads, NEW io, NEW list, Round(t, io, list), RoundUses(t, list)
    PROVE  HandlerInv'
<1> DEFINE takes == TakesHandler(t, io, list)
           leads == /\ leader[t] \/ promote
                    /\ takes \/ GivesUpLead(t, io) \/ StartsSelect(t, io)
<1>0. CoreInv /\ CoreTypes /\ HandlerInv
  BY DEF Inv, CoreInv
<1>1. /\ t \in threads /\ threads' = threads /\ conf' = conf /\ destroyed' = destroyed
      /\ workItems' = workItems /\ list \in Seq(EventHandlers)
      /\ (leads \/ (~leader[t] /\ Waits(t, io)))
      /\ \A u \in Threads \ {t} :
           /\ cur'[u] = cur[u] /\ ioCompleted'[u] = ioCompleted[u]
           /\ pc'[u] = pc[u] \/ (pc[u] = "wait" /\ pc'[u] = "idle")
      /\ \A u \in Threads : item'[u] = item[u] \/ item'[u] = NoItem
  BY DEF Round, OthersKept
<1>2. /\ pc'[t] \in {"io", "idle", "select", "wait"}
      /\ pc'[t] = "io" => cur'[t] # NoHandler /\ ~ioCompleted'[t] /\ takes
      /\ pc'[t] # "io" => cur'[t] = NoHandler
      /\ IOThreads' = IF pc'[t] = "io" THEN (IOThreads \ {t}) \cup {t} ELSE IOThreads \ {t}
      /\ \A u \in Threads \ {t} :
           leader[t] \/ promote =>
               ~leader[u] /\ ~leader'[u] /\ pc[u] \notin Selectors /\ pc'[u] \notin Selectors
  BY <1>0, RoundSets
<1>3. ListOK(list, IOThreads \ {t})
  BY RoundListOK
<1>4. UNCHANGED <<registered, ready, workItems, destroyed, hstate, data, arrived, dispatched>>
  BY DEF RoundUses
<1>5. WorkLeft' = WorkLeft /\ \A h : NotFirst(h)' = NotFirst(h)
  BY <1>4 DEF WorkLeft, NotFirst
<1>6. NoItem \notin {FinishedItem(h) : h \in Handlers} /\ NoItem # DestroyedItem
  BY DEF NoItem, FinishedItem, DestroyedItem
<1>7. NoHandler \notin Handlers /\ WorkQueue \notin Handlers /\ NoHandler # WorkQueue
  BY HandlersAssumption DEF NoHandler, WorkQueue
<1>t. ASSUME pc'[t] = "io"
      PROVE  \E i \in 1..Len(list) :
               /\ cur'[t] = list[i] /\ list[i] \in registered \ disabled'
               /\ handlers' = SubSeq(list, i + 1, Len(list))
  BY <1>2, <1>t DEF TakesHandler
<1>r. pc'[t] # "io" => handlers' = <<>> \/ handlers' = handlers
  BY <1>1 DEF TakesHandler, GivesUpLead, StartsSelect, Waits
<1>8. ASSUME NEW h \in Handlers, Servable(h), pc'[t] = "io" /\ cur'[t] = WorkQueue => NotFirst(h)
      PROVE  Servable(h)'
  <2>1. data'[h] > 0 /\ hstate'[h] # "finished"
    BY <1>4, <1>8 DEF Servable
  <2>2. \A u \in Threads : pc'[u] \in {"exec", "user"} => item'[u] # FinishedItem(h)
    <3> SUFFICES ASSUME NEW u \in Threads, pc'[u] \in {"exec", "user"}
                 PROVE  item'[u] # FinishedItem(h)
      OBVIOUS
    <3>1. u # t
      BY <1>2
    <3>2. pc[u] \in {"exec", "user"}
      BY <1>1, <3>1
    <3> QED BY <1>1, <1>6, <1>8, <3>2 DEF Servable
  <2>3. InIO(WorkQueue)' => NotFirst(h)'
    <3> SUFFICES ASSUME NEW u \in Threads, pc'[u] = "io", cur'[u] = WorkQueue PROVE NotFirst(h)
      BY <1>5 DEF InIO
    <3>1. CASE u = t
      BY <1>8, <3>1
    <3>2. CASE u # t
      <4>1. InIO(WorkQueue)
        BY <1>1, <3>2 DEF InIO
      <4> QED BY <1>8, <4>1 DEF Servable
    <3> QED BY <3>1, <3>2
  <2> QED BY <2>1, <2>2, <2>3 DEF Servable
<1>9. ListOK(handlers, IOThreads)'
  <2>1. CASE pc'[t] = "io"
    <3>1. PICK i \in 1..Len(list) : /\ cur'[t] = list[i]
                                    /\ handlers' = SubSeq(list, i + 1, Len(list))
      BY <1>t, <2>1
    <3>2. /\ Len(handlers') = Len(list) - i /\ Len(list) \in Nat /\ i \in Nat
          /\ \A j \in 1..Len(list) - i : handlers'[j] = list[i + j] /\ i + j \in 1..Len(list)
      BY <1>1, <3>1, RestOfList
    <3>3. \A j \in 1..Len(handlers') : handlers'[j] = list[i + j] /\ i + j \in 1..Len(list) /\ i < i + j
      BY <3>2
    <3>4. \A j, k \in 1..Len(handlers') : handlers'[j] = handlers'[k] => j = k
      <4> SUFFICES ASSUME NEW j \in 1..Len(handlers'), NEW k \in 1..Len(handlers'),
                          handlers'[j] = handlers'[k]
                   PROVE  j = k
        OBVIOUS
      <4>1. i + j = i + k
        BY <1>3, <3>3 DEF ListOK
      <4> QED BY <3>2, <4>1
    <3>5. \A u \in IOThreads', j \in 1..Len(handlers') : handlers'[j] # cur'[u]
      <4> SUFFICES ASSUME NEW u \in IOThreads', NEW j \in 1..Len(handlers')
                   PROVE  handlers'[j] # cur'[u]
        OBVIOUS
      <4>1. CASE u = t
        <5>1. i # i + j
          BY <3>2
        <5> QED BY <1>3, <3>1, <3>3, <4>1, <5>1 DEF ListOK
      <4>2. CASE u # t
        <5>1. u \in IOThreads \ {t} /\ u \in Threads
          BY <1>0, <1>2, <4>2 DEF IOThreads, CoreTypes
        <5> QED BY <1>1, <1>3, <3>3, <5>1 DEF ListOK
      <4> QED BY <4>1, <4>2
    <3>6. \A h \in Handlers, j \in 1..Len(handlers') : handlers'[j] = h => Servable(h)'
      <4> SUFFICES ASSUME NEW h \in Handlers, NEW j \in 1..Len(handlers'), handlers'[j] = h
                   PROVE  Servable(h)'
        OBVIOUS
      <4>1. Servable(h)
        BY <1>3, <3>3 DEF ListOK
      <4>2. cur'[t] = WorkQueue => NotFirst(h)
        <5>1. \A k, l \in 1..Len(list) :
                k < l /\ list[k] = WorkQueue /\ list[l] = h => NotFirst(h)
          BY <1>3 DEF ListOK
        <5>2. i + j \in 1..Len(list) /\ i < i + j /\ list[i + j] = h
          BY <3>3
        <5> QED BY <3>1, <5>1, <5>2
      <4> QED BY <1>8, <4>1, <4>2
    <3>7. \A j \in 1..Len(handlers') : handlers'[j] = WorkQueue => WorkLeft'
      BY <1>3, <1>5, <3>3 DEF ListOK
    <3>8. \A h \in Handlers, j, k \in 1..Len(handlers') :
            j < k /\ handlers'[j] = WorkQueue /\ handlers'[k] = h => NotFirst(h)'
      <4> SUFFICES ASSUME NEW h \in Handlers, NEW j \in 1..Len(handlers'),
                          NEW k \in 1..Len(handlers'), j < k,
                          handlers'[j] = WorkQueue, handlers'[k] = h
                   PROVE  NotFirst(h)'
        OBVIOUS
      <4>1. i + j < i + k
        BY <3>2
      <4>2. NotFirst(h)
        BY <1>3, <3>3, <4>1 DEF ListOK
      <4> QED BY <1>5, <4>2
    <3> QED BY <3>4, <3>5, <3>6, <3>7, <3>8 DEF ListOK
  <2>2. CASE handlers' = <<>>
    <3>1. 1..Len(handlers') = {}
      BY <2>2
    <3> QED BY <3>1 DEF ListOK
  <2>3. CASE pc'[t] # "io" /\ handlers' = handlers
    <3>1. ListOK(handlers, IOThreads)
      BY <1>0 DEF HandlerInv
    <3>2. \A u \in IOThreads' : u \in IOThreads /\ cur'[u] = cur[u]
      BY <1>0, <1>1, <1>2, <2>3 DEF IOThreads, CoreTypes
    <3>3. \A h \in Handlers, i \in 1..Len(handlers') : handlers'[i] = h => Servable(h)'
      BY <1>8, <2>3, <3>1 DEF ListOK
    <3>4. /\ \A i \in 1..Len(handlers') : handlers'[i] = WorkQueue => WorkLeft'
          /\ \A i, j \in 1..Len(handlers') : handlers'[i] = handlers'[j] => i = j
          /\ \A u \in IOThreads', i \in 1..Len(handlers') : handlers'[i] # cur'[u]
      BY <1>5, <2>3, <3>1, <3>2 DEF ListOK
    <3>5. \A h \in Handlers, i, j \in 1..Len(handlers') :
            i < j /\ handlers'[i] = WorkQueue /\ handlers'[j] = h => NotFirst(h)'
      BY <1>5, <2>3, <3>1 DEF ListOK
    <3> QED BY <3>3, <3>4, <3>5 DEF ListOK
  <2> QED BY <1>r, <2>1, <2>2, <2>3
<1>10. IOInv'
  <2>1. \A u, v \in IOThreads' : cur'[u] = cur'[v] => u = v
    <3>1. \A u, v \in IOThreads \ {t} : cur'[u] = cur'[v] => u = v
      BY <1>0, <1>1 DEF HandlerInv, IOInv, IOThreads, CoreTypes
    <3>2. \A u \in IOThreads \ {t} : pc'[t] = "io" => cur'[t] # cur'[u]
      BY <1>0, <1>1, <1>3, <1>t DEF ListOK, IOThreads, CoreTypes
    <3> QED BY <1>2, <3>1, <3>2
  <2>2. Selecting' => IOThreads' = {} /\ handlers' = <<>>
    <3> SUFFICES ASSUME Selecting' PROVE IOThreads' = {} /\ handlers' = <<>>
      OBVIOUS
    <3>1. CASE leads
      <4>1. pc'[t] \in Selectors
        BY <1>2, <3>1 DEF Selecting, Selectors
      <4>2. StartsSelect(t, io)
        BY <3>1, <4>1 DEF TakesHandler, GivesUpLead, Selectors
      <4>3. io = 0 /\ handlers' = <<>> /\ IOThreads' = IOThreads \ {t}
        BY <1>2, <4>2 DEF StartsSelect
      <4>4. CASE Multi
        <5>1. Cardinality(IOThreads \ {t}) = 0 /\ IsFiniteSet(IOThreads \ {t})
          BY <1>0, <4>3, <4>4, CountFacts, LeaveOut DEF Round
        <5> QED BY <4>3, <5>1, FS_EmptySet
      <4>5. CASE ~Multi
        <5>1. IOThreads \ {t} = {}
          BY <1>0, <1>1, <4>5, SingleThread DEF IOThreads
        <5> QED BY <4>3, <5>1
      <4> QED BY <4>4, <4>5
    <3>2. CASE Waits(t, io)
      <4>1. handlers' = handlers /\ pc'[t] = "wait" /\ \A u \in Threads \ {t} : pc'[u] = pc[u]
        BY <3>2 DEF Waits
      <4>2. Selecting
        BY <4>1 DEF Selecting
      <4> QED BY <1>0, <1>2, <4>1, <4>2 DEF HandlerInv, IOInv
    <3> QED BY <1>1, <3>1, <3>2
  <2>3. \A u \in Threads : pc'[u] = "io" /\ cur'[u] \in Handlers => data'[cur'[u]] > 0
    <3> SUFFICES ASSUME NEW u \in Threads, pc'[u] = "io", cur'[u] \in Handlers
                 PROVE  data[cur'[u]] > 0
      BY <1>4
    <3>1. CASE u = t
      BY <1>3, <1>t, <3>1 DEF ListOK, Servable
    <3>2. CASE u # t
      BY <1>0, <1>1, <3>2 DEF HandlerInv, IOInv
    <3> QED BY <3>1, <3>2
  <2>4. \A u \in Threads : pc'[u] = "io" /\ cur'[u] = WorkQueue => WorkLeft'
    <3> SUFFICES ASSUME NEW u \in Threads, pc'[u] = "io", cur'[u] = WorkQueue
                 PROVE  WorkLeft
      BY <1>5
    <3>1. CASE u = t
      BY <1>3, <1>t, <3>1 DEF ListOK
    <3>2. CASE u # t
      BY <1>0, <1>1, <3>2 DEF HandlerInv, IOInv
    <3> QED BY <3>1, <3>2
  <2> QED BY <2>1, <2>2, <2>3, <2>4 DEF IOInv
<1>11. ReadyInv'
  BY <1>0, <1>4, <1>5 DEF HandlerInv, ReadyInv
<1>12. EventsInv'
  <2> SUFFICES ASSUME events' # {} PROVE EventsInv'
    BY DEF EventsInv
  <2>1. events' = events /\ pc[t] # "selected"
    BY DEF RoundUses
  <2>2. PICK u \in Threads : pc[u] = "selected"
    BY <1>0, <2>1 DEF HandlerInv, EventsInv
  <2>3. u # t /\ pc'[u] = "selected"
    BY <1>1, <2>1, <2>2
  <2>4. pc'[t] = "wait"
    BY <1>1, <1>2, <2>2, <2>3 DEF Waits, Selectors
  <2>5. \A h \in events : Servable(h) /\ h \in Handlers
    BY <1>0 DEF HandlerInv, EventsInv, CoreTypes
  <2>6. \A h \in events : Servable(h)'
    BY <1>8, <2>4, <2>5
  <2> QED BY <2>1, <2>3, <2>6 DEF EventsInv
<1>13. FinishInv'
  <2>1. \A h \in Handlers, u \in Threads :
          item'[u] = FinishedItem(h) => pc'[u] \in {"exec", "user", "done"}
    <3> SUFFICES ASSUME NEW h \in Handlers, NEW u \in Threads, item'[u] = FinishedItem(h)
                 PROVE  pc'[u] \in {"exec", "user", "done"}
      OBVIOUS
    <3>1. item[u] = FinishedItem(h) /\ pc[u] \in {"exec", "user", "done"}
      BY <1>0, <1>1, <1>6 DEF HandlerInv, FinishInv
    <3>2. u # t
      BY <1>6, <3>1 DEF Round, RoundUses
    <3> QED BY <1>1, <3>1, <3>2
  <2> QED BY <1>0, <1>1, <1>4, <1>6, <2>1 DEF HandlerInv, FinishInv
<1>14. DestroyInv'
  <2>1. \A u \in Threads : item'[u] = DestroyedItem => destroyed'
    BY <1>0, <1>1, <1>6 DEF HandlerInv, DestroyInv
  <2>2. \A u \in Threads : pc'[u] \in {"dying", "exited"} => pc[u] = pc'[u]
    BY <1>1, <1>2
  <2> QED BY <1>0, <1>1, <1>4, <2>1, <2>2 DEF HandlerInv, DestroyInv
<1>15. ExclusiveInv'
  <2> SUFFICES ASSUME conf.serialize
               PROVE  /\ Multi => \A u \in threads :
                           cur'[u] \in Handlers /\ ioCompleted'[u] => cur'[u] \in disabled' \/ destroyed
                      /\ \A u, v \in threads :
                           cur'[u] = cur'[v] /\ cur'[u] \in Handlers => u = v
    BY <1>1 DEF ExclusiveInv, Multi
  <2>0. threads \subseteq Threads
    BY <1>0 DEF CoreTypes
  <2>1. ASSUME Multi, NEW u \in threads, cur'[u] \in Handlers, ioCompleted'[u]
        PROVE  cur'[u] \in disabled' \/ destroyed
    <3>1. u # t
      BY <1>2, <1>7, <2>1
    <3>2. cur'[u] = cur[u] /\ ioCompleted[u]
      BY <1>1, <2>0, <2>1, <3>1
    <3>3. cur[u] \in disabled \/ destroyed
      BY <1>0, <2>1, <3>2 DEF HandlerInv, ExclusiveInv
    <3>4. cur[u] # cur[t]
      BY <1>0, <1>1, <2>1, <3>1, <3>2 DEF HandlerInv, ExclusiveInv
    <3> QED BY <3>2, <3>3, <3>4 DEF RoundUses
  <2>2. ASSUME NEW u \in threads \ {t}, cur'[u] = cur'[t], cur'[u] \in Handlers
        PROVE  FALSE
    <3>1. pc'[t] = "io"
      BY <1>2, <1>7, <2>2
    <3>2. PICK i \in 1..Len(list) : cur'[t] = list[i] /\ list[i] \in registered \ disabled'
      BY <1>t, <3>1
    <3>3. cur'[u] = cur[u] /\ ioCompleted'[u] = ioCompleted[u]
      BY <1>1, <2>0
    <3>4. CASE ~ioCompleted[u]
      <4>1. u \in IOThreads \ {t}
        BY <1>7, <2>2, <3>3, <3>4 DEF IOThreads
      <4> QED BY <1>3, <2>2, <3>2, <3>3, <4>1 DEF ListOK
    <3>5. CASE ioCompleted[u] /\ Multi
      <4>1. destroyed
        BY <2>1, <2>2, <3>2, <3>3, <3>5
      <4>2. hstate[cur'[u]] = "finished"
        BY <1>0, <2>2, <4>1 DEF HandlerInv, DestroyInv
      <4> QED BY <1>0, <2>2, <3>2, <4>2 DEF HandlerInv, FinishInv
    <3>6. CASE ~Multi
      BY <1>0, <1>1, <2>2, <3>6, SingleThread
    <3> QED BY <3>4, <3>5, <3>6
  <2>3. \A u, v \in threads \ {t} : cur'[u] = cur'[v] /\ cur'[u] \in Handlers => u = v
    BY <1>0, <1>1, <2>0 DEF HandlerInv, ExclusiveInv
  <2> QED BY <2>1, <2>2, <2>3
<1>16. DataTypes'
  BY <1>0, <1>4 DEF HandlerInv, DataTypes, RoundUses
<1> QED BY <1>9, <1>10, <1>11, <1>12, <1>13, <1>14, <1>15, <1>16 DEF HandlerInv
-----------------------------------------------------------------------------
(* Steps in which no thread gets a handler.                                *)

(* No thread does IO for h. *)
Untouched(h) == \A u \in IOThreads : cur[u] # h

(* What waits to be served can still be, once the step is done. *)
Spared ==
    /\ UNCHANGED <<conf, cur, handlers>>
    /\ IOThreads' \subseteq IOThreads
    /\ \A u \in Threads : /\ pc'[u] = "io" => pc[u] = "io"
                          /\ pc'[u] \in Selectors => pc[u] \in Selectors
    /\ \A h \in Handlers : Servable(h) /\ Untouched(h) => Servable(h)'
    /\ WorkLeft /\ Untouched(WorkQueue) =>
         WorkLeft' /\ \A h \in Handlers : NotFirst(h) => NotFirst(h)'
    /\ \A u \in Threads : pc'[u] = "io" =>
         /\ \A h \in Handlers : cur[u] = h => data'[h] > 0
         /\ cur[u] = WorkQueue => WorkLeft'

(* Such a step leaves the list and the threads that do IO in order. *)
LEMMA SparedKeeps ==
    ASSUME Inv, Spared
    PROVE  /\ ListOK(handlers, IOThreads)' /\ IOInv'
           /\ (/\ events' = events
               /\ \A u \in Threads : pc[u] = "selected" => pc'[u] = "selected") => EventsInv'
<1>0. /\ CoreInv /\ HandlerInv /\ ListOK(handlers, IOThreads) /\ IOInv /\ EventsInv
      /\ cur' = cur /\ handlers' = handlers /\ IOThreads' \subseteq IOThreads
  BY DEF Inv, HandlerInv, Spared
<1>1. \A i \in 1..Len(handlers) : Untouched(handlers[i])
  BY <1>0 DEF ListOK, Untouched
<1>2. ListOK(handlers, IOThreads)'
  <2>1. \A h \in Handlers, i \in 1..Len(handlers') : handlers'[i] = h => Servable(h)'
    BY <1>0, <1>1 DEF ListOK, Spared
  <2>2. \A i \in 1..Len(handlers') : handlers'[i] = WorkQueue => WorkLeft'
    BY <1>0, <1>1 DEF ListOK, Spared
  <2>3. \A h \in Handlers, i, j \in 1..Len(handlers') :
          i < j /\ handlers'[i] = WorkQueue /\ handlers'[j] = h => NotFirst(h)'
    BY <1>0, <1>1 DEF ListOK, Spared
  <2>4. /\ \A i, j \in 1..Len(handlers') : handlers'[i] = handlers'[j] => i = j
        /\ \A u \in IOThreads', i \in 1..Len(handlers') : handlers'[i] # cur'[u]
    BY <1>0 DEF ListOK
  <2> QED BY <2>1, <2>2, <2>3, <2>4 DEF ListOK
<1>3. Selecting' => Selecting
  BY DEF Spared, Selecting, Selectors
<1>4. IOInv'
  <2>1. \A t, u \in IOThreads' : cur'[t] = cur'[u] => t = u
    BY <1>0 DEF IOInv
  <2>2. Selecting' => IOThreads' = {} /\ handlers' = <<>>
    BY <1>0, <1>3 DEF IOInv
  <2>3. \A t \in Threads : pc'[t] = "io" /\ cur'[t] \in Handlers => data'[cur'[t]] > 0
    BY <1>0 DEF Spared
  <2>4. \A t \in Threads : pc'[t] = "io" /\ cur'[t] = WorkQueue => WorkLeft'
    BY <1>0 DEF Spared
  <2> QED BY <2>1, <2>2, <2>3, <2>4 DEF IOInv
<1>5. ASSUME events' = events, \A u \in Threads : pc[u] = "selected" => pc'[u] = "selected"
      PROVE  EventsInv'
  <2> SUFFICES ASSUME events # {} PROVE EventsInv'
    BY <1>5 DEF EventsInv
  <2>1. PICK u \in Threads : pc[u] = "selected"
    BY <1>0 DEF EventsInv
  <2>2. IOThreads = {}
    BY <1>0, <2>1 DEF IOInv, Selecting
  <2>3. \A h \in events : Servable(h)'
    BY <1>0, <2>2 DEF EventsInv, Spared, Untouched, CoreInv, CoreTypes
  <2> QED BY <1>5, <2>1, <2>3 DEF EventsInv
<1> QED BY <1>2, <1>4, <1>5

(* The steps that take no item from the queue: a handler is finished by    *)
(* the thread with its item, and its data is read by the thread with it.   *)
Calm ==
    /\ UNCHANGED <<conf, cur, handlers>>
    /\ IOThreads' \subseteq IOThreads
    /\ \A u \in Threads :
         /\ pc'[u] = "io" => pc[u] = "io"
         /\ pc'[u] \in Selectors => pc[u] \in Selectors
         /\ \A h \in Handlers : pc'[u] \in {"exec", "user"} /\ item'[u] = FinishedItem(h) =>
              pc[u] \in {"exec", "user"} /\ item[u] = FinishedItem(h)
    /\ \A h \in Handlers :
         /\ hstate'[h] = "finished" =>
              \/ hstate[h] = "finished"
              \/ \E u \in Threads : pc[u] \in {"exec", "user"} /\ item[u] = FinishedItem(h)
         /\ data[h] > 0 => \/ data'[h] > 0
                           \/ \E u \in IOThreads : cur[u] = h /\ pc'[u] # "io"
    /\ destroyed => destroyed'
    /\ \/ workItems' = workItems
       \/ ~destroyed /\ \E x \in QueuedItems : workItems' = Append(workItems, x)

(* They spare what waits. *)
LEMMA CalmSpares ==
    ASSUME Inv, Calm
    PROVE  Spared
<1>0. CoreInv /\ CoreTypes /\ HandlerInv /\ IOInv
  BY DEF Inv, CoreInv, HandlerInv
<1>1. /\ UNCHANGED <<conf, cur, handlers>> /\ IOThreads' \subseteq IOThreads
      /\ \A u \in Threads : /\ pc'[u] = "io" => pc[u] = "io"
                            /\ pc'[u] \in Selectors => pc[u] \in Selectors
  BY DEF Calm
<1>2. WorkLeft => WorkLeft' /\ \A h \in Handlers : NotFirst(h) => NotFirst(h)'
  <2>1. CASE workItems' = workItems
    BY <2>1 DEF Calm, WorkLeft, NotFirst
  <2>2. CASE ~destroyed /\ \E x \in QueuedItems : workItems' = Append(workItems, x)
    <3> SUFFICES ASSUME WorkLeft PROVE workItems' # <<>> /\ Head(workItems') = Head(workItems)
      BY <2>2 DEF WorkLeft, NotFirst
    <3>1. PICK x \in QueuedItems : workItems' = Append(workItems, x)
      BY <2>2
    <3>2. workItems \in Seq(QueuedItems) /\ workItems # <<>>
      BY <1>0, <2>2 DEF CoreTypes, WorkLeft
    <3> QED BY <3>1, <3>2
  <2> QED BY <2>1, <2>2 DEF Calm
<1>3. \A u \in Threads : pc'[u] = "io" =>
         /\ \A h \in Handlers : cur[u] = h => data'[h] > 0
         /\ cur[u] = WorkQueue => WorkLeft'
  <2> SUFFICES ASSUME NEW u \in Threads, pc'[u] = "io"
               PROVE  /\ \A h \in Handlers : cur[u] = h => data'[h] > 0
                      /\ cur[u] = WorkQueue => WorkLeft'
    OBVIOUS
  <2>1. pc[u] = "io" /\ u \in IOThreads
    BY <1>0, <1>1, InIOThreads
  <2>2. cur[u] = WorkQueue => WorkLeft'
    BY <1>0, <1>2, <2>1 DEF IOInv
  <2>3. ASSUME NEW h \in Handlers, cur[u] = h PROVE data'[h] > 0
    <3>1. data[h] > 0
      BY <1>0, <2>1, <2>3 DEF IOInv
    <3>2. \A v \in IOThreads : cur[v] = h => v = u
      BY <1>0, <2>1, <2>3 DEF IOInv
    <3> QED BY <3>1, <3>2 DEF Calm
  <2> QED BY <2>2, <2>3
<1>4. ASSUME NEW h \in Handlers, Servable(h), Untouched(h) PROVE Servable(h)'
  <2>1. data'[h] > 0
    BY <1>4 DEF Servable, Untouched, Calm
  <2>2. hstate'[h] # "finished"
    BY <1>4 DEF Servable, Calm
  <2>3. \A u \in Threads : pc'[u] \in {"exec", "user"} => item'[u] # FinishedItem(h)
    BY <1>4 DEF Servable, Calm
  <2>4. InIO(WorkQueue)' => NotFirst(h)'
    <3> SUFFICES ASSUME NEW u \in Threads, pc'[u] = "io", cur'[u] = WorkQueue PROVE NotFirst(h)'
      BY DEF InIO
    <3>1. pc[u] = "io" /\ cur[u] = WorkQueue
      BY <1>1
    <3>2. WorkLeft /\ NotFirst(h)
      BY <1>0, <1>4, <3>1 DEF IOInv, Servable, InIO
    <3> QED BY <1>2, <3>2
  <2> QED BY <2>1, <2>2, <2>3, <2>4 DEF Servable
<1> QED BY <1>1, <1>2, <1>3, <1>4 DEF Spared
(* The turns that a thread takes without a new handler or item. *)
Turns == (Moves \ {<<"io", "exec">>})
         \cup {<<"io", "user">>, <<"exec", "user">>, <<"exec", "dying">>,
               <<"dying", "exited">>, <<"wait", "exiting">>}

Turn(t) ==
    /\ <<pc[t], pc'[t]>> \in Turns
    /\ pc'[t] = "dying" => item[t] = DestroyedItem
    /\ UNCHANGED <<conf, cur, item, handlers, registered, destroyed>>
    /\ \A u \in Threads \ {t} :
         \/ pc'[u] = pc[u]
         \/ pc[u] \in {"wait", "none"} /\ pc'[u] = "idle"
         \/ pc[u] = "exited" /\ pc'[u] = "none"
    /\ \A u \in threads' : u \in threads \/ (cur[u] = NoHandler /\ pc'[u] = "idle")
    /\ disabled \subseteq disabled'
    /\ \A u \in Threads :
         \/ ioCompleted'[u] = ioCompleted[u]
         \/ /\ u = t /\ ioCompleted'[u]
            /\ conf.serialize /\ Multi => cur[u] \in disabled' \cup {WorkQueue} \/ destroyed
    /\ \/ hstate' = hstate
       \/ \E h \in Handlers : /\ item[t] = FinishedItem(h) /\ pc[t] \in {"exec", "user"}
                              /\ hstate' = [hstate EXCEPT ![h] = "finished"]
    /\ \/ workItems' = workItems
       \/ ~destroyed /\ \E x \in QueuedItems :
                          x.kind # "finished" /\ workItems' = Append(workItems, x)
    /\ \A h \in Handlers :
         /\ data[h] > 0 => data'[h] > 0 \/ (pc[t] = "io" /\ cur[t] = h)
         /\ h \in ready' => data'[h] > 0
    /\ WorkQueue \in ready' => WorkQueue \in ready \/ WorkLeft'

(* Appending to the queue. *)
LEMMA AppendFacts ==
    ASSUME CoreTypes, NEW x \in QueuedItems, workItems' = Append(workItems, x)
    PROVE  /\ workItems' # <<>>
           /\ \A i \in 1..Len(workItems') :
                \/ i \in 1..Len(workItems) /\ workItems'[i] = workItems[i]
                \/ workItems'[i] = x
<1>1. workItems \in Seq(QueuedItems) /\ Len(workItems) \in Nat
  BY LenProperties DEF CoreTypes
<1>2. /\ Len(workItems') = Len(workItems) + 1
      /\ \A i \in 1..Len(workItems) : workItems'[i] = workItems[i]
      /\ workItems'[Len(workItems) + 1] = x
  BY <1>1, AppendProperties
<1>3. workItems' # <<>>
  BY <1>1, <1>2
<1> QED BY <1>1, <1>2, <1>3

(* Those turns leave the handlers in order. *)
LEMMA TurnKeeps ==
    ASSUME Inv, NEW t \in Threads, Turn(t)
    PROVE  /\ ListOK(handlers, IOThreads)' /\ IOInv' /\ ReadyInv'
           /\ FinishInv' /\ DestroyInv' /\ ExclusiveInv'
           /\ events' = events => EventsInv'
<1>0. /\ CoreInv /\ CoreTypes /\ HandlerInv /\ FinishInv /\ DestroyInv /\ ExclusiveInv
      /\ DataTypes /\ ReadyInv
  BY DEF Inv, CoreInv, HandlerInv
<1>1. /\ conf' = conf /\ cur' = cur /\ item' = item /\ handlers' = handlers
      /\ registered' = registered /\ destroyed' = destroyed
  BY DEF Turn
<1>2. /\ pc[t] \in {"exiting", "select", "timedOut", "io", "exec", "user", "dying", "wait"}
      /\ pc'[t] \in {"exited", "selected", "timedOut", "select", "done", "user", "dying", "exiting"}
      /\ pc'[t] \in Selectors => pc[t] \in Selectors
      /\ pc[t] = "io" \/ pc[t] \in {"exec", "user"} => pc'[t] \in {"done", "user", "dying"}
      /\ pc'[t] = "user" => pc[t] \in {"io", "exec"}
      /\ pc'[t] = "dying" => pc[t] = "exec"
      /\ pc'[t] = "exited" => pc[t] \in {"exiting", "dying"}
  BY DEF Turn, Turns, Moves, Selectors
<1>3. \A u \in Threads \ {t} :
         \/ pc'[u] = pc[u]
         \/ pc[u] \in {"wait", "none"} /\ pc'[u] = "idle"
         \/ pc[u] = "exited" /\ pc'[u] = "none"
  BY DEF Turn
<1>4. \A h \in Handlers : FinishedItem(h) # DestroyedItem /\ FinishedItem(h).kind = "finished"
  BY DEF FinishedItem, DestroyedItem
<1>5. IOThreads' \subseteq IOThreads
  BY <1>0, <1>1 DEF IOThreads, Turn, CoreTypes
<1>6. \A h \in Handlers, i \in 1..Len(workItems') : workItems'[i] = FinishedItem(h) =>
          i \in 1..Len(workItems) /\ workItems[i] = FinishedItem(h)
  <2>1. CASE workItems' = workItems
    BY <2>1
  <2>2. CASE \E x \in QueuedItems : x.kind # "finished" /\ workItems' = Append(workItems, x)
    BY <1>0, <1>4, <2>2, AppendFacts
  <2> QED BY <2>1, <2>2 DEF Turn
<1>7. \A h \in Handlers : \/ hstate'[h] = hstate[h]
                          \/ /\ hstate'[h] = "finished" /\ item[t] = FinishedItem(h)
                             /\ pc[t] \in {"exec", "user"}
  BY <1>0 DEF Turn, DataTypes
<1>8. Calm
  <2>1. \A u \in Threads :
         /\ pc'[u] = "io" => pc[u] = "io"
         /\ pc'[u] \in Selectors => pc[u] \in Selectors
         /\ \A h \in Handlers : pc'[u] \in {"exec", "user"} /\ item'[u] = FinishedItem(h) =>
              pc[u] \in {"exec", "user"} /\ item[u] = FinishedItem(h)
    <3> SUFFICES ASSUME NEW u \in Threads
                 PROVE  /\ pc'[u] = "io" => pc[u] = "io"
                        /\ pc'[u] \in Selectors => pc[u] \in Selectors
                        /\ \A h \in Handlers :
                             pc'[u] \in {"exec", "user"} /\ item'[u] = FinishedItem(h) =>
                               pc[u] \in {"exec", "user"} /\ item[u] = FinishedItem(h)
      OBVIOUS
    <3>1. CASE u = t
      BY <1>0, <1>1, <1>2, <3>1 DEF FinishInv
    <3>2. CASE u # t
      BY <1>1, <1>3, <3>2 DEF Selectors
    <3> QED BY <3>1, <3>2
  <2>2. ASSUME NEW h \in Handlers, data[h] > 0
        PROVE  data'[h] > 0 \/ \E u \in IOThreads : cur[u] = h /\ pc'[u] # "io"
    BY <1>0, <1>2, <2>2, InIOThreads DEF Turn
  <2>3. workItems' = workItems \/ (~destroyed /\ \E x \in QueuedItems : workItems' = Append(workItems, x))
    BY DEF Turn
  <2> QED BY <1>1, <1>5, <1>7, <2>1, <2>2, <2>3 DEF Calm
<1>9. /\ ListOK(handlers, IOThreads)' /\ IOInv'
      /\ events' = events => EventsInv'
  <2>1. \A u \in Threads : pc[u] = "selected" => pc'[u] = "selected"
    BY <1>2, <1>3
  <2> QED BY <1>8, <2>1, CalmSpares, SparedKeeps
<1>10. ReadyInv'
  <2>1. WorkLeft => WorkLeft'
    <3>1. CASE workItems' = workItems
      BY <1>1, <3>1 DEF WorkLeft
    <3>2. CASE \E x \in QueuedItems : workItems' = Append(workItems, x)
      BY <1>0, <3>2, AppendFacts DEF WorkLeft
    <3> QED BY <3>1, <3>2 DEF Turn
  <2> QED BY <1>0, <2>1 DEF ReadyInv, Turn
<1>11. FinishInv'
  <2> SUFFICES ASSUME NEW h \in Handlers
               PROVE  /\ hstate'[h] # "open" => h \notin registered
                      /\ \A u \in Threads : item[u] = FinishedItem(h) => pc'[u] \in {"exec", "user", "done"}
                      /\ hstate'[h] = "open" =>
                           /\ \A i \in 1..Len(workItems') : workItems'[i] # FinishedItem(h)
                           /\ \A u \in Threads : item[u] # FinishedItem(h)
    BY <1>1 DEF FinishInv
  <2>1. hstate'[h] = hstate[h] \/ (hstate'[h] = "finished" /\ hstate[h] # "open")
    BY <1>0, <1>7 DEF FinishInv
  <2>2. ASSUME NEW u \in Threads, item[u] = FinishedItem(h)
        PROVE  pc'[u] \in {"exec", "user", "done"}
    <3>1. pc[u] \in {"exec", "user", "done"}
      BY <1>0, <2>2 DEF FinishInv
    <3>2. CASE u = t
      <4>1. pc'[t] # "dying"
        BY <1>4, <2>2, <3>2 DEF Turn
      <4> QED BY <1>2, <3>1, <3>2, <4>1
    <3>3. CASE u # t
      BY <1>3, <3>1, <3>3
    <3> QED BY <3>2, <3>3
  <2> QED BY <1>0, <1>6, <2>1, <2>2 DEF FinishInv
<1>12. DestroyInv'
  <2>1. destroyed => \A h \in Handlers : hstate'[h] = "finished"
    BY <1>0, <1>7 DEF DestroyInv
  <2>2. ASSUME NEW u \in Threads, pc'[u] = "dying" \/ (pc'[u] = "exited" /\ u \in threads')
        PROVE  destroyed
    <3>0. pc'[u] = "dying" \/ u \in threads
      BY <2>2 DEF Turn
    <3>1. CASE u = t
      <4>1. CASE pc'[t] = "dying"
        BY <1>0, <4>1 DEF Turn, DestroyInv
      <4>2. CASE pc[t] = "dying"
        BY <1>0, <4>2 DEF DestroyInv
      <4>3. CASE pc[t] = "exiting" /\ pc'[t] = "exited"
        <5>1. t \notin threads
          BY <1>0, <4>3 DEF CoreInv, PoolInv, ThreadInv
        <5> QED BY <3>0, <3>1, <4>3, <5>1
      <4> QED BY <1>2, <2>2, <3>1, <4>1, <4>2, <4>3
    <3>2. CASE u # t
      BY <1>0, <1>3, <2>2, <3>0, <3>2 DEF DestroyInv
    <3> QED BY <3>1, <3>2
  <2> QED BY <1>0, <1>1, <2>1, <2>2 DEF DestroyInv
<1>13. ExclusiveInv'
  <2> SUFFICES ASSUME conf.serialize
               PROVE  /\ Multi => \A u \in threads' :
                           cur[u] \in Handlers /\ ioCompleted'[u] => cur[u] \in disabled' \/ destroyed
                      /\ \A u, v \in threads' :
                           cur[u] = cur[v] /\ cur[u] \in Handlers => u = v
    BY <1>1 DEF ExclusiveInv, Multi
  <2>1. NoHandler \notin Handlers /\ WorkQueue \notin Handlers
    BY HandlersAssumption
  <2>2. \A u \in threads' : cur[u] \in Handlers => u \in threads /\ u \in Threads
    BY <1>0, <2>1 DEF Turn, CoreTypes
  <2> QED BY <1>0, <2>1, <2>2 DEF ExclusiveInv, Turn
<1> QED BY <1>9, <1>10, <1>11, <1>12, <1>13
-----------------------------------------------------------------------------
(* The steps are of that kind.                                             *)

(* What queueing an item does to the selector. *)
LEMMA QueueReady ==
    ASSUME Inv, NEW x \in QueuedItems, Queue(x)
    PROVE  /\ workItems' = Append(workItems, x) /\ WorkLeft'
           /\ ready' \subseteq ready \cup {WorkQueue}
           /\ interrupted' \in BOOLEAN
<1>1. workItems' = Append(workItems, x) /\ WorkLeft'
  BY AppendFacts DEF Queue, Inv, CoreInv, WorkLeft
<1>2. ready' \subseteq ready \cup {WorkQueue}
  BY DEF Queue
<1>3. interrupted' \in BOOLEAN
  BY DEF Queue, CheckReady, Inv, HandlerInv, DataTypes
<1> QED BY <1>1, <1>2, <1>3

(* ioCompleted(): in a pool that serializes, it disables the handler. *)
LEMMA CompletesTurn ==
    ASSUME Inv, NEW t \in Threads, pc[t] \in {"io", "exec"}, NEW next \in {"user", "dying"},
           IoCompleted(t, next), next = "dying" => pc[t] = "exec" /\ item[t] = DestroyedItem,
           UNCHANGED <<conf, cur, item, registered, destroyed, hstate, workItems>>,
           \A h \in Handlers : /\ data[h] > 0 => data'[h] > 0 \/ (pc[t] = "io" /\ cur[t] = h)
                               /\ h \in ready' => data'[h] > 0,
           WorkQueue \in ready' => WorkQueue \in ready
    PROVE  Turn(t)
<1>0. CoreInv /\ CoreTypes
  BY DEF Inv, CoreInv
<1>1. PICK S \in SUBSET Threads : Completes(t, next, S)
  BY <1>0, CompletesEffect
<1>2. <<pc[t], pc'[t]>> \in Turns /\ pc'[t] = next
  BY <1>1 DEF Completes, Turns, Moves
<1>3. \A u \in Threads \ {t} : pc'[u] = pc[u] \/ (pc[u] \in {"wait", "none"} /\ pc'[u] = "idle")
  BY <1>1 DEF Completes
<1>4. \A u \in threads' : u \in threads \/ (cur[u] = NoHandler /\ pc'[u] = "idle")
  <2> SUFFICES ASSUME NEW u \in threads', u \notin threads
               PROVE  cur[u] = NoHandler /\ pc'[u] = "idle"
    OBVIOUS
  <2>1. u \in S /\ u # t /\ u \in Threads
    BY <1>1 DEF Completes
  <2> QED BY <1>0, <1>1, <2>1 DEF Completes, CoreInv, PoolInv, ThreadInv
<1>5. /\ \A u \in Threads \ {t} : ioCompleted'[u] = ioCompleted[u]
      /\ ioCompleted'[t] = TRUE /\ handlers' = handlers
  BY <1>1 DEF Completes
<1>6. disabled' = disabled \/ disabled' = DisabledByDispatch(t)
  BY DEF IoCompleted
<1>7. disabled \subseteq disabled'
  BY <1>6 DEF DisabledByDispatch
<1>8. conf.serialize /\ Multi => cur[t] \in disabled' \cup {WorkQueue} \/ destroyed
  <2> SUFFICES ASSUME conf.serialize, Multi, ~destroyed PROVE cur[t] \in disabled' \cup {WorkQueue}
    OBVIOUS
  <2>1. conf.sizeMax # 1
    BY DEF Multi
  <2>2. disabled' = DisabledByDispatch(t)
    BY <2>1 DEF IoCompleted
  <2> QED BY <2>2 DEF DisabledByDispatch
<1> QED BY <1>2, <1>3, <1>4, <1>5, <1>7, <1>8 DEF Turn

(* message() of a connection reads what is there. *)
LEMMA MessageTurn ==
    ASSUME Inv, NEW t \in Threads, Message(t)
    PROVE  Turn(t) /\ DataTypes' /\ events' = events
<1>0. /\ CoreInv /\ CoreTypes /\ DataTypes /\ IOInv /\ ReadyInv
      /\ pc[t] = "io" /\ cur[t] \in Handlers
  <2>1. pc[t] = "io" /\ cur[t] # WorkQueue
    BY DEF Message
  <2>2. cur[t] # NoHandler /\ cur[t] \in EventHandlers \cup {NoHandler}
    BY <2>1 DEF Inv, CoreInv, CoreTypes, ThreadTypes, PoolInv, ThreadInv
  <2> QED BY <2>1, <2>2 DEF Inv, CoreInv, HandlerInv, EventHandlers
<1>1. UNCHANGED <<conf, cur, item, workItems, destroyed, registered, events, selectNow, hstate,
                  arrived, dispatched>>
  BY DEF Message
<1>2. data[cur[t]] > 0 /\ \A h \in Handlers : data[h] \in 0..MaxData /\ arrived[h] \in 0..MaxData
                                              /\ data[h] <= arrived[h]
  BY <1>0 DEF IOInv, DataTypes
<1>3. MaxData \in Nat
  BY BoundsAssumption
<1>4. CASE /\ pc' = [pc EXCEPT ![t] = "done"]
           /\ UNCHANGED <<leader, ioCompleted, poolVars, ready, interrupted, disabled, data>>
  <2>1. pc'[t] = "done" /\ \A u \in Threads \ {t} : pc'[u] = pc[u]
    BY <1>0, <1>4 DEF CoreTypes, ThreadTypes
  <2>2. Turn(t)
    BY <1>0, <1>1, <1>4, <2>1 DEF Turn, Turns, Moves, ReadyInv, poolVars
  <2>3. DataTypes'
    BY <1>0, <1>1, <1>4 DEF DataTypes
  <2> QED BY <1>1, <2>2, <2>3
<1>5. CASE LET h == cur[t] IN
           /\ data' = [data EXCEPT ![h] = @ - 1]
           /\ ready' \in {ready \ {h}} \cup (IF data[h] > 1 THEN {ready \cup {h}} ELSE {})
           /\ \/ /\ pc' = [pc EXCEPT ![t] = "done"]
                 /\ UNCHANGED <<leader, ioCompleted, poolVars, disabled>>
              \/ IoCompleted(t, "user")
           /\ CheckReady(h, ready', registered, disabled')
  <2>1. /\ data'[cur[t]] = data[cur[t]] - 1
        /\ \A h \in Handlers \ {cur[t]} : data'[h] = data[h]
        /\ data' = [data EXCEPT ![cur[t]] = data[cur[t]] - 1]
    BY <1>0, <1>5 DEF DataTypes
  <2>2. data[cur[t]] - 1 \in 0..MaxData /\ data[cur[t]] - 1 <= arrived[cur[t]]
    BY <1>0, <1>2, <1>3
  <2>3. data' \in [Handlers -> 0..MaxData]
    BY <1>0, <2>1, <2>2 DEF DataTypes
  <2>4. \A h \in Handlers : data'[h] <= arrived[h]
    BY <1>2, <2>1, <2>2
  <2>5. interrupted' \in BOOLEAN
    BY <1>0, <1>5 DEF CheckReady, DataTypes
  <2>6. DataTypes'
    BY <1>0, <1>1, <2>3, <2>4, <2>5 DEF DataTypes
  <2>7. ready' = ready \ {cur[t]} \/ (data[cur[t]] > 1 /\ ready' = ready \cup {cur[t]})
    BY <1>5
  <2>8. \A h \in Handlers : /\ data[h] > 0 => data'[h] > 0 \/ (pc[t] = "io" /\ cur[t] = h)
                            /\ h \in ready' => data'[h] > 0
    <3> SUFFICES ASSUME NEW h \in Handlers
                 PROVE  /\ data[h] > 0 => data'[h] > 0 \/ (pc[t] = "io" /\ cur[t] = h)
                        /\ h \in ready' => data'[h] > 0
      OBVIOUS
    <3>1. CASE h = cur[t]
      <4>1. h \in ready' => data[h] > 1
        BY <2>7, <3>1
      <4> QED BY <1>0, <1>2, <2>1, <3>1, <4>1
    <3>2. CASE h # cur[t]
      <4>1. data'[h] = data[h] /\ (h \in ready' => h \in ready)
        BY <2>1, <2>7, <3>2
      <4> QED BY <1>0, <4>1 DEF ReadyInv
    <3> QED BY <3>1, <3>2
  <2>9. WorkQueue \in ready' => WorkQueue \in ready
    BY <1>0, <2>7, HandlersAssumption
  <2>10. CASE /\ pc' = [pc EXCEPT ![t] = "done"]
              /\ UNCHANGED <<leader, ioCompleted, poolVars, disabled>>
    <3>1. pc'[t] = "done" /\ \A u \in Threads \ {t} : pc'[u] = pc[u]
      BY <1>0, <2>10 DEF CoreTypes, ThreadTypes
    <3>2. Turn(t)
      BY <1>0, <1>1, <2>8, <2>9, <2>10, <3>1 DEF Turn, Turns, Moves, poolVars
    <3> QED BY <1>1, <2>6, <3>2
  <2>11. CASE IoCompleted(t, "user")
    BY <1>0, <1>1, <2>6, <2>8, <2>9, <2>11, CompletesTurn
  <2> QED BY <1>5, <2>10, <2>11
<1> QED BY <1>4, <1>5 DEF Message
(* The other turns of a thread. *)
LEMMA TurnSteps ==
    ASSUME Inv, NEW t \in Threads,
           \/ Exit(t) \/ Select(t) \/ SelectTimesOut(t) \/ SelectTimeout(t) \/ Die(t)
           \/ ExecuteFinished(t) \/ UserReturn(t) \/ ExecuteBlocking(t) \/ ExecuteJoin(t)
           \/ Shrink(t)
    PROVE  Turn(t) /\ DataTypes' /\ (Select(t) \/ events' = events)
<1>0. /\ CoreInv /\ CoreTypes /\ DataTypes /\ FinishInv /\ ThreadTypes
      /\ item \in [Threads -> Items]
  BY DEF Inv, CoreInv, HandlerInv, CoreTypes
<1>1. /\ \A h \in Handlers : h \in ready => data[h] > 0
      /\ WorkQueue \notin Handlers
  BY HandlersAssumption DEF Inv, HandlerInv, ReadyInv
<1>2. CASE Exit(t)
  <2>1. pc[t] = "exiting" /\ pc'[t] = "exited" /\ \A u \in Threads \ {t} : pc'[u] = pc[u]
    BY <1>0, <1>2 DEF Exit, ThreadTypes
  <2>2. Turn(t)
    BY <1>1, <1>2, <2>1 DEF Exit, Turn, Turns, Moves, poolVars, selectorVars, handlerVars
  <2> QED BY <1>0, <1>2, <2>2 DEF Exit, DataTypes, selectorVars, handlerVars
<1>3. CASE Select(t)
  <2>1. pc[t] = "select" /\ pc'[t] = "selected" /\ \A u \in Threads \ {t} : pc'[u] = pc[u]
    BY <1>0, <1>3 DEF Select, ThreadTypes
  <2>2. Turn(t)
    BY <1>1, <1>3, <2>1 DEF Select, Turn, Turns, Moves, poolVars, handlerVars
  <2> QED BY <1>0, <1>3, <2>2 DEF Select, DataTypes, handlerVars
<1>4. CASE SelectTimesOut(t)
  <2>1. pc[t] = "select" /\ pc'[t] = "timedOut" /\ \A u \in Threads \ {t} : pc'[u] = pc[u]
    BY <1>0, <1>4 DEF SelectTimesOut, ThreadTypes
  <2>2. Turn(t)
    BY <1>1, <1>4, <2>1 DEF SelectTimesOut, Turn, Turns, Moves, poolVars, selectorVars, handlerVars
  <2> QED BY <1>0, <1>4, <2>2 DEF SelectTimesOut, DataTypes, selectorVars, handlerVars
<1>5. CASE SelectTimeout(t)
  <2>1. pc[t] = "timedOut" /\ pc'[t] = "select" /\ \A u \in Threads \ {t} : pc'[u] = pc[u]
    BY <1>0, <1>5 DEF SelectTimeout, ThreadTypes
  <2>2. UNCHANGED <<conf, cur, leader, ioCompleted, item, threads, handlers, destroyed, registered,
                    disabled, events, selectNow, hstate, data, arrived, dispatched>>
    BY <1>5 DEF SelectTimeout, poolVars, handlerVars
  <2>3. CASE UNCHANGED <<workItems, ready, interrupted>>
    BY <1>0, <1>1, <2>1, <2>2, <2>3 DEF Turn, Turns, Moves, DataTypes
  <2>4. CASE ~destroyed /\ Queue(ShutdownItem)
    <3>1. ShutdownItem \in QueuedItems /\ ShutdownItem.kind # "finished"
      BY OtherItems DEF ShutdownItem
    <3>2. /\ workItems' = Append(workItems, ShutdownItem) /\ WorkLeft'
          /\ ready' \subseteq ready \cup {WorkQueue} /\ interrupted' \in BOOLEAN
      BY <2>4, <3>1, QueueReady
    <3> QED BY <1>0, <1>1, <2>1, <2>2, <2>4, <3>1, <3>2 DEF Turn, Turns, Moves, DataTypes
  <2> QED BY <1>5, <2>3, <2>4 DEF SelectTimeout
<1>6. CASE Die(t)
  <2>1. pc[t] = "dying" /\ pc'[t] = "exited" /\ \A u \in Threads \ {t} : pc'[u] = pc[u]
    BY <1>0, <1>6 DEF Die, ThreadTypes
  <2>2. Turn(t)
    BY <1>1, <1>6, <2>1 DEF Die, Turn, Turns, Moves, selectorVars, handlerVars
  <2> QED BY <1>0, <1>6, <2>2 DEF Die, DataTypes, selectorVars, handlerVars
<1>7. CASE ExecuteFinished(t) \/ UserReturn(t)
  <2>1. /\ pc[t] \in {"exec", "user"} /\ pc'[t] = "done"
        /\ \A u \in Threads \ {t} : pc'[u] = pc[u]
    BY <1>0, <1>7 DEF ExecuteFinished, UserReturn, ThreadTypes
  <2>2. UNCHANGED <<conf, cur, leader, ioCompleted, item, threads, handlers, workItems, destroyed,
                    registered, disabled, ready, events, selectNow, interrupted, data, arrived,
                    dispatched>>
    BY <1>7 DEF ExecuteFinished, UserReturn, poolVars, selectorVars
  <2>3. \/ hstate' = hstate
        \/ \E h \in Handlers : item[t] = FinishedItem(h) /\ hstate' = [hstate EXCEPT ![h] = "finished"]
    <3>1. item[t] \in Items
      BY <1>0
    <3>2. ASSUME item[t].kind = "finished"
          PROVE  \E h \in Handlers : item[t] = FinishedItem(h) /\ item[t].arg = h
      BY <3>1, <3>2 DEF Items, NoItem, DispatchItem, ShutdownItem, DestroyedItem, FinishedItem, JoinItem
    <3>3. \/ hstate' = hstate
          \/ item[t].kind = "finished" /\ hstate' = [hstate EXCEPT ![item[t].arg] = "finished"]
      BY <1>7 DEF ExecuteFinished, UserReturn
    <3> QED BY <3>2, <3>3
  <2>4. Turn(t)
    BY <1>1, <2>1, <2>2, <2>3 DEF Turn, Turns, Moves
  <2>5. hstate' \in [Handlers -> {"open", "closing", "finished"}]
    BY <1>0, <2>3 DEF DataTypes
  <2> QED BY <1>0, <2>2, <2>4, <2>5 DEF DataTypes
<1>8. CASE ExecuteBlocking(t)
  <2>1. PICK next \in {"user", "dying"} : /\ IoCompleted(t, next)
                                          /\ next = "dying" => item[t] = DestroyedItem
    BY <1>8 DEF ExecuteBlocking
  <2>2. UNCHANGED <<conf, cur, item, workItems, destroyed, registered, ready, events,
                    selectNow, interrupted, hstate, data, arrived, dispatched>> /\ pc[t] = "exec"
    BY <1>8 DEF ExecuteBlocking, handlerVars
  <2>3. Turn(t)
    BY <1>1, <2>1, <2>2, CompletesTurn
  <2> QED BY <1>0, <2>2, <2>3 DEF DataTypes
<1>9. CASE ExecuteJoin(t)
  <2>1. /\ pc[t] = "exec" /\ pc[item[t].arg] = "exited"
        /\ pc' = [pc EXCEPT ![t] = "done", ![item[t].arg] = "none"]
    BY <1>9 DEF ExecuteJoin
  <2>2. /\ pc'[t] = "done"
        /\ \A u \in Threads \ {t} : pc'[u] = pc[u] \/ (pc[u] = "exited" /\ pc'[u] = "none")
    BY <1>0, <2>1 DEF ThreadTypes
  <2>3. Turn(t)
    BY <1>1, <1>9, <2>1, <2>2 DEF ExecuteJoin, Turn, Turns, Moves, poolVars, selectorVars, handlerVars
  <2> QED BY <1>0, <1>9, <2>3 DEF ExecuteJoin, DataTypes, selectorVars, handlerVars
<1>10. CASE Shrink(t)
  <2>1. pc[t] = "wait" /\ pc'[t] = "exiting" /\ \A u \in Threads \ {t} : pc'[u] = pc[u]
    BY <1>0, <1>10 DEF Shrink, ThreadTypes
  <2>2. UNCHANGED <<conf, cur, ioCompleted, item, handlers, destroyed, registered,
                    disabled, events, selectNow, hstate, data, arrived, dispatched>>
        /\ threads' \subseteq threads /\ ~destroyed /\ Queue(JoinItem(t))
    BY <1>10 DEF Shrink, handlerVars
  <2>3. JoinItem(t) \in QueuedItems /\ JoinItem(t).kind # "finished"
    BY DEF JoinItem, QueuedItems, Items, NoItem, DestroyedItem
  <2>4. /\ workItems' = Append(workItems, JoinItem(t)) /\ WorkLeft'
        /\ ready' \subseteq ready \cup {WorkQueue} /\ interrupted' \in BOOLEAN
    BY <2>2, <2>3, QueueReady
  <2>5. Turn(t)
    BY <1>0, <1>1, <2>1, <2>2, <2>3, <2>4 DEF Turn, Turns, Moves
  <2> QED BY <1>0, <2>2, <2>4, <2>5 DEF DataTypes
<1> QED BY <1>2, <1>3, <1>4, <1>5, <1>6, <1>7, <1>8, <1>9, <1>10

(* select() reports handlers that may be served. *)
LEMMA SelectEvents ==
    ASSUME Inv, NEW t \in Threads, Select(t)
    PROVE  EventsInv'
<1>0. /\ CoreInv /\ CoreTypes /\ FinishInv /\ IOInv /\ pc[t] = "select" /\ ThreadTypes
      /\ UNCHANGED <<data, hstate, item, cur, workItems>>
  BY DEF Inv, CoreInv, HandlerInv, CoreTypes, Select, handlerVars
<1>1. pc'[t] = "selected" /\ \A u \in Threads \ {t} : pc'[u] = pc[u]
  BY <1>0 DEF Select, ThreadTypes
<1>2. \A h \in events' : h \in registered \cap Handlers /\ data[h] > 0
  BY DEF Select
<1>3. \A u \in Threads : pc[u] # "io"
  BY <1>0, InIOThreads DEF IOInv, Selecting
<1>4. ASSUME NEW h \in Handlers, h \in registered, data[h] > 0 PROVE Servable(h)'
  <2>1. hstate[h] = "open"
    BY <1>0, <1>4 DEF FinishInv
  <2>2. \A u \in Threads : item'[u] # FinishedItem(h)
    BY <1>0, <2>1 DEF FinishInv
  <2>3. ~InIO(WorkQueue)'
    BY <1>1, <1>3 DEF InIO
  <2> QED BY <1>0, <1>4, <2>1, <2>2, <2>3 DEF Servable
<1> QED BY <1>1, <1>2, <1>4 DEF EventsInv
(* A thread takes the first item from the queue. *)
LEMMA TakeItemHandlers ==
    ASSUME Inv, NEW t \in Threads, TakeItem(t)
    PROVE  HandlerInv'
<1>0. /\ CoreInv /\ CoreTypes /\ ThreadTypes /\ item \in [Threads -> Items]
      /\ DataTypes /\ IOInv /\ ReadyInv /\ FinishInv /\ DestroyInv /\ ExclusiveInv
      /\ pc[t] = "io" /\ cur[t] = WorkQueue /\ t \in IOThreads
  BY InIOThreads DEF Inv, CoreInv, CoreTypes, HandlerInv, TakeItem
<1>1. /\ UNCHANGED <<conf, cur, ioCompleted, handlers, threads, destroyed, registered, disabled,
                     events, selectNow, interrupted, hstate, data, arrived, dispatched>>
      /\ ready' = ReadyAfterTake
  BY DEF TakeItem, poolVars, handlerVars
<1>2. pc'[t] = "exec" /\ \A u \in Threads \ {t} : pc'[u] = pc[u] /\ item'[u] = item[u]
  BY <1>0 DEF TakeItem, ThreadTypes
<1>3. \/ /\ workItems # <<>> /\ item'[t] = Head(workItems) /\ workItems' = Tail(workItems)
      \/ workItems = <<>> /\ item'[t] = DestroyedItem /\ workItems' = workItems
  BY <1>0 DEF TakeItem
<1>4. /\ workItems \in Seq(QueuedItems) /\ Len(workItems) \in Nat
      /\ workItems # <<>> =>
           /\ Head(workItems) = workItems[1] /\ 1 \in 1..Len(workItems)
           /\ Len(Tail(workItems)) = Len(workItems) - 1
           /\ \A i \in 1..Len(Tail(workItems)) :
                Tail(workItems)[i] = workItems[i + 1] /\ i + 1 \in 1..Len(workItems)
  <2>1. workItems \in Seq(QueuedItems) /\ Len(workItems) \in Nat
    BY <1>0, LenProperties DEF CoreTypes
  <2>2. ASSUME workItems # <<>>
        PROVE  /\ Head(workItems) = workItems[1] /\ 1 \in 1..Len(workItems)
               /\ Len(Tail(workItems)) = Len(workItems) - 1
               /\ \A i \in 1..Len(Tail(workItems)) : Tail(workItems)[i] = workItems[i + 1]
    BY <2>1, <2>2, HeadTailProperties, LenProperties
  <2> QED BY <2>1, <2>2
<1>5. \A u \in IOThreads \ {t} : cur[u] # WorkQueue
  BY <1>0 DEF IOInv
<1>6. \A u \in Threads : pc'[u] = "io" => pc[u] = "io" /\ u \in IOThreads \ {t}
  BY <1>0, <1>2, InIOThreads
<1>7. Spared
  <2>1. ASSUME NEW h \in Handlers, Servable(h) PROVE Servable(h)'
    <3>1. item'[t] # FinishedItem(h)
      <4>1. NotFirst(h)
        BY <1>0, <2>1 DEF Servable, InIO
      <4> QED BY <1>3, <4>1 DEF NotFirst, DestroyedItem, FinishedItem
    <3>2. ~InIO(WorkQueue)'
      BY <1>1, <1>5, <1>6 DEF InIO
    <3> QED BY <1>1, <1>2, <2>1, <3>1, <3>2 DEF Servable
  <2>2. ~Untouched(WorkQueue)
    BY <1>0 DEF Untouched
  <2>3. \A u \in Threads : pc'[u] = "io" =>
         /\ \A h \in Handlers : cur[u] = h => data'[h] > 0
         /\ cur[u] = WorkQueue => WorkLeft'
    BY <1>0, <1>1, <1>5, <1>6 DEF IOInv
  <2>4. \A u \in Threads : pc'[u] \in Selectors => pc[u] \in Selectors
    BY <1>2 DEF Selectors
  <2>5. IOThreads' \subseteq IOThreads
    BY <1>1 DEF IOThreads
  <2> QED BY <1>1, <1>6, <2>1, <2>2, <2>3, <2>4, <2>5 DEF Spared
<1>8. ListOK(handlers, IOThreads)' /\ IOInv' /\ EventsInv'
  <2>1. \A u \in Threads : pc[u] = "selected" => pc'[u] = "selected"
    BY <1>0, <1>2
  <2> QED BY <1>1, <1>7, <2>1, SparedKeeps
<1>9. ReadyInv'
  <2>1. ready' \subseteq ready
    BY <1>1 DEF ReadyAfterTake
  <2>2. ASSUME WorkQueue \in ready' PROVE WorkLeft'
    <3> SUFFICES ASSUME ~destroyed PROVE workItems' # <<>>
      BY <1>1 DEF WorkLeft
    <3>1. Len(workItems) > 1
      BY <1>1, <1>4, <2>2 DEF ReadyAfterTake
    <3>2. workItems # <<>> /\ workItems' = Tail(workItems)
      BY <1>3, <3>1
    <3>3. Len(workItems') # 0
      BY <1>4, <3>1, <3>2
    <3> QED BY <3>3
  <2> QED BY <1>0, <1>1, <2>1, <2>2 DEF ReadyInv
<1>10. FinishInv'
  <2> SUFFICES ASSUME NEW h \in Handlers
               PROVE  /\ \A u \in Threads : item'[u] = FinishedItem(h) => pc'[u] \in {"exec", "user", "done"}
                      /\ hstate[h] = "open" =>
                           /\ \A i \in 1..Len(workItems') : workItems'[i] # FinishedItem(h)
                           /\ \A u \in Threads : item'[u] # FinishedItem(h)
    BY <1>0, <1>1 DEF FinishInv
  <2>1. \A u \in Threads : item'[u] = FinishedItem(h) => pc'[u] \in {"exec", "user", "done"}
    BY <1>0, <1>2 DEF FinishInv
  <2>2. ASSUME hstate[h] = "open"
        PROVE  /\ \A i \in 1..Len(workItems') : workItems'[i] # FinishedItem(h)
               /\ item'[t] # FinishedItem(h)
    <3>1. \A i \in 1..Len(workItems) : workItems[i] # FinishedItem(h)
      BY <1>0, <2>2 DEF FinishInv
    <3>2. DestroyedItem # FinishedItem(h)
      BY DEF DestroyedItem, FinishedItem
    <3> QED BY <1>3, <1>4, <3>1, <3>2
  <2> QED BY <1>0, <1>2, <2>1, <2>2 DEF FinishInv
<1>11. DestroyInv'
  <2>1. item'[t] = DestroyedItem => destroyed
    <3>1. workItems # <<>> => Head(workItems) # DestroyedItem
      <4>1. \A i \in 1..Len(workItems) : workItems[i] \in QueuedItems
        BY <1>4, ElementOfSeq
      <4> QED BY <1>4, <4>1 DEF QueuedItems
    <3>2. workItems = <<>> => destroyed
      BY <1>0 DEF IOInv, WorkLeft
    <3> QED BY <1>3, <3>1, <3>2
  <2> QED BY <1>0, <1>1, <1>2, <2>1 DEF DestroyInv
<1>12. ExclusiveInv'
  BY <1>0, <1>1 DEF ExclusiveInv, Multi
<1>13. DataTypes'
  BY <1>0, <1>1 DEF DataTypes
<1> QED BY <1>8, <1>9, <1>10, <1>11, <1>12, <1>13 DEF HandlerInv

(* Calls from other threads. *)
LEMMA CallHandlers ==
    ASSUME Inv,
           \/ Dispatch \/ Destroy
           \/ \E h \in Handlers : Update(h) \/ Finish(h) \/ Arrive(h)
           \/ UNCHANGED vars
    PROVE  HandlerInv'
<1>0. /\ CoreInv /\ CoreTypes /\ DataTypes /\ IOInv /\ ReadyInv /\ FinishInv /\ DestroyInv
      /\ ExclusiveInv /\ WorkQueue \notin Handlers
  BY HandlersAssumption DEF Inv, CoreInv, HandlerInv
<1>1. UNCHANGED <<conf, pc, cur, ioCompleted, item, threads, handlers, disabled, events, selectNow>>
  BY DEF Dispatch, Destroy, Update, Finish, Arrive, vars, threadVars, poolVars, selectorVars
<1>2. /\ \/ workItems' = workItems
         \/ ~destroyed /\ \E x \in QueuedItems :
              /\ workItems' = Append(workItems, x)
              /\ \A h \in Handlers : x = FinishedItem(h) => hstate'[h] # "open"
      /\ \A h \in Handlers : h \in ready' => h \in ready
      /\ WorkQueue \in ready' => WorkQueue \in ready \/ WorkLeft'
      /\ interrupted' \in BOOLEAN
  <2>1. CASE Dispatch
    <3>1. DispatchItem \in QueuedItems /\ \A h \in Handlers : DispatchItem # FinishedItem(h)
      BY OtherItems DEF DispatchItem, FinishedItem
    <3> QED BY <1>0, <2>1, <3>1, QueueReady DEF Dispatch
  <2>2. CASE \E h \in Handlers : Finish(h)
    <3>1. PICK h \in Handlers : Finish(h)
      BY <2>2
    <3>2. FinishedItem(h) \in QueuedItems /\ \A g \in Handlers : FinishedItem(h) = FinishedItem(g) => g = h
      BY OtherItems DEF FinishedItem
    <3>3. hstate'[h] = "closing" /\ ~destroyed /\ Queue(FinishedItem(h))
      BY <1>0, <3>1 DEF Finish, DataTypes
    <3> QED BY <1>0, <3>2, <3>3, QueueReady
  <2>3. CASE Destroy
    <3>1. workItems' = workItems /\ ready' = ready \cup {WorkQueue} /\ destroyed' = TRUE
      BY <2>3 DEF Destroy
    <3>2. interrupted' \in BOOLEAN
      BY <1>0, <2>3 DEF Destroy, CheckReady, DataTypes
    <3> QED BY <1>0, <3>1, <3>2 DEF WorkLeft
  <2>4. CASE \E h \in Handlers : Update(h)
    <3>1. interrupted' \in BOOLEAN
      BY <1>0, <2>4 DEF Update, CheckReady, DataTypes
    <3> QED BY <2>4, <3>1 DEF Update
  <2>5. CASE (\E h \in Handlers : Arrive(h)) \/ UNCHANGED vars
    BY <1>0, <2>5 DEF Arrive, vars, selectorVars, DataTypes
  <2> QED BY <2>1, <2>2, <2>3, <2>4, <2>5
<1>3. /\ hstate' \in [Handlers -> {"open", "closing", "finished"}]
      /\ \A h \in Handlers : /\ hstate'[h] = "open" => hstate[h] = "open"
                             /\ hstate'[h] = "finished" <=> hstate[h] = "finished"
                             /\ hstate'[h] # "open" => h \notin registered'
  <2>1. CASE Dispatch \/ Destroy \/ (\E h \in Handlers : Arrive(h)) \/ UNCHANGED vars
    <3>1. UNCHANGED <<hstate, registered>>
      BY <2>1 DEF Dispatch, Destroy, Arrive, vars, selectorVars, handlerVars
    <3> QED BY <1>0, <3>1 DEF FinishInv, DataTypes
  <2>2. CASE \E h \in Handlers : Update(h)
    <3>1. PICK h \in Handlers : Update(h)
      BY <2>2
    <3>2. hstate' = hstate /\ hstate[h] = "open" /\ registered' \subseteq registered \cup {h}
      BY <3>1 DEF Update, handlerVars
    <3> QED BY <1>0, <3>2 DEF FinishInv, DataTypes
  <2>3. CASE \E h \in Handlers : Finish(h)
    <3>1. PICK h \in Handlers : Finish(h)
      BY <2>3
    <3>2. /\ hstate[h] = "open" /\ hstate' = [hstate EXCEPT ![h] = "closing"]
          /\ registered' = registered \ {h}
      BY <3>1 DEF Finish
    <3> QED BY <1>0, <3>2 DEF FinishInv, DataTypes
  <2> QED BY <2>1, <2>2, <2>3
<1>4. /\ destroyed => destroyed'
      /\ destroyed' => destroyed \/ \A h \in Handlers : hstate[h] = "finished"
  BY DEF Dispatch, Destroy, Update, Finish, Arrive, vars
<1>5. /\ data' \in [Handlers -> 0..MaxData] /\ arrived' \in [Handlers -> 0..MaxData]
      /\ \A h \in Handlers : data'[h] <= arrived'[h] /\ data'[h] >= data[h]
  <2>1. CASE UNCHANGED <<data, arrived>>
    BY <1>0, <2>1 DEF DataTypes
  <2>2. CASE \E h \in Handlers : Arrive(h)
    <3>1. PICK h \in Handlers : Arrive(h)
      BY <2>2
    <3>2. MaxData \in Nat /\ data[h] \in 0..MaxData /\ arrived[h] \in 0..MaxData
          /\ data[h] <= arrived[h] /\ arrived[h] < MaxData
      BY <1>0, <3>1, BoundsAssumption DEF Arrive, DataTypes
    <3>3. arrived[h] + 1 \in 0..MaxData /\ data[h] + 1 \in 0..MaxData
          /\ data[h] + 1 <= arrived[h] + 1 /\ data[h] + 1 >= data[h]
      BY <3>2
    <3>4. /\ arrived' = [arrived EXCEPT ![h] = arrived[h] + 1]
          /\ data' = [data EXCEPT ![h] = data[h] + 1]
      BY <3>1 DEF Arrive
    <3>5. data'[h] = data[h] + 1 /\ \A g \in Handlers \ {h} : data'[g] = data[g]
      BY <1>0, <3>4 DEF DataTypes
    <3>6. arrived'[h] = arrived[h] + 1 /\ \A g \in Handlers \ {h} : arrived'[g] = arrived[g]
      BY <1>0, <3>4 DEF DataTypes
    <3>7. data' \in [Handlers -> 0..MaxData] /\ arrived' \in [Handlers -> 0..MaxData]
      BY <1>0, <3>3, <3>4 DEF DataTypes
    <3>8. \A g \in Handlers \ {h} : data[g] <= arrived[g] /\ data[g] \in Int
      BY <1>0 DEF DataTypes
    <3>9. \A g \in Handlers \ {h} : data'[g] <= arrived'[g] /\ data'[g] >= data[g]
      BY <3>5, <3>6, <3>8
    <3> QED BY <3>3, <3>5, <3>6, <3>7, <3>9
  <2> QED BY <2>1, <2>2 DEF Dispatch, Destroy, Update, Finish, vars, handlerVars
<1>6. dispatched' \in 0..MaxDispatch
  <2>1. dispatched' = dispatched \/ (dispatched < MaxDispatch /\ dispatched' = dispatched + 1)
    BY DEF Dispatch, Destroy, Update, Finish, Arrive, vars
  <2> QED BY <1>0, <2>1, BoundsAssumption DEF DataTypes
<1>7. WorkLeft => WorkLeft'
  <2>1. CASE workItems' = workItems
    BY <1>4, <2>1 DEF WorkLeft
  <2>2. CASE \E x \in QueuedItems : workItems' = Append(workItems, x)
    BY <1>0, <2>2, AppendFacts DEF WorkLeft
  <2> QED BY <1>2, <2>1, <2>2
<1>8. Calm
  <2>1. IOThreads' = IOThreads
    BY <1>1 DEF IOThreads
  <2>2. \A h \in Handlers : data[h] > 0 => data'[h] > 0
    BY <1>0, <1>5, BoundsAssumption DEF DataTypes
  <2> QED BY <1>1, <1>2, <1>3, <1>4, <2>1, <2>2 DEF Calm
<1>9. ListOK(handlers, IOThreads)' /\ IOInv' /\ EventsInv'
  BY <1>1, <1>8, CalmSpares, SparedKeeps
<1>10. ReadyInv'
  <2>1. \A h \in Handlers : data[h] > 0 => data'[h] > 0
    BY <1>0, <1>5, BoundsAssumption DEF DataTypes
  <2> QED BY <1>0, <1>2, <1>7, <2>1 DEF ReadyInv
<1>11. FinishInv'
  <2>1. ASSUME NEW h \in Handlers, hstate'[h] = "open", NEW i \in 1..Len(workItems')
        PROVE  workItems'[i] # FinishedItem(h)
    <3>1. \A j \in 1..Len(workItems) : workItems[j] # FinishedItem(h)
      BY <1>0, <1>3, <2>1 DEF FinishInv
    <3>2. CASE workItems' = workItems
      BY <2>1, <3>1, <3>2
    <3>3. CASE \E x \in QueuedItems : /\ workItems' = Append(workItems, x)
                                      /\ \A g \in Handlers : x = FinishedItem(g) => hstate'[g] # "open"
      BY <1>0, <2>1, <3>1, <3>3, AppendFacts
    <3> QED BY <1>2, <3>2, <3>3
  <2> QED BY <1>0, <1>1, <1>3, <2>1 DEF FinishInv
<1>12. DestroyInv'
  BY <1>0, <1>1, <1>3, <1>4 DEF DestroyInv
<1>13. ExclusiveInv'
  BY <1>0, <1>1, <1>4 DEF ExclusiveInv, Multi
<1>14. DataTypes'
  BY <1>0, <1>1, <1>2, <1>3, <1>5, <1>6 DEF DataTypes
<1> QED BY <1>9, <1>10, <1>11, <1>12, <1>13, <1>14 DEF HandlerInv
-----------------------------------------------------------------------------
(* All together.                                                           *)

(* Every step keeps the invariant. *)
LEMMA HandlerNext ==
    ASSUME Inv, [Next]_vars
    PROVE  HandlerInv'
<1>1. CASE \/ Dispatch \/ Destroy
           \/ \E h \in Handlers : Update(h) \/ Finish(h) \/ Arrive(h)
           \/ UNCHANGED vars
  BY <1>1, CallHandlers
<1>2. CASE \E t \in Threads : RunStep(t) \/ Shrink(t) \/ TimedOutWanted(t) \/ SelectTimesOut(t)
  <2>1. PICK t \in Threads : RunStep(t) \/ Shrink(t) \/ TimedOutWanted(t) \/ SelectTimesOut(t)
    BY <1>2
  <2>2. CASE Follow(t) \/ TimedOutWanted(t) \/ FinishSelect(t) \/ MessageDone(t)
    <3>1. PICK io, list : Round(t, io, list) /\ RoundUses(t, list)
      BY <2>2, RoundsUse
    <3> QED BY <3>1, RoundHandlers
  <2>3. CASE TakeItem(t)
    BY <2>3, TakeItemHandlers
  <2>4. CASE \/ Exit(t) \/ Select(t) \/ SelectTimesOut(t) \/ SelectTimeout(t) \/ Die(t)
             \/ ExecuteFinished(t) \/ UserReturn(t) \/ ExecuteBlocking(t) \/ ExecuteJoin(t)
             \/ Shrink(t) \/ Message(t)
    <3>1. Turn(t) /\ DataTypes' /\ (Select(t) \/ events' = events)
      BY <2>4, TurnSteps, MessageTurn
    <3>2. EventsInv'
      BY <3>1, TurnKeeps, SelectEvents
    <3> QED BY <3>1, <3>2, TurnKeeps DEF HandlerInv
  <2> QED BY <2>1, <2>2, <2>3, <2>4 DEF RunStep
<1> QED BY <1>1, <1>2 DEF Next

(* It holds before anything has arrived. *)
LEMMA HandlerInit ==
    ASSUME Init
    PROVE  HandlerInv
<1>0. /\ cur = [t \in Threads |-> NoHandler] /\ item = [t \in Threads |-> NoItem]
      /\ handlers = <<>> /\ workItems = <<>> /\ events = {} /\ ready = {}
      /\ hstate = [h \in Handlers |-> "open"]
      /\ data = [h \in Handlers |-> 0] /\ arrived = [h \in Handlers |-> 0] /\ dispatched = 0
  BY DEF Init
<1>1. destroyed = FALSE /\ selectNow = FALSE /\ interrupted = FALSE
  BY DEF Init
<1>2. threads \in SUBSET Threads /\ \A t \in Threads : pc[t] \in {"idle", "none"}
  BY DEF Init
<1>3. NoHandler \notin Handlers /\ MaxData \in Nat /\ MaxDispatch \in Nat
  BY HandlersAssumption, BoundsAssumption
<1>4. 1..Len(handlers) = {} /\ 1..Len(workItems) = {}
  BY <1>0
<1>5. \A h \in Handlers : NoItem # FinishedItem(h) /\ NoItem # DestroyedItem
  BY DEF NoItem, FinishedItem, DestroyedItem
<1>6. DataTypes
  <2>1. selectNow \in BOOLEAN
    BY <1>1
  <2>2. interrupted \in BOOLEAN
    BY <1>1
  <2>3. /\ hstate \in [Handlers -> {"open", "closing", "finished"}]
        /\ data \in [Handlers -> 0..MaxData] /\ arrived \in [Handlers -> 0..MaxData]
        /\ dispatched \in 0..MaxDispatch /\ \A h \in Handlers : data[h] <= arrived[h]
    BY <1>0, <1>3
  <2> QED BY <2>1, <2>2, <2>3 DEF DataTypes
<1>7. IOThreads = {} /\ ~Selecting
  BY <1>0, <1>2 DEF IOThreads, Selecting
<1>8. ListOK(handlers, IOThreads)
  BY <1>4 DEF ListOK
<1>9. IOInv
  BY <1>2, <1>7 DEF IOInv
<1>10. ReadyInv /\ EventsInv
  BY <1>0 DEF ReadyInv, EventsInv
<1>11. FinishInv
  BY <1>0, <1>4, <1>5 DEF FinishInv
<1>12. DestroyInv
  <2>1. ~destroyed
    BY <1>1
  <2>2. \A t \in Threads : item[t] # DestroyedItem
    BY <1>0 DEF NoItem, DestroyedItem
  <2> QED BY <1>2, <2>1, <2>2 DEF DestroyInv
<1>13. ExclusiveInv
  BY <1>0, <1>2, <1>3 DEF ExclusiveInv
<1> QED BY <1>6, <1>8, <1>9, <1>10, <1>11, <1>12, <1>13 DEF HandlerInv

(* The invariant holds in every state of the pool. *)
THEOREM PoolInvariant == Spec => []Inv
<1>1. Init => Inv
  BY CoreInit, HandlerInit DEF Inv
<1>2. Inv /\ [Next]_vars => Inv'
  BY CoreNext, HandlerNext DEF Inv
<1> QED BY <1>1, <1>2, PTL DEF Spec

(* Every variable keeps its type: the counts of run() and ioCompleted() do *)
(* not go below zero, and nothing but items that can be executed is queued.*)
THEOREM TypeCorrect == Spec => []TypeOK
<1>1. Inv => TypeOK
  <2> SUFFICES ASSUME Inv PROVE TypeOK
    OBVIOUS
  <2>1. CoreTypes /\ ThreadTypes /\ DataTypes
    BY DEF Inv, CoreInv, CoreTypes, HandlerInv
  <2>2. workItems \in Seq(Items)
    <3>1. workItems \in Seq(QueuedItems) /\ QueuedItems \subseteq Items
      BY <2>1 DEF CoreTypes, QueuedItems
    <3> QED BY <3>1, SeqDef
  <2> QED BY <2>1, <2>2 DEF TypeOK, CoreTypes, ThreadTypes, DataTypes
<1> QED BY <1>1, PoolInvariant, PTL

(* Two threads never do IO on one handler, and in a pool that serializes   *)
(* they never work for one connection, although the list that select()     *)
(* returned may be stale when followers take handlers from it.             *)
THEOREM OneThreadPerHandler == Spec => []HandlerExclusive
<1>1. Inv => HandlerExclusive
  <2> SUFFICES ASSUME Inv, NEW t \in threads, NEW u \in threads,
                      t # u, cur[t] = cur[u], cur[t] # NoHandler
               PROVE  /\ ioCompleted[t] \/ ioCompleted[u]
                      /\ conf.serialize => cur[t] = WorkQueue
    BY DEF HandlerExclusive
  <2>1. ioCompleted[t] \/ ioCompleted[u]
    BY DEF Inv, HandlerInv, IOInv, IOThreads
  <2>2. cur[t] \in Handlers \/ cur[t] = WorkQueue
    BY DEF Inv, CoreInv, CoreTypes, ThreadTypes, EventHandlers
  <2>3. conf.serialize => cur[t] = WorkQueue
    BY <2>2 DEF Inv, HandlerInv, ExclusiveInv
  <2> QED BY <2>1, <2>3
<1> QED BY <1>1, PoolInvariant, PTL

(* The raw pointers in _handlers and in the events of select() never refer *)
(* to a handler whose finished() has run.                                  *)
THEOREM NoHandlerDangles == Spec => []NoDanglingHandler
<1>1. Inv => NoDanglingHandler
  <2> SUFFICES ASSUME Inv, NEW h \in Handlers, hstate[h] = "finished"
               PROVE  h \notin events /\ \A i \in DOMAIN handlers : handlers[i] # h
    BY DEF NoDanglingHandler
  <2>1. ~Servable(h)
    BY DEF Servable
  <2>2. DOMAIN handlers = 1..Len(handlers)
    BY DEF Inv, CoreInv, CoreTypes
  <2> QED BY <2>1, <2>2 DEF Inv, HandlerInv, EventsInv, ListOK
<1> QED BY <1>1, PoolInvariant, PTL

(* The assertions of followerWait() and of ThreadPoolWorkQueue::message(). *)
THEOREM AssertionsHold == Spec => []PoolAssertions
<1>1. Inv => PoolAssertions
  <2> SUFFICES ASSUME Inv PROVE PoolAssertions
    OBVIOUS
  <2>1. \A t \in Threads : pc[t] = "wait" /\ ~MayLead(inUseIO) => Cardinality(threads) > 1
    BY WaitsNotAlone DEF Inv
  <2>2. \A t \in Threads : item[t] = DestroyedItem => destroyed
    BY DEF Inv, HandlerInv, DestroyInv
  <2> QED BY <2>1, <2>2 DEF PoolAssertions
<1> QED BY <1>1, PoolInvariant, PTL

(* However the pool grew and shrank before, a thread is left to select and *)
(* to do IO while fewer than SizeMax threads are in the application.       *)
THEOREM ThreadLeft == Spec => []PoolNotExhausted
<1>1. Inv => PoolNotExhausted
  <2> SUFFICES ASSUME Inv, ~destroyed, ~conf.startFails, conf.sizeMax > 1, inUse < conf.sizeMax,
                      \A t \in threads : cur[t] # NoHandler /\ ioCompleted[t]
               PROVE  FALSE
    BY DEF PoolNotExhausted
  <2>0. CoreInv /\ CoreTypes /\ Multi
    BY DEF Inv, CoreInv, Multi
  <2>1. \A t \in threads : pc[t] # "exited"
    BY <2>0 DEF Inv, HandlerInv, DestroyInv, CoreTypes
  <2>2. UsedThreads = threads
    BY <2>1 DEF UsedThreads
  <2>3. inUse = Cardinality(threads)
    BY <2>0, <2>2 DEF CoreInv, PoolInv, CountInv
  <2>4. inUse < Cardinality(threads) \/ inUse = conf.sizeMax
    BY <2>0 DEF CoreInv, PoolInv, SpareInv
  <2>5. inUse \in Int /\ conf.sizeMax \in Nat
    BY <2>0, ConfFacts DEF CoreTypes
  <2> QED BY <2>3, <2>4, <2>5
<1> QED BY <1>1, PoolInvariant, PTL

=============================================================================
