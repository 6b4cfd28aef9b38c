----------------------------- MODULE Replication -----------------------------
(***************************************************************************)
(* The replicated topics of IceStorm: TopicManagerI.cpp, TopicI.cpp and    *)
(* Observers.cpp, with the part of NodeI.cpp that moves data.              *)
(*                                                                         *)
(* A replica keeps its topics and subscribers in a database and in memory, *)
(* and with them the stamp of the last update (LLU): a generation, which   *)
(* an election sets, and an iteration, which an update increments.  The    *)
(* master commits an update, sends it to its observers (the slaves it      *)
(* initialized) and answers its client when they have replied.  Updates of *)
(* different topics run concurrently; the observers are locked for one     *)
(* update at a time.                                                       *)
(*                                                                         *)
(* Elections are those of module Election, reduced to who joins whom: a    *)
(* majority of nodes, none with an update in progress, joins a coordinator *)
(* in one step.  LMDB transactions are atomic and do not fail.             *)
(***************************************************************************)
EXTENDS Naturals, FiniteSets

CONSTANTS
    Nodes,           \* the replicas
    Topics, Subs,    \* topic names and subscriber identities
    MaxOps,          \* bound: updates requested by clients
    MaxGroups,       \* bound: elections
    MaxFailures,     \* bound: failed calls
    MaxRestarts      \* bound: crashes

N == Cardinality(Nodes)

(* Service.cpp refuses to start with fewer.                                *)
ASSUME NodesAssumption == IsFiniteSet(Nodes) /\ N >= 3
ASSUME ReplicationBounds ==
    /\ MaxOps \in Nat /\ MaxGroups \in Nat \ {0} /\ MaxFailures \in Nat /\ MaxRestarts \in Nat

Majority == N \div 2

(* The key of the record that stands for the topic itself.                 *)
Placeholder == "topic"
ASSUME PlaceholderAssumption == Placeholder \notin Subs

Keys == Topics \X (Subs \cup {Placeholder})
TopicKey(t) == <<t, Placeholder>>
KeysOf(t) == {t} \X (Subs \cup {Placeholder})

(* What clients ask of a master; link() is a subscribe, reap() an          *)
(* unsubscribe, and so is an unlink() that finds its link.                 *)
Ops ==
    [op : {"create", "destroy"}, key : Topics \X {Placeholder}]
    \cup [op : {"subscribe", "unsubscribe"}, key : Topics \X Subs]

Topic(o) == TopicKey(o.key[1])

VARIABLES
    node,            \* each replica
    inits,           \* init() calls in transit
    acked,           \* what clients were told is there, and nobody removed
    stamped,         \* history: which group stamped which generation
    ops, groups, failures, restarts

vars == <<node, inits, acked, stamped, ops, groups, failures, restarts>>

-----------------------------------------------------------------------------
(* LogUpdate, ordered by generation, then iteration.                       *)
LLU(g, i) == [gen |-> g, iter |-> i]
Newer(a, b) == a.gen > b.gen \/ (a.gen = b.gen /\ a.iter > b.iter)

\* Mutant: an update counts twice.
getIncrementedLLUTwice(l) == [l EXCEPT !.iter = @ + 2]

getIncrementedLLU(l) == [l EXCEPT !.iter = @ + 1]

(* A full group on duty, c its master, no topics yet.                      *)
OnDuty(n, c) ==
    [state  |-> "Normal",     \* _state: Inactive, Reorganization or Normal
     coord  |-> c,            \* _coord
     group  |-> 1,            \* _group, 0 when private
     gen    |-> 1,            \* _generation, 0 when there is none
     phase  |-> "idle",       \* of mergeContinue(): idle, sync or init
     wait   |-> {},           \* slaves it waits for, with the LLU they accepted with
     inc    |-> 0,            \* incarnation of the observer and sync objects
     llu    |-> LLU(1, 0),    \* _lluMap
     db     |-> {},           \* _subscriberMap, the keys
     mem    |-> {},           \* _topics and their _subscribers
     obs    |-> IF n = c THEN [node : Nodes \ {c}, inc : {0}] ELSE {},
                              \* _observers
     upd    |-> {},           \* updates in progress on a master
     by     |-> 1]            \* history: the group whose init() it executed last

Init ==
    /\ \E c \in Nodes : node = [n \in Nodes |-> OnDuty(n, c)]
    /\ inits = {}
    /\ acked = {}
    /\ stamped = {[group |-> 1, gen |-> 1]}
    /\ ops = 0
    /\ groups = 1
    /\ failures = 0
    /\ restarts = 0

Fail == failures < MaxFailures /\ failures' = failures + 1

IsMaster(n) == node[n].state = "Normal" /\ node[n].coord = n

(* recovery() of node n in state r: inactive at once; with updates still   *)
(* in progress the group is kept until they are done.                      *)
Recovery(n, r) ==
    IF r.upd # {} THEN [r EXCEPT !.state = "Inactive"]
    ELSE [r EXCEPT !.state = "Inactive", !.coord = n, !.group = 0, !.gen = 0,
                   !.phase = "idle", !.wait = {}]

-----------------------------------------------------------------------------
(* A client's update on the master.                                        *)

(* startUpdate(), and the object of the topic is found.                    *)
Enter(n, o) ==
    /\ IsMaster(n) /\ Cardinality(node[n].obs) >= Majority
    /\ o.op # "create" => Topic(o) \in node[n].mem
    /\ \A u \in node[n].upd : u.o # o
    /\ ops < MaxOps /\ ops' = ops + 1
    /\ node' = [node EXCEPT ![n].upd = @ \cup
           {[o |-> o, pc |-> "entered", dead |-> FALSE, llu |-> LLU(0, 0), todo |-> {}]}]
    /\ UNCHANGED <<inits, acked, stamped, groups, failures, restarts>>

(* The lock of the topic manager (create) or of the topic is held from the *)
(* commit to the end.                                                      *)
Holds(u) == u.pc \in {"committed", "sending"}
LockFree(n, u) ==
    \A v \in node[n].upd \ {u} :
        Holds(v) => v.o.key[1] # u.o.key[1] /\ ~(u.o.op = "create" /\ v.o.op = "create")

(* Nothing to do: TopicExists, AlreadySubscribed, ObjectNotExistException, *)
(* or no record to remove.                                                 *)
Pointless(r, u) ==
    CASE u.o.op = "create"      -> u.o.key \in r.mem
      [] u.o.op = "destroy"     -> u.dead
      [] u.o.op = "subscribe"   -> ~u.dead /\ u.o.key \in r.mem
      [] u.o.op = "unsubscribe" -> u.o.key \notin r.db

(* A subscribe or a link does not look at _destroyed: on a dead topic it   *)
(* changes the database and the object nobody finds any more.  A destroy   *)
(* erases the records that follow the placeholder.                         *)
CommitDb(S, o) ==
    CASE o.op \in {"create", "subscribe"} -> S \cup {o.key}
      [] o.op = "destroy"                 -> IF o.key \in S THEN S \ KeysOf(o.key[1]) ELSE S
      [] o.op = "unsubscribe"             -> S \ {o.key}

(* A created topic is installed only at the end.                           *)
CommitMem(S, u) ==
    IF u.dead \/ u.o.op = "create" THEN S ELSE CommitDb(S, u.o)

Removes(o) ==
    CASE o.op = "destroy"     -> KeysOf(o.key[1])
      [] o.op = "unsubscribe" -> {o.key}
      [] OTHER                -> {}

Commit(n) ==
    \E u \in node[n].upd :
        /\ u.pc = "entered" /\ LockFree(n, u)
        /\ LET r == node[n]
               l == getIncrementedLLU(r.llu)
               Dies(v) == IF u.o.op = "destroy" /\ v.o.key[1] = u.o.key[1] /\ v.o.op # "create"
                          THEN [v EXCEPT !.dead = TRUE] ELSE v
           IN  IF Pointless(r, u)
               THEN /\ node' = [node EXCEPT ![n].upd = @ \ {u}]
                    /\ UNCHANGED acked
               ELSE /\ node' = [node EXCEPT ![n] =
                          [r EXCEPT !.db = CommitDb(@, u.o), !.mem = CommitMem(@, u), !.llu = l,
                                    !.upd = {Dies(v) : v \in @ \ {u}} \cup
                                            {[u EXCEPT !.pc = "committed", !.llu = l]}]]
                    /\ acked' = acked \ Removes(u.o)
        /\ UNCHANGED <<inits, stamped, ops, groups, failures, restarts>>

(* The observers are locked and called.                                    *)
Send(n) ==
    \E u \in node[n].upd :
        /\ u.pc = "committed"
        /\ \A v \in node[n].upd : v.pc # "sending"
        /\ node' = [node EXCEPT ![n].upd =
               (@ \ {u}) \cup {[u EXCEPT !.pc = "sending", !.todo = node[n].obs]}]
        /\ UNCHANGED <<inits, acked, stamped, ops, groups, failures, restarts>>

(* The answer of observers() decides; a created topic is installed.        *)
Finish(n) ==
    \E u \in node[n].upd :
        /\ u.pc = "sending" /\ u.todo = {}
        /\ LET ok == Cardinality(node[n].obs) >= Majority
           IN  /\ node' = [node EXCEPT ![n].upd = @ \ {u},
                      ![n].mem = IF ok /\ u.o.op = "create" THEN @ \cup {u.o.key} ELSE @]
               /\ acked' = IF ok /\ u.o.op \in {"create", "subscribe"} /\ ~u.dead
                           THEN acked \cup {u.o.key} ELSE acked
        /\ UNCHANGED <<inits, stamped, ops, groups, failures, restarts>>

-----------------------------------------------------------------------------
(* The update at an observer.                                              *)

\* Mutant: the generation is not compared.
startObserverUpdateAny(m, r, l) == r.state = "Normal" /\ r.coord # m

startObserverUpdate(m, r, l) == r.state = "Normal" /\ r.coord # m /\ r.gen = l.gen

(* ObserverInconsistencyException: not on duty in the generation, or the   *)
(* topic is there, or not there.                                           *)
Inconsistent(m, r, u) ==
    \/ ~startObserverUpdate(m, r, u.llu)
    \/ IF u.o.op = "create" THEN u.o.key \in r.db ELSE Topic(u.o) \notin r.mem

Observe(r, u) ==
    IF u.o.op = "subscribe" /\ u.o.key \in r.mem THEN r
    ELSE [r EXCEPT !.db = CommitDb(@, u.o), !.mem = CommitDb(@, u.o), !.llu = u.llu]

(* A refusal calls recovery(generation).                                   *)
AtObserver(m, u) ==
    IF ~Inconsistent(m, node[m], u) THEN Observe(node[m], u)
    ELSE IF node[m].gen = u.llu.gen THEN Recovery(m, node[m])
    ELSE node[m]

(* wait(): an observer whose call ends in a local exception is erased; the *)
(* user exception of a refusal is not looked at.                           *)
Reply(n) ==
    \E u \in node[n].upd : \E w \in u.todo :
        LET answered == [u EXCEPT !.todo = @ \ {w}]
            gone     == w.inc # node[w.node].inc
            Ended(r, erased) ==
                [r EXCEPT !.upd = (@ \ {u}) \cup {answered}, !.obs = @ \ erased]
            After(r) == [node EXCEPT ![w.node] = r]
        IN  /\ u.pc = "sending"
            /\ \/ /\ ~gone
                  /\ node' = [After(AtObserver(w.node, u)) EXCEPT ![n] = Ended(@, {})]
                  /\ UNCHANGED failures
               \/ /\ gone
                  /\ node' = [node EXCEPT ![n] = Ended(@, {w})]
                  /\ UNCHANGED failures
               \/ /\ ~gone
                  /\ \E r \in {node[w.node], AtObserver(w.node, u)} :
                         node' = [After(r) EXCEPT ![n] = Ended(@, {w})]
                  /\ Fail
            /\ UNCHANGED <<inits, acked, stamped, ops, groups, restarts>>

(* startUpdate() finds observers dead, and then too few of them.           *)
MajorityLost(n) ==
    /\ IsMaster(n)
    /\ \/ /\ Cardinality(node[n].obs) < Majority
          /\ node' = [node EXCEPT ![n] = Recovery(n, @)]
          /\ UNCHANGED failures
       \/ /\ \E w \in node[n].obs :
               node' = [node EXCEPT ![n].obs = @ \ {w}]
          /\ Cardinality(node[n].obs) >= Majority
          /\ \A u \in node[n].upd : u.pc # "sending"
          /\ Fail
    /\ UNCHANGED <<inits, acked, stamped, ops, groups, restarts>>

-----------------------------------------------------------------------------
(* Elections.                                                              *)

(* A node that lost its coordinator, or believes so, stops serving.        *)
Leaves(n) ==
    /\ node[n].state # "Inactive" \/ (node[n].group # 0 /\ node[n].upd = {})
    /\ node' = [node EXCEPT ![n] = Recovery(n, @)]
    /\ IF \/ node[n].state = "Inactive"
          \/ node[n].coord # n /\ node[node[n].coord].group # node[n].group
       THEN UNCHANGED failures ELSE Fail
    /\ UNCHANGED <<inits, acked, stamped, ops, groups, restarts>>

\* Mutant: the scan that removes topics and subscribers is missing.
observerInitKeeps(r, l, content) ==
    [r EXCEPT !.llu = l, !.db = content, !.mem = @ \cup content, !.obs = {}]

(* observerInit(): database and memory are replaced.                       *)
observerInit(r, l, content) ==
    [r EXCEPT !.llu = l, !.db = content, !.mem = content, !.obs = {}]

(* The nodes S join coordinator n; none is in another election or has an   *)
(* update in progress.                                                     *)
Elect(n, S) ==
    /\ groups < MaxGroups /\ groups' = groups + 1
    /\ Cardinality(S) >= Majority
    /\ node[n].coord = n
    /\ \A m \in S \cup {n} : node[m].state # "Reorganization" /\ node[m].upd = {}
    /\ node' = [m \in Nodes |->
           IF m = n
           THEN [node[m] EXCEPT !.state = "Reorganization", !.group = groups + 1,
                                !.phase = "sync",
                                !.wait = {[node |-> k, llu |-> node[k].llu] : k \in S}]
           ELSE IF m \in S
           THEN [node[m] EXCEPT !.state = "Reorganization", !.coord = n, !.group = groups + 1]
           ELSE node[m]]
    /\ UNCHANGED <<inits, acked, stamped, ops, failures, restarts>>

(* mergeContinue(): the newest stamp among the slaves; if it is newer than *)
(* the coordinator's own, their content replaces its own.  Then            *)
(* initMaster() stamps the database with a new generation and sends what   *)
(* is in memory to every slave.                                            *)
SyncAndInit(n) ==
    /\ node[n].phase = "sync"
    /\ \E m \in node[n].wait :
        /\ \A k \in node[n].wait : ~Newer(k.llu, m.llu)
        /\ LET new == LLU(m.llu.gen + 1, 0)
               src == node[m.node]
               r   == IF Newer(m.llu, node[n].llu) THEN observerInit(node[n], src.llu, src.mem)
                      ELSE node[n]
           IN  /\ node' = [node EXCEPT ![n] =
                      [r EXCEPT !.llu = new, !.phase = "init", !.obs = {}]]
               /\ stamped' = stamped \cup {[group |-> node[n].group, gen |-> new.gen]}
               /\ inits' = inits \cup
                      {[from |-> n, to |-> k.node, inc |-> node[k.node].inc, llu |-> new,
                        content |-> r.mem, group |-> node[n].group] : k \in node[n].wait}
    /\ UNCHANGED <<acked, ops, groups, failures, restarts>>

checkObserverInit(m) == node[m].state = "Reorganization" /\ node[m].coord # m

(* init() executes at a slave, whichever group it is reorganizing in; its  *)
(* answer counts if the master still waits for it.                         *)
InitSlave(m) ==
    \E i \in inits :
        LET mine      == {w \in node[i.from].wait : w.node = m}
            waited    == node[i.from].phase = "init" /\ mine # {} /\ node[i.from].llu = i.llu
            Answer(r) == IF ~waited THEN r
                         ELSE IF ~checkObserverInit(m) THEN Recovery(i.from, r)
                         ELSE [r EXCEPT !.wait = @ \ mine,
                                        !.obs = @ \cup {[node |-> m, inc |-> i.inc]}]
            Inited    == IF ~checkObserverInit(m) THEN node[m]
                         ELSE [observerInit(node[m], i.llu, i.content) EXCEPT !.by = i.group]
        IN  /\ i.to = m /\ i.inc = node[m].inc
            /\ inits' = inits \ {i}
            /\ node' = [[node EXCEPT ![m] = Inited] EXCEPT ![i.from] = Answer(@)]
            /\ UNCHANGED <<acked, stamped, ops, groups, failures, restarts>>

(* Everyone is told to go; a node that has left the group ignores it.      *)
ReadyAll(n) ==
    /\ node[n].phase = "init" /\ node[n].wait = {}
    /\ node' = [m \in Nodes |->
           IF m = n THEN [node[m] EXCEPT !.state = "Normal", !.phase = "idle",
                                         !.gen = node[n].llu.gen]
           ELSE IF /\ node[m].state = "Reorganization" /\ node[m].group = node[n].group
                   /\ [node |-> m, inc |-> node[m].inc] \in node[n].obs
           THEN [node[m] EXCEPT !.state = "Normal", !.gen = node[n].llu.gen]
           ELSE node[m]]
    /\ UNCHANGED <<inits, acked, stamped, ops, groups, failures, restarts>>

(* The first records of the topics in database S, in key order: the        *)
(* placeholder, or any other if it is missing.                             *)
FirstRecords(S) ==
    {F \in SUBSET S : \A k \in S :
        /\ Cardinality(F \cap KeysOf(k[1])) = 1
        /\ TopicKey(k[1]) \in S => TopicKey(k[1]) \in F}

(* The constructor of TopicManagerImpl: the first record of a topic is     *)
(* taken for its placeholder, and the stamp is set to {0, 0}.              *)
Restart(n) ==
    /\ restarts < MaxRestarts /\ restarts' = restarts + 1
    /\ \E F \in FirstRecords(node[n].db) :
           node' = [node EXCEPT ![n] =
               [Recovery(n, [@ EXCEPT !.upd = {}]) EXCEPT
                   !.inc = node[n].inc + 1, !.llu = LLU(0, 0),
                   !.mem = (node[n].db \ F) \cup {TopicKey(k[1]) : k \in F},
                   !.obs = {}]]
    /\ UNCHANGED <<inits, acked, stamped, ops, groups, failures>>

-----------------------------------------------------------------------------

Next ==
    \E n \in Nodes :
        \/ \E o \in Ops : Enter(n, o)
        \/ Commit(n) \/ Send(n) \/ Reply(n) \/ Finish(n) \/ MajorityLost(n)
        \/ Leaves(n) \/ Restart(n)
        \/ \E S \in SUBSET (Nodes \ {n}) : Elect(n, S)
        \/ SyncAndInit(n) \/ InitSlave(n) \/ ReadyAll(n)

Spec == Init /\ [][Next]_vars

-----------------------------------------------------------------------------
(* Properties.                                                             *)

Stamps == [gen : 0..MaxGroups, iter : 0..MaxOps]
Observer == [node : Nodes, inc : 0..MaxRestarts]
Updates == [o : Ops, pc : {"entered", "committed", "sending"}, dead : BOOLEAN,
            llu : Stamps, todo : SUBSET Observer]

(* The type of every variable.                                             *)
TypeOK ==
    /\ node \in [Nodes ->
         [state : {"Inactive", "Reorganization", "Normal"}, coord : Nodes,
          group : 0..MaxGroups, gen : 0..MaxGroups,
          phase : {"idle", "sync", "init"}, wait : SUBSET [node : Nodes, llu : Stamps], inc : 0..MaxRestarts,
          llu : Stamps, db : SUBSET Keys, mem : SUBSET Keys, obs : SUBSET Observer,
          upd : SUBSET Updates, by : 1..MaxGroups]]
    /\ inits \subseteq
         [from : Nodes, to : Nodes, inc : 0..MaxRestarts, llu : Stamps, content : SUBSET Keys,
          group : 1..MaxGroups]
    /\ stamped \subseteq [group : 1..MaxGroups, gen : 1..MaxGroups]
    /\ acked \subseteq Keys
    /\ ops \in 0..MaxOps /\ groups \in 1..MaxGroups
    /\ failures \in 0..MaxFailures /\ restarts \in 0..MaxRestarts

(* Database and memory of a slave on duty agree, whatever groups, failures *)
(* and restarts it went through: observerInit() and the observer calls     *)
(* write both.                                                             *)
DiskIsMemory ==
    \A m \in Nodes :
        node[m].state = "Normal" /\ node[m].coord # m => node[m].db = node[m].mem

(* A slave on duty that its master counts among its observers has the      *)
(* topics of the master whenever no update is on its way, if it was        *)
(* initialized by that master and no other group has the same generation.  *)
(* (Without the two conditions it does not hold: checkObserverInit() looks *)
(* at no generation, and a generation is computed from the stamps of the   *)
(* slaves alone.)                                                          *)
TopicsIn(S) == {k \in S : k[2] = Placeholder}

OnlyGroup(g) == \A a, b \in stamped : a.gen = g /\ b.gen = g => a = b

SlaveMirrors ==
    \A n, m \in Nodes :
        /\ IsMaster(n) /\ node[n].upd = {} /\ Cardinality(node[n].obs) >= Majority
        /\ [node |-> m, inc |-> node[m].inc] \in node[n].obs
        /\ node[m].state = "Normal" /\ node[m].coord = n /\ node[m].group = node[n].group
        /\ node[m].by = node[n].group /\ OnlyGroup(node[n].gen)
        => TopicsIn(node[m].mem) = TopicsIn(node[n].mem)

(* The comment after the sync in mergeContinue(): "At this point we've     *)
(* ensured that we have the latest database state".  What clients were     *)
(* told is there, and a majority of the nodes has on disk, is in it.       *)
OnMajority(k) == Cardinality({m \in Nodes : k \in node[m].db}) > Majority

LatestDatabaseState ==
    [][\A n \in Nodes :
          node[n].phase = "sync" /\ node'[n].phase = "init"
              => \A k \in acked : OnMajority(k) => k \in node'[n].mem]_vars
=============================================================================
