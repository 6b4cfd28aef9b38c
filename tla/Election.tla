------------------------------- MODULE Election -------------------------------
(***************************************************************************)
(* The election of an IceStorm master: cpp/src/IceStorm/NodeI.cpp.         *)
(*                                                                         *)
(* Every replica runs one NodeI.  Its monitor is released around every     *)
(* call to another node and while it waits for replica updates to finish,  *)
(* so an action here is one critical section, or one call executed at the  *)
(* other node.  On each node three kinds of threads interleave: the timer  *)
(* thread (check, merge, mergeContinue, timeout, one at a time), a thread  *)
(* dispatching an invitation, and client threads (updates, cached reads    *)
(* and calls forwarded to the master).                                     *)
(*                                                                         *)
(* Timeouts fire at any time.  A oneway message is delivered once, in any  *)
(* order, at any time or never.  A twoway call executes at the other node  *)
(* and returns, or fails before or after it executed.  _invitesIssued and  *)
(* _invitesAccepted only shorten a timeout and are left out.  A generation *)
(* is identified with the group that established it; how its number is     *)
(* computed from the databases is the subject of module Replication.       *)
(***************************************************************************)
EXTENDS Naturals, FiniteSets

CONSTANTS
    Nodes,           \* the replicas
    Bounds           \* what an instance starts from and its bounds

N == Cardinality(Nodes)

(* Service.cpp refuses to start with fewer.                                *)
ASSUME NodesAssumption == IsFiniteSet(Nodes) /\ N >= 3
ASSUME ElectionBounds ==
    Bounds \subseteq [coldStart : BOOLEAN, checks : Nat, failures : Nat, updates : Nat,
                      forwards : Nat, restarts : Nat]

(* A group no other node knows the name of: the one recovery() creates.    *)
Private == 0

VARIABLES
    node,            \* the NodeI of each replica, with its threads
    msgs,            \* oneway invitations and accepts in transit
    merges,          \* merges fired, which number their groups
    checks, failures, forwards, restarts,
    bounds           \* the bounds of the instance, which never change

vars == <<node, msgs, merges, checks, failures, forwards, restarts, bounds>>

ColdStart == bounds.coldStart      \* start with no group, or with a full group on duty
MaxChecks == bounds.checks         \* bound: checks begun, hence merges
MaxFailures == bounds.failures     \* bound: failed calls and failed sends
MaxUpdates == bounds.updates       \* bound: updates or reads in progress on a node
MaxForwards == bounds.forwards     \* bound: calls forwarded to a master
MaxRestarts == bounds.restarts     \* bound: crashes

-----------------------------------------------------------------------------
(* The state of one node.                                                  *)

(* The constructor and start(); m is 0.                                    *)
Started(n, m) ==
    [state   |-> "Inactive",  \* _state
     coord   |-> n,           \* _coord
     group   |-> Private,     \* _group
     up      |-> {},          \* _up, the ids
     max     |-> m,           \* _max
     gen     |-> Private,     \* _generation (Private is -1)
     proxy   |-> {},          \* _coordinatorProxy: whose, if any
     check   |-> "queued",    \* _checkTask: none, queued or running
     merge   |-> "none",      \* _mergeTask: none, queued or fired
     found   |-> {},          \* coordinators check() found, for merge()
     mc      |-> FALSE,       \* _mergeContinueTask
     timeout |-> FALSE,       \* _timeoutTask
     timer   |-> "idle",      \* where the timer thread is
     set     |-> {},          \* its local set: tmpSet, or the coordinator
     todo    |-> {},          \* nodes of it still to be called
     gp      |-> Private,     \* its local group
     inv     |-> {},          \* the thread dispatching an invitation
     updates |-> 0,           \* _updateCounter
     fwd     |-> Private,     \* generation of a call forwarded to the master
     waiting |-> {}]          \* threads waiting in recovery()

(* After a first election by all nodes: c is the master of group 1.        *)
OnDuty(n, c) ==
    [Started(n, N) EXCEPT !.state = "Normal", !.coord = c, !.group = 1, !.gen = 1,
        !.up = IF n = c THEN Nodes \ {c} ELSE {}, !.proxy = IF n = c THEN {} ELSE {c},
        !.timeout = (n # c)]

Init ==
    /\ bounds \in Bounds
    /\ \/ ColdStart /\ node = [n \in Nodes |-> Started(n, 0)] /\ merges = 0
       \/ /\ ~ColdStart /\ merges = 1
          /\ \E c \in Nodes : node = [n \in Nodes |-> OnDuty(n, c)]
    /\ msgs = {}
    /\ checks = 0
    /\ failures = 0
    /\ forwards = 0
    /\ restarts = 0

Busy(r) == r.state \in {"Election", "Reorganization"}

(* Nothing else runs on the timer thread.                                  *)
TimerIdle(r) == r.timer = "idle" /\ "timer" \notin r.waiting

(* _max is raised, never lowered.                                          *)
Raise(max, x) == IF x > max THEN x ELSE max

Fail == failures < MaxFailures /\ failures' = failures + 1

-----------------------------------------------------------------------------
(* recovery(), by thread t of node n in state r: inactive at once, and a   *)
(* new private group when no update is in progress.  The merge continue    *)
(* task is not cancelled.                                                  *)

\* Mutant: the old group keeps its name.
NewPrivateGroupOldName(n, r) ==
    [r EXCEPT !.gen = Private, !.coord = n, !.up = {}, !.merge = "none", !.timeout = FALSE,
              !.check = IF @ = "none" THEN "queued" ELSE @]

NewPrivateGroup(n, r) ==
    [r EXCEPT !.group = Private, !.gen = Private, !.coord = n, !.up = {},
              !.merge = "none", !.timeout = FALSE,
              !.check = IF @ = "none" THEN "queued" ELSE @]

\* Mutant: updates in progress are not waited for.
RecoveryAtOnce(n, r, t) == NewPrivateGroup(n, [r EXCEPT !.state = "Inactive"])

Recovery(n, r, t) ==
    IF r.updates = 0
    THEN NewPrivateGroup(n, [r EXCEPT !.state = "Inactive"])
    ELSE [r EXCEPT !.state = "Inactive", !.waiting = @ \cup {t}]

RecoveryResumes(n) ==
    \E t \in node[n].waiting :
        /\ node[n].updates = 0
        /\ LET r == [node[n] EXCEPT !.waiting = @ \ {t}]
           IN  node' = [node EXCEPT ![n] = NewPrivateGroup(n, r)]
        /\ UNCHANGED <<msgs, merges, failures, checks, forwards, restarts>>

-----------------------------------------------------------------------------
(* check().  While the node is in an election or a slave the task is only  *)
(* scheduled again.                                                        *)

(* Slaves the observers reported unreachable are removed; below half of    *)
(* the nodes the replica stops.  Then the other nodes are asked, unlocked. *)
CheckStart(n) ==
    /\ TimerIdle(node[n]) /\ node[n].check = "queued"
    /\ ~Busy(node[n]) /\ node[n].coord = n
    /\ checks < MaxChecks /\ checks' = checks + 1
    /\ \E dead \in SUBSET node[n].up :
        LET r == [node[n] EXCEPT !.up = @ \ dead]
        IN  /\ node' = [node EXCEPT ![n] =
                   IF dead # {} /\ Cardinality(r.up) < N \div 2
                   THEN Recovery(n, [r EXCEPT !.check = "none"], "timer")
                   ELSE [r EXCEPT !.check = "running", !.timer = "poll",
                                  !.todo = Nodes \ {n}]]
            /\ IF dead = {} THEN UNCHANGED failures ELSE Fail
    /\ UNCHANGED <<msgs, merges, forwards, restarts>>

areYouCoordinator(m) == ~Busy(node[m]) /\ node[m].coord = m

CheckCall(n) ==
    /\ node[n].timer = "poll"
    /\ \E m \in node[n].todo :
        \/ /\ node' = [node EXCEPT ![n].todo = @ \ {m},
                 ![n].found = IF areYouCoordinator(m) THEN @ \cup {m} ELSE @]
           /\ UNCHANGED failures
        \/ /\ node' = [node EXCEPT ![n].todo = @ \ {m}]
           /\ Fail
    /\ UNCHANGED <<msgs, merges, checks, forwards, restarts>>

CheckEnd(n) ==
    /\ node[n].timer = "poll" /\ node[n].todo = {}
    /\ LET r == [node[n] EXCEPT !.timer = "idle"]
       IN  node' = [node EXCEPT ![n] =
               IF Busy(r) \/ r.coord # n THEN [r EXCEPT !.check = "none", !.found = {}]
               ELSE IF r.found = {} THEN [r EXCEPT !.check = "queued"]
               ELSE [r EXCEPT !.check = "none", !.merge = "queued"]]
    /\ UNCHANGED <<msgs, merges, failures, checks, forwards, restarts>>

-----------------------------------------------------------------------------
(* merge().                                                                *)

(* The timer takes the task: from here on it cannot be cancelled.  The     *)
(* name the group will have, if it comes to be, is set aside.              *)
MergeFires(n) ==
    /\ TimerIdle(node[n]) /\ node[n].merge = "queued"
    /\ merges' = merges + 1
    /\ node' = [node EXCEPT ![n].merge = "fired", ![n].timer = "merge",
                            ![n].gp = merges + 1]
    /\ UNCHANGED <<msgs, failures, checks, forwards, restarts>>

Invitations(n, g, S) == [type : {"invitation"}, from : {n}, to : S, group : {g}]

(* A new group; the coordinators found and the old members are invited.    *)
(* An invitation that cannot be sent is dropped.                           *)
NewGroup(n, r) ==
    /\ node' = [node EXCEPT ![n] =
           [r EXCEPT !.timer = "idle", !.group = r.gp, !.gp = Private, !.coord = n,
                     !.up = {}, !.found = {}, !.mc = TRUE]]
    /\ \E lost \in SUBSET (r.found \cup r.up) :
           /\ msgs' = msgs \cup Invitations(n, r.gp, (r.found \cup r.up) \ lost)
           /\ IF lost = {} THEN UNCHANGED failures ELSE Fail

MergeBegins(n) ==
    /\ node[n].timer = "merge"
    /\ LET r == [node[n] EXCEPT !.merge = "none"]
       IN  IF Busy(r)
           THEN /\ node' = [node EXCEPT ![n] =
                            [r EXCEPT !.timer = "idle", !.found = {}, !.gp = Private]]
                /\ UNCHANGED <<msgs, failures>>
           ELSE IF r.updates > 0
           THEN /\ node' = [node EXCEPT ![n] =
                            [r EXCEPT !.timer = "mergewait", !.state = "Election"]]
                /\ UNCHANGED <<msgs, failures>>
           ELSE NewGroup(n, [r EXCEPT !.state = "Election"])
    /\ UNCHANGED <<merges, checks, forwards, restarts>>

MergeResumes(n) ==
    /\ node[n].timer = "mergewait" /\ node[n].updates = 0
    /\ NewGroup(n, node[n])
    /\ UNCHANGED <<merges, checks, forwards, restarts>>

-----------------------------------------------------------------------------
(* mergeContinue().                                                        *)

(* Before a first full group every node has to take part, later a majority.*)
\* Mutant: a majority is enough on startup too.
EnoughMajority(r) == Cardinality(r.up) >= N \div 2

Enough(r) ==
    LET ingroup == Cardinality(r.up)
    IN  (r.max = N \/ ingroup = N - 1) /\ ingroup >= N \div 2

MergeContinues(n) ==
    /\ TimerIdle(node[n]) /\ node[n].mc
    /\ LET r == [node[n] EXCEPT !.mc = FALSE, !.state = "Reorganization"]
       IN  node' = [node EXCEPT ![n] =
               IF Enough(r)
               THEN [r EXCEPT !.timer = "sync", !.set = r.up, !.gp = r.group]
               ELSE Recovery(n, r, "timer")]
    /\ UNCHANGED <<msgs, merges, failures, checks, forwards, restarts>>

(* A call failed: the timer thread gives up the group.                     *)
GivesUp(n, r) ==
    Recovery(n, [r EXCEPT !.timer = "idle", !.set = {}, !.todo = {}, !.gp = Private], "timer")

GroupSize(S) == Cardinality(S) + 1

(* The database is brought up to date, from another node if need be.       *)
Sync(n) ==
    /\ node[n].timer = "sync"
    /\ \/ /\ node' = [node EXCEPT ![n].timer = "init", ![n].todo = node[n].set,
                          ![n].max = Raise(@, GroupSize(node[n].set))]
          /\ UNCHANGED failures
       \/ /\ node' = [node EXCEPT ![n] = GivesUp(n, @)]
          /\ Fail
    /\ UNCHANGED <<msgs, merges, checks, forwards, restarts>>

checkObserverInit(m) == node[m].state = "Reorganization" /\ node[m].coord # m

(* initMaster(): every slave is sent the content; one refusal or failure   *)
(* abandons the group.                                                     *)
InitMaster(n) ==
    /\ node[n].timer = "init"
    /\ \E m \in node[n].todo :
       LET r == [node[n] EXCEPT !.todo = @ \ {m}]
       IN  \/ /\ node' = [node EXCEPT ![n] =
                    IF ~checkObserverInit(m) THEN GivesUp(n, r)
                    ELSE IF r.todo = {} THEN [r EXCEPT !.timer = "ready", !.todo = r.set]
                    ELSE r]
              /\ UNCHANGED failures
           \/ /\ node' = [node EXCEPT ![n] = GivesUp(n, r)]
              /\ Fail
    /\ UNCHANGED <<msgs, merges, checks, forwards, restarts>>

(* ready() executed at a node in state r, called by n for group g.         *)
Ready(r, n, g, x) ==
    IF r.state = "Reorganization" /\ r.group = g /\ r.coord = n
    THEN [r EXCEPT !.max = Raise(@, x), !.gen = g, !.state = "Normal", !.proxy = {n},
                   !.check = IF @ = "none" THEN "queued" ELSE @]
    ELSE r

(* Each slave in turn is told to go; the code goes by id, which has no     *)
(* other meaning here, so any order is allowed.                            *)
CallReady(n) ==
    /\ node[n].timer = "ready"
    /\ \E m \in node[n].todo :
       LET told == Ready(node[m], n, node[n].gp, node[n].max)
           After(r) == [node EXCEPT ![m] = r]
       IN  \/ /\ node' = [After(told) EXCEPT ![n].todo = @ \ {m}]
              /\ UNCHANGED failures
           \/ /\ \E r \in {told, node[m]} : node' = [After(r) EXCEPT ![n] = GivesUp(n, @)]
              /\ Fail
    /\ UNCHANGED <<msgs, merges, checks, forwards, restarts>>

(* On duty, whatever other threads did to the node in the meantime.        *)
MasterReady(n) ==
    /\ node[n].timer = "ready" /\ node[n].todo = {}
    /\ node' = [node EXCEPT ![n] =
           [@ EXCEPT !.timer = "idle", !.set = {}, !.state = "Normal", !.proxy = {},
                     !.gen = node[n].gp, !.gp = Private, !.check = "queued"]]
    /\ UNCHANGED <<msgs, merges, failures, checks, forwards, restarts>>

-----------------------------------------------------------------------------
(* invitation(j, gn), dispatched at node n.                                *)

(* Join the group; an old coordinator forwards the invitation to its old   *)
(* members.                                                                *)
Joins(n, r, j, g) ==
    /\ node' = [node EXCEPT ![n] =
           [r EXCEPT !.coord = j, !.group = g,
                     !.inv = {[pc |-> "accept", from |-> j, group |-> g]}]]
    /\ \E lost \in SUBSET r.up :
           /\ msgs' = (msgs \ {[type |-> "invitation", from |-> j, to |-> n, group |-> g]})
                      \cup (IF r.coord = n THEN Invitations(j, g, r.up \ lost) ELSE {})
           /\ IF lost = {} THEN UNCHANGED failures ELSE r.coord = n /\ Fail

Invitation(n) ==
    \E m \in msgs :
        /\ m.type = "invitation" /\ m.to = n
        /\ node[n].inv = {} /\ "dispatch" \notin node[n].waiting
        /\ LET r == [node[n] EXCEPT !.merge = "none", !.state = "Election",
                                    !.found = IF node[n].merge = "queued" THEN {} ELSE @]
           IN  IF Busy(node[n]) \/ node[n].merge = "fired"
               THEN /\ msgs' = msgs \ {m}
                    /\ UNCHANGED <<node, failures>>
               ELSE IF r.updates > 0
               THEN /\ node' = [node EXCEPT ![n] =
                          [r EXCEPT !.inv = {[pc |-> "wait", from |-> m.from, group |-> m.group]}]]
                    /\ msgs' = msgs \ {m}
                    /\ UNCHANGED failures
               ELSE Joins(n, r, m.from, m.group)
        /\ UNCHANGED <<merges, checks, forwards, restarts>>

InvitationResumes(n) ==
    \E v \in node[n].inv :
        /\ v.pc = "wait" /\ node[n].updates = 0
        /\ Joins(n, node[n], v.from, v.group)
        /\ UNCHANGED <<merges, checks, forwards, restarts>>

(* The second critical section: reorganizing, with a watch on the new      *)
(* coordinator; then the acceptance is sent.  If the send fails the node   *)
(* recovers, later.                                                        *)
Reorganizes(n) ==
    \E v \in node[n].inv :
        /\ v.pc = "accept"
        /\ LET r == [node[n] EXCEPT !.state = "Reorganization", !.timeout = TRUE]
               a == [type |-> "accept", from |-> n, to |-> v.from, group |-> v.group,
                     max |-> r.max]
           IN  \/ /\ node' = [node EXCEPT ![n] = [r EXCEPT !.inv = {}]]
                  /\ msgs' = msgs \cup {a}
                  /\ UNCHANGED failures
               \/ /\ node' = [node EXCEPT ![n] =
                                [r EXCEPT !.inv = {[v EXCEPT !.pc = "failed"]}]]
                  /\ Fail
                  /\ UNCHANGED msgs
        /\ UNCHANGED <<merges, checks, forwards, restarts>>

AcceptFailed(n) ==
    /\ \E v \in node[n].inv : v.pc = "failed"
    /\ node' = [node EXCEPT ![n] = Recovery(n, [@ EXCEPT !.inv = {}], "dispatch")]
    /\ UNCHANGED <<msgs, merges, failures, checks, forwards, restarts>>

(* accept(), dispatched at the coordinator n.                              *)
Accept(n) ==
    \E m \in msgs :
        /\ m.type = "accept" /\ m.to = n
        /\ msgs' = msgs \ {m}
        /\ IF node[n].state = "Election" /\ node[n].group = m.group /\ node[n].coord = n
           THEN node' = [node EXCEPT ![n].up = @ \cup {m.from},
                                     ![n].max = Raise(@, m.max)]
           ELSE UNCHANGED node
        /\ UNCHANGED <<merges, failures, checks, forwards, restarts>>

-----------------------------------------------------------------------------
(* timeout(), repeated while the node has a coordinator.                   *)

TimeoutStart(n) ==
    /\ TimerIdle(node[n]) /\ node[n].timeout /\ node[n].coord # n
    /\ node' = [node EXCEPT ![n].timer = "there", ![n].set = {node[n].coord},
                            ![n].gp = node[n].group]
    /\ UNCHANGED <<msgs, merges, failures, checks, forwards, restarts>>

\* Mutant: a coordinator answers for any group.
areYouThereAny(m, g, j) == node[m].coord = m

areYouThere(m, g, j) == node[m].group = g /\ node[m].coord = m /\ j \in node[m].up

TimeoutCall(n) ==
    /\ node[n].timer = "there"
    /\ \E m \in node[n].set :
        \/ /\ node' = [node EXCEPT ![n].set = {}, ![n].gp = Private,
                 ![n].timer = IF areYouThere(m, node[n].gp, n) THEN "idle" ELSE "lost"]
           /\ UNCHANGED failures
        \/ /\ node' = [node EXCEPT ![n].set = {}, ![n].gp = Private, ![n].timer = "lost"]
           /\ Fail
    /\ UNCHANGED <<msgs, merges, checks, forwards, restarts>>

TimeoutRecovers(n) ==
    /\ node[n].timer = "lost"
    /\ node' = [node EXCEPT ![n] = Recovery(n, [@ EXCEPT !.timer = "idle"], "timer")]
    /\ UNCHANGED <<msgs, merges, failures, checks, forwards, restarts>>

-----------------------------------------------------------------------------
(* Client threads.                                                         *)

(* startCachedRead(), or startUpdate() or updateMaster() on a master, and  *)
(* finishUpdate().                                                         *)
StartUpdate(n) ==
    /\ node[n].state = "Normal"
    /\ node[n].updates < MaxUpdates
    /\ node' = [node EXCEPT ![n].updates = @ + 1]
    /\ UNCHANGED <<msgs, merges, failures, checks, forwards, restarts>>

\* Mutant: an update that was never started is finished.
FinishUpdateUnpaired(n) ==
    /\ node' = [node EXCEPT ![n].updates = @ - 1]
    /\ UNCHANGED <<msgs, merges, failures, checks, forwards, restarts>>

FinishUpdate(n) ==
    /\ node[n].updates > 0
    /\ node' = [node EXCEPT ![n].updates = @ - 1]
    /\ UNCHANGED <<msgs, merges, failures, checks, forwards, restarts>>

startObserverUpdate(r, g) == r.state = "Normal" /\ r.proxy # {} /\ r.gen = g

(* An update in progress on master m reaches its slave n, which takes part *)
(* in it, or refuses it and calls recovery(generation).                    *)
ObserverUpdate(n) ==
    /\ \E m \in Nodes \ {n} :
        LET g == node[m].gen
        IN  /\ node[m].updates > 0 /\ node[m].proxy = {} /\ n \in node[m].up
            /\ \/ /\ startObserverUpdate(node[n], g)
                  /\ node[n].updates < MaxUpdates
                  /\ node' = [node EXCEPT ![n].updates = @ + 1]
               \/ /\ ~startObserverUpdate(node[n], g) /\ node[n].gen = g
                  /\ "client" \notin node[n].waiting
                  /\ node' = [node EXCEPT ![n] = Recovery(n, @, "client")]
    /\ UNCHANGED <<msgs, merges, failures, checks, forwards, restarts>>

(* startUpdate() and updateMaster() on a master that lost its majority.    *)
MajorityLost(n) ==
    /\ node[n].state = "Normal" /\ node[n].proxy = {}
    /\ "client" \notin node[n].waiting
    /\ node' = [node EXCEPT ![n] = Recovery(n, @, "client")]
    /\ Fail
    /\ UNCHANGED <<msgs, merges, checks, forwards, restarts>>

(* A slave forwards a call to the master, with the generation it read.     *)
Forward(n) ==
    /\ node[n].state = "Normal" /\ node[n].proxy # {}
    /\ node[n].fwd = Private /\ "client" \notin node[n].waiting
    /\ forwards < MaxForwards
    /\ node' = [node EXCEPT ![n].fwd = node[n].gen]
    /\ forwards' = forwards + 1
    /\ UNCHANGED <<msgs, merges, failures, checks, restarts>>

(* The call fails: recovery(generation), ignored by a node that has moved  *)
(* to another generation.                                                  *)
ForwardFails(n) ==
    /\ node[n].fwd # Private
    /\ LET r == [node[n] EXCEPT !.fwd = Private]
       IN  node' = [node EXCEPT ![n] =
               IF node[n].fwd = r.gen THEN Recovery(n, r, "client") ELSE r]
    /\ Fail
    /\ UNCHANGED <<msgs, merges, checks, forwards, restarts>>

(* The process dies and is started again: only _max, the group and the     *)
(* threads are lost, all of them volatile.                                 *)
Restart(n) ==
    /\ restarts < MaxRestarts
    /\ restarts' = restarts + 1
    /\ node' = [node EXCEPT ![n] = Started(n, 0)]
    /\ UNCHANGED <<msgs, merges, failures, checks, forwards>>

-----------------------------------------------------------------------------

TimerThread(n) ==
    \/ CheckStart(n) \/ CheckCall(n) \/ CheckEnd(n)
    \/ MergeFires(n) \/ MergeBegins(n) \/ MergeResumes(n)
    \/ MergeContinues(n) \/ Sync(n) \/ InitMaster(n) \/ CallReady(n) \/ MasterReady(n)
    \/ TimeoutStart(n) \/ TimeoutCall(n) \/ TimeoutRecovers(n)

DispatchThread(n) ==
    \/ InvitationResumes(n) \/ Reorganizes(n) \/ AcceptFailed(n)

Other(n) ==
    \/ Invitation(n) \/ Accept(n)
    \/ StartUpdate(n) \/ ObserverUpdate(n) \/ MajorityLost(n)
    \/ Forward(n) \/ ForwardFails(n)
    \/ Restart(n)

Next ==
    /\ \E n \in Nodes :
        TimerThread(n) \/ DispatchThread(n) \/ RecoveryResumes(n) \/ FinishUpdate(n) \/ Other(n)
    /\ UNCHANGED bounds

Spec == Init /\ [][Next]_vars

(* The timer thread runs what is due, dispatched invitations and waiting   *)
(* threads proceed, updates finish.  No message need be delivered.         *)
Fairness ==
    \A n \in Nodes :
        /\ WF_vars(TimerThread(n) /\ UNCHANGED bounds)
        /\ WF_vars(DispatchThread(n) /\ UNCHANGED bounds)
        /\ WF_vars(RecoveryResumes(n) /\ UNCHANGED bounds)
        /\ WF_vars(FinishUpdate(n) /\ UNCHANGED bounds)

FairSpec == Spec /\ Fairness

-----------------------------------------------------------------------------
(* Properties.                                                             *)

(* The values of a NodeI and of a message, the groups being those of G.  A *)
(* node may count itself: an invitation that old coordinators forward to   *)
(* their members may come back to the node that sent it.                   *)
NodeRecords(G) ==
    [state : {"Inactive", "Election", "Reorganization", "Normal"},
     coord : Nodes, group : G, up : SUBSET Nodes, max : 0..(N + 1), gen : G,
     proxy : SUBSET Nodes, check : {"none", "queued", "running"},
     merge : {"none", "queued", "fired"},
     found : SUBSET Nodes, mc : BOOLEAN, timeout : BOOLEAN,
     timer : {"idle", "poll", "merge", "mergewait", "sync", "init", "ready",
              "there", "lost"},
     set : SUBSET Nodes, todo : SUBSET Nodes, gp : G,
     inv : SUBSET [pc : {"wait", "accept", "failed"}, from : Nodes, group : G],
     updates : Nat, fwd : G, waiting : SUBSET {"timer", "dispatch", "client"}]

Messages(G) ==
    [type : {"invitation"}, from : Nodes, to : Nodes, group : G]
    \cup [type : {"accept"}, from : Nodes, to : Nodes, group : G, max : 0..(N + 1)]

(* The type of every variable; a merge needs a check.                      *)
TypeOK ==
    /\ bounds \in Bounds
    /\ node \in [Nodes -> NodeRecords(0..(MaxChecks + 1))]
    /\ msgs \subseteq Messages(0..(MaxChecks + 1))
    /\ merges \in 0..(checks + 1) /\ checks \in 0..MaxChecks
    /\ failures \in 0..MaxFailures /\ forwards \in 0..MaxForwards /\ restarts \in 0..MaxRestarts

(* A node serves only after all N nodes have once formed a group: a        *)
(* replica on duty knows it, through whatever chain of accepts and readies.*)
NoServiceBeforeFullGroup == \A n \in Nodes : node[n].state = "Normal" => node[n].max >= N

(* Nodes in one group follow one coordinator, whoever passed the           *)
(* invitation to it on.                                                    *)
GroupAgreement ==
    \A n, m \in Nodes :
        node[n].group # Private /\ node[n].group = node[m].group
            => node[n].coord = node[m].coord

(* "No more replica changes are permitted": the group and the coordinator  *)
(* of a node do not change under an update in progress.                    *)
MembershipStable ==
    [][\A n \in Nodes :
         node[n].updates > 0 /\ restarts' = restarts =>
             node'[n].group = node[n].group /\ node'[n].coord = node[n].coord]_vars

(* A node whose coordinator no longer leads its group leaves it.           *)
Orphan(n) == node[n].coord # n /\ node[node[n].coord].group # node[n].group

OrphansLeave == \A n \in Nodes : Orphan(n) ~> ~Orphan(n)
=============================================================================
