------------------------- MODULE ReplicationProofs -------------------------
(***************************************************************************)
(* Theorems about Replication, for any replicas, topics and bounds.        *)
(*                                                                         *)
(* DiskIsMemory speaks of slaves on duty; to become one a node has to be   *)
(* among the observers of a master that goes to duty.  The inductive       *)
(* invariant therefore says that a node still reorganizing in the group of *)
(* a coordinator that counts it among its observers has already executed   *)
(* an init(), in this incarnation.                                         *)
(*                                                                         *)
(* The bounds in TypeOK are not those of each variable alone: a stamp that *)
(* travels in a call, or waits in a list, is bounded by the elections and  *)
(* the updates that can still make a newer one.                            *)
(***************************************************************************)
EXTENDS Replication, FiniteSetTheorems, TLAPS

AnyStamp == [gen : Nat, iter : Nat]
AnyObserver == [node : Nodes, inc : Nat]
AnyUpdate ==
    [o : Ops, pc : {"entered", "committed", "sending"}, dead : BOOLEAN,
     llu : AnyStamp, todo : SUBSET AnyObserver]

NodeRecords ==
    [state : {"Inactive", "Reorganization", "Normal"}, coord : Nodes,
     group : Nat, gen : Nat, phase : {"idle", "sync", "init"},
     wait : SUBSET [node : Nodes, llu : AnyStamp], inc : Nat,
     llu : AnyStamp, db : SUBSET Keys, mem : SUBSET Keys, obs : SUBSET AnyObserver,
     upd : SUBSET AnyUpdate, by : Nat]

Inits ==
    [from : Nodes, to : Nodes, inc : Nat, llu : AnyStamp, content : SUBSET Keys, group : Nat]

(* The types, without the bounds. *)
TypeInv == node \in [Nodes -> NodeRecords] /\ inits \subseteq Inits /\ groups \in Nat

(* Node n in state q: a coordinator in the middle of mergeContinue() leads *)
(* a reorganization, in which there are no updates; updates are those of a *)
(* master; a slave on duty has its memory on disk.                         *)
Well(n, q) ==
    /\ q \in NodeRecords
    /\ q.phase # "idle" => q.state = "Reorganization" /\ q.coord = n
    /\ q.state = "Reorganization" => q.upd = {}
    /\ q.upd # {} => q.coord = n
    /\ q.state = "Normal" /\ q.coord # n => q.db = q.mem

(* No group has two coordinators in mergeContinue(), and its name is one   *)
(* that an election gave.                                                  *)
GroupInv ==
    /\ \A n \in Nodes : node[n].group <= groups
    /\ \A n, m \in Nodes :
         node[n].phase # "idle" /\ node[m].phase # "idle" /\ node[n].group = node[m].group => n = m

(* A node reorganizing with a coordinator that counts it as an observer    *)
(* has executed init().                                                    *)
InitedInv ==
    \A n, m \in Nodes :
        /\ node[n].phase = "init" /\ [node |-> m, inc |-> node[m].inc] \in node[n].obs
        /\ n # m /\ node[m].state = "Reorganization" /\ node[m].group = node[n].group
        => node[m].db = node[m].mem

Inv == TypeInv /\ GroupInv /\ InitedInv /\ \A n \in Nodes : Well(n, node[n])

-----------------------------------------------------------------------------
(* What a step does to a node.                                             *)

(* Node n may go from its state to q: it does not begin to reorganize, and *)
(* while it reorganizes it stays in its group and incarnation.             *)
Calm(n, q) ==
    /\ Well(n, q)
    /\ q.group <= groups
    /\ q.phase # "idle" => node[n].phase # "idle" /\ q.group = node[n].group
    /\ q.state = "Reorganization" =>
         /\ node[n].state = "Reorganization"
         /\ q.group = node[n].group /\ q.inc = node[n].inc
         /\ q.db = q.mem \/ (q.db = node[n].db /\ q.mem = node[n].mem)

(* It counts no observer that it did not count before.                     *)
NoNewObserver(n, q) ==
    q.phase = "init" => q.obs = {} \/ (node[n].phase = "init" /\ q.obs \subseteq node[n].obs)

(* A step of calm nodes that finds new observers initialized. *)
LEMMA CalmStep ==
    ASSUME Inv, groups' = groups, inits' \subseteq Inits,
           DOMAIN node' = Nodes, node' = [p \in Nodes |-> node'[p]],
           \A p \in Nodes : Calm(p, node'[p]),
           \A p \in Nodes : \A x \in node'[p].obs :
               node'[p].phase = "init" =>
                   \/ node[p].phase = "init" /\ x \in node[p].obs
                   \/ node'[x.node].db = node'[x.node].mem
    PROVE  Inv'
<1>1. TypeInv'
  BY DEF TypeInv, Inv, Calm, Well
<1>2. \A p \in Nodes : Well(p, node'[p])
  BY DEF Calm
<1>3. GroupInv'
  <2>1. \A p \in Nodes : node'[p].group <= groups'
    BY DEF Calm
  <2>2. ASSUME NEW p \in Nodes, NEW q \in Nodes, node'[p].phase # "idle",
               node'[q].phase # "idle", node'[p].group = node'[q].group
        PROVE  p = q
    BY <2>2 DEF Calm, Inv, GroupInv
  <2> QED BY <2>1, <2>2 DEF GroupInv
<1>4. InitedInv'
  <2> SUFFICES ASSUME NEW n \in Nodes, NEW m \in Nodes, node'[n].phase = "init",
                      [node |-> m, inc |-> node'[m].inc] \in node'[n].obs, n # m,
                      node'[m].state = "Reorganization", node'[m].group = node'[n].group
               PROVE  node'[m].db = node'[m].mem
    BY DEF InitedInv
  <2> DEFINE x == [node |-> m, inc |-> node'[m].inc]
  <2>1. x.node = m
    OBVIOUS
  <2>2. CASE node'[x.node].db = node'[x.node].mem
    BY <2>1, <2>2
  <2>3. CASE node[n].phase = "init" /\ x \in node[n].obs
    <3>1. node'[m].inc = node[m].inc /\ node[m].state = "Reorganization"
          /\ node'[m].group = node[m].group /\ node'[n].group = node[n].group
          /\ (\/ node'[m].db = node'[m].mem
              \/ node'[m].db = node[m].db /\ node'[m].mem = node[m].mem)
      BY DEF Calm
    <3>2. [node |-> m, inc |-> node[m].inc] \in node[n].obs
      BY <2>3, <3>1
    <3>3. /\ node[m].group = node[n].group /\ node[m].state = "Reorganization"
          /\ n # m /\ node[n].phase = "init"
      BY <2>3, <3>1
    <3>4. InitedInv
      BY DEF Inv
    <3>5. node[m].db = node[m].mem
      BY <3>2, <3>3, <3>4, ZenonT(40) DEF InitedInv
    <3> QED BY <3>1, <3>5
  <2> QED BY <2>2, <2>3
<1> QED BY <1>1, <1>2, <1>3, <1>4 DEF Inv

(* What is known of a node. *)
LEMMA NodeFacts ==
    ASSUME Inv, NEW n \in Nodes
    PROVE  /\ node \in [Nodes -> NodeRecords] /\ node[n] \in NodeRecords
           /\ Well(n, node[n]) /\ node[n].group <= groups /\ groups \in Nat
           /\ Calm(n, node[n]) /\ NoNewObserver(n, node[n])
BY DEF Inv, TypeInv, GroupInv, Calm, NoNewObserver

(* One node takes a calm step. *)
LEMMA OneNode ==
    ASSUME Inv, groups' = groups, inits' \subseteq Inits, NEW n \in Nodes, NEW q,
           node' = [node EXCEPT ![n] = q], Calm(n, q), NoNewObserver(n, q)
    PROVE  Inv'
<1>1. node \in [Nodes -> NodeRecords]
  BY NodeFacts
<1>2. /\ DOMAIN node' = Nodes /\ node' = [p \in Nodes |-> node'[p]]
      /\ node'[n] = q /\ \A p \in Nodes \ {n} : node'[p] = node[p]
  BY <1>1
<1>3. \A p \in Nodes : Calm(p, node'[p]) /\ NoNewObserver(p, node'[p])
  BY <1>2, NodeFacts
<1> QED BY <1>2, <1>3, CalmStep DEF NoNewObserver

(* Two nodes take a calm step, one of them maybe the other. *)
LEMMA TwoNodes ==
    ASSUME Inv, groups' = groups, inits' \subseteq Inits,
           NEW n \in Nodes, NEW m \in Nodes, NEW p, NEW q,
           node' = [[node EXCEPT ![m] = p] EXCEPT ![n] = q],
           Calm(m, p), NoNewObserver(m, p), Calm(n, q), NoNewObserver(n, q)
    PROVE  Inv'
<1>1. node \in [Nodes -> NodeRecords]
  BY NodeFacts
<1>2. /\ DOMAIN node' = Nodes /\ node' = [u \in Nodes |-> node'[u]]
      /\ \A u \in Nodes : node'[u] = node[u] \/ (u = m /\ node'[u] = p) \/ (u = n /\ node'[u] = q)
  BY <1>1
<1>3. \A u \in Nodes : Calm(u, node'[u]) /\ NoNewObserver(u, node'[u])
  BY <1>2, NodeFacts
<1> QED BY <1>2, <1>3, CalmStep DEF NoNewObserver

(* recovery() is calm. *)
LEMMA RecoveryCalm ==
    ASSUME Inv, NEW n \in Nodes, NEW q, Well(n, q), q.group <= groups
    PROVE  /\ Calm(n, Recovery(n, q)) /\ NoNewObserver(n, Recovery(n, q))
           /\ Recovery(n, q).state = "Inactive" /\ Recovery(n, q).phase = "idle"
<1> DEFINE w == [q EXCEPT !.state = "Inactive"]
           z == [q EXCEPT !.state = "Inactive", !.coord = n, !.group = 0, !.gen = 0,
                          !.phase = "idle", !.wait = {}]
<1>0. q \in NodeRecords /\ groups \in Nat
  BY NodeFacts DEF Well
<1>1. /\ w \in NodeRecords /\ w.state = "Inactive" /\ w.coord = q.coord /\ w.upd = q.upd
      /\ w.phase = q.phase /\ w.group = q.group
  BY <1>0 DEF NodeRecords
<1>2. /\ z \in NodeRecords /\ z.state = "Inactive" /\ z.coord = n /\ z.phase = "idle"
      /\ z.group = 0
  BY <1>0 DEF NodeRecords
<1>3. Recovery(n, q) = IF q.upd # {} THEN w ELSE z
  BY DEF Recovery
<1> HIDE DEF w, z
<1>4. ASSUME q.upd # {}
      PROVE  Calm(n, w) /\ NoNewObserver(n, w) /\ w.state = "Inactive" /\ w.phase = "idle"
  BY <1>1, <1>4 DEF Calm, Well, NoNewObserver
<1>5. Calm(n, z) /\ NoNewObserver(n, z)
  BY <1>0, <1>2 DEF Calm, Well, NoNewObserver
<1> QED BY <1>2, <1>3, <1>4, <1>5

-----------------------------------------------------------------------------
(* Updates.                                                                *)

(* A node with updates is, or was, a master, and is not in an election. *)
LEMMA BusyMaster ==
    ASSUME Inv, NEW n \in Nodes, node[n].upd # {} \/ IsMaster(n)
    PROVE  node[n].coord = n /\ node[n].state # "Reorganization" /\ node[n].phase = "idle"
BY NodeFacts DEF Well, IsMaster

(* What a master does to its data and updates. *)
LEMMA MasterCalm ==
    ASSUME Inv, NEW n \in Nodes, NEW q \in NodeRecords, q.group <= groups,
           q.coord = n, q.state # "Reorganization", q.phase = "idle"
    PROVE  Calm(n, q) /\ NoNewObserver(n, q)
BY DEF Calm, Well, NoNewObserver

(* An update keeps to the keys of the topics. *)
LEMMA CommitKeys ==
    ASSUME NEW S \in SUBSET Keys, NEW o \in Ops
    PROVE  CommitDb(S, o) \in SUBSET Keys /\ o.key \in Keys
<1>1. o.key \in Keys /\ o.op \in {"create", "destroy", "subscribe", "unsubscribe"}
  BY DEF Ops, Keys
<1>2. CASE o.op \in {"create", "subscribe"}
  BY <1>1, <1>2 DEF CommitDb
<1>3. CASE o.op = "destroy"
  BY <1>1, <1>3 DEF CommitDb
<1>4. CASE o.op = "unsubscribe"
  BY <1>1, <1>4 DEF CommitDb
<1> QED BY <1>1, <1>2, <1>3, <1>4

(* A master that changes its updates, its data or its stamp. *)
LEMMA UpdateStep ==
    ASSUME Inv, groups' = groups, inits' = inits, NEW n \in Nodes,
           node[n].upd # {} \/ IsMaster(n),
           NEW upd \in SUBSET AnyUpdate, NEW db \in SUBSET Keys, NEW mem \in SUBSET Keys,
           NEW llu \in AnyStamp,
           node' = [node EXCEPT ![n] =
                       [node[n] EXCEPT !.db = db, !.mem = mem, !.llu = llu, !.upd = upd]]
    PROVE  Inv'
<1> DEFINE q == [node[n] EXCEPT !.db = db, !.mem = mem, !.llu = llu, !.upd = upd]
<1>1. /\ q \in NodeRecords /\ q.group = node[n].group /\ q.coord = node[n].coord
      /\ q.state = node[n].state /\ q.phase = node[n].phase
  <2>1. node[n] \in NodeRecords
    BY NodeFacts
  <2> QED BY <2>1 DEF NodeRecords
<1> HIDE DEF q
<1>2. Calm(n, q) /\ NoNewObserver(n, q)
  BY <1>1, NodeFacts, BusyMaster, MasterCalm
<1>3. inits' \subseteq Inits
  BY DEF Inv, TypeInv
<1> QED BY <1>2, <1>3, OneNode DEF q

(* The parts of a node. *)
LEMMA NodeParts ==
    ASSUME Inv, NEW n \in Nodes
    PROVE  /\ node[n].db \in SUBSET Keys /\ node[n].mem \in SUBSET Keys
           /\ node[n].llu \in AnyStamp /\ node[n].upd \in SUBSET AnyUpdate
           /\ node[n].obs \in SUBSET AnyObserver /\ node[n].inc \in Nat /\ node[n].gen \in Nat
<1>1. node[n] \in NodeRecords
  BY NodeFacts
<1> QED BY <1>1 DEF NodeRecords

(* An update enters. *)
LEMMA EnterStep ==
    ASSUME Inv, NEW n \in Nodes, NEW o \in Ops, Enter(n, o)
    PROVE  Inv'
<1> DEFINE u == [o |-> o, pc |-> "entered", dead |-> FALSE, llu |-> LLU(0, 0), todo |-> {}]
           upd == node[n].upd \cup {u}
<1>1. u \in AnyUpdate
  BY DEF AnyUpdate, AnyStamp, LLU
<1>2. upd \in SUBSET AnyUpdate
  <2> HIDE DEF u
  <2> QED BY <1>1, NodeParts
<1>3. node' = [node EXCEPT ![n].upd = upd]
  BY NodeFacts DEF Enter
<1> HIDE DEF upd
<1>4. node' = [node EXCEPT ![n] =
          [node[n] EXCEPT !.db = node[n].db, !.mem = node[n].mem, !.llu = node[n].llu, !.upd = upd]]
  BY <1>3, NodeFacts DEF NodeRecords
<1>p. /\ node[n].db \in SUBSET Keys /\ node[n].mem \in SUBSET Keys
      /\ node[n].llu \in AnyStamp /\ node[n].upd \in SUBSET AnyUpdate
  BY NodeParts
<1>5. groups' = groups /\ inits' = inits /\ IsMaster(n)
  BY DEF Enter
<1> QED BY <1>2, <1>4, <1>5, <1>p, UpdateStep

(* An update is committed, or is found to be pointless. *)
LEMMA CommitStep ==
    ASSUME Inv, NEW n \in Nodes, Commit(n)
    PROVE  Inv'
<1> DEFINE r == node[n]
           l == getIncrementedLLU(r.llu)
           Dies(u, v) == IF u.o.op = "destroy" /\ v.o.key[1] = u.o.key[1] /\ v.o.op # "create"
                         THEN [v EXCEPT !.dead = TRUE] ELSE v
           Upd(u) == {Dies(u, v) : v \in r.upd \ {u}} \cup {[u EXCEPT !.pc = "committed", !.llu = l]}
<1>1. PICK u \in node[n].upd :
        \/ node' = [node EXCEPT ![n].upd = @ \ {u}]
        \/ node' = [node EXCEPT ![n] =
                          [r EXCEPT !.db = CommitDb(@, u.o), !.mem = CommitMem(@, u), !.llu = l,
                                    !.upd = {Dies(u, v) : v \in @ \ {u}} \cup
                                            {[u EXCEPT !.pc = "committed", !.llu = l]}]]
  BY DEF Commit
<1>2. groups' = groups /\ inits' = inits
  BY DEF Commit
<1>3. /\ r.db \in SUBSET Keys /\ r.mem \in SUBSET Keys /\ r.llu \in AnyStamp
      /\ r.upd \in SUBSET AnyUpdate /\ u \in AnyUpdate /\ u.o \in Ops
  BY NodeParts DEF AnyUpdate
<1>4. CASE node' = [node EXCEPT ![n].upd = @ \ {u}]
  <2>1. node' = [node EXCEPT ![n] =
          [r EXCEPT !.db = r.db, !.mem = r.mem, !.llu = r.llu, !.upd = r.upd \ {u}]]
    BY <1>4, NodeFacts DEF NodeRecords
  <2>2. r.upd \ {u} \in SUBSET AnyUpdate
    BY <1>3
  <2> HIDE DEF r
  <2> QED BY <1>2, <1>3, <2>1, <2>2, UpdateStep DEF r
<1>5. CASE node' = [node EXCEPT ![n] =
                          [r EXCEPT !.db = CommitDb(@, u.o), !.mem = CommitMem(@, u), !.llu = l,
                                    !.upd = {Dies(u, v) : v \in @ \ {u}} \cup
                                            {[u EXCEPT !.pc = "committed", !.llu = l]}]]
  <2>1. l \in AnyStamp
    BY <1>3 DEF AnyStamp, getIncrementedLLU
  <2>2. CommitDb(r.db, u.o) \in SUBSET Keys /\ CommitMem(r.mem, u) \in SUBSET Keys
    BY <1>3, CommitKeys DEF CommitMem
  <2>3. Upd(u) \in SUBSET AnyUpdate
    <3> HIDE DEF l
    <3>1. \A v \in AnyUpdate : Dies(u, v) \in AnyUpdate
      BY DEF AnyUpdate
    <3>2. [u EXCEPT !.pc = "committed", !.llu = l] \in AnyUpdate
      BY <1>3, <2>1 DEF AnyUpdate
    <3> HIDE DEF Dies, r
    <3> QED BY <1>3, <3>1, <3>2
  <2>4. node' = [node EXCEPT ![n] =
          [r EXCEPT !.db = CommitDb(r.db, u.o), !.mem = CommitMem(r.mem, u), !.llu = l,
                    !.upd = Upd(u)]]
    <3> HIDE DEF l, Dies
    <3> QED BY <1>5, NodeFacts DEF NodeRecords
  <2> HIDE DEF l, Upd
  <2> QED BY <1>2, <1>3, <2>1, <2>2, <2>3, <2>4, UpdateStep
<1> QED BY <1>1, <1>4, <1>5

(* The observers are called. *)
LEMMA SendStep ==
    ASSUME Inv, NEW n \in Nodes, Send(n)
    PROVE  Inv'
<1>1. PICK u \in node[n].upd :
        node' = [node EXCEPT ![n].upd =
               (@ \ {u}) \cup {[u EXCEPT !.pc = "sending", !.todo = node[n].obs]}]
  BY DEF Send
<1> DEFINE s == [u EXCEPT !.pc = "sending", !.todo = node[n].obs]
           upd == (node[n].upd \ {u}) \cup {s}
<1>2. s \in AnyUpdate
  <2>1. u \in AnyUpdate /\ node[n].obs \in SUBSET AnyObserver
    BY NodeParts
  <2> QED BY <2>1 DEF AnyUpdate
<1>3. upd \in SUBSET AnyUpdate
  <2> HIDE DEF s
  <2> QED BY <1>2, NodeParts
<1>4. node' = [node EXCEPT ![n].upd = upd]
  BY <1>1, NodeFacts
<1> HIDE DEF upd
<1>5. node' = [node EXCEPT ![n] =
          [node[n] EXCEPT !.db = node[n].db, !.mem = node[n].mem, !.llu = node[n].llu, !.upd = upd]]
  BY <1>4, NodeFacts DEF NodeRecords
<1>p. /\ node[n].db \in SUBSET Keys /\ node[n].mem \in SUBSET Keys
      /\ node[n].llu \in AnyStamp /\ node[n].upd \in SUBSET AnyUpdate
  BY NodeParts
<1>6. groups' = groups /\ inits' = inits /\ node[n].upd # {}
  BY DEF Send
<1> QED BY <1>3, <1>5, <1>6, <1>p, UpdateStep

(* An update is answered. *)
LEMMA FinishStep ==
    ASSUME Inv, NEW n \in Nodes, Finish(n)
    PROVE  Inv'
<1>1. PICK u \in node[n].upd :
        LET ok == Cardinality(node[n].obs) >= Majority
        IN  node' = [node EXCEPT ![n].upd = @ \ {u},
                      ![n].mem = IF ok /\ u.o.op = "create" THEN @ \cup {u.o.key} ELSE @]
  BY DEF Finish
<1> DEFINE ok == Cardinality(node[n].obs) >= Majority
           mem == IF ok /\ u.o.op = "create" THEN node[n].mem \cup {u.o.key} ELSE node[n].mem
           upd == node[n].upd \ {u}
<1>2. u \in AnyUpdate /\ u.o \in Ops /\ upd \in SUBSET AnyUpdate
  BY NodeParts DEF AnyUpdate
<1>3. mem \in SUBSET Keys
  <2> HIDE DEF ok
  <2>1. node[n].mem \in SUBSET Keys
    BY NodeParts
  <2>2. u.o.key \in Keys
    BY <1>2, CommitKeys
  <2> QED BY <2>1, <2>2
<1>4. node' = [node EXCEPT ![n].upd = upd, ![n].mem = mem]
  <2> HIDE DEF ok
  <2> QED BY <1>1, NodeFacts DEF ok
<1> HIDE DEF mem, upd
<1>5. node' = [node EXCEPT ![n] =
          [node[n] EXCEPT !.db = node[n].db, !.mem = mem, !.llu = node[n].llu, !.upd = upd]]
  BY <1>4, NodeFacts DEF NodeRecords
<1>p. /\ node[n].db \in SUBSET Keys /\ node[n].mem \in SUBSET Keys
      /\ node[n].llu \in AnyStamp /\ node[n].upd \in SUBSET AnyUpdate
  BY NodeParts
<1>6. groups' = groups /\ inits' = inits /\ node[n].upd # {}
  BY DEF Finish
<1> QED BY <1>2, <1>3, <1>5, <1>6, <1>p, UpdateStep

-----------------------------------------------------------------------------
(* The observers and the loss of nodes.                                    *)

(* What an observer makes of an update. *)
LEMMA AtObserverCalm ==
    ASSUME Inv, NEW m \in Nodes, NEW u \in AnyUpdate
    PROVE  LET q == AtObserver(m, u)
           IN  /\ Calm(m, q) /\ NoNewObserver(m, q)
               /\ node[m].coord = m => q = node[m] \/ q = Recovery(m, node[m])
<1> DEFINE r == node[m]
           p == [r EXCEPT !.db = CommitDb(@, u.o), !.mem = CommitDb(@, u.o), !.llu = u.llu]
<1>1. /\ r \in NodeRecords /\ Well(m, r) /\ r.group <= groups
      /\ Calm(m, r) /\ NoNewObserver(m, r) /\ u.llu \in AnyStamp /\ u.o \in Ops
  BY NodeFacts DEF AnyUpdate
<1>2. CASE ~Inconsistent(m, r, u)
  <2>1. r.state = "Normal" /\ r.coord # m /\ r.phase = "idle" /\ r.db = r.mem
    BY <1>1, <1>2 DEF Inconsistent, startObserverUpdate, Well
  <2>2. CommitDb(r.db, u.o) \in SUBSET Keys /\ CommitDb(r.mem, u.o) = CommitDb(r.db, u.o)
    <3>1. r.db \in SUBSET Keys
      BY <1>1 DEF NodeRecords
    <3> QED BY <1>1, <2>1, <3>1, CommitKeys
  <2>3. /\ p \in NodeRecords /\ p.db = p.mem /\ p.state = "Normal" /\ p.coord = r.coord
        /\ p.phase = "idle" /\ p.group = r.group /\ p.upd = r.upd
    BY <1>1, <2>1, <2>2 DEF NodeRecords
  <2>4. AtObserver(m, u) \in {r, p}
    BY <1>2 DEF AtObserver, Observe
  <2> HIDE DEF p
  <2>5. Calm(m, p) /\ NoNewObserver(m, p)
    BY <1>1, <2>1, <2>3 DEF Calm, Well, NoNewObserver
  <2> QED BY <1>1, <2>1, <2>4, <2>5
<1>3. CASE Inconsistent(m, r, u)
  <2>1. AtObserver(m, u) \in {r, Recovery(m, r)}
    BY <1>3 DEF AtObserver
  <2>2. Calm(m, Recovery(m, r)) /\ NoNewObserver(m, Recovery(m, r))
    BY <1>1, RecoveryCalm
  <2> QED BY <1>1, <2>1, <2>2
<1> QED BY <1>2, <1>3

(* A reply, or the lack of one. *)
LEMMA ReplyStep ==
    ASSUME Inv, NEW n \in Nodes, Reply(n)
    PROVE  Inv'
<1> DEFINE Ended(u, w, r, erased) ==
             [r EXCEPT !.upd = (@ \ {u}) \cup {[u EXCEPT !.todo = @ \ {w}]}, !.obs = @ \ erased]
<1>0. PICK u \in node[n].upd : \E w \in u.todo :
        \/ \E r \in {node[w.node], AtObserver(w.node, u)} : \E e \in {{}, {w}} :
             node' = [[node EXCEPT ![w.node] = r] EXCEPT ![n] = Ended(u, w, @, e)]
        \/ node' = [node EXCEPT ![n] = Ended(u, w, @, {w})]
  <2>1. PICK u \in node[n].upd : \E w \in u.todo :
          \/ node' = [[node EXCEPT ![w.node] = AtObserver(w.node, u)] EXCEPT
                        ![n] = Ended(u, w, @, {})]
          \/ node' = [node EXCEPT ![n] = Ended(u, w, @, {w})]
          \/ \E r \in {node[w.node], AtObserver(w.node, u)} :
               node' = [[node EXCEPT ![w.node] = r] EXCEPT ![n] = Ended(u, w, @, {w})]
    BY ZenonT(40) DEF Reply
  <2> HIDE DEF Ended
  <2> QED BY <2>1
<1>1. PICK w \in u.todo :
        \/ \E r \in {node[w.node], AtObserver(w.node, u)} : \E e \in {{}, {w}} :
             node' = [[node EXCEPT ![w.node] = r] EXCEPT ![n] = Ended(u, w, @, e)]
        \/ node' = [node EXCEPT ![n] = Ended(u, w, @, {w})]
  BY <1>0
<1>2. groups' = groups /\ inits' \subseteq Inits
  BY DEF Reply, Inv, TypeInv
<1>3. u \in AnyUpdate /\ u.todo \in SUBSET AnyObserver /\ w.node \in Nodes
  <2>1. u \in AnyUpdate
    BY NodeParts
  <2> QED BY <2>1 DEF AnyUpdate, AnyObserver
<1>4. node[n].coord = n /\ node[n].state # "Reorganization" /\ node[n].phase = "idle"
      /\ node[n].upd # {}
  BY BusyMaster
<1>5. ASSUME NEW x \in NodeRecords, x.group <= groups, x.coord = n,
             x.state # "Reorganization", x.phase = "idle", NEW e
      PROVE  Calm(n, Ended(u, w, x, e)) /\ NoNewObserver(n, Ended(u, w, x, e))
  <2> DEFINE a == [u EXCEPT !.todo = @ \ {w}]
             upd == (x.upd \ {u}) \cup {a}
             obs == x.obs \ e
             q == [x EXCEPT !.upd = upd, !.obs = obs]
  <2>1. a \in AnyUpdate
    BY <1>3 DEF AnyUpdate
  <2>2. upd \in SUBSET AnyUpdate /\ obs \in SUBSET AnyObserver
    <3>1. x.upd \in SUBSET AnyUpdate /\ x.obs \in SUBSET AnyObserver
      BY DEF NodeRecords
    <3> HIDE DEF a
    <3> QED BY <2>1, <3>1
  <2>3. Ended(u, w, x, e) = q
    OBVIOUS
  <2> HIDE DEF upd, obs, Ended
  <2>4. /\ q \in NodeRecords /\ q.group = x.group /\ q.coord = n /\ q.state = x.state
        /\ q.phase = "idle"
    BY <1>5, <2>2 DEF NodeRecords
  <2> HIDE DEF q
  <2> QED BY <1>5, <2>3, <2>4, MasterCalm
<1> HIDE DEF Ended
<1>6. CASE node' = [node EXCEPT ![n] = Ended(u, w, @, {w})]
  <2>1. node' = [node EXCEPT ![n] = Ended(u, w, node[n], {w})]
    BY <1>6
  <2>2. Calm(n, Ended(u, w, node[n], {w})) /\ NoNewObserver(n, Ended(u, w, node[n], {w}))
    BY <1>4, <1>5, NodeFacts
  <2> QED BY <1>2, <2>1, <2>2, OneNode
<1>7. ASSUME NEW r \in {node[w.node], AtObserver(w.node, u)}, NEW e,
             node' = [[node EXCEPT ![w.node] = r] EXCEPT ![n] = Ended(u, w, @, e)]
      PROVE  Inv'
  <2> DEFINE x == IF w.node = n THEN r ELSE node[n]
             f == [node EXCEPT ![w.node] = r]
  <2>1. Calm(w.node, r) /\ NoNewObserver(w.node, r)
    BY <1>3, AtObserverCalm, NodeFacts
  <2>2. /\ x \in NodeRecords /\ x.group <= groups /\ x.coord = n
        /\ x.state # "Reorganization" /\ x.phase = "idle"
    <3>1. CASE x = node[n]
      BY <1>4, <3>1, NodeFacts
    <3>2. CASE x = Recovery(n, node[n])
      <4>1. Recovery(n, node[n]) = [node[n] EXCEPT !.state = "Inactive"]
        BY <1>4 DEF Recovery
      <4>2. /\ node[n] \in NodeRecords /\ node[n].group <= groups
        BY NodeFacts
      <4> QED BY <1>4, <3>2, <4>1, <4>2 DEF NodeRecords
    <3>3. x = node[n] \/ x = Recovery(n, node[n])
      BY <1>3, <1>4, AtObserverCalm
    <3> QED BY <3>1, <3>2, <3>3
  <2>3. f[n] = x
    BY <1>3, NodeFacts
  <2> HIDE DEF x
  <2>4. node' = [f EXCEPT ![n] = Ended(u, w, x, e)]
    BY <1>7, <2>3
  <2>5. Calm(n, Ended(u, w, x, e)) /\ NoNewObserver(n, Ended(u, w, x, e))
    BY <1>5, <2>2
  <2> QED BY <1>2, <1>3, <2>1, <2>4, <2>5, TwoNodes
<1> QED BY <1>1, <1>6, <1>7

(* A master without a majority of observers, and a node that leaves. *)
LEMMA LeavesStep ==
    ASSUME Inv, NEW n \in Nodes, MajorityLost(n) \/ Leaves(n)
    PROVE  Inv'
<1>1. groups' = groups /\ inits' \subseteq Inits
  BY DEF MajorityLost, Leaves, Inv, TypeInv
<1>2. CASE node' = [node EXCEPT ![n] = Recovery(n, @)]
  <2>1. node' = [node EXCEPT ![n] = Recovery(n, node[n])]
    BY <1>2
  <2>2. Calm(n, Recovery(n, node[n])) /\ NoNewObserver(n, Recovery(n, node[n]))
    BY NodeFacts, RecoveryCalm
  <2> QED BY <1>1, <2>1, <2>2, OneNode
<1>3. ASSUME IsMaster(n), NEW w, node' = [node EXCEPT ![n].obs = @ \ {w}]
      PROVE  Inv'
  <2> DEFINE obs == node[n].obs \ {w}
             q == [node[n] EXCEPT !.obs = obs]
  <2>1. node[n] \in NodeRecords /\ node[n].group <= groups
    BY NodeFacts
  <2>2. obs \in SUBSET AnyObserver
    BY NodeParts
  <2>3. node' = [node EXCEPT ![n] = q]
    BY <1>3, NodeFacts
  <2> HIDE DEF obs
  <2>4. /\ q \in NodeRecords /\ q.group = node[n].group /\ q.coord = node[n].coord
        /\ q.state = node[n].state /\ q.phase = node[n].phase
    BY <2>1, <2>2 DEF NodeRecords
  <2> HIDE DEF q
  <2>5. node[n].coord = n /\ node[n].state # "Reorganization" /\ node[n].phase = "idle"
    BY <1>3, BusyMaster
  <2>6. Calm(n, q) /\ NoNewObserver(n, q)
    BY <2>1, <2>4, <2>5, MasterCalm
  <2> QED BY <1>1, <2>3, <2>6, OneNode
<1>4. CASE MajorityLost(n)
  BY <1>2, <1>3, <1>4 DEF MajorityLost
<1> QED BY <1>2, <1>4 DEF Leaves
(* A node is started again. *)
LEMMA RestartStep ==
    ASSUME Inv, NEW n \in Nodes, Restart(n)
    PROVE  Inv'
<1> DEFINE idle == [node[n] EXCEPT !.upd = {}]
           r == Recovery(n, idle)
           mem(F) == (node[n].db \ F) \cup {TopicKey(k[1]) : k \in F}
           q(F) == [r EXCEPT !.inc = node[n].inc + 1, !.llu = LLU(0, 0), !.mem = mem(F), !.obs = {}]
<1>1. PICK F \in FirstRecords(node[n].db) : node' = [node EXCEPT ![n] = q(F)]
  BY DEF Restart
<1>2. groups' = groups /\ inits' \subseteq Inits
  BY DEF Restart, Inv, TypeInv
<1>3. /\ node[n] \in NodeRecords /\ node[n].db \in SUBSET Keys /\ node[n].inc \in Nat
      /\ groups \in Nat
  BY NodeFacts, NodeParts
<1>4. mem(F) \in SUBSET Keys
  <2>1. F \in SUBSET Keys
    BY <1>3 DEF FirstRecords
  <2>2. \A k \in Keys : TopicKey(k[1]) \in Keys
    BY DEF Keys, TopicKey
  <2> QED BY <1>3, <2>1, <2>2
<1>5. /\ r \in NodeRecords /\ r.coord = n /\ r.state = "Inactive" /\ r.phase = "idle"
      /\ r.group = 0
  <2>1. idle \in NodeRecords /\ idle.upd = {}
    BY <1>3 DEF NodeRecords
  <2> HIDE DEF idle
  <2> QED BY <2>1 DEF Recovery, NodeRecords
<1> HIDE DEF r, mem
<1>6. /\ q(F) \in NodeRecords /\ q(F).coord = n /\ q(F).state = "Inactive"
      /\ q(F).phase = "idle" /\ q(F).group = 0
  <2>1. LLU(0, 0) \in AnyStamp /\ node[n].inc + 1 \in Nat
    BY <1>3 DEF AnyStamp, LLU
  <2> QED BY <1>4, <1>5, <2>1 DEF NodeRecords
<1> HIDE DEF q
<1>7. Calm(n, q(F)) /\ NoNewObserver(n, q(F))
  BY <1>3, <1>6, MasterCalm
<1> QED BY <1>1, <1>2, <1>7, OneNode

-----------------------------------------------------------------------------
(* Elections.                                                              *)

(* What mergeContinue() makes of its coordinator. *)
LEMMA SyncAndInitStep ==
    ASSUME Inv, NEW n \in Nodes, SyncAndInit(n)
    PROVE  Inv'
<1> DEFINE new(m) == LLU(m.llu.gen + 1, 0)
           src(m) == node[m.node]
           r(m) == IF Newer(m.llu, node[n].llu) THEN observerInit(node[n], src(m).llu, src(m).mem)
                   ELSE node[n]
           q(m) == [r(m) EXCEPT !.llu = new(m), !.phase = "init", !.obs = {}]
           sent(m, k) == [from |-> n, to |-> k.node, inc |-> node[k.node].inc, llu |-> new(m),
                          content |-> r(m).mem, group |-> node[n].group]
<1>1. PICK m \in node[n].wait :
        /\ node' = [node EXCEPT ![n] = q(m)]
        /\ inits' = inits \cup {sent(m, k) : k \in node[n].wait}
  BY DEF SyncAndInit
<1>2. groups' = groups /\ inits \subseteq Inits /\ node[n].phase = "sync"
  BY DEF SyncAndInit, Inv, TypeInv
<1>3. /\ node[n] \in NodeRecords /\ Well(n, node[n]) /\ node[n].group <= groups
      /\ node[n].group \in Nat
  BY NodeFacts DEF NodeRecords
<1>4. \A k \in node[n].wait : k.node \in Nodes /\ k.llu \in AnyStamp
  BY <1>3 DEF NodeRecords
<1>5. new(m) \in AnyStamp
  BY <1>4 DEF AnyStamp, LLU
<1>6. /\ r(m) \in NodeRecords /\ r(m).state = "Reorganization" /\ r(m).coord = n
      /\ r(m).upd = {} /\ r(m).group = node[n].group /\ r(m).inc = node[n].inc
      /\ (r(m).db = r(m).mem \/ (r(m).db = node[n].db /\ r(m).mem = node[n].mem))
  <2>1. node[n].state = "Reorganization" /\ node[n].coord = n /\ node[n].upd = {}
    BY <1>2, <1>3 DEF Well
  <2>2. src(m).llu \in AnyStamp /\ src(m).mem \in SUBSET Keys
    BY <1>4, NodeParts
  <2>3. ASSUME NEW l \in AnyStamp, NEW c \in SUBSET Keys
        PROVE  LET x == observerInit(node[n], l, c)
               IN  /\ x \in NodeRecords /\ x.state = "Reorganization" /\ x.coord = n
                   /\ x.upd = {} /\ x.group = node[n].group /\ x.inc = node[n].inc
                   /\ x.db = x.mem
    BY <1>3, <2>1 DEF observerInit, NodeRecords
  <2> HIDE DEF src
  <2>4. CASE Newer(m.llu, node[n].llu)
    <3>1. r(m) = observerInit(node[n], src(m).llu, src(m).mem)
      BY <2>4
    <3> HIDE DEF r
    <3> QED BY <2>2, <2>3, <3>1
  <2>5. CASE ~Newer(m.llu, node[n].llu)
    <3>1. r(m) = node[n]
      BY <2>5
    <3> HIDE DEF r
    <3> QED BY <1>3, <2>1, <3>1
  <2> QED BY <2>4, <2>5
<1> HIDE DEF new, r
<1>7. /\ q(m) \in NodeRecords /\ q(m).state = "Reorganization" /\ q(m).coord = n
      /\ q(m).upd = {} /\ q(m).group = node[n].group /\ q(m).inc = node[n].inc
      /\ q(m).phase = "init" /\ q(m).obs = {}
      /\ q(m).db = r(m).db /\ q(m).mem = r(m).mem
  BY <1>5, <1>6 DEF NodeRecords
<1> HIDE DEF q
<1>8. Calm(n, q(m)) /\ NoNewObserver(n, q(m))
  <2>1. node[n].state = "Reorganization"
    BY <1>2, <1>3 DEF Well
  <2> QED BY <1>2, <1>3, <1>6, <1>7, <2>1 DEF Calm, Well, NoNewObserver
<1>9. inits' \subseteq Inits
  <2>1. r(m).mem \in SUBSET Keys
    BY <1>6 DEF NodeRecords
  <2>2. ASSUME NEW k \in node[n].wait
        PROVE  sent(m, k) \in Inits
    <3>1. node[k.node].inc \in Nat /\ k.node \in Nodes
      BY <1>4, NodeParts
    <3> QED BY <1>3, <1>5, <2>1, <3>1 DEF Inits
  <2> HIDE DEF sent
  <2> QED BY <1>1, <1>2, <2>2
<1> QED BY <1>1, <1>2, <1>8, <1>9, OneNode
(* init() executes, and is answered. *)
LEMMA InitSlaveStep ==
    ASSUME Inv, NEW m \in Nodes, InitSlave(m)
    PROVE  Inv'
<1> DEFINE mine(i)      == {w \in node[i.from].wait : w.node = m}
           waited(i)    == node[i.from].phase = "init" /\ mine(i) # {} /\ node[i.from].llu = i.llu
           Answer(i, r) == IF ~waited(i) THEN r
                           ELSE IF ~checkObserverInit(m) THEN Recovery(i.from, r)
                           ELSE [r EXCEPT !.wait = @ \ mine(i),
                                          !.obs = @ \cup {[node |-> m, inc |-> i.inc]}]
           Inited(i)    == IF ~checkObserverInit(m) THEN node[m]
                           ELSE [observerInit(node[m], i.llu, i.content) EXCEPT !.by = i.group]
<1>1. PICK i \in inits :
        node' = [[node EXCEPT ![m] = Inited(i)] EXCEPT ![i.from] = Answer(i, @)]
  BY DEF InitSlave
<1>2. groups' = groups /\ inits' \subseteq Inits /\ inits \subseteq Inits
  BY DEF InitSlave, Inv, TypeInv
<1>3. /\ i.from \in Nodes /\ i.inc \in Nat /\ i.llu \in AnyStamp
      /\ i.content \in SUBSET Keys /\ i.group \in Nat
  BY <1>2 DEF Inits
<1> DEFINE n == i.from
<1>4. /\ node \in [Nodes -> NodeRecords]
      /\ node[m] \in NodeRecords /\ Well(m, node[m]) /\ node[m].group <= groups
      /\ node[n] \in NodeRecords /\ Well(n, node[n]) /\ node[n].group <= groups
      /\ node[n].group \in Nat /\ node[m].group \in Nat
  BY <1>3, NodeFacts DEF NodeRecords
<1>5. ASSUME checkObserverInit(m)
      PROVE  /\ Inited(i).db = Inited(i).mem
             /\ Calm(m, Inited(i)) /\ NoNewObserver(m, Inited(i))
  <2> DEFINE q == Inited(i)
  <2>1. node[m].state = "Reorganization" /\ node[m].coord # m
        /\ node[m].phase = "idle" /\ node[m].upd = {}
    BY <1>4, <1>5 DEF checkObserverInit, Well
  <2>2. /\ q \in NodeRecords /\ q.state = "Reorganization" /\ q.coord = node[m].coord
        /\ q.phase = "idle" /\ q.upd = {} /\ q.group = node[m].group /\ q.inc = node[m].inc
        /\ q.db = q.mem
    <3>1. q = [observerInit(node[m], i.llu, i.content) EXCEPT !.by = i.group]
      BY <1>5
    <3> HIDE DEF q
    <3> QED BY <1>3, <1>4, <2>1, <3>1 DEF observerInit, NodeRecords
  <2> HIDE DEF Inited
  <2> QED BY <1>4, <2>1, <2>2 DEF Calm, Well, NoNewObserver
<1>6. CASE ~waited(i)
  <2>1. node' = [node EXCEPT ![m] = Inited(i)]
    <3> DEFINE f == [node EXCEPT ![m] = Inited(i)]
    <3>1. Answer(i, f[n]) = f[n]
      BY <1>6
    <3> HIDE DEF Answer, Inited
    <3>2. node' = [f EXCEPT ![n] = f[n]]
      BY <1>1, <3>1
    <3>3. f = [p \in Nodes |-> f[p]]
      BY <1>4
    <3> HIDE DEF f
    <3>4. node' = f
      BY <1>3, <3>2, <3>3
    <3> QED BY <3>4 DEF f
  <2>2. Calm(m, Inited(i)) /\ NoNewObserver(m, Inited(i))
    BY <1>5, NodeFacts
  <2> HIDE DEF Inited
  <2> QED BY <1>2, <2>1, <2>2, OneNode
<1>7. CASE waited(i) /\ ~checkObserverInit(m)
  <2>1. node' = [node EXCEPT ![n] = Recovery(n, node[n])]
    <3>1. Inited(i) = node[m] /\ \A x : Answer(i, x) = Recovery(n, x)
      BY <1>7
    <3> HIDE DEF Answer, Inited
    <3> QED BY <1>1, <1>4, <3>1
  <2>2. Calm(n, Recovery(n, node[n])) /\ NoNewObserver(n, Recovery(n, node[n]))
    BY <1>3, <1>4, RecoveryCalm
  <2> QED BY <1>2, <1>3, <2>1, <2>2, OneNode
<1>8. CASE waited(i) /\ checkObserverInit(m)
  <2> DEFINE wait == node[n].wait \ mine(i)
             new == [node |-> m, inc |-> i.inc]
             obs == node[n].obs \cup {new}
             q == [node[n] EXCEPT !.wait = wait, !.obs = obs]
  <2>1. /\ node[n].phase = "init" /\ node[n].state = "Reorganization" /\ node[n].coord = n
        /\ node[n].upd = {} /\ n # m
    BY <1>4, <1>8 DEF checkObserverInit, Well
  <2>2. new \in AnyObserver /\ new.node = m
    BY <1>3 DEF AnyObserver
  <2> HIDE DEF new
  <2>3. wait \in SUBSET [node : Nodes, llu : AnyStamp] /\ obs \in SUBSET AnyObserver
    BY <1>4, <2>2 DEF NodeRecords
  <2>4. /\ DOMAIN node' = Nodes /\ node' = [p \in Nodes |-> node'[p]]
        /\ node'[n] = q /\ node'[m] = Inited(i)
        /\ \A p \in Nodes \ {n, m} : node'[p] = node[p]
    <3>1. Answer(i, node[n]) = q
      BY <1>8 DEF new
    <3> HIDE DEF Answer, Inited, q
    <3> QED BY <1>1, <1>3, <1>4, <2>1, <3>1
  <2> HIDE DEF wait, obs
  <2>5. /\ q \in NodeRecords /\ q.phase = "init" /\ q.state = "Reorganization" /\ q.coord = n
        /\ q.upd = {} /\ q.group = node[n].group /\ q.inc = node[n].inc
        /\ q.db = node[n].db /\ q.mem = node[n].mem /\ q.obs = obs
    BY <1>4, <2>1, <2>3 DEF NodeRecords
  <2> HIDE DEF q, Inited
  <2>6. Calm(n, q)
    BY <1>4, <2>1, <2>5 DEF Calm, Well
  <2>7. \A p \in Nodes : Calm(p, node'[p])
    BY <1>5, <1>8, <2>4, <2>6, NodeFacts
  <2>8. ASSUME NEW p \in Nodes, NEW x \in node'[p].obs, node'[p].phase = "init"
        PROVE  \/ node[p].phase = "init" /\ x \in node[p].obs
               \/ node'[x.node].db = node'[x.node].mem
    <3>1. CASE p = n /\ x = new
      BY <1>5, <1>8, <2>2, <2>4, <3>1
    <3>2. CASE p = n /\ x # new
      BY <2>1, <2>4, <2>5, <2>8, <3>2 DEF obs
    <3>3. CASE p = m
      BY <1>5, <1>8, <2>1, <2>4, <2>8, <3>3 DEF NoNewObserver
    <3>4. CASE p \notin {n, m}
      BY <2>4, <2>8, <3>4
    <3> QED BY <3>1, <3>2, <3>3, <3>4
  <2> QED BY <1>2, <2>4, <2>7, <2>8, CalmStep
<1> QED BY <1>6, <1>7, <1>8
(* Everyone goes to duty. *)
LEMMA ReadyAllStep ==
    ASSUME Inv, NEW n \in Nodes, ReadyAll(n)
    PROVE  Inv'
<1> DEFINE goes(m) == /\ node[m].state = "Reorganization" /\ node[m].group = node[n].group
                      /\ [node |-> m, inc |-> node[m].inc] \in node[n].obs
           master == [node[n] EXCEPT !.state = "Normal", !.phase = "idle", !.gen = node[n].llu.gen]
           slave(m) == [node[m] EXCEPT !.state = "Normal", !.gen = node[n].llu.gen]
<1>1. /\ node[n].phase = "init"
      /\ node' = [m \in Nodes |-> IF m = n THEN master ELSE IF goes(m) THEN slave(m) ELSE node[m]]
  BY DEF ReadyAll
<1>2. groups' = groups /\ inits' \subseteq Inits
  BY DEF ReadyAll, Inv, TypeInv
<1>3. \A m \in Nodes : /\ node[m] \in NodeRecords /\ Well(m, node[m]) /\ node[m].group <= groups
                       /\ Calm(m, node[m])
  BY NodeFacts
<1>4. node[n].llu.gen \in Nat
  BY NodeParts DEF AnyStamp
<1>5. Calm(n, master) /\ master.phase = "idle"
  <2>1. node[n].coord = n /\ node[n].upd = {}
    BY <1>1, <1>3 DEF Well
  <2>2. /\ master \in NodeRecords /\ master.state = "Normal" /\ master.coord = n
        /\ master.phase = "idle" /\ master.group = node[n].group
    <3> DEFINE r == node[n]
               g == r.llu.gen
    <3>1. r \in NodeRecords /\ g \in Nat /\ r.coord = n
      BY <1>3, <1>4, <2>1
    <3>2. master = [r EXCEPT !.state = "Normal", !.phase = "idle", !.gen = g]
      OBVIOUS
    <3> HIDE DEF master, r, g
    <3>3. /\ master \in NodeRecords /\ master.state = "Normal" /\ master.coord = n
          /\ master.phase = "idle" /\ master.group = r.group
      BY <3>1, <3>2 DEF NodeRecords
    <3> QED BY <3>3 DEF r
  <2> HIDE DEF master
  <2> QED BY <1>3, <2>2, MasterCalm
<1>6. ASSUME NEW m \in Nodes, m # n, goes(m)
      PROVE  Calm(m, slave(m)) /\ slave(m).phase = "idle"
  <2>1. node[m].phase = "idle"
    BY <1>1, <1>6 DEF Inv, GroupInv
  <2>2. node[m].upd = {}
    BY <1>3, <1>6 DEF Well
  <2>3. node[m].db = node[m].mem
    BY <1>1, <1>6 DEF Inv, InitedInv
  <2> DEFINE q == slave(m)
  <2>4. /\ q \in NodeRecords /\ q.state = "Normal" /\ q.coord = node[m].coord
        /\ q.phase = "idle" /\ q.group = node[m].group /\ q.upd = {} /\ q.db = q.mem
    <3> DEFINE r == node[m]
               g == node[n].llu.gen
    <3>1. r \in NodeRecords /\ g \in Nat /\ r.phase = "idle" /\ r.upd = {} /\ r.db = r.mem
      BY <1>3, <1>4, <2>1, <2>2, <2>3
    <3>2. q = [r EXCEPT !.state = "Normal", !.gen = g]
      OBVIOUS
    <3> HIDE DEF q, r, g
    <3>3. /\ q \in NodeRecords /\ q.state = "Normal" /\ q.coord = r.coord
          /\ q.phase = "idle" /\ q.group = r.group /\ q.upd = {} /\ q.db = q.mem
      BY <3>1, <3>2 DEF NodeRecords
    <3> QED BY <3>3 DEF r
  <2> HIDE DEF slave, goes
  <2> QED BY <1>3, <2>4 DEF Calm, Well
<1> HIDE DEF goes, master, slave
<1>7. /\ DOMAIN node' = Nodes /\ node' = [m \in Nodes |-> node'[m]]
      /\ \A m \in Nodes : \/ node'[m] = node[m]
                          \/ Calm(m, node'[m]) /\ node'[m].phase = "idle"
  BY <1>1, <1>5, <1>6
<1>8. \A p \in Nodes : Calm(p, node'[p])
  BY <1>3, <1>7
<1>9. \A p \in Nodes : \A x \in node'[p].obs :
        node'[p].phase = "init" => node[p].phase = "init" /\ x \in node[p].obs
  BY <1>7
<1> QED BY <1>2, <1>7, <1>8, <1>9, CalmStep

(* A coordinator and its slaves reorganize in a group of a new name. *)
LEMMA ElectStep ==
    ASSUME Inv, NEW n \in Nodes, NEW S \in SUBSET (Nodes \ {n}), Elect(n, S)
    PROVE  Inv'
<1> DEFINE wait == {[node |-> k, llu |-> node[k].llu] : k \in S}
           master == [node[n] EXCEPT !.state = "Reorganization", !.group = groups + 1,
                                     !.phase = "sync", !.wait = wait]
           slave(m) == [node[m] EXCEPT !.state = "Reorganization", !.coord = n,
                                       !.group = groups + 1]
<1>1. /\ node[n].coord = n
      /\ \A m \in S \cup {n} : node[m].state # "Reorganization" /\ node[m].upd = {}
      /\ groups' = groups + 1 /\ inits' = inits
  BY DEF Elect
<1>2. \A m \in Nodes : /\ node[m] \in NodeRecords /\ Well(m, node[m]) /\ node[m].group <= groups
                       /\ node[m].group \in Nat
  BY NodeFacts DEF NodeRecords
<1>3. groups \in Nat /\ groups + 1 \in Nat /\ inits \subseteq Inits
  BY DEF Inv, TypeInv
<1>4. /\ node'[n] = master
      /\ \A m \in S : node'[m] = slave(m)
      /\ \A m \in Nodes : m # n /\ m \notin S => node'[m] = node[m]
      /\ DOMAIN node' = Nodes /\ node' = [m \in Nodes |-> node'[m]]
  <2>1. node' = [m \in Nodes |-> IF m = n THEN master ELSE IF m \in S THEN slave(m) ELSE node[m]]
    BY DEF Elect
  <2> HIDE DEF master, slave
  <2> QED BY <2>1
<1>5. /\ master \in NodeRecords /\ master.state = "Reorganization" /\ master.coord = n
      /\ master.phase = "sync" /\ master.upd = {} /\ master.group = groups + 1
  <2>1. wait \in SUBSET [node : Nodes, llu : AnyStamp]
    <3>1. \A k \in S : node[k].llu \in AnyStamp
      BY NodeParts
    <3> QED BY <3>1
  <2> DEFINE r == node[n]
             g == groups + 1
  <2>2. r \in NodeRecords /\ g \in Nat /\ r.coord = n /\ r.upd = {}
    BY <1>1, <1>2, <1>3
  <2>3. master = [r EXCEPT !.state = "Reorganization", !.group = g, !.phase = "sync",
                           !.wait = wait]
    OBVIOUS
  <2> HIDE DEF wait, master, r, g
  <2>4. /\ master \in NodeRecords /\ master.state = "Reorganization" /\ master.coord = n
        /\ master.phase = "sync" /\ master.upd = {} /\ master.group = g
    BY <2>1, <2>2, <2>3 DEF NodeRecords
  <2> QED BY <2>4 DEF g
<1>6. ASSUME NEW m \in S
      PROVE  /\ slave(m) \in NodeRecords /\ slave(m).state = "Reorganization"
             /\ slave(m).phase = "idle" /\ slave(m).upd = {} /\ slave(m).group = groups + 1
  <2>1. node[m].phase = "idle" /\ node[m].upd = {} /\ node[m] \in NodeRecords
    BY <1>1, <1>2 DEF Well
  <2> QED BY <1>3, <2>1 DEF NodeRecords
<1> HIDE DEF master, slave
<1>7. \A m \in Nodes : Well(m, node'[m])
  BY <1>2, <1>4, <1>5, <1>6 DEF Well
<1>8. TypeInv'
  BY <1>1, <1>3, <1>4, <1>7 DEF TypeInv, Well
<1>9. \A m \in Nodes : \/ m = n
                       \/ m \in S /\ node'[m].phase = "idle" /\ node'[m].group = groups + 1
                       \/ node'[m] = node[m]
  BY <1>4, <1>6
<1>10. GroupInv'
  <2>1. \A m \in Nodes : node'[m].group <= groups'
    BY <1>1, <1>2, <1>3, <1>4, <1>5, <1>9
  <2>2. ASSUME NEW p \in Nodes, NEW q \in Nodes, node'[p].phase # "idle",
               node'[q].phase # "idle", node'[p].group = node'[q].group
        PROVE  p = q
    <3>1. node'[n].group = groups + 1
      BY <1>4, <1>5
    <3>2. \A m \in Nodes : node[m].group # groups + 1
      BY <1>2, <1>3
    <3>3. CASE p = n \/ q = n
      BY <1>9, <2>2, <3>1, <3>2, <3>3
    <3>4. CASE p # n /\ q # n
      BY <1>9, <2>2, <3>4 DEF Inv, GroupInv
    <3> QED BY <3>3, <3>4
  <2> QED BY <2>1, <2>2 DEF GroupInv
<1>11. InitedInv'
  <2> SUFFICES ASSUME NEW p \in Nodes, NEW m \in Nodes, node'[p].phase = "init",
                      [node |-> m, inc |-> node'[m].inc] \in node'[p].obs, p # m,
                      node'[m].state = "Reorganization", node'[m].group = node'[p].group
               PROVE  node'[m].db = node'[m].mem
    BY DEF InitedInv
  <2>1. node'[p] = node[p]
    BY <1>4, <1>5, <1>9
  <2>2. node[p].group # groups + 1
    BY <1>2, <1>3
  <2>3. node'[m] = node[m]
    BY <1>4, <1>5, <1>9, <2>1, <2>2
  <2> QED BY <2>1, <2>3 DEF Inv, InitedInv
<1> QED BY <1>7, <1>8, <1>10, <1>11 DEF Inv

-----------------------------------------------------------------------------

(* It holds at first. *)
LEMMA InitInv ==
    Init => Inv
<1> SUFFICES ASSUME Init
             PROVE  Inv
  OBVIOUS
<1>1. PICK c \in Nodes : node = [n \in Nodes |-> OnDuty(n, c)]
  BY DEF Init
<1>2. ASSUME NEW n \in Nodes
      PROVE  /\ OnDuty(n, c) \in NodeRecords /\ OnDuty(n, c).state = "Normal"
             /\ OnDuty(n, c).phase = "idle" /\ OnDuty(n, c).upd = {} /\ OnDuty(n, c).group = 1
             /\ OnDuty(n, c).db = OnDuty(n, c).mem
  <2> DEFINE l == LLU(1, 0)
             obs == IF n = c THEN [node : Nodes \ {c}, inc : {0}] ELSE {}
  <2>1. l \in AnyStamp
    BY DEF LLU, AnyStamp
  <2>2. obs \in SUBSET AnyObserver
    BY DEF AnyObserver
  <2> HIDE DEF l, obs
  <2>3. OnDuty(n, c) =
          [state |-> "Normal", coord |-> c, group |-> 1, gen |-> 1, phase |-> "idle",
           wait |-> {}, inc |-> 0, llu |-> l, db |-> {}, mem |-> {}, obs |-> obs,
           upd |-> {}, by |-> 1]
    BY DEF OnDuty, l, obs
  <2> QED BY <2>1, <2>2, <2>3 DEF NodeRecords
<1>3. groups = 1 /\ inits = {}
  BY DEF Init
<1>4. \A n \in Nodes : /\ node[n] \in NodeRecords /\ Well(n, node[n])
                       /\ node[n].phase = "idle" /\ node[n].group = 1
  BY <1>1, <1>2 DEF Well
<1>5. TypeInv
  BY <1>1, <1>2, <1>3 DEF TypeInv
<1>6. GroupInv /\ InitedInv
  BY <1>3, <1>4 DEF GroupInv, InitedInv
<1> QED BY <1>4, <1>5, <1>6 DEF Inv

(* Every step preserves it. *)
LEMMA NextInv ==
    Inv /\ [Next]_vars => Inv'
<1> SUFFICES ASSUME Inv, [Next]_vars
             PROVE  Inv'
  OBVIOUS
<1>1. CASE UNCHANGED vars
  BY <1>1 DEF vars, Inv, TypeInv, GroupInv, InitedInv
<1>2. ASSUME NEW n \in Nodes, NEW o \in Ops, Enter(n, o)
      PROVE  Inv'
  BY <1>2, EnterStep
<1>3. ASSUME NEW n \in Nodes, Commit(n) \/ Send(n) \/ Reply(n) \/ Finish(n)
      PROVE  Inv'
  BY <1>3, CommitStep, SendStep, ReplyStep, FinishStep
<1>4. ASSUME NEW n \in Nodes, MajorityLost(n) \/ Leaves(n) \/ Restart(n)
      PROVE  Inv'
  BY <1>4, LeavesStep, RestartStep
<1>5. ASSUME NEW n \in Nodes, NEW S \in SUBSET (Nodes \ {n}), Elect(n, S)
      PROVE  Inv'
  BY <1>5, ElectStep
<1>6. ASSUME NEW n \in Nodes, SyncAndInit(n) \/ InitSlave(n) \/ ReadyAll(n)
      PROVE  Inv'
  BY <1>6, SyncAndInitStep, InitSlaveStep, ReadyAllStep
<1> QED BY <1>1, <1>2, <1>3, <1>4, <1>5, <1>6 DEF Next

(* Updates are those of masters, one coordinator leads a group, and what   *)
(* it counts as an observer has been initialized.                          *)
THEOREM ReplicationInvariant == Spec => []Inv
BY InitInv, NextInv, PTL DEF Spec

(* The database of a slave on duty is what it has in memory, in any group  *)
(* and after any failures and restarts: a node whose database the restart  *)
(* read as other topics does not serve before init() replaced both.        *)
THEOREM SlaveOnDisk == Spec => []DiskIsMemory
<1>1. Inv => DiskIsMemory
  BY DEF Inv, Well, DiskIsMemory
<1> QED BY <1>1, ReplicationInvariant, PTL

-----------------------------------------------------------------------------
(* The bounds.  A coordinator before its sync has an election whose        *)
(* generation nobody has yet, and an update before its commit is one that  *)
(* no stamp counts; what is left of the counters bounds every stamp, those *)
(* in calls and in the waiting lists included.                             *)
Syncing == {n \in Nodes : node[n].phase = "sync"}
Entering == {x \in Nodes \X Ops : \E u \in node[x[1]].upd : u.o = x[2] /\ u.pc = "entered"}
TopGen == groups - Cardinality(Syncing)
TopIter == ops - Cardinality(Entering)

StampFits(l, g, i) == l.gen <= g /\ l.iter <= i

(* A node in state q keeps to generation g, iteration i, incarnation r and *)
(* group p; an update is in progress once.                                 *)
Fits(q, g, i, r, p) ==
    /\ StampFits(q.llu, g, i) /\ q.gen <= g /\ q.inc <= r /\ q.by \in 1..p
    /\ q.phase # "idle" => q.group # 0
    /\ \A w \in q.wait : StampFits(w.llu, g, i)
    /\ \A x \in q.obs : x.inc <= r
    /\ \A u \in q.upd : StampFits(u.llu, g, i) /\ \A x \in u.todo : x.inc <= r
    /\ \A u, v \in q.upd : u.o = v.o => u = v

CallFits(c, g, i, r, p) == StampFits(c.llu, g, i) /\ c.inc <= r /\ c.group \in 1..p

BoundInv ==
    /\ IsFiniteSet(Entering) /\ TopGen >= 1 /\ TopIter >= 0
    /\ \A n \in Nodes : Fits(node[n], TopGen, TopIter, restarts, groups)
    /\ \A c \in inits : CallFits(c, TopGen, TopIter, restarts, groups)
    /\ stamped \subseteq [group : 1..groups, gen : 1..TopGen]
    /\ acked \subseteq Keys
    /\ ops \in 0..MaxOps /\ groups \in 1..MaxGroups
    /\ failures \in 0..MaxFailures /\ restarts \in 0..MaxRestarts

(* The counters are numbers. *)
LEMMA BoundNumbers ==
    ASSUME BoundInv
    PROVE  /\ IsFiniteSet(Syncing) /\ Cardinality(Syncing) \in Nat /\ Cardinality(Entering) \in Nat
           /\ TopGen \in Nat /\ TopIter \in Nat /\ ops \in Nat /\ groups \in Nat
           /\ restarts \in Nat /\ failures \in Nat
<1>1. IsFiniteSet(Syncing)
  <2>1. Syncing \in SUBSET Nodes
    BY DEF Syncing
  <2> QED BY <2>1, NodesAssumption, FS_Subset
<1>2. Cardinality(Syncing) \in Nat /\ Cardinality(Entering) \in Nat
  BY <1>1, FS_CardinalityType DEF BoundInv
<1>3. ops \in Nat /\ groups \in Nat /\ restarts \in Nat /\ failures \in Nat
  BY ReplicationBounds DEF BoundInv
<1>4. TopGen \in Int /\ TopIter \in Int
  BY <1>2, <1>3 DEF TopGen, TopIter
<1>5. TopGen \in Nat /\ TopIter \in Nat
  BY <1>4 DEF BoundInv
<1> QED BY <1>1, <1>2, <1>3, <1>5

(* Higher bounds are kept too. *)
LEMMA FitsMore ==
    ASSUME NEW q \in NodeRecords,
           NEW g \in Nat, NEW i \in Nat, NEW r \in Nat, NEW p \in Nat,
           NEW g2 \in Nat, NEW i2 \in Nat, NEW r2 \in Nat, NEW p2 \in Nat,
           g <= g2, i <= i2, r <= r2, p <= p2, Fits(q, g, i, r, p)
    PROVE  Fits(q, g2, i2, r2, p2)
<1>1. ASSUME NEW l \in AnyStamp, StampFits(l, g, i)
      PROVE  StampFits(l, g2, i2)
  <2>1. l.gen \in Nat /\ l.iter \in Nat
    BY DEF AnyStamp
  <2> QED BY <1>1, <2>1 DEF StampFits
<1>2. /\ q.llu \in AnyStamp /\ q.gen \in Nat /\ q.inc \in Nat
      /\ \A w \in q.wait : w.llu \in AnyStamp
      /\ \A x \in q.obs : x.inc \in Nat
      /\ \A u \in q.upd : u.llu \in AnyStamp /\ \A x \in u.todo : x.inc \in Nat
  <2>1. /\ q.llu \in AnyStamp /\ q.gen \in Nat /\ q.inc \in Nat
        /\ q.wait \in SUBSET [node : Nodes, llu : AnyStamp]
        /\ q.obs \in SUBSET AnyObserver /\ q.upd \in SUBSET AnyUpdate
    BY DEF NodeRecords
  <2>2. \A x \in AnyObserver : x.inc \in Nat
    BY DEF AnyObserver
  <2>3. \A u \in AnyUpdate : u.llu \in AnyStamp /\ u.todo \in SUBSET AnyObserver
    BY DEF AnyUpdate
  <2> QED BY <2>1, <2>2, <2>3
<1>3. StampFits(q.llu, g2, i2) /\ q.gen <= g2 /\ q.inc <= r2 /\ q.by \in 1..p2
  BY <1>1, <1>2 DEF Fits
<1>4. \A w \in q.wait : StampFits(w.llu, g2, i2)
  BY <1>1, <1>2 DEF Fits
<1>5. \A x \in q.obs : x.inc <= r2
  BY <1>2 DEF Fits
<1>6. ASSUME NEW u \in q.upd
      PROVE  StampFits(u.llu, g2, i2) /\ \A x \in u.todo : x.inc <= r2
  BY <1>1, <1>2 DEF Fits
<1>7. /\ q.phase # "idle" => q.group # 0
      /\ \A u, v \in q.upd : u.o = v.o => u = v
  BY DEF Fits
<1> QED BY <1>3, <1>4, <1>5, <1>6, <1>7 DEF Fits

(* A step that raises the bounds, and after which every node keeps to the  *)
(* old ones or to the new.                                                 *)
LEMMA BoundStep ==
    ASSUME Inv, Inv', BoundInv, IsFiniteSet(Entering'), TopGen' \in Nat, TopIter' \in Nat,
           TopGen <= TopGen', TopIter <= TopIter', restarts <= restarts', groups <= groups',
           ops' \in 0..MaxOps, groups' \in 1..MaxGroups,
           failures' \in 0..MaxFailures, restarts' \in 0..MaxRestarts,
           acked' \subseteq Keys,
           \A n \in Nodes : \/ Fits(node'[n], TopGen, TopIter, restarts, groups)
                            \/ Fits(node'[n], TopGen', TopIter', restarts', groups'),
           \A c \in inits' : \/ c \in inits
                             \/ CallFits(c, TopGen', TopIter', restarts', groups'),
           \A a \in stamped' : a \in stamped \/ a \in [group : 1..groups', gen : 1..TopGen']
    PROVE  BoundInv'
<1>1. /\ TopGen \in Nat /\ TopIter \in Nat /\ groups \in Nat /\ restarts \in Nat
      /\ groups' \in Nat /\ restarts' \in Nat
  BY BoundNumbers, ReplicationBounds
<1>2. \A n \in Nodes : node'[n] \in NodeRecords
  BY DEF Inv, TypeInv
<1>3. \A n \in Nodes : Fits(node'[n], TopGen', TopIter', restarts', groups')
  BY <1>1, <1>2, FitsMore
<1>4. \A c \in inits' : CallFits(c, TopGen', TopIter', restarts', groups')
  <2> SUFFICES ASSUME NEW c \in inits', c \in inits
               PROVE  CallFits(c, TopGen', TopIter', restarts', groups')
    OBVIOUS
  <2>1. c.llu \in AnyStamp /\ c.inc \in Nat /\ c.group \in Nat
    BY DEF Inv, TypeInv, Inits
  <2>2. c.llu.gen \in Nat /\ c.llu.iter \in Nat
    BY <2>1 DEF AnyStamp
  <2>3. CallFits(c, TopGen, TopIter, restarts, groups)
    BY DEF BoundInv
  <2> HIDE DEF TopGen, TopIter
  <2> QED BY <1>1, <2>1, <2>2, <2>3 DEF CallFits, StampFits
<1>5. stamped' \subseteq [group : 1..groups', gen : 1..TopGen']
  <2>1. 1..groups \subseteq 1..groups' /\ 1..TopGen \subseteq 1..TopGen'
    BY <1>1
  <2> QED BY <2>1 DEF BoundInv
<1>6. TopGen' >= 1 /\ TopIter' >= 0
  BY <1>1 DEF BoundInv
<1> QED BY <1>3, <1>4, <1>5, <1>6 DEF BoundInv

(* A step that enters no update and begins no election. *)
LEMMA TopsKept ==
    ASSUME BoundInv, groups' = groups, ops' = ops,
           \A p \in Nodes :
               /\ node'[p].phase = "sync" => node[p].phase = "sync"
               /\ \A u \in node'[p].upd : u.pc = "entered" =>
                      \E v \in node[p].upd : v.o = u.o /\ v.pc = "entered"
    PROVE  /\ IsFiniteSet(Entering') /\ TopGen' \in Nat /\ TopIter' \in Nat
           /\ TopGen <= TopGen' /\ TopIter <= TopIter'
<1>1. Syncing' \in SUBSET Syncing
  BY DEF Syncing
<1>2. Entering' \in SUBSET Entering
  BY DEF Entering
<1>3. /\ Cardinality(Syncing') <= Cardinality(Syncing) /\ Cardinality(Syncing') \in Nat
      /\ Cardinality(Syncing) \in Nat
  BY <1>1, BoundNumbers, FS_Subset, FS_CardinalityType
<1>4. /\ Cardinality(Entering') <= Cardinality(Entering) /\ Cardinality(Entering') \in Nat
      /\ Cardinality(Entering) \in Nat /\ IsFiniteSet(Entering')
  BY <1>2, FS_Subset, FS_CardinalityType DEF BoundInv
<1>5. /\ groups \in Nat /\ ops \in Nat /\ TopGen \in Nat /\ TopIter \in Nat
  BY BoundNumbers
<1> QED BY <1>3, <1>4, <1>5 DEF TopGen, TopIter

(* Such a step of nodes that keep to the bounds. *)
LEMMA KeptStep ==
    ASSUME Inv, Inv', BoundInv, groups' = groups, ops' = ops, restarts' = restarts,
           failures' \in 0..MaxFailures, acked' \subseteq Keys, stamped' = stamped,
           inits' \subseteq inits,
           \A p \in Nodes :
               /\ Fits(node'[p], TopGen, TopIter, restarts, groups)
               /\ node'[p].phase = "sync" => node[p].phase = "sync"
               /\ \A u \in node'[p].upd : u.pc = "entered" =>
                      \E v \in node[p].upd : v.o = u.o /\ v.pc = "entered"
    PROVE  BoundInv'
<1>1. /\ IsFiniteSet(Entering') /\ TopGen' \in Nat /\ TopIter' \in Nat
      /\ TopGen <= TopGen' /\ TopIter <= TopIter'
  BY TopsKept
<1>2. /\ restarts <= restarts' /\ groups <= groups' /\ ops' \in 0..MaxOps
      /\ groups' \in 1..MaxGroups /\ restarts' \in 0..MaxRestarts
  BY BoundNumbers DEF BoundInv
<1>3. \A c \in inits' : c \in inits
  OBVIOUS
<1>4. \A a \in stamped' : a \in stamped
  OBVIOUS
<1>5. \A n \in Nodes : Fits(node'[n], TopGen, TopIter, restarts, groups)
  OBVIOUS
<1> QED BY <1>1, <1>2, <1>3, <1>4, <1>5, BoundStep

(* A failed call counts once. *)
LEMMA FailBound ==
    ASSUME BoundInv, Fail \/ failures' = failures
    PROVE  failures' \in 0..MaxFailures
BY ReplicationBounds DEF BoundInv, Fail

(* recovery() keeps to the bounds. *)
LEMMA RecoveryFits ==
    ASSUME NEW n \in Nodes, NEW q \in NodeRecords,
           NEW g \in Nat, NEW i, NEW r, NEW p, Fits(q, g, i, r, p)
    PROVE  /\ Fits(Recovery(n, q), g, i, r, p) /\ Recovery(n, q).upd = q.upd
           /\ Recovery(n, q).phase = "sync" => q.phase = "sync"
           /\ q.upd = {} => Recovery(n, q).phase = "idle"
           /\ Recovery(n, q) \in NodeRecords
<1> DEFINE w == [q EXCEPT !.state = "Inactive"]
           z == [q EXCEPT !.state = "Inactive", !.coord = n, !.group = 0, !.gen = 0,
                          !.phase = "idle", !.wait = {}]
<1>1. /\ w.upd = q.upd /\ w.phase = q.phase /\ w.group = q.group /\ w.gen = q.gen
      /\ w.llu = q.llu /\ w.inc = q.inc /\ w.by = q.by /\ w.wait = q.wait /\ w.obs = q.obs
      /\ w \in NodeRecords
  BY DEF NodeRecords
<1>2. /\ z.upd = q.upd /\ z.phase = "idle" /\ z.gen = 0 /\ z.llu = q.llu /\ z.inc = q.inc
      /\ z.by = q.by /\ z.wait = {} /\ z.obs = q.obs /\ z \in NodeRecords
  BY DEF NodeRecords
<1>3. Recovery(n, q) = IF q.upd # {} THEN w ELSE z
  BY DEF Recovery
<1> HIDE DEF w, z
<1>4. Fits(w, g, i, r, p)
  BY <1>1 DEF Fits
<1>5. Fits(z, g, i, r, p)
  BY <1>2 DEF Fits
<1> QED BY <1>1, <1>2, <1>3, <1>4, <1>5

(* What is known of a node. *)
LEMMA FitFacts ==
    ASSUME Inv, BoundInv, NEW n \in Nodes
    PROVE  /\ node \in [Nodes -> NodeRecords] /\ node[n] \in NodeRecords
           /\ node[n].upd \in SUBSET AnyUpdate /\ Well(n, node[n])
           /\ Fits(node[n], TopGen, TopIter, restarts, groups)
           /\ TopGen \in Nat /\ TopIter \in Nat /\ restarts \in Nat /\ groups \in Nat
BY NodeFacts, NodeParts, BoundNumbers DEF BoundInv

(* One node takes a step that enters no update and begins no election.     *)
LEMMA KeptOne ==
    ASSUME Inv, Inv', BoundInv, groups' = groups, ops' = ops, restarts' = restarts,
           failures' \in 0..MaxFailures, acked' \subseteq Keys, stamped' = stamped,
           inits' \subseteq inits, NEW n \in Nodes, NEW q, node' = [node EXCEPT ![n] = q],
           Fits(q, TopGen, TopIter, restarts, groups),
           q.phase = "sync" => node[n].phase = "sync",
           \A u \in q.upd : u.pc = "entered" =>
               \E v \in node[n].upd : v.o = u.o /\ v.pc = "entered"
    PROVE  BoundInv'
<1>1. node'[n] = q /\ \A p \in Nodes \ {n} : node'[p] = node[p]
  BY FitFacts
<1>2. \A p \in Nodes : /\ Fits(node'[p], TopGen, TopIter, restarts, groups)
                       /\ node'[p].phase = "sync" => node[p].phase = "sync"
                       /\ \A u \in node'[p].upd : u.pc = "entered" =>
                              \E v \in node[p].upd : v.o = u.o /\ v.pc = "entered"
  BY <1>1, FitFacts
<1> QED BY <1>2, KeptStep

(* An update enters. *)
LEMMA EnterBound ==
    ASSUME Inv, Inv', BoundInv, NEW n \in Nodes, NEW o \in Ops, Enter(n, o)
    PROVE  BoundInv'
<1> DEFINE r == node[n]
           l == LLU(0, 0)
           u == [o |-> o, pc |-> "entered", dead |-> FALSE, llu |-> l, todo |-> {}]
           q == [r EXCEPT !.upd = @ \cup {u}]
<1>1. /\ r \in NodeRecords /\ Fits(r, TopGen, TopIter, restarts, groups)
      /\ TopGen \in Nat /\ TopIter \in Nat /\ node \in [Nodes -> NodeRecords]
      /\ groups \in Nat /\ ops \in Nat /\ restarts \in Nat
  BY FitFacts, BoundNumbers
<1>2. /\ u.o = o /\ u.llu = l /\ u.todo = {} /\ l.gen = 0 /\ l.iter = 0
      /\ \A v \in r.upd : v.o # o
  BY DEF Enter, LLU
<1>3. node' = [node EXCEPT ![n] = q]
  BY <1>1 DEF Enter
<1>4. /\ groups' = groups /\ stamped' = stamped /\ inits' = inits /\ acked' = acked
      /\ failures' = failures /\ restarts' = restarts /\ ops' = ops + 1 /\ ops < MaxOps
  BY DEF Enter
<1> HIDE DEF u, l
<1>5. /\ q.phase = r.phase /\ q.by = r.by /\ q.llu = r.llu /\ q.obs = r.obs /\ q.gen = r.gen
      /\ q.inc = r.inc /\ q.wait = r.wait /\ q.group = r.group /\ q.upd = r.upd \cup {u}
  BY <1>1 DEF NodeRecords
<1> HIDE DEF q
<1>6. Fits(q, TopGen, TopIter, restarts, groups)
  <2>1. StampFits(u.llu, TopGen, TopIter)
    BY <1>1, <1>2 DEF StampFits
  <2>2. \A v \in q.upd : /\ StampFits(v.llu, TopGen, TopIter)
                         /\ \A x \in v.todo : x.inc <= restarts
    BY <1>1, <1>2, <1>5, <2>1 DEF Fits
  <2>3. \A v, w \in q.upd : v.o = w.o => v = w
    BY <1>1, <1>2, <1>5 DEF Fits
  <2> QED BY <1>1, <1>5, <2>2, <2>3 DEF Fits
<1>7. node'[n] = q /\ \A p \in Nodes \ {n} : node'[p] = node[p]
  BY <1>1, <1>3
<1>8. Syncing' = Syncing
  BY <1>5, <1>7 DEF Syncing
<1>9. Entering' \in SUBSET (Entering \cup {<<n, o>>})
  <2> SUFFICES ASSUME NEW p \in Nodes, NEW j \in Ops, <<p, j>> \in Entering'
               PROVE  <<p, j>> \in Entering \cup {<<n, o>>}
    BY DEF Entering
  <2>1. PICK v \in node'[p].upd : v.o = j /\ v.pc = "entered"
    BY DEF Entering
  <2>2. CASE v \in node[p].upd
    BY <2>1, <2>2 DEF Entering
  <2>3. CASE v \notin node[p].upd
    BY <1>2, <1>5, <1>7, <2>1, <2>3
  <2> QED BY <2>2, <2>3
<1>10. /\ IsFiniteSet(Entering') /\ Cardinality(Entering') <= Cardinality(Entering) + 1
       /\ Cardinality(Entering') \in Nat /\ Cardinality(Entering) \in Nat
  <2> DEFINE x == <<n, o>>
  <2> HIDE DEF x
  <2>1. IsFiniteSet(Entering) /\ Cardinality(Entering) \in Nat
    BY BoundNumbers DEF BoundInv
  <2>2. /\ IsFiniteSet(Entering \cup {x})
        /\ Cardinality(Entering \cup {x}) <= Cardinality(Entering) + 1
        /\ Cardinality(Entering \cup {x}) \in Nat
    <3>1. /\ IsFiniteSet(Entering \cup {x})
          /\ Cardinality(Entering \cup {x}) =
               IF x \in Entering THEN Cardinality(Entering) ELSE Cardinality(Entering) + 1
      BY <2>1, FS_AddElement
    <3> QED BY <2>1, <3>1
  <2>3. /\ IsFiniteSet(Entering') /\ Cardinality(Entering') <= Cardinality(Entering \cup {x})
        /\ Cardinality(Entering') \in Nat
    BY <1>9, <2>2, FS_Subset, FS_CardinalityType DEF x
  <2> QED BY <2>1, <2>2, <2>3
<1>11. TopGen' = TopGen
  BY <1>4, <1>8 DEF TopGen
<1>12. TopIter' \in Nat /\ TopIter <= TopIter'
  BY <1>1, <1>4, <1>10 DEF TopIter
<1>13. \A p \in Nodes : Fits(node'[p], TopGen, TopIter, restarts, groups)
  BY <1>6, <1>7, FitFacts
<1>14. /\ ops' \in 0..MaxOps /\ groups' \in 1..MaxGroups /\ failures' \in 0..MaxFailures
       /\ restarts' \in 0..MaxRestarts /\ acked' \subseteq Keys
  BY <1>1, <1>4, ReplicationBounds DEF BoundInv
<1>15. TopGen' \in Nat /\ TopGen <= TopGen' /\ restarts <= restarts' /\ groups <= groups'
  BY <1>1, <1>4, <1>11
<1> HIDE DEF r
<1> QED BY <1>4, <1>10, <1>12, <1>13, <1>14, <1>15, BoundStep

(* An update is committed, which its stamp counts, or is pointless.        *)
LEMMA CommitBound ==
    ASSUME Inv, Inv', BoundInv, NEW n \in Nodes, Commit(n)
    PROVE  BoundInv'
<1> DEFINE r == node[n]
           l == getIncrementedLLU(r.llu)
           Dies(u, v) == IF u.o.op = "destroy" /\ v.o.key[1] = u.o.key[1] /\ v.o.op # "create"
                         THEN [v EXCEPT !.dead = TRUE] ELSE v
           c(u) == [u EXCEPT !.pc = "committed", !.llu = l]
           Upd(u) == {Dies(u, v) : v \in r.upd \ {u}} \cup {c(u)}
           q(u) == [r EXCEPT !.db = CommitDb(@, u.o), !.mem = CommitMem(@, u), !.llu = l,
                             !.upd = Upd(u)]
<1>1. PICK u \in node[n].upd :
        /\ u.pc = "entered"
        /\ \/ node' = [node EXCEPT ![n].upd = @ \ {u}] /\ acked' = acked
           \/ node' = [node EXCEPT ![n] = q(u)] /\ acked' = acked \ Removes(u.o)
  BY DEF Commit
<1>2. /\ r \in NodeRecords /\ Fits(r, TopGen, TopIter, restarts, groups)
      /\ TopGen \in Nat /\ TopIter \in Nat /\ node \in [Nodes -> NodeRecords]
      /\ groups \in Nat /\ ops \in Nat /\ restarts \in Nat
      /\ r.upd \in SUBSET AnyUpdate /\ r.llu \in AnyStamp
  BY FitFacts, BoundNumbers, NodeParts
<1>3. /\ groups' = groups /\ stamped' = stamped /\ inits' = inits /\ ops' = ops
      /\ failures' = failures /\ restarts' = restarts
  BY DEF Commit
<1>4. acked' \subseteq Keys /\ failures' \in 0..MaxFailures
  BY <1>1, <1>3 DEF BoundInv
<1>5. CASE node' = [node EXCEPT ![n].upd = @ \ {u}]
  <2> DEFINE p == [r EXCEPT !.upd = @ \ {u}]
  <2>1. node' = [node EXCEPT ![n] = p]
    BY <1>2, <1>5
  <2>2. /\ p.phase = r.phase /\ p.by = r.by /\ p.llu = r.llu /\ p.obs = r.obs /\ p.gen = r.gen
        /\ p.inc = r.inc /\ p.wait = r.wait /\ p.group = r.group /\ p.upd = r.upd \ {u}
    BY <1>2 DEF NodeRecords
  <2> HIDE DEF p
  <2>3. Fits(p, TopGen, TopIter, restarts, groups)
    BY <1>2, <2>2 DEF Fits
  <2>4. /\ p.phase = "sync" => node[n].phase = "sync"
        /\ \A v \in p.upd : v.pc = "entered" =>
               \E y \in node[n].upd : y.o = v.o /\ y.pc = "entered"
    BY <2>2
  <2> HIDE DEF r
  <2> QED BY <1>3, <1>4, <2>1, <2>3, <2>4, KeptOne
<1>6. CASE node' = [node EXCEPT ![n] = q(u)]
  <2> DEFINE p == q(u)
             d == c(u)
             i == TopIter + 1
  <2>1. /\ p.phase = r.phase /\ p.by = r.by /\ p.llu = l /\ p.obs = r.obs /\ p.gen = r.gen
        /\ p.inc = r.inc /\ p.wait = r.wait /\ p.group = r.group /\ p.upd = Upd(u)
    <3> HIDE DEF l, Upd
    <3> QED BY <1>2 DEF NodeRecords
  <2>2. l.gen = r.llu.gen /\ l.iter = r.llu.iter + 1 /\ r.llu.gen \in Nat /\ r.llu.iter \in Nat
    BY <1>2 DEF getIncrementedLLU, AnyStamp
  <2>3. u \in AnyUpdate
    BY <1>2
  <2>4. d.o = u.o /\ d.pc = "committed" /\ d.llu = l /\ d.todo = u.todo
    <3> HIDE DEF l
    <3> QED BY <2>3 DEF AnyUpdate
  <2>5. \A v \in AnyUpdate : /\ Dies(u, v).o = v.o /\ Dies(u, v).pc = v.pc
                             /\ Dies(u, v).llu = v.llu /\ Dies(u, v).todo = v.todo
    BY DEF AnyUpdate
  <2> HIDE DEF l, q, c, Dies
  <2>6. \A x \in p.upd : x = d \/ \E v \in r.upd \ {u} : x = Dies(u, v)
    BY <2>1
  <2>7. \A v \in r.upd \ {u} : /\ v \in AnyUpdate /\ v.o # u.o
                               /\ Dies(u, v).o = v.o /\ Dies(u, v).pc = v.pc
                               /\ Dies(u, v).llu = v.llu /\ Dies(u, v).todo = v.todo
    BY <1>2, <2>5 DEF Fits
  <2> HIDE DEF p, d, Upd
  <2>8. Fits(r, TopGen, i, restarts, groups) /\ i \in Nat
    <3> DEFINE tg == TopGen
               ti == TopIter
    <3>1. /\ tg \in Nat /\ ti \in Nat /\ ti + 1 \in Nat /\ tg <= tg /\ ti <= ti + 1
          /\ restarts <= restarts /\ groups <= groups
      BY <1>2
    <3>2. Fits(r, tg, ti, restarts, groups)
      BY <1>2
    <3> HIDE DEF tg, ti, r
    <3>3. Fits(r, tg, ti + 1, restarts, groups)
      BY <1>2, <3>1, <3>2, FitsMore
    <3> QED BY <3>1, <3>3 DEF tg, ti
  <2>9. StampFits(l, TopGen, i)
    BY <1>2, <2>2 DEF Fits, StampFits
  <2> HIDE DEF i
  <2>10. \A x \in p.upd : StampFits(x.llu, TopGen, i) /\ \A y \in x.todo : y.inc <= restarts
    <3> SUFFICES ASSUME NEW x \in p.upd
                 PROVE  StampFits(x.llu, TopGen, i) /\ \A y \in x.todo : y.inc <= restarts
      OBVIOUS
    <3>1. CASE x = d
      BY <1>1, <2>4, <2>8, <2>9, <3>1 DEF Fits
    <3>2. CASE x # d
      <4>1. PICK v \in r.upd \ {u} : x = Dies(u, v)
        BY <2>6, <3>2
      <4> QED BY <2>7, <2>8, <4>1 DEF Fits
    <3> QED BY <3>1, <3>2
  <2>11. ASSUME NEW x \in p.upd, NEW y \in p.upd, x.o = y.o
         PROVE  x = y
    <3>1. CASE x = d /\ y = d
      BY <3>1
    <3>2. CASE x = d /\ y # d
      BY <2>4, <2>6, <2>7, <2>11, <3>2
    <3>3. CASE x # d /\ y = d
      BY <2>4, <2>6, <2>7, <2>11, <3>3
    <3>4. CASE x # d /\ y # d
      <4>1. PICK v \in r.upd \ {u} : x = Dies(u, v)
        BY <2>6, <3>4
      <4>2. PICK w \in r.upd \ {u} : y = Dies(u, w)
        BY <2>6, <3>4
      <4>3. v = w
        BY <1>2, <2>7, <2>11, <4>1, <4>2 DEF Fits
      <4> QED BY <4>1, <4>2, <4>3
    <3> QED BY <3>1, <3>2, <3>3, <3>4
  <2>12. Fits(p, TopGen, i, restarts, groups)
    BY <2>1, <2>8, <2>9, <2>10, <2>11 DEF Fits
  <2>13. node'[n] = p /\ \A k \in Nodes \ {n} : node'[k] = node[k]
    BY <1>2, <1>6 DEF p
  <2>14. Syncing' = Syncing
    BY <2>1, <2>13 DEF Syncing
  <2> DEFINE x == <<n, u.o>>
  <2>15. x \in Entering
    BY <1>1, <2>3 DEF Entering, AnyUpdate
  <2>16. Entering' \in SUBSET (Entering \ {x})
    <3> SUFFICES ASSUME NEW k \in Nodes, NEW j \in Ops, <<k, j>> \in Entering'
                 PROVE  <<k, j>> \in Entering \ {x}
      BY DEF Entering
    <3>1. PICK v \in node'[k].upd : v.o = j /\ v.pc = "entered"
      BY DEF Entering
    <3>2. CASE k = n
      <4>1. v \in p.upd /\ v # d
        BY <2>4, <2>13, <3>1, <3>2
      <4>2. PICK w \in r.upd \ {u} : v = Dies(u, w)
        BY <2>6, <4>1
      <4>3. w.o = j /\ w.pc = "entered" /\ j # u.o
        BY <2>7, <3>1, <4>2
      <4> QED BY <3>2, <4>2, <4>3 DEF Entering
    <3>3. CASE k # n
      BY <2>13, <3>1, <3>3 DEF Entering
    <3> QED BY <3>2, <3>3
  <2> HIDE DEF x
  <2>17. /\ IsFiniteSet(Entering') /\ Cardinality(Entering') <= Cardinality(Entering) - 1
         /\ Cardinality(Entering') \in Nat /\ Cardinality(Entering) \in Nat
    <3>1. IsFiniteSet(Entering) /\ Cardinality(Entering) \in Nat
      BY BoundNumbers DEF BoundInv
    <3>2. /\ IsFiniteSet(Entering \ {x})
          /\ Cardinality(Entering \ {x}) = Cardinality(Entering) - 1
          /\ Cardinality(Entering \ {x}) \in Nat
      BY <2>15, <3>1, FS_RemoveElement, FS_CardinalityType
    <3>3. /\ IsFiniteSet(Entering') /\ Cardinality(Entering') <= Cardinality(Entering \ {x})
          /\ Cardinality(Entering') \in Nat
      BY <2>16, <3>2, FS_Subset, FS_CardinalityType
    <3> QED BY <3>1, <3>2, <3>3
  <2>18. TopGen' = TopGen
    BY <1>3, <2>14 DEF TopGen
  <2>19. TopIter' \in Nat /\ i <= TopIter' /\ TopIter <= TopIter'
    BY <1>2, <1>3, <2>17 DEF TopIter, i
  <2>20. p \in NodeRecords
    BY <2>13 DEF Inv, TypeInv
  <2>21. /\ TopGen' \in Nat /\ TopGen <= TopGen' /\ restarts <= restarts' /\ groups <= groups'
         /\ restarts' \in Nat /\ groups' \in Nat
    BY <1>2, <1>3, <2>18
  <2>22. Fits(p, TopGen', TopIter', restarts', groups')
    <3> DEFINE tg == TopGen'
               ti == TopIter'
    <3>1. tg \in Nat /\ ti \in Nat /\ TopGen <= tg /\ i <= ti
      BY <2>19, <2>21
    <3> HIDE DEF tg, ti
    <3>2. Fits(p, tg, ti, restarts', groups')
      BY <1>2, <2>8, <2>12, <2>20, <2>21, <3>1, FitsMore
    <3> QED BY <3>2 DEF tg, ti
  <2>23. \A k \in Nodes : \/ Fits(node'[k], TopGen, TopIter, restarts, groups)
                          \/ Fits(node'[k], TopGen', TopIter', restarts', groups')
    BY <2>13, <2>22, FitFacts
  <2>24. ops' \in 0..MaxOps /\ groups' \in 1..MaxGroups /\ restarts' \in 0..MaxRestarts
    BY <1>3 DEF BoundInv
  <2>25. (\A e \in inits' : e \in inits) /\ (\A a \in stamped' : a \in stamped)
    BY <1>3
  <2> HIDE DEF r
  <2> QED BY <1>4, <2>17, <2>19, <2>21, <2>23, <2>24, <2>25, BoundStep
<1> QED BY <1>1, <1>5, <1>6

(* The observers are called. *)
LEMMA SendBound ==
    ASSUME Inv, Inv', BoundInv, NEW n \in Nodes, Send(n)
    PROVE  BoundInv'
<1>1. PICK u \in node[n].upd :
        node' = [node EXCEPT ![n].upd =
               (@ \ {u}) \cup {[u EXCEPT !.pc = "sending", !.todo = node[n].obs]}]
  BY DEF Send
<1> DEFINE r == node[n]
           s == [u EXCEPT !.pc = "sending", !.todo = r.obs]
           q == [r EXCEPT !.upd = (@ \ {u}) \cup {s}]
<1>2. /\ r \in NodeRecords /\ u \in AnyUpdate /\ Fits(r, TopGen, TopIter, restarts, groups)
  BY FitFacts
<1>3. s.o = u.o /\ s.llu = u.llu /\ s.todo = r.obs /\ s.pc = "sending"
  BY <1>2 DEF AnyUpdate
<1>4. node' = [node EXCEPT ![n] = q]
  BY <1>1, FitFacts
<1>5. /\ groups' = groups /\ stamped' = stamped /\ inits' = inits /\ ops' = ops
      /\ restarts' = restarts /\ acked' \subseteq Keys /\ failures' \in 0..MaxFailures
  BY DEF Send, BoundInv
<1> HIDE DEF s
<1>6. /\ q.phase = r.phase /\ q.by = r.by /\ q.llu = r.llu /\ q.obs = r.obs /\ q.gen = r.gen
      /\ q.inc = r.inc /\ q.wait = r.wait /\ q.group = r.group
      /\ q.upd = (r.upd \ {u}) \cup {s}
  BY <1>2 DEF NodeRecords
<1> HIDE DEF q
<1>7. Fits(q, TopGen, TopIter, restarts, groups)
  <2>1. \A v, w \in q.upd : v.o = w.o => v = w
    BY <1>2, <1>3, <1>6 DEF Fits
  <2>2. \A v \in q.upd : StampFits(v.llu, TopGen, TopIter) /\ \A x \in v.todo : x.inc <= restarts
    BY <1>2, <1>3, <1>6 DEF Fits
  <2> QED BY <1>2, <1>6, <2>1, <2>2 DEF Fits
<1>8. \A v \in q.upd : v.pc = "entered" => \E y \in node[n].upd : y.o = v.o /\ y.pc = "entered"
  BY <1>3, <1>6
<1>9. q.phase = "sync" => node[n].phase = "sync"
  BY <1>6
<1> HIDE DEF r
<1> QED BY <1>4, <1>5, <1>7, <1>8, <1>9, KeptOne

(* An update is answered, and clients told. *)
LEMMA FinishBound ==
    ASSUME Inv, Inv', BoundInv, NEW n \in Nodes, Finish(n)
    PROVE  BoundInv'
<1> DEFINE r == node[n]
           ok == Cardinality(r.obs) >= Majority
           mem(u) == IF ok /\ u.o.op = "create" THEN r.mem \cup {u.o.key} ELSE r.mem
           q(u) == [r EXCEPT !.upd = @ \ {u}, !.mem = mem(u)]
<1>1. PICK u \in node[n].upd :
        /\ node' = [node EXCEPT ![n].upd = @ \ {u},
                      ![n].mem = IF ok /\ u.o.op = "create" THEN @ \cup {u.o.key} ELSE @]
        /\ acked' = acked \cup {u.o.key} \/ acked' = acked
  BY DEF Finish
<1>2. /\ r \in NodeRecords /\ u \in AnyUpdate /\ Fits(r, TopGen, TopIter, restarts, groups)
      /\ node \in [Nodes -> NodeRecords]
  BY FitFacts
<1>3. /\ groups' = groups /\ stamped' = stamped /\ inits' = inits /\ ops' = ops
      /\ restarts' = restarts /\ failures' \in 0..MaxFailures
  BY DEF Finish, BoundInv
<1>4. acked' \subseteq Keys
  <2>1. u.o.key \in Keys
    BY <1>2, CommitKeys DEF AnyUpdate
  <2> QED BY <1>1, <2>1 DEF BoundInv
<1>5. node' = [node EXCEPT ![n] = q(u)]
  <2> HIDE DEF ok
  <2> QED BY <1>1, <1>2 DEF NodeRecords, ok
<1> DEFINE p == q(u)
<1>6. /\ p.phase = r.phase /\ p.by = r.by /\ p.llu = r.llu /\ p.obs = r.obs /\ p.gen = r.gen
      /\ p.inc = r.inc /\ p.wait = r.wait /\ p.group = r.group /\ p.upd = r.upd \ {u}
  <2> HIDE DEF mem
  <2> QED BY <1>2 DEF NodeRecords
<1> HIDE DEF q
<1>7. Fits(p, TopGen, TopIter, restarts, groups)
  BY <1>2, <1>6 DEF Fits
<1>8. /\ p.phase = "sync" => node[n].phase = "sync"
      /\ \A v \in p.upd : v.pc = "entered" =>
             \E y \in node[n].upd : y.o = v.o /\ y.pc = "entered"
  BY <1>6
<1> HIDE DEF r, p
<1> QED BY <1>3, <1>4, <1>5, <1>7, <1>8, KeptOne DEF p

(* A master without a majority of observers, and a node that leaves. *)
LEMMA LeavesBound ==
    ASSUME Inv, Inv', BoundInv, NEW n \in Nodes, MajorityLost(n) \/ Leaves(n)
    PROVE  BoundInv'
<1>1. /\ groups' = groups /\ stamped' = stamped /\ inits' = inits /\ ops' = ops
      /\ restarts' = restarts /\ acked' \subseteq Keys /\ failures' \in 0..MaxFailures
  <2>1. Fail \/ failures' = failures
    BY DEF MajorityLost, Leaves
  <2> QED BY <2>1, FailBound DEF MajorityLost, Leaves, BoundInv
<1>2. CASE node' = [node EXCEPT ![n] = Recovery(n, @)]
  <2>1. node' = [node EXCEPT ![n] = Recovery(n, node[n])]
    BY <1>2
  <2>2. /\ Fits(Recovery(n, node[n]), TopGen, TopIter, restarts, groups)
        /\ Recovery(n, node[n]).upd = node[n].upd
        /\ Recovery(n, node[n]).phase = "sync" => node[n].phase = "sync"
    BY FitFacts, RecoveryFits
  <2> DEFINE q == Recovery(n, node[n])
  <2>3. /\ q.phase = "sync" => node[n].phase = "sync"
        /\ \A u \in q.upd : u.pc = "entered" =>
               \E v \in node[n].upd : v.o = u.o /\ v.pc = "entered"
        /\ Fits(q, TopGen, TopIter, restarts, groups) /\ node' = [node EXCEPT ![n] = q]
    BY <2>1, <2>2
  <2> HIDE DEF q
  <2> QED BY <1>1, <2>3, KeptOne
<1>3. ASSUME NEW w, node' = [node EXCEPT ![n].obs = @ \ {w}]
      PROVE  BoundInv'
  <2> DEFINE r == node[n]
             q == [r EXCEPT !.obs = @ \ {w}]
  <2>1. r \in NodeRecords /\ Fits(r, TopGen, TopIter, restarts, groups)
    BY FitFacts
  <2>2. node' = [node EXCEPT ![n] = q]
    BY <1>3, FitFacts
  <2>3. /\ q.phase = r.phase /\ q.by = r.by /\ q.llu = r.llu /\ q.obs \subseteq r.obs
        /\ q.gen = r.gen /\ q.inc = r.inc /\ q.wait = r.wait /\ q.group = r.group
        /\ q.upd = r.upd
    BY <2>1 DEF NodeRecords
  <2> HIDE DEF q
  <2>4. Fits(q, TopGen, TopIter, restarts, groups)
    BY <2>1, <2>3 DEF Fits
  <2>5. /\ q.phase = "sync" => node[n].phase = "sync"
        /\ \A v \in q.upd : v.pc = "entered" =>
               \E y \in node[n].upd : y.o = v.o /\ y.pc = "entered"
    BY <2>3
  <2> HIDE DEF r
  <2> QED BY <1>1, <2>2, <2>4, <2>5, KeptOne
<1>4. CASE MajorityLost(n)
  BY <1>2, <1>3, <1>4 DEF MajorityLost
<1> QED BY <1>2, <1>4 DEF Leaves

(* A node is started again. *)
LEMMA RestartBound ==
    ASSUME Inv, Inv', BoundInv, NEW n \in Nodes, Restart(n)
    PROVE  BoundInv'
<1> DEFINE idle == [node[n] EXCEPT !.upd = {}]
           r == Recovery(n, idle)
           mem(F) == (node[n].db \ F) \cup {TopicKey(k[1]) : k \in F}
           q(F) == [r EXCEPT !.inc = node[n].inc + 1, !.llu = LLU(0, 0), !.mem = mem(F), !.obs = {}]
<1>1. PICK F \in FirstRecords(node[n].db) : node' = [node EXCEPT ![n] = q(F)]
  BY DEF Restart
<1>2. /\ groups' = groups /\ stamped' = stamped /\ inits' = inits /\ ops' = ops
      /\ failures' = failures /\ acked' = acked
      /\ restarts' = restarts + 1 /\ restarts < MaxRestarts
  BY DEF Restart
<1>3. /\ node[n] \in NodeRecords /\ Fits(node[n], TopGen, TopIter, restarts, groups)
      /\ TopGen \in Nat /\ TopIter \in Nat /\ restarts \in Nat /\ groups \in Nat
      /\ node \in [Nodes -> NodeRecords] /\ node[n].inc \in Nat
  BY FitFacts, NodeParts
<1>4. /\ r \in NodeRecords /\ r.phase = "idle" /\ r.upd = {} /\ r.gen = 0 /\ r.wait = {}
      /\ r.by = node[n].by
  <2>1. idle \in NodeRecords /\ idle.upd = {} /\ idle.by = node[n].by
    BY <1>3 DEF NodeRecords
  <2> HIDE DEF idle
  <2> QED BY <2>1 DEF Recovery, NodeRecords
<1> HIDE DEF r, mem
<1> DEFINE p == q(F)
           l == LLU(0, 0)
<1>5. /\ p.phase = "idle" /\ p.upd = {} /\ p.gen = 0 /\ p.wait = {} /\ p.by = node[n].by
      /\ p.obs = {} /\ p.inc = node[n].inc + 1 /\ p.llu = l
  <2> HIDE DEF l
  <2> QED BY <1>4 DEF NodeRecords, l
<1>6. l.gen = 0 /\ l.iter = 0
  BY DEF LLU
<1> HIDE DEF q, l
<1>7. Fits(p, TopGen, TopIter, restarts + 1, groups)
  <2>1. node[n].inc <= restarts /\ node[n].by \in 1..groups
    BY <1>3 DEF Fits
  <2>2. StampFits(p.llu, TopGen, TopIter) /\ p.gen <= TopGen /\ p.inc <= restarts + 1
    BY <1>3, <1>5, <1>6, <2>1 DEF StampFits
  <2> QED BY <1>5, <2>1, <2>2 DEF Fits
<1>8. node'[n] = p /\ \A k \in Nodes \ {n} : node'[k] = node[k]
  BY <1>1, <1>3
<1>9. /\ IsFiniteSet(Entering') /\ TopGen' \in Nat /\ TopIter' \in Nat
      /\ TopGen <= TopGen' /\ TopIter <= TopIter'
  <2>1. \A k \in Nodes :
          /\ node'[k].phase = "sync" => node[k].phase = "sync"
          /\ \A u \in node'[k].upd : u.pc = "entered" =>
                \E v \in node[k].upd : v.o = u.o /\ v.pc = "entered"
    BY <1>5, <1>8
  <2> QED BY <1>2, <2>1, TopsKept
<1>10. /\ p \in NodeRecords /\ restarts' \in Nat /\ groups' \in Nat
       /\ restarts + 1 <= restarts' /\ groups <= groups' /\ restarts <= restarts'
       /\ restarts + 1 \in Nat
  <2>1. p \in NodeRecords
    BY <1>8 DEF Inv, TypeInv
  <2> QED BY <1>2, <1>3, <2>1
<1>11. Fits(p, TopGen', TopIter', restarts', groups')
  <2> DEFINE tg == TopGen
             ti == TopIter
             tg2 == TopGen'
             ti2 == TopIter'
  <2>1. /\ tg \in Nat /\ ti \in Nat /\ tg2 \in Nat /\ ti2 \in Nat /\ tg <= tg2 /\ ti <= ti2
        /\ Fits(p, tg, ti, restarts + 1, groups)
    BY <1>3, <1>7, <1>9
  <2> HIDE DEF tg, ti, tg2, ti2, p
  <2>2. Fits(p, tg2, ti2, restarts', groups')
    BY <1>3, <1>10, <2>1, FitsMore
  <2> QED BY <2>2 DEF tg2, ti2
<1>12. \A k \in Nodes : \/ Fits(node'[k], TopGen, TopIter, restarts, groups)
                        \/ Fits(node'[k], TopGen', TopIter', restarts', groups')
  BY <1>8, <1>11, FitFacts
<1>13. /\ ops' \in 0..MaxOps /\ groups' \in 1..MaxGroups /\ failures' \in 0..MaxFailures
       /\ restarts' \in 0..MaxRestarts /\ acked' \subseteq Keys
  BY <1>2, <1>3, ReplicationBounds DEF BoundInv
<1>14. (\A c \in inits' : c \in inits) /\ (\A a \in stamped' : a \in stamped)
  BY <1>2
<1> HIDE DEF p
<1> QED BY <1>9, <1>10, <1>12, <1>13, <1>14, BoundStep

(* The answer of observer w to update u of a node in state r, which erases *)
(* the observers e.                                                        *)
EndedState(r, u, w, e) ==
    [r EXCEPT !.upd = (@ \ {u}) \cup {[u EXCEPT !.todo = @ \ {w}]}, !.obs = @ \ e]

(* Node n may go to state q: within the bounds, and it does not begin an   *)
(* election, nor an update.                                                *)
Keeps(n, q) ==
    /\ Fits(q, TopGen, TopIter, restarts, groups)
    /\ q.phase = "sync" => node[n].phase = "sync"
    /\ \A u \in q.upd : u.pc = "entered" =>
           \E v \in node[n].upd : v.o = u.o /\ v.pc = "entered"

(* An observer that executes an update, or refuses it. *)
LEMMA AtObserverKeeps ==
    ASSUME Inv, BoundInv, NEW m \in Nodes, NEW u \in AnyUpdate,
           StampFits(u.llu, TopGen, TopIter)
    PROVE  /\ Keeps(m, AtObserver(m, u)) /\ AtObserver(m, u).upd = node[m].upd
           /\ AtObserver(m, u) \in NodeRecords
<1> DEFINE r == node[m]
           q == [r EXCEPT !.db = CommitDb(@, u.o), !.mem = CommitDb(@, u.o), !.llu = u.llu]
           z == Recovery(m, r)
<1>1. /\ r \in NodeRecords /\ Fits(r, TopGen, TopIter, restarts, groups)
      /\ TopGen \in Nat
  BY FitFacts
<1>2. AtObserver(m, u) \in {r, q, z}
  BY DEF AtObserver, Observe
<1>3. /\ q.phase = r.phase /\ q.by = r.by /\ q.llu = u.llu /\ q.obs = r.obs /\ q.gen = r.gen
      /\ q.inc = r.inc /\ q.wait = r.wait /\ q.group = r.group /\ q.upd = r.upd
  BY <1>1 DEF NodeRecords
<1> HIDE DEF q
<1>4. Fits(q, TopGen, TopIter, restarts, groups)
  BY <1>1, <1>3 DEF Fits
<1>5. /\ Fits(z, TopGen, TopIter, restarts, groups) /\ z.upd = r.upd
      /\ z.phase = "sync" => r.phase = "sync"
  BY <1>1, RecoveryFits
<1>6. AtObserver(m, u) \in NodeRecords
  BY AtObserverCalm DEF Calm, Well
<1> HIDE DEF z
<1>7. AtObserver(m, u).upd = r.upd
  BY <1>2, <1>3, <1>5
<1>8. Fits(AtObserver(m, u), TopGen, TopIter, restarts, groups)
  BY <1>1, <1>2, <1>4, <1>5
<1>9. AtObserver(m, u).phase = "sync" => r.phase = "sync"
  BY <1>2, <1>3, <1>5
<1> HIDE DEF r
<1>10. Keeps(m, AtObserver(m, u))
  <2> DEFINE x == AtObserver(m, u)
  <2>1. /\ Fits(x, TopGen, TopIter, restarts, groups) /\ x.upd = node[m].upd
        /\ x.phase = "sync" => node[m].phase = "sync"
    BY <1>7, <1>8, <1>9 DEF r
  <2> HIDE DEF x
  <2>2. Keeps(m, x)
    BY <2>1 DEF Keeps
  <2> QED BY <2>2 DEF x
<1> QED BY <1>6, <1>7, <1>10 DEF r

(* A master that has the answer of an observer. *)
LEMMA EndedKeeps ==
    ASSUME Inv, BoundInv, NEW n \in Nodes, NEW u \in node[n].upd, u.pc = "sending",
           NEW x \in NodeRecords, Keeps(n, x), x.upd = node[n].upd, NEW w, NEW e
    PROVE  Keeps(n, EndedState(x, u, w, e))
<1> DEFINE a == [u EXCEPT !.todo = @ \ {w}]
           q == [x EXCEPT !.upd = (@ \ {u}) \cup {a}, !.obs = @ \ e]
<1>1. u \in AnyUpdate
  BY NodeParts
<1>2. a.o = u.o /\ a.pc = "sending" /\ a.llu = u.llu /\ a.todo = u.todo \ {w}
  BY <1>1 DEF AnyUpdate
<1>3. EndedState(x, u, w, e) = q
  BY DEF EndedState
<1> HIDE DEF a
<1>4. /\ q.phase = x.phase /\ q.by = x.by /\ q.llu = x.llu /\ q.obs = x.obs \ e /\ q.gen = x.gen
      /\ q.inc = x.inc /\ q.wait = x.wait /\ q.group = x.group
      /\ q.upd = (x.upd \ {u}) \cup {a}
  BY DEF NodeRecords
<1> HIDE DEF q
<1>5. Fits(q, TopGen, TopIter, restarts, groups)
  <2>1. Fits(x, TopGen, TopIter, restarts, groups)
    BY DEF Keeps
  <2>2. \A v, y \in q.upd : v.o = y.o => v = y
    BY <1>2, <1>4, <2>1 DEF Fits
  <2>3. \A v \in q.upd : StampFits(v.llu, TopGen, TopIter) /\ \A y \in v.todo : y.inc <= restarts
    BY <1>2, <1>4, <2>1 DEF Fits
  <2> QED BY <1>4, <2>1, <2>2, <2>3 DEF Fits
<1>6. q.phase = "sync" => node[n].phase = "sync"
  BY <1>4 DEF Keeps
<1>7. \A v \in q.upd : v.pc = "entered" => \E y \in node[n].upd : y.o = v.o /\ y.pc = "entered"
  BY <1>2, <1>4
<1> QED BY <1>3, <1>5, <1>6, <1>7 DEF Keeps

(* A reply, or the lack of one. *)
LEMMA ReplyBound ==
    ASSUME Inv, Inv', BoundInv, NEW n \in Nodes, Reply(n)
    PROVE  BoundInv'
<1>0. PICK u \in node[n].upd : u.pc = "sending" /\ \E w \in u.todo :
        \/ node' = [node EXCEPT ![n] = EndedState(@, u, w, {w})]
        \/ \E r \in {node[w.node], AtObserver(w.node, u)} :
             node' = [[node EXCEPT ![w.node] = r] EXCEPT ![n] = EndedState(@, u, w, {w})]
        \/ node' = [[node EXCEPT ![w.node] = AtObserver(w.node, u)] EXCEPT
                        ![n] = EndedState(@, u, w, {})]
  BY ZenonT(40) DEF Reply, EndedState
<1>1. PICK w \in u.todo :
        \/ node' = [node EXCEPT ![n] = EndedState(@, u, w, {w})]
        \/ \E r \in {node[w.node], AtObserver(w.node, u)} :
             node' = [[node EXCEPT ![w.node] = r] EXCEPT ![n] = EndedState(@, u, w, {w})]
        \/ node' = [[node EXCEPT ![w.node] = AtObserver(w.node, u)] EXCEPT
                        ![n] = EndedState(@, u, w, {})]
  BY <1>0
<1>2. /\ groups' = groups /\ stamped' = stamped /\ inits' \subseteq inits /\ ops' = ops
      /\ restarts' = restarts /\ acked' \subseteq Keys /\ failures' \in 0..MaxFailures
  <2>1. Fail \/ failures' = failures
    BY DEF Reply
  <2> QED BY <2>1, FailBound DEF Reply, BoundInv
<1> DEFINE k == w.node
<1>3. u \in AnyUpdate /\ k \in Nodes
  <2>1. u \in AnyUpdate
    BY NodeParts
  <2> QED BY <2>1 DEF AnyUpdate, AnyObserver
<1>4. node \in [Nodes -> NodeRecords] /\ \A p \in Nodes : Keeps(p, node[p])
  BY FitFacts DEF Keeps
<1>5. StampFits(u.llu, TopGen, TopIter)
  BY FitFacts DEF Fits
<1>6. /\ Keeps(k, AtObserver(k, u)) /\ AtObserver(k, u).upd = node[k].upd
      /\ AtObserver(k, u) \in NodeRecords
  BY <1>3, <1>5, AtObserverKeeps
<1>7. ASSUME NEW r \in {node[k], AtObserver(k, u)}, NEW e,
             node' = [[node EXCEPT ![k] = r] EXCEPT ![n] = EndedState(@, u, w, e)]
      PROVE  \A p \in Nodes : Keeps(p, node'[p])
  <2> DEFINE f == [node EXCEPT ![k] = r]
             x == f[n]
  <2>1. /\ Keeps(k, r) /\ r.upd = node[k].upd /\ r \in NodeRecords
    BY <1>3, <1>4, <1>6
  <2> HIDE DEF k
  <2>2. x = IF n = k THEN r ELSE node[n]
    BY <1>4
  <2>3. /\ Keeps(n, x) /\ x.upd = node[n].upd /\ x \in NodeRecords
    BY <1>4, <2>1, <2>2
  <2>4. /\ node'[n] = EndedState(x, u, w, e)
        /\ \A p \in Nodes \ {n} : node'[p] = node[p] \/ (p = k /\ node'[p] = r)
    <3>1. f \in [Nodes -> NodeRecords] /\ node' = [f EXCEPT ![n] = EndedState(f[n], u, w, e)]
      BY <1>4, <1>7, <2>1
    <3>2. \A p \in Nodes : f[p] = node[p] \/ (p = k /\ f[p] = r)
      BY <1>4
    <3> HIDE DEF f
    <3> QED BY <3>1, <3>2
  <2> HIDE DEF x
  <2>5. Keeps(n, node'[n])
    BY <1>0, <2>3, <2>4, EndedKeeps
  <2> QED BY <1>4, <2>1, <2>4, <2>5
<1>8. CASE node' = [node EXCEPT ![n] = EndedState(@, u, w, {w})]
  <2>1. [node EXCEPT ![k] = node[k]] = node
    BY <1>3, <1>4
  <2>2. node' = [[node EXCEPT ![k] = node[k]] EXCEPT ![n] = EndedState(@, u, w, {w})]
    BY <1>8, <2>1
  <2>3. node[k] \in {node[k], AtObserver(k, u)}
    OBVIOUS
  <2> HIDE DEF k
  <2>4. \A p \in Nodes : Keeps(p, node'[p])
    BY <1>7, <2>2, <2>3
  <2> QED BY <1>2, <2>4, KeptStep DEF Keeps
<1>9. CASE ~(node' = [node EXCEPT ![n] = EndedState(@, u, w, {w})])
  <2>1. \E r \in {node[k], AtObserver(k, u)} : \E e \in {{}, {w}} :
          node' = [[node EXCEPT ![k] = r] EXCEPT ![n] = EndedState(@, u, w, e)]
    BY <1>1, <1>9
  <2>2. \A p \in Nodes : Keeps(p, node'[p])
    BY <1>7, <2>1
  <2> QED BY <1>2, <2>2, KeptStep DEF Keeps
<1> QED BY <1>8, <1>9

(* A slave executes init(), and its master has the answer. *)
LEMMA InitSlaveBound ==
    ASSUME Inv, Inv', BoundInv, NEW m \in Nodes, InitSlave(m)
    PROVE  BoundInv'
<1> DEFINE mine(i)      == {w \in node[i.from].wait : w.node = m}
           waited(i)    == node[i.from].phase = "init" /\ mine(i) # {} /\ node[i.from].llu = i.llu
           Answer(i, r) == IF ~waited(i) THEN r
                           ELSE IF ~checkObserverInit(m) THEN Recovery(i.from, r)
                           ELSE [r EXCEPT !.wait = @ \ mine(i),
                                          !.obs = @ \cup {[node |-> m, inc |-> i.inc]}]
           Inited(i)    == IF ~checkObserverInit(m) THEN node[m]
                           ELSE [observerInit(node[m], i.llu, i.content) EXCEPT !.by = i.group]
<1>1. PICK i \in inits :
        node' = [[node EXCEPT ![m] = Inited(i)] EXCEPT ![i.from] = Answer(i, @)]
  BY DEF InitSlave
<1>2. /\ groups' = groups /\ stamped' = stamped /\ inits' \subseteq inits /\ ops' = ops
      /\ restarts' = restarts /\ acked' \subseteq Keys /\ failures' \in 0..MaxFailures
  BY DEF InitSlave, BoundInv
<1> DEFINE n == i.from
           new == [node |-> m, inc |-> i.inc]
<1>3. /\ n \in Nodes /\ StampFits(i.llu, TopGen, TopIter) /\ i.inc <= restarts
      /\ i.group \in 1..groups /\ new.inc = i.inc
  BY DEF Inv, TypeInv, Inits, BoundInv, CallFits
<1>4. /\ node \in [Nodes -> NodeRecords] /\ TopGen \in Nat
      /\ \A p \in Nodes : Keeps(p, node[p])
  BY FitFacts DEF Keeps
<1>5. Keeps(m, Inited(i)) /\ Inited(i) \in NodeRecords /\ Inited(i).upd = node[m].upd
  <2>1. CASE ~checkObserverInit(m)
    BY <1>4, <2>1
  <2>2. CASE checkObserverInit(m)
    <3> DEFINE r == node[m]
               q == [observerInit(r, i.llu, i.content) EXCEPT !.by = i.group]
    <3>1. Inited(i) = q
      BY <2>2
    <3>2. r \in NodeRecords /\ Keeps(m, r) /\ i \in Inits
      BY <1>4 DEF Inv, TypeInv
    <3>3. /\ q.phase = r.phase /\ q.by = i.group /\ q.llu = i.llu /\ q.obs = {} /\ q.gen = r.gen
          /\ q.inc = r.inc /\ q.wait = r.wait /\ q.group = r.group /\ q.upd = r.upd
          /\ q \in NodeRecords
      <4>1. i.llu \in AnyStamp /\ i.content \in SUBSET Keys /\ i.group \in Nat
        BY <3>2 DEF Inits
      <4> HIDE DEF r
      <4> QED BY <3>2, <4>1 DEF observerInit, NodeRecords
    <3> HIDE DEF q, Inited
    <3>4. Fits(q, TopGen, TopIter, restarts, groups)
      BY <1>3, <3>2, <3>3 DEF Keeps, Fits
    <3>5. q.phase = "sync" => node[m].phase = "sync"
      BY <3>3
    <3>6. \A u \in q.upd : u.pc = "entered" => \E v \in node[m].upd : v.o = u.o /\ v.pc = "entered"
      BY <3>3
    <3> QED BY <3>1, <3>3, <3>4, <3>5, <3>6 DEF Keeps
  <2> QED BY <2>1, <2>2
<1> DEFINE x == [node EXCEPT ![m] = Inited(i)][n]
<1>6. Keeps(n, x) /\ x \in NodeRecords
  <2>1. x = IF n = m THEN Inited(i) ELSE node[n]
    <3> HIDE DEF Inited
    <3> QED BY <1>3, <1>4
  <2> HIDE DEF x, Inited
  <2> QED BY <1>3, <1>4, <1>5, <2>1
<1>7. /\ node'[n] = Answer(i, x)
      /\ \A p \in Nodes \ {n} : node'[p] = node[p] \/ (p = m /\ node'[p] = Inited(i))
  <2> HIDE DEF Answer, Inited
  <2> DEFINE f == [node EXCEPT ![m] = Inited(i)]
  <2>1. f \in [Nodes -> NodeRecords] /\ node' = [f EXCEPT ![n] = Answer(i, f[n])]
    BY <1>1, <1>4, <1>5
  <2>2. \A p \in Nodes : f[p] = node[p] \/ (p = m /\ f[p] = Inited(i))
    BY <1>4
  <2>3. x = f[n]
    OBVIOUS
  <2> HIDE DEF f, x
  <2> QED BY <1>3, <2>1, <2>2, <2>3
<1> HIDE DEF Inited
<1>8. Keeps(n, Answer(i, x))
  <2> HIDE DEF x
  <2>1. CASE ~waited(i)
    BY <1>6, <2>1
  <2>2. CASE waited(i) /\ ~checkObserverInit(m)
    <3>1. Answer(i, x) = Recovery(n, x)
      BY <2>2
    <3> HIDE DEF Answer
    <3> DEFINE z == Recovery(n, x)
    <3>2. Fits(x, TopGen, TopIter, restarts, groups)
      BY <1>6 DEF Keeps
    <3>3. /\ Fits(z, TopGen, TopIter, restarts, groups) /\ z.upd = x.upd
          /\ z.phase = "sync" => x.phase = "sync"
      BY <1>3, <1>4, <1>6, <3>2, RecoveryFits
    <3> HIDE DEF z, n
    <3>4. z.phase = "sync" => node[n].phase = "sync"
      BY <1>6, <3>3 DEF Keeps
    <3>5. \A u \in z.upd : u.pc = "entered" => \E v \in node[n].upd : v.o = u.o /\ v.pc = "entered"
      BY <1>6, <3>3 DEF Keeps
    <3>6. Keeps(n, z)
      BY <3>3, <3>4, <3>5 DEF Keeps
    <3> QED BY <3>1, <3>6 DEF z
  <2>3. CASE waited(i) /\ checkObserverInit(m)
    <3> DEFINE wait == x.wait \ mine(i)
               obs == x.obs \cup {new}
               q == [x EXCEPT !.wait = wait, !.obs = obs]
    <3>1. Answer(i, x) = q
      BY <2>3
    <3> HIDE DEF Answer, wait, obs
    <3>2. /\ q.phase = x.phase /\ q.by = x.by /\ q.llu = x.llu /\ q.obs = obs /\ q.gen = x.gen
          /\ q.inc = x.inc /\ q.wait = wait /\ q.group = x.group /\ q.upd = x.upd
      BY <1>6 DEF NodeRecords
    <3> HIDE DEF q
    <3>3. Fits(x, TopGen, TopIter, restarts, groups)
      BY <1>6 DEF Keeps
    <3>4. \A y \in q.obs : y.inc <= restarts
      <4> HIDE DEF new
      <4> QED BY <1>3, <3>2, <3>3 DEF Fits, obs
    <3>5. \A y \in q.wait : StampFits(y.llu, TopGen, TopIter)
      BY <3>2, <3>3 DEF Fits, wait
    <3>6. Fits(q, TopGen, TopIter, restarts, groups)
      BY <3>2, <3>3, <3>4, <3>5 DEF Fits
    <3> HIDE DEF n
    <3>7. q.phase = "sync" => node[n].phase = "sync"
      BY <1>6, <3>2 DEF Keeps
    <3>8. \A u \in q.upd : u.pc = "entered" => \E v \in node[n].upd : v.o = u.o /\ v.pc = "entered"
      BY <1>6, <3>2 DEF Keeps
    <3>9. Keeps(n, q)
      BY <3>6, <3>7, <3>8 DEF Keeps
    <3> QED BY <3>1, <3>9
  <2> QED BY <2>1, <2>2, <2>3
<1> HIDE DEF Answer, x, n
<1>9. \A p \in Nodes : Keeps(p, node'[p])
  BY <1>4, <1>5, <1>7, <1>8
<1> QED BY <1>2, <1>9, KeptStep DEF Keeps

(* Everyone is told to go. *)
LEMMA ReadyAllBound ==
    ASSUME Inv, Inv', BoundInv, NEW n \in Nodes, ReadyAll(n)
    PROVE  BoundInv'
<1> DEFINE g == node[n].llu.gen
<1>1. \A m \in Nodes :
        \/ node'[m] = [node[m] EXCEPT !.state = "Normal", !.phase = "idle", !.gen = g]
        \/ node'[m] = [node[m] EXCEPT !.state = "Normal", !.gen = g]
        \/ node'[m] = node[m]
  BY DEF ReadyAll
<1>2. /\ groups' = groups /\ stamped' = stamped /\ inits' \subseteq inits /\ ops' = ops
      /\ restarts' = restarts /\ acked' \subseteq Keys /\ failures' \in 0..MaxFailures
  BY DEF ReadyAll, BoundInv
<1>3. g <= TopGen
  BY FitFacts DEF Fits, StampFits
<1> HIDE DEF g
<1>4. ASSUME NEW m \in Nodes
      PROVE  Keeps(m, node'[m])
  <2> DEFINE r == node[m]
             p == [r EXCEPT !.state = "Normal", !.phase = "idle", !.gen = g]
             q == [r EXCEPT !.state = "Normal", !.gen = g]
  <2>1. r \in NodeRecords /\ Fits(r, TopGen, TopIter, restarts, groups)
    BY FitFacts
  <2>2. /\ p.phase = "idle" /\ p.by = r.by /\ p.llu = r.llu /\ p.obs = r.obs /\ p.gen = g
        /\ p.inc = r.inc /\ p.wait = r.wait /\ p.group = r.group /\ p.upd = r.upd
    BY <2>1 DEF NodeRecords
  <2>3. /\ q.phase = r.phase /\ q.by = r.by /\ q.llu = r.llu /\ q.obs = r.obs /\ q.gen = g
        /\ q.inc = r.inc /\ q.wait = r.wait /\ q.group = r.group /\ q.upd = r.upd
    BY <2>1 DEF NodeRecords
  <2>4. node'[m] \in {p, q, r}
    BY <1>1
  <2> HIDE DEF p, q
  <2>5. Fits(p, TopGen, TopIter, restarts, groups) /\ Fits(q, TopGen, TopIter, restarts, groups)
    BY <1>3, <2>1, <2>2, <2>3 DEF Fits
  <2>6. Fits(node'[m], TopGen, TopIter, restarts, groups)
    BY <2>1, <2>4, <2>5
  <2>7. node'[m].upd = r.upd /\ (node'[m].phase = "sync" => r.phase = "sync")
    BY <2>2, <2>3, <2>4
  <2> QED BY <2>6, <2>7 DEF Keeps
<1> QED BY <1>2, <1>4, KeptStep DEF Keeps

(* An election: its generation is one that nobody has yet. *)
LEMMA ElectBound ==
    ASSUME Inv, Inv', BoundInv, NEW n \in Nodes, NEW S \in SUBSET (Nodes \ {n}), Elect(n, S)
    PROVE  BoundInv'
<1> DEFINE wait == {[node |-> k, llu |-> node[k].llu] : k \in S}
           master == [node[n] EXCEPT !.state = "Reorganization", !.group = groups + 1,
                                     !.phase = "sync", !.wait = wait]
           slave(m) == [node[m] EXCEPT !.state = "Reorganization", !.coord = n,
                                       !.group = groups + 1]
<1>1. /\ groups < MaxGroups /\ groups' = groups + 1 /\ inits' = inits /\ stamped' = stamped
      /\ ops' = ops /\ restarts' = restarts /\ acked' = acked /\ failures' = failures
      /\ \A m \in S \cup {n} : node[m].state # "Reorganization" /\ node[m].upd = {}
  BY DEF Elect
<1>2. /\ node \in [Nodes -> NodeRecords] /\ TopGen \in Nat /\ TopIter \in Nat
      /\ restarts \in Nat /\ groups \in Nat /\ ops \in Nat
      /\ \A m \in Nodes : Fits(node[m], TopGen, TopIter, restarts, groups)
  BY FitFacts, BoundNumbers DEF BoundInv
<1>3. /\ node'[n] = master /\ \A m \in S : node'[m] = slave(m)
      /\ \A m \in Nodes : m # n /\ m \notin S => node'[m] = node[m]
  <2>1. node' = [m \in Nodes |-> IF m = n THEN master ELSE IF m \in S THEN slave(m) ELSE node[m]]
    BY DEF Elect
  <2> HIDE DEF master, slave
  <2> QED BY <2>1
<1>4. /\ Fits(master, TopGen, TopIter, restarts, groups) /\ master.upd = node[n].upd
  <2> DEFINE r == node[n]
             g == groups + 1
  <2>1. \A w \in wait : StampFits(w.llu, TopGen, TopIter)
    BY <1>2 DEF Fits
  <2>2. g # 0 /\ r \in NodeRecords /\ Fits(r, TopGen, TopIter, restarts, groups)
    BY <1>2
  <2>3. master = [r EXCEPT !.state = "Reorganization", !.group = g, !.phase = "sync",
                           !.wait = wait]
    OBVIOUS
  <2> HIDE DEF wait, master, g
  <2>4. /\ master.phase = "sync" /\ master.by = r.by /\ master.llu = r.llu /\ master.obs = r.obs
        /\ master.gen = r.gen /\ master.inc = r.inc /\ master.wait = wait /\ master.group = g
        /\ master.upd = r.upd
    BY <2>2, <2>3 DEF NodeRecords
  <2> QED BY <2>1, <2>2, <2>4 DEF Fits
<1>5. ASSUME NEW m \in S
      PROVE  /\ Fits(slave(m), TopGen, TopIter, restarts, groups) /\ slave(m).upd = node[m].upd
             /\ slave(m).phase = node[m].phase
  <2> DEFINE r == node[m]
             g == groups + 1
             q == [r EXCEPT !.state = "Reorganization", !.coord = n, !.group = g]
  <2>1. g # 0 /\ r \in NodeRecords /\ Fits(r, TopGen, TopIter, restarts, groups)
    BY <1>2
  <2>2. slave(m) = q
    OBVIOUS
  <2> HIDE DEF g
  <2>3. /\ q.phase = r.phase /\ q.by = r.by /\ q.llu = r.llu /\ q.obs = r.obs
        /\ q.gen = r.gen /\ q.inc = r.inc /\ q.wait = r.wait /\ q.group = g
        /\ q.upd = r.upd
    BY <2>1 DEF NodeRecords
  <2> HIDE DEF q, slave
  <2>4. Fits(q, TopGen, TopIter, restarts, groups)
    BY <2>1, <2>3 DEF Fits
  <2> QED BY <2>2, <2>3, <2>4
<1> HIDE DEF master, slave
<1>6. \A m \in Nodes : /\ Fits(node'[m], TopGen, TopIter, restarts, groups)
                       /\ node'[m].upd = node[m].upd
                       /\ m # n => node'[m].phase = node[m].phase
  BY <1>2, <1>3, <1>4, <1>5
<1>7. Entering' = Entering
  BY <1>6 DEF Entering
<1>8. /\ Cardinality(Syncing') <= Cardinality(Syncing) + 1
      /\ Cardinality(Syncing') \in Nat /\ Cardinality(Syncing) \in Nat
  <2>1. Syncing' \in SUBSET (Syncing \cup {n})
    BY <1>6 DEF Syncing
  <2>2. IsFiniteSet(Syncing) /\ Cardinality(Syncing) \in Nat
    BY BoundNumbers
  <2>3. /\ IsFiniteSet(Syncing \cup {n})
        /\ Cardinality(Syncing \cup {n}) =
             IF n \in Syncing THEN Cardinality(Syncing) ELSE Cardinality(Syncing) + 1
    BY <2>2, FS_AddElement
  <2>4. /\ Cardinality(Syncing') <= Cardinality(Syncing \cup {n})
        /\ Cardinality(Syncing') \in Nat
    BY <2>1, <2>3, FS_Subset, FS_CardinalityType
  <2> QED BY <2>2, <2>3, <2>4
<1>9. TopGen' \in Nat /\ TopGen <= TopGen'
  BY <1>1, <1>2, <1>8 DEF TopGen
<1>10. IsFiniteSet(Entering') /\ TopIter' \in Nat /\ TopIter <= TopIter'
  BY <1>1, <1>2, <1>7 DEF TopIter, BoundInv
<1>11. /\ restarts <= restarts' /\ groups <= groups' /\ ops' \in 0..MaxOps
       /\ groups' \in 1..MaxGroups /\ failures' \in 0..MaxFailures
       /\ restarts' \in 0..MaxRestarts /\ acked' \subseteq Keys
  BY <1>1, <1>2, ReplicationBounds DEF BoundInv
<1>12. (\A c \in inits' : c \in inits) /\ (\A a \in stamped' : a \in stamped)
  BY <1>1
<1> QED BY <1>6, <1>9, <1>10, <1>11, <1>12, BoundStep

(* The coordinator stamps its data with a new generation.                  *)
LEMMA SyncAndInitBound ==
    ASSUME Inv, Inv', BoundInv, NEW n \in Nodes, SyncAndInit(n)
    PROVE  BoundInv'
<1> DEFINE new(m) == LLU(m.llu.gen + 1, 0)
           src(m) == node[m.node]
           r(m) == IF Newer(m.llu, node[n].llu) THEN observerInit(node[n], src(m).llu, src(m).mem)
                   ELSE node[n]
           q(m) == [r(m) EXCEPT !.llu = new(m), !.phase = "init", !.obs = {}]
           sent(m, k) == [from |-> n, to |-> k.node, inc |-> node[k.node].inc, llu |-> new(m),
                          content |-> r(m).mem, group |-> node[n].group]
           stamp(m) == [group |-> node[n].group, gen |-> new(m).gen]
<1>1. PICK m \in node[n].wait :
        /\ node' = [node EXCEPT ![n] = q(m)]
        /\ stamped' = stamped \cup {stamp(m)}
        /\ inits' = inits \cup {sent(m, k) : k \in node[n].wait}
  BY DEF SyncAndInit
<1>2. /\ groups' = groups /\ ops' = ops /\ restarts' = restarts /\ acked' = acked
      /\ failures' = failures /\ node[n].phase = "sync"
  BY DEF SyncAndInit
<1>3. /\ node \in [Nodes -> NodeRecords] /\ TopGen \in Nat /\ TopIter \in Nat
      /\ restarts \in Nat /\ groups \in Nat /\ ops \in Nat
      /\ \A k \in Nodes : Fits(node[k], TopGen, TopIter, restarts, groups)
  BY FitFacts, BoundNumbers DEF BoundInv
<1>4. node[n].group \in 1..groups
  <2>1. node[n].group # 0
    BY <1>2, <1>3 DEF Fits
  <2>2. node[n].group <= groups /\ node[n].group \in Nat
    BY NodeFacts DEF NodeRecords
  <2> QED BY <1>3, <2>1, <2>2
<1>5. \A k \in node[n].wait : k.node \in Nodes /\ k.llu \in AnyStamp
  BY <1>3 DEF NodeRecords
<1>6. /\ new(m).gen = m.llu.gen + 1 /\ new(m).iter = 0 /\ m.llu.gen \in Nat
      /\ m.llu.gen <= TopGen
  <2>1. m.llu.gen \in Nat
    BY <1>5 DEF AnyStamp
  <2>2. m.llu.gen <= TopGen
    BY <1>3 DEF Fits, StampFits
  <2> QED BY <2>1, <2>2 DEF LLU
<1>7. /\ IsFiniteSet(Entering') /\ TopIter' = TopIter /\ TopGen' = TopGen + 1
      /\ node'[n] = q(m) /\ \A k \in Nodes \ {n} : node'[k] = node[k]
      /\ q(m).phase = "init" /\ q(m).by = node[n].by /\ q(m).llu = new(m) /\ q(m).obs = {}
      /\ q(m).gen = node[n].gen /\ q(m).inc = node[n].inc /\ q(m).wait = node[n].wait
      /\ q(m).group = node[n].group /\ q(m).upd = node[n].upd
  <2>1. node'[n] = q(m) /\ \A k \in Nodes \ {n} : node'[k] = node[k]
    <3> HIDE DEF q
    <3> QED BY <1>1, <1>3
  <2>2. /\ r(m) \in NodeRecords /\ r(m).by = node[n].by
        /\ r(m).gen = node[n].gen /\ r(m).inc = node[n].inc /\ r(m).wait = node[n].wait
        /\ r(m).group = node[n].group /\ r(m).upd = node[n].upd
    <3>1. src(m).llu \in AnyStamp /\ src(m).mem \in SUBSET Keys
      BY <1>5, NodeParts
    <3>2. ASSUME NEW l \in AnyStamp, NEW c \in SUBSET Keys
          PROVE  LET x == observerInit(node[n], l, c)
                 IN  /\ x \in NodeRecords /\ x.by = node[n].by
                     /\ x.gen = node[n].gen /\ x.inc = node[n].inc /\ x.wait = node[n].wait
                     /\ x.group = node[n].group /\ x.upd = node[n].upd
      <4> DEFINE y == node[n]
                 x == observerInit(y, l, c)
      <4>1. y \in NodeRecords
        BY <1>3
      <4> HIDE DEF y
      <4>2. /\ x \in NodeRecords /\ x.by = y.by /\ x.gen = y.gen /\ x.inc = y.inc
            /\ x.wait = y.wait /\ x.group = y.group /\ x.upd = y.upd
        BY <3>2, <4>1 DEF observerInit, NodeRecords
      <4> QED BY <4>2 DEF y
    <3> HIDE DEF src
    <3>3. CASE Newer(m.llu, node[n].llu)
      <4>1. r(m) = observerInit(node[n], src(m).llu, src(m).mem)
        BY <3>3
      <4> HIDE DEF r
      <4> QED BY <3>1, <3>2, <4>1
    <3>4. CASE ~Newer(m.llu, node[n].llu)
      <4>1. r(m) = node[n]
        BY <3>4
      <4> HIDE DEF r
      <4> QED BY <1>3, <4>1
    <3> QED BY <3>3, <3>4
  <2> HIDE DEF r, new
  <2>3. /\ q(m).phase = "init" /\ q(m).by = node[n].by /\ q(m).llu = new(m) /\ q(m).obs = {}
        /\ q(m).gen = node[n].gen /\ q(m).inc = node[n].inc /\ q(m).wait = node[n].wait
        /\ q(m).group = node[n].group /\ q(m).upd = node[n].upd
    BY <2>2 DEF NodeRecords
  <2> HIDE DEF q
  <2>4. Syncing' = Syncing \ {n} /\ n \in Syncing
    BY <1>2, <2>1, <2>3 DEF Syncing
  <2>5. Cardinality(Syncing') = Cardinality(Syncing) - 1 /\ Cardinality(Syncing) \in Nat
    <3>1. IsFiniteSet(Syncing) /\ Cardinality(Syncing) \in Nat
      BY BoundNumbers
    <3> QED BY <2>4, <3>1, FS_RemoveElement
  <2>6. Entering' = Entering
    BY <2>1, <2>3 DEF Entering
  <2>7. TopGen' = TopGen + 1
    BY <1>2, <1>3, <2>5 DEF TopGen
  <2> QED BY <1>2, <2>1, <2>3, <2>6, <2>7 DEF TopIter, BoundInv
<1> DEFINE g == TopGen + 1
           i == TopIter
           p == q(m)
<1>8. g \in Nat /\ g \in 1..g /\ TopGen <= g /\ i \in Nat /\ TopGen' = g /\ TopIter' = i
  BY <1>3, <1>7
<1>9. StampFits(new(m), g, i) /\ new(m).gen \in 1..g
  BY <1>3, <1>6 DEF StampFits
<1>10. Fits(node[n], g, i, restarts, groups)
  <2> DEFINE x == node[n]
             tg == TopGen
  <2>1. /\ x \in NodeRecords /\ tg \in Nat /\ tg <= g /\ i <= i /\ restarts <= restarts
        /\ groups <= groups /\ Fits(x, tg, i, restarts, groups)
    BY <1>3, <1>8
  <2> HIDE DEF x, tg, g, i
  <2>2. Fits(x, g, i, restarts, groups)
    BY <1>3, <1>8, <2>1, FitsMore
  <2> QED BY <2>2 DEF x
<1> HIDE DEF g, i, q, new, r
<1>11. Fits(p, g, i, restarts, groups)
  BY <1>4, <1>7, <1>9, <1>10 DEF Fits
<1>12. ASSUME NEW k \in node[n].wait
       PROVE  CallFits(sent(m, k), g, i, restarts, groups)
  <2>1. node[k.node].inc <= restarts
    BY <1>3, <1>5 DEF Fits
  <2> QED BY <1>4, <1>9, <2>1 DEF CallFits
<1>13. stamp(m) \in [group : 1..groups, gen : 1..g]
  BY <1>4, <1>9
<1> HIDE DEF sent, stamp, p
<1>14. \A k \in Nodes : \/ Fits(node'[k], TopGen, TopIter, restarts, groups)
                        \/ Fits(node'[k], TopGen', TopIter', restarts', groups')
  BY <1>2, <1>3, <1>7, <1>8, <1>11 DEF p
<1>15. \A c \in inits' : \/ c \in inits
                         \/ CallFits(c, TopGen', TopIter', restarts', groups')
  BY <1>1, <1>2, <1>8, <1>12
<1>16. \A a \in stamped' : a \in stamped \/ a \in [group : 1..groups', gen : 1..TopGen']
  BY <1>1, <1>2, <1>8, <1>13
<1>17. /\ TopGen' \in Nat /\ TopIter' \in Nat /\ TopGen <= TopGen' /\ TopIter <= TopIter'
       /\ restarts <= restarts' /\ groups <= groups'
  <2>1. TopIter <= TopIter'
    BY <1>3, <1>7
  <2> QED BY <1>2, <1>3, <1>8, <2>1
<1>18. /\ ops' \in 0..MaxOps /\ groups' \in 1..MaxGroups /\ failures' \in 0..MaxFailures
       /\ restarts' \in 0..MaxRestarts /\ acked' \subseteq Keys
  BY <1>2 DEF BoundInv
<1> QED BY <1>7, <1>14, <1>15, <1>16, <1>17, <1>18, BoundStep

(* The bounds hold at first: a full group on duty, in generation 1. *)
LEMMA InitBound ==
    Init => BoundInv
<1> SUFFICES ASSUME Init
             PROVE  BoundInv
  OBVIOUS
<1>1. PICK c \in Nodes : node = [n \in Nodes |-> OnDuty(n, c)]
  BY DEF Init
<1>2. /\ inits = {} /\ groups = 1 /\ stamped = {[group |-> 1, gen |-> 1]} /\ acked = {}
      /\ ops = 0 /\ failures = 0 /\ restarts = 0
  BY DEF Init
<1>3. \A n \in Nodes : /\ node[n].phase = "idle" /\ node[n].upd = {} /\ node[n].by = 1
                       /\ node[n].gen = 1 /\ node[n].inc = 0 /\ node[n].wait = {}
                       /\ node[n].llu.gen = 1 /\ node[n].llu.iter = 0
                       /\ \A x \in node[n].obs : x.inc = 0
  <2> SUFFICES ASSUME NEW n \in Nodes
               PROVE  /\ node[n].phase = "idle" /\ node[n].upd = {} /\ node[n].by = 1
                      /\ node[n].gen = 1 /\ node[n].inc = 0 /\ node[n].wait = {}
                      /\ node[n].llu.gen = 1 /\ node[n].llu.iter = 0
                      /\ \A x \in node[n].obs : x.inc = 0
    OBVIOUS
  <2>1. node[n] = OnDuty(n, c)
    BY <1>1
  <2>2. node[n].obs = IF n = c THEN [node : Nodes \ {c}, inc : {0}] ELSE {}
    BY <2>1 DEF OnDuty
  <2>3. /\ node[n].phase = "idle" /\ node[n].upd = {} /\ node[n].by = 1
        /\ node[n].gen = 1 /\ node[n].inc = 0 /\ node[n].wait = {} /\ node[n].llu = LLU(1, 0)
    BY <2>1 DEF OnDuty
  <2>4. \A x \in [node : Nodes \ {c}, inc : {0}] : x.inc = 0
    OBVIOUS
  <2> QED BY <2>2, <2>3, <2>4 DEF LLU
<1>4. Syncing = {} /\ Entering = {}
  BY <1>3 DEF Syncing, Entering
<1>5. IsFiniteSet(Entering) /\ Cardinality(Entering) = 0 /\ Cardinality(Syncing) = 0
  BY <1>4, FS_EmptySet
<1>6. TopGen = 1 /\ TopIter = 0
  BY <1>2, <1>5 DEF TopGen, TopIter
<1>7. \A n \in Nodes : Fits(node[n], TopGen, TopIter, restarts, groups)
  BY <1>2, <1>3, <1>6 DEF Fits, StampFits
<1>8. stamped \subseteq [group : 1..groups, gen : 1..TopGen]
  BY <1>2, <1>6
<1>9. /\ ops \in 0..MaxOps /\ groups \in 1..MaxGroups
      /\ failures \in 0..MaxFailures /\ restarts \in 0..MaxRestarts
  BY <1>2, ReplicationBounds
<1> QED BY <1>2, <1>5, <1>6, <1>7, <1>8, <1>9 DEF BoundInv

(* Every step preserves them. *)
LEMMA NextBound ==
    Inv /\ BoundInv /\ [Next]_vars => BoundInv'
<1> SUFFICES ASSUME Inv, BoundInv, [Next]_vars
             PROVE  BoundInv'
  OBVIOUS
<1>0. Inv'
  BY NextInv
<1>1. CASE UNCHANGED vars
  <2>1. /\ groups' = groups /\ stamped' = stamped /\ inits' \subseteq inits /\ ops' = ops
        /\ restarts' = restarts /\ acked' \subseteq Keys /\ failures' \in 0..MaxFailures
    BY <1>1 DEF vars, BoundInv
  <2>2. \A p \in Nodes : /\ Fits(node'[p], TopGen, TopIter, restarts, groups)
                         /\ node'[p].phase = "sync" => node[p].phase = "sync"
                         /\ \A u \in node'[p].upd : u.pc = "entered" =>
                                \E v \in node[p].upd : v.o = u.o /\ v.pc = "entered"
    BY <1>1, FitFacts DEF vars
  <2> QED BY <1>0, <2>1, <2>2, KeptStep
<1>2. ASSUME NEW n \in Nodes, NEW o \in Ops, Enter(n, o)
      PROVE  BoundInv'
  BY <1>0, <1>2, EnterBound
<1>3. ASSUME NEW n \in Nodes, Commit(n) \/ Send(n) \/ Reply(n) \/ Finish(n)
      PROVE  BoundInv'
  BY <1>0, <1>3, CommitBound, SendBound, ReplyBound, FinishBound
<1>4. ASSUME NEW n \in Nodes, MajorityLost(n) \/ Leaves(n) \/ Restart(n)
      PROVE  BoundInv'
  BY <1>0, <1>4, LeavesBound, RestartBound
<1>5. ASSUME NEW n \in Nodes, NEW S \in SUBSET (Nodes \ {n}), Elect(n, S)
      PROVE  BoundInv'
  BY <1>0, <1>5, ElectBound
<1>6. ASSUME NEW n \in Nodes, SyncAndInit(n) \/ InitSlave(n) \/ ReadyAll(n)
      PROVE  BoundInv'
  BY <1>0, <1>6, SyncAndInitBound, InitSlaveBound, ReadyAllBound
<1> QED BY <1>1, <1>2, <1>3, <1>4, <1>5, <1>6 DEF Next

(* What keeps to the bounds is of the type. *)
LEMMA FitsTyped ==
    ASSUME NEW q \in NodeRecords, NEW g \in 0..MaxGroups, NEW i \in 0..MaxOps,
           NEW r \in 0..MaxRestarts, NEW p \in 1..MaxGroups,
           Fits(q, g, i, r, p), q.group <= p
    PROVE  q \in
             [state : {"Inactive", "Reorganization", "Normal"}, coord : Nodes,
              group : 0..MaxGroups, gen : 0..MaxGroups,
              phase : {"idle", "sync", "init"}, wait : SUBSET [node : Nodes, llu : Stamps],
              inc : 0..MaxRestarts,
              llu : Stamps, db : SUBSET Keys, mem : SUBSET Keys, obs : SUBSET Observer,
              upd : SUBSET Updates, by : 1..MaxGroups]
<1>1. ASSUME NEW l \in AnyStamp, StampFits(l, g, i)
      PROVE  l \in Stamps
  <2>1. l.gen \in 0..MaxGroups /\ l.iter \in 0..MaxOps
    BY <1>1, ReplicationBounds DEF StampFits, AnyStamp
  <2> QED BY <2>1 DEF AnyStamp, Stamps
<1>2. ASSUME NEW x \in AnyObserver, x.inc <= r
      PROVE  x \in Observer
  <2>1. x.inc \in 0..MaxRestarts
    BY <1>2, ReplicationBounds DEF AnyObserver
  <2> QED BY <2>1 DEF AnyObserver, Observer
<1>3. /\ q.llu \in AnyStamp /\ q.wait \in SUBSET [node : Nodes, llu : AnyStamp]
      /\ q.obs \in SUBSET AnyObserver /\ q.upd \in SUBSET AnyUpdate
      /\ q.group \in Nat /\ q.gen \in Nat /\ q.inc \in Nat
  BY DEF NodeRecords
<1>4. q.llu \in Stamps
  BY <1>1, <1>3 DEF Fits
<1>5. q.wait \in SUBSET [node : Nodes, llu : Stamps]
  <2> SUFFICES ASSUME NEW w \in q.wait
               PROVE  w \in [node : Nodes, llu : Stamps]
    OBVIOUS
  <2>1. w \in [node : Nodes, llu : AnyStamp]
    BY <1>3
  <2>2. w.llu \in Stamps
    BY <1>1, <2>1 DEF Fits
  <2> QED BY <2>1, <2>2
<1>6. q.obs \in SUBSET Observer
  BY <1>2, <1>3 DEF Fits
<1>7. q.upd \in SUBSET Updates
  <2> SUFFICES ASSUME NEW u \in q.upd
               PROVE  u \in Updates
    OBVIOUS
  <2>1. u \in AnyUpdate /\ u.llu \in AnyStamp /\ u.todo \in SUBSET AnyObserver
    BY <1>3 DEF AnyUpdate
  <2>2. u.llu \in Stamps
    BY <1>1, <2>1 DEF Fits
  <2>3. u.todo \in SUBSET Observer
    BY <1>2, <2>1 DEF Fits
  <2> QED BY <2>1, <2>2, <2>3 DEF AnyUpdate, Updates
<1>8. q.group \in 0..MaxGroups /\ q.gen \in 0..MaxGroups /\ q.inc \in 0..MaxRestarts
      /\ q.by \in 1..MaxGroups
  BY <1>3, ReplicationBounds DEF Fits
<1> QED BY <1>4, <1>5, <1>6, <1>7, <1>8 DEF NodeRecords

(* The types and the bounds of every variable: no stamp, sent or kept, has *)
(* a generation that no election gave or an iteration beyond the updates   *)
(* that were committed.                                                    *)
THEOREM TypeCorrect == Spec => []TypeOK
<1>1. Inv /\ BoundInv => TypeOK
  <2> SUFFICES ASSUME Inv, BoundInv
               PROVE  TypeOK
    OBVIOUS
  <2>1. TopGen \in 0..MaxGroups /\ TopIter \in 0..MaxOps
    <3>1. /\ TopGen \in Nat /\ TopIter \in Nat /\ groups \in Nat /\ ops \in Nat
          /\ Cardinality(Syncing) \in Nat /\ Cardinality(Entering) \in Nat
      BY BoundNumbers
    <3>2. groups <= MaxGroups /\ ops <= MaxOps
      BY ReplicationBounds DEF BoundInv
    <3>3. TopGen <= MaxGroups /\ TopIter <= MaxOps
      BY <3>1, <3>2, ReplicationBounds DEF TopGen, TopIter
    <3> QED BY <3>1, <3>3, ReplicationBounds
  <2> DEFINE g == TopGen
             i == TopIter
  <2>2. restarts \in 0..MaxRestarts /\ groups \in 1..MaxGroups /\ g >= 1
    BY DEF BoundInv
  <2>3. g \in 0..MaxGroups /\ i \in 0..MaxOps
    BY <2>1
  <2>4. /\ \A n \in Nodes : Fits(node[n], g, i, restarts, groups)
        /\ \A c \in inits : CallFits(c, g, i, restarts, groups)
        /\ stamped \subseteq [group : 1..groups, gen : 1..g]
    BY DEF BoundInv
  <2> HIDE DEF g, i
  <2>5. \A n \in Nodes : node[n] \in
             [state : {"Inactive", "Reorganization", "Normal"}, coord : Nodes,
              group : 0..MaxGroups, gen : 0..MaxGroups,
              phase : {"idle", "sync", "init"}, wait : SUBSET [node : Nodes, llu : Stamps],
              inc : 0..MaxRestarts,
              llu : Stamps, db : SUBSET Keys, mem : SUBSET Keys, obs : SUBSET Observer,
              upd : SUBSET Updates, by : 1..MaxGroups]
    BY <2>2, <2>3, <2>4, NodeFacts, FitsTyped
  <2>6. inits \subseteq
         [from : Nodes, to : Nodes, inc : 0..MaxRestarts, llu : Stamps, content : SUBSET Keys,
          group : 1..MaxGroups]
    <3> SUFFICES ASSUME NEW c \in inits
                 PROVE  c \in [from : Nodes, to : Nodes, inc : 0..MaxRestarts, llu : Stamps,
                               content : SUBSET Keys, group : 1..MaxGroups]
      OBVIOUS
    <3>1. c \in Inits /\ c.llu \in AnyStamp /\ c.inc \in Nat
      BY DEF Inv, TypeInv, Inits
    <3>2. c.llu.gen \in Nat /\ c.llu.iter \in Nat
      BY <3>1 DEF AnyStamp
    <3>3. c.llu.gen \in 0..MaxGroups /\ c.llu.iter \in 0..MaxOps
      BY <2>3, <2>4, <3>2, ReplicationBounds DEF CallFits, StampFits
    <3>4. c.llu \in Stamps
      BY <3>1, <3>3 DEF AnyStamp, Stamps
    <3>5. c.inc \in 0..MaxRestarts /\ c.group \in 1..MaxGroups
      BY <2>2, <2>4, <3>1, ReplicationBounds DEF CallFits
    <3> QED BY <3>1, <3>4, <3>5 DEF Inits
  <2>7. stamped \subseteq [group : 1..MaxGroups, gen : 1..MaxGroups]
    <3>1. 1..groups \subseteq 1..MaxGroups /\ 1..g \subseteq 1..MaxGroups
      BY <2>2, <2>3, ReplicationBounds
    <3> QED BY <2>4, <3>1
  <2>8. node \in [Nodes ->
             [state : {"Inactive", "Reorganization", "Normal"}, coord : Nodes,
              group : 0..MaxGroups, gen : 0..MaxGroups,
              phase : {"idle", "sync", "init"}, wait : SUBSET [node : Nodes, llu : Stamps],
              inc : 0..MaxRestarts,
              llu : Stamps, db : SUBSET Keys, mem : SUBSET Keys, obs : SUBSET Observer,
              upd : SUBSET Updates, by : 1..MaxGroups]]
    <3>1. node \in [Nodes -> NodeRecords]
      BY DEF Inv, TypeInv
    <3> QED BY <2>5, <3>1
  <2> QED BY <2>6, <2>7, <2>8 DEF TypeOK, BoundInv
<1>2. Spec => []BoundInv
  BY ReplicationInvariant, InitBound, NextBound, PTL DEF Spec
<1> QED BY <1>1, <1>2, ReplicationInvariant, PTL

=============================================================================
