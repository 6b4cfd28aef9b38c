----------------------- MODULE ReplicationMirrorProofs -----------------------
(***************************************************************************)
(* SlaveMirrors, for any replicas, topics and bounds.                      *)
(*                                                                         *)
(* An update that a slave has and its master has not, or the other way     *)
(* round, is one that is committed and not finished.  The inductive        *)
(* invariant says so of every topic, and rules out the other ways to       *)
(* differ: a slave that goes to duty has the content its master sent, and  *)
(* the update of another master does not reach it, because the generation  *)
(* the observer compares is that of one group only, which has one          *)
(* coordinator.                                                            *)
(***************************************************************************)
EXTENDS ReplicationProofs

(* initMaster() has stamped a generation in group g; generation e in the   *)
(* group of a node in state q.                                             *)
Stamped(g) == \E a \in stamped : a.group = g
Marked(q, e) == [group |-> q.group, gen |-> e] \in stamped

(* A group stamps one generation, and what it sent is its content. *)
StampInv ==
    /\ stamped \subseteq [group : 1..groups, gen : Nat]
    /\ \A a, b \in stamped : a.group = b.group => a = b
    /\ \A i \in inits : Stamped(i.group)

(* A topic is locked by one update, from the commit to the end; it is not  *)
(* found while it is being destroyed.                                      *)
Locked(q) ==
    /\ \A u, v \in q.upd : Holds(u) /\ Holds(v) /\ u.o.key[1] = v.o.key[1] => u = v
    /\ \A u \in q.upd : Holds(u) /\ u.o.op = "destroy" => u.o.key \notin q.mem

(* Node n in state q: whoever is past the sync of its group, and whatever  *)
(* it commits, has the generation the group has stamped.                   *)
Dated(n, q) ==
    /\ IsFiniteSet(q.obs)
    /\ Stamped(q.by)
    /\ q.state = "Reorganization" => q.group # 0
    /\ q.phase = "sync" => ~Stamped(q.group)
    /\ q.phase = "init" \/ (q.state = "Normal" /\ q.coord = n) \/ q.upd # {}
         => Marked(q, q.llu.gen)
    /\ q.state = "Normal" => Marked(q, q.gen)
    /\ \A u \in q.upd : Holds(u) => Marked(q, u.llu.gen)
    /\ Locked(q)

(* A group has one coordinator, and goes to duty with it. *)
LeadInv ==
    \A n, m \in Nodes :
        node[n].group # 0 /\ node[m].group = node[n].group
        => /\ node[m].coord = node[n].coord
           /\ node[n].phase # "idle" => node[m].state # "Normal"

(* What a group initializes its slaves with is what its coordinator has.   *)
ContentInv ==
    /\ \A n \in Nodes, i \in inits :
         node[n].phase = "init" /\ i.group = node[n].group => i.content = node[n].mem
    /\ \A n, m \in Nodes :
         /\ node[n].phase = "init" /\ m # n /\ node[m].state = "Reorganization"
         /\ node[m].group = node[n].group /\ node[m].by = node[n].group
         => node[m].mem = node[n].mem

(* The hypotheses of SlaveMirrors, updates aside.                          *)
Follows(n, m) ==
    /\ IsMaster(n) /\ Cardinality(node[n].obs) >= Majority
    /\ [node |-> m, inc |-> node[m].inc] \in node[n].obs
    /\ node[m].state = "Normal" /\ node[m].coord = n /\ node[m].group = node[n].group
    /\ node[m].by = node[n].group /\ OnlyGroup(node[n].gen) /\ n # m

(* Update u creates or destroys topic t and is not finished.               *)
On(u, t) == Holds(u) /\ u.o.op \in {"create", "destroy"} /\ u.o.key = TopicKey(t)

(* Topic t at a master in state q and a slave m in state r: they agree     *)
(* when no update holds it, and when the slave has answered one it has     *)
(* done what was asked.                                                    *)
Mirrored(q, r, m, t) ==
    /\ (\A u \in q.upd : ~On(u, t)) => (TopicKey(t) \in r.mem <=> TopicKey(t) \in q.mem)
    /\ \A u \in q.upd :
         On(u, t) /\ u.pc = "sending" /\ [node |-> m, inc |-> r.inc] \notin u.todo
         => (TopicKey(t) \in r.mem <=> u.o.op = "create")

Mirror(n, m) == Follows(n, m) => \A t \in Topics : Mirrored(node[n], node[m], m, t)

DateInv == StampInv /\ LeadInv /\ ContentInv /\ \A n \in Nodes : Dated(n, node[n])

Inv2 == Inv /\ DateInv /\ \A n, m \in Nodes : Mirror(n, m)

-----------------------------------------------------------------------------
(* Steps that begin no group.                                              *)

(* Node p may go to state q: it stays in its group or leaves it, does not  *)
(* begin to reorganize or go to duty, and what a reorganizing node has is  *)
(* what it had or what an init() brings.                                   *)
Quiet(p, q) ==
    /\ Dated(p, q)
    /\ q.group = 0 \/ (q.group = node[p].group /\ q.coord = node[p].coord)
    /\ q.state = "Normal" => node[p].state = "Normal"
    /\ q.phase # "idle" =>
         node[p].phase = q.phase /\ q.mem = node[p].mem /\ q.group = node[p].group
    /\ q.state = "Reorganization" =>
         /\ node[p].state = "Reorganization"
         /\ \/ q.mem = node[p].mem /\ q.by = node[p].by
            \/ \E i \in inits : q.by = i.group /\ q.mem = i.content

(* Such steps keep what is known of groups. *)
LEMMA QuietStep ==
    ASSUME DateInv, groups' = groups, stamped' = stamped, inits' \subseteq inits,
           \A p \in Nodes : Quiet(p, node'[p])
    PROVE  DateInv'
<1>1. StampInv'
  BY DEF DateInv, StampInv, Stamped
<1>2. \A p \in Nodes : Dated(p, node[p])'
  BY DEF Quiet, Dated, Stamped, Marked, Locked
<1>3. LeadInv'
  <2> SUFFICES ASSUME NEW n \in Nodes, NEW m \in Nodes,
                      node'[n].group # 0, node'[m].group = node'[n].group
               PROVE  /\ node'[m].coord = node'[n].coord
                      /\ node'[n].phase # "idle" => node'[m].state # "Normal"
    BY DEF LeadInv
  <2>1. /\ node[n].group = node'[n].group /\ node[n].coord = node'[n].coord
        /\ node[m].group = node'[m].group /\ node[m].coord = node'[m].coord
        /\ node'[n].phase # "idle" => node[n].phase # "idle"
        /\ node'[m].state = "Normal" => node[m].state = "Normal"
    BY DEF Quiet
  <2> QED BY <2>1 DEF DateInv, LeadInv
<1>4. ASSUME NEW n \in Nodes, NEW i \in inits', node'[n].phase = "init",
             i.group = node'[n].group
      PROVE  i.content = node'[n].mem
  <2>1. node[n].phase = "init" /\ node'[n].mem = node[n].mem /\ node[n].group = node'[n].group
    BY <1>4 DEF Quiet
  <2> QED BY <1>4, <2>1 DEF DateInv, ContentInv
<1>5. ASSUME NEW n \in Nodes, NEW m \in Nodes,
             node'[n].phase = "init", m # n, node'[m].state = "Reorganization",
             node'[m].group = node'[n].group, node'[m].by = node'[n].group
      PROVE  node'[m].mem = node'[n].mem
  <2>1. node[n].phase = "init" /\ node'[n].mem = node[n].mem /\ node[n].group = node'[n].group
    BY <1>5 DEF Quiet
  <2>2. node'[m].group = node[m].group /\ node[m].state = "Reorganization"
    BY <1>5 DEF Quiet, Dated
  <2>3. CASE node'[m].mem = node[m].mem /\ node'[m].by = node[m].by
    BY <1>5, <2>1, <2>2, <2>3 DEF DateInv, ContentInv
  <2>4. CASE \E i \in inits : node'[m].by = i.group /\ node'[m].mem = i.content
    BY <1>5, <2>1, <2>4 DEF DateInv, ContentInv
  <2> QED BY <1>5, <2>3, <2>4 DEF Quiet
<1>6. ContentInv'
  BY <1>4, <1>5 DEF ContentInv
<1> QED BY <1>1, <1>2, <1>3, <1>6 DEF DateInv

(* A node that does nothing is quiet. *)
LEMMA StillQuiet ==
    ASSUME DateInv, NEW n \in Nodes
    PROVE  Quiet(n, node[n]) /\ Dated(n, node[n])
BY DEF DateInv, Quiet

(* One node takes a quiet step. *)
LEMMA QuietOne ==
    ASSUME Inv, DateInv, groups' = groups, stamped' = stamped, inits' \subseteq inits,
           NEW n \in Nodes, NEW q, node' = [node EXCEPT ![n] = q], Quiet(n, q)
    PROVE  DateInv'
<1>1. node \in [Nodes -> NodeRecords]
  BY NodeFacts
<1>2. node'[n] = q /\ \A p \in Nodes \ {n} : node'[p] = node[p]
  BY <1>1
<1>3. \A p \in Nodes : Quiet(p, node'[p])
  BY <1>2, StillQuiet
<1> QED BY <1>3, QuietStep

(* recovery() is quiet. *)
LEMMA RecoveryQuiet ==
    ASSUME Inv, NEW n \in Nodes, NEW q, Well(n, q), Quiet(n, q)
    PROVE  /\ Quiet(n, Recovery(n, q)) /\ Recovery(n, q).state = "Inactive"
           /\ q.upd # {} => Recovery(n, q).coord = q.coord
           /\ q.upd = {} => Recovery(n, q).coord = n
<1> DEFINE w == [q EXCEPT !.state = "Inactive"]
           z == [q EXCEPT !.state = "Inactive", !.coord = n, !.group = 0, !.gen = 0,
                          !.phase = "idle", !.wait = {}]
<1>0. q \in NodeRecords
  BY DEF Well
<1>1. /\ w.state = "Inactive" /\ w.coord = q.coord /\ w.upd = q.upd
      /\ w.phase = q.phase /\ w.group = q.group /\ w.mem = q.mem /\ w.obs = q.obs
      /\ w.by = q.by /\ w.llu = q.llu /\ w.gen = q.gen
  BY <1>0 DEF NodeRecords
<1>2. /\ z.state = "Inactive" /\ z.coord = n /\ z.phase = "idle" /\ z.group = 0
      /\ z.upd = q.upd /\ z.mem = q.mem /\ z.obs = q.obs /\ z.by = q.by
  BY <1>0 DEF NodeRecords
<1>3. Recovery(n, q) = IF q.upd # {} THEN w ELSE z
  BY DEF Recovery
<1> HIDE DEF w, z
<1>4. ASSUME q.upd # {}
      PROVE  Quiet(n, w)
  <2>1. w.phase = "idle"
    BY <1>1, <1>4 DEF Well
  <2>2. Dated(n, w)
    BY <1>1, <1>4, <2>1 DEF Quiet, Dated, Marked, Locked
  <2> QED BY <1>1, <2>1, <2>2 DEF Quiet
<1>5. ASSUME q.upd = {}
      PROVE  Quiet(n, z)
  <2>1. Dated(n, z)
    BY <1>2, <1>5 DEF Quiet, Dated, Marked, Locked
  <2> QED BY <1>2, <2>1 DEF Quiet
<1> QED BY <1>1, <1>2, <1>3, <1>4, <1>5

(* What a master does to its updates and data. *)
LEMMA MasterQuiet ==
    ASSUME NEW n \in Nodes, NEW x, NEW q, Quiet(n, x),
           x.state # "Reorganization", x.phase = "idle",
           x.upd # {} \/ (x.state = "Normal" /\ x.coord = n),
           q.state = x.state, q.coord = x.coord, q.group = x.group, q.gen = x.gen,
           q.phase = x.phase, q.by = x.by, q.llu.gen = x.llu.gen,
           IsFiniteSet(q.obs), Locked(q),
           \A u \in q.upd : Holds(u) => Marked(x, u.llu.gen)
    PROVE  Quiet(n, q)
<1>1. Dated(n, q)
  BY DEF Quiet, Dated, Marked
<1> QED BY <1>1 DEF Quiet

-----------------------------------------------------------------------------
(* Masters and the slaves that follow them.                                *)

(* Nothing is asked of a pair that does not serve together. *)
LEMMA MirrorIdle ==
    ASSUME NEW n \in Nodes, NEW m \in Nodes,
           \/ node'[n].state # "Normal" \/ node'[n].coord # n
           \/ node'[m].state # "Normal" \/ node'[m].coord # n \/ n = m
           \/ [node |-> m, inc |-> node'[m].inc] \notin node'[n].obs
    PROVE  Mirror(n, m)'
BY DEF Mirror, Follows, IsMaster

(* A pair that does nothing. *)
LEMMA MirrorStill ==
    ASSUME NEW n \in Nodes, NEW m \in Nodes, Mirror(n, m), stamped \subseteq stamped',
           node'[n] = node[n], node'[m] = node[m]
    PROVE  Mirror(n, m)'
<1>1. Follows(n, m)' => Follows(n, m)
  BY DEF Follows, IsMaster, OnlyGroup
<1> QED BY <1>1 DEF Mirror

(* One node takes a step; others do not follow it, unless it is a master.  *)
LEMMA MirrorOne ==
    ASSUME Inv2, stamped \subseteq stamped', NEW n \in Nodes, NEW q,
           node' = [node EXCEPT ![n] = q],
           q.state = "Normal" => q.coord = n,
           \A m \in Nodes \ {n} : Mirror(n, m)'
    PROVE  \A k, m \in Nodes : Mirror(k, m)'
<1>1. node'[n] = q /\ \A p \in Nodes \ {n} : node'[p] = node[p]
  BY NodeFacts DEF Inv2
<1> SUFFICES ASSUME NEW k \in Nodes, NEW m \in Nodes
             PROVE  Mirror(k, m)'
  OBVIOUS
<1>2. CASE k = m \/ (m = n /\ k # n)
  <2>1. k = m \/ node'[m].state # "Normal" \/ node'[m].coord # k
    BY <1>1, <1>2
  <2> QED BY <2>1, MirrorIdle
<1>3. CASE k = n /\ m # n
  BY <1>3
<1>4. CASE k # n /\ m # n
  BY <1>1, <1>4, MirrorStill DEF Inv2
<1> QED BY <1>2, <1>3, <1>4

(* A master keeps its group, and of its observers at most loses some. *)
LEMMA MasterFollows ==
    ASSUME Inv2, stamped' = stamped, NEW n \in Nodes, NEW m \in Nodes,
           node'[n].state = node[n].state, node'[n].coord = node[n].coord,
           node'[n].group = node[n].group, node'[n].gen = node[n].gen,
           node'[n].obs \subseteq node[n].obs,
           node'[m].state = node[m].state, node'[m].coord = node[m].coord,
           node'[m].group = node[m].group, node'[m].by = node[m].by,
           node'[m].inc = node[m].inc,
           Follows(n, m)'
    PROVE  Follows(n, m)
<1>1. Cardinality(node[n].obs) >= Majority
  <2>1. IsFiniteSet(node[n].obs)
    BY DEF Inv2, DateInv, Dated
  <2>2. /\ Cardinality(node'[n].obs) <= Cardinality(node[n].obs)
        /\ Cardinality(node[n].obs) \in Nat /\ Cardinality(node'[n].obs) \in Nat
    BY <2>1, FS_Subset, FS_CardinalityType
  <2>3. Cardinality(node'[n].obs) >= Majority
    BY DEF Follows
  <2>4. Majority \in Nat
    BY NodesAssumption, FS_CardinalityType DEF Majority, N
  <2> QED BY <2>2, <2>3, <2>4
<1>2. OnlyGroup(node[n].gen)
  BY DEF Follows, OnlyGroup
<1> QED BY <1>1, <1>2 DEF Follows, IsMaster

(* A master changes its updates, its data or the observers it counts: it   *)
(* is enough to look at the slaves that go on following it.                *)
LEMMA MasterMirror ==
    ASSUME Inv2, groups' = groups, stamped' = stamped, inits' \subseteq inits, NEW n \in Nodes,
           node[n].upd # {} \/ IsMaster(n),
           NEW q, node' = [node EXCEPT ![n] = q],
           q.state = node[n].state, q.coord = node[n].coord, q.group = node[n].group,
           q.gen = node[n].gen, q.phase = node[n].phase, q.by = node[n].by,
           q.llu.gen = node[n].llu.gen, q.obs \subseteq node[n].obs, Locked(q),
           \A u \in q.upd : Holds(u) => Marked(node[n], u.llu.gen),
           \A m \in Nodes \ {n}, t \in Topics :
               /\ Follows(n, m) /\ Mirrored(node[n], node[m], m, t)
               /\ Cardinality(q.obs) >= Majority
               /\ [node |-> m, inc |-> node[m].inc] \in q.obs
               => Mirrored(q, node[m], m, t)
    PROVE  DateInv' /\ \A k, m \in Nodes : Mirror(k, m)'
<1>1. node'[n] = q /\ \A p \in Nodes \ {n} : node'[p] = node[p]
  BY NodeFacts DEF Inv2
<1>2. /\ node[n].coord = n /\ node[n].state # "Reorganization" /\ node[n].phase = "idle"
      /\ node[n].upd # {} \/ (node[n].state = "Normal" /\ node[n].coord = n)
  BY BusyMaster DEF Inv2, IsMaster
<1>3. Quiet(n, node[n]) /\ IsFiniteSet(q.obs)
  BY StillQuiet, FS_Subset DEF Inv2, Dated
<1>4. Quiet(n, q)
  BY <1>2, <1>3, MasterQuiet
<1>5. DateInv'
  BY <1>4, QuietOne DEF Inv2
<1>6. ASSUME NEW m \in Nodes \ {n}
      PROVE  Mirror(n, m)'
  <2> SUFFICES ASSUME Follows(n, m)', NEW t \in Topics
               PROVE  Mirrored(node'[n], node'[m], m, t)
    BY DEF Mirror
  <2>1. Follows(n, m)
    BY <1>1, MasterFollows
  <2>2. Mirrored(node[n], node[m], m, t)
    BY <2>1 DEF Inv2, Mirror
  <2>3. Cardinality(q.obs) >= Majority /\ [node |-> m, inc |-> node[m].inc] \in q.obs
    BY <1>1 DEF Follows
  <2> QED BY <1>1, <2>1, <2>2, <2>3
<1>7. \A k, m \in Nodes : Mirror(k, m)'
  BY <1>2, <1>6, MirrorOne
<1> QED BY <1>5, <1>7

-----------------------------------------------------------------------------
(* Updates on the master.                                                  *)

(* The keys that updates name. *)
LEMMA OpKeys ==
    ASSUME NEW o \in Ops
    PROVE  /\ o.key[1] \in Topics
           /\ o.op \in {"create", "destroy"} => o.key = TopicKey(o.key[1])
           /\ o.op \notin {"create", "destroy"} =>
                o.op \in {"subscribe", "unsubscribe"} /\ \A t : o.key # TopicKey(t)
<1>1. CASE o \in [op : {"create", "destroy"}, key : Topics \X {Placeholder}]
  BY <1>1 DEF TopicKey
<1>2. CASE o \in [op : {"subscribe", "unsubscribe"}, key : Topics \X Subs]
  <2>1. o.op \in {"subscribe", "unsubscribe"} /\ o.key[1] \in Topics /\ o.key[2] \in Subs
    BY <1>2
  <2>2. o.key[2] # Placeholder
    BY <2>1, PlaceholderAssumption
  <2>3. \A t : TopicKey(t)[2] = Placeholder
    BY DEF TopicKey
  <2> QED BY <2>1, <2>2, <2>3
<1> QED BY <1>1, <1>2 DEF Ops

(* What a commit makes of the topics. *)
LEMMA CommitTopics ==
    ASSUME NEW S \in SUBSET Keys, NEW o \in Ops, NEW t \in Topics
    PROVE  TopicKey(t) \in CommitDb(S, o) <=>
               \/ o.op = "create" /\ t = o.key[1]
               \/ TopicKey(t) \in S /\ ~(o.op = "destroy" /\ t = o.key[1])
<1>1. \A s : TopicKey(t) = TopicKey(s) <=> t = s
  BY DEF TopicKey
<1>2. CASE o.op = "create"
  BY <1>1, <1>2, OpKeys DEF CommitDb
<1>3. CASE o.op = "destroy"
  <2>1. o.key = TopicKey(o.key[1])
    BY <1>3, OpKeys
  <2>2. \A s : TopicKey(t) \in KeysOf(s) <=> t = s
    BY DEF TopicKey, KeysOf
  <2>3. CommitDb(S, o) = IF o.key \in S THEN S \ KeysOf(o.key[1]) ELSE S
    BY <1>3 DEF CommitDb
  <2> QED BY <1>1, <1>3, <2>1, <2>2, <2>3
<1>4. CASE o.op = "subscribe"
  BY <1>4, OpKeys DEF CommitDb
<1>5. CASE o.op = "unsubscribe"
  BY <1>5, OpKeys DEF CommitDb
<1> QED BY <1>2, <1>3, <1>4, <1>5, OpKeys

(* A master's commit: only a destroy has an effect on topics, yet.         *)
LEMMA CommitMemTopics ==
    ASSUME NEW S \in SUBSET Keys, NEW u \in AnyUpdate, NEW t \in Topics,
           u.o.op = "destroy" => ~u.dead
    PROVE  TopicKey(t) \in CommitMem(S, u) <=>
               TopicKey(t) \in S /\ ~(u.o.op = "destroy" /\ t = u.o.key[1])
<1>1. u.o \in Ops
  BY DEF AnyUpdate
<1> QED BY <1>1, CommitTopics DEF CommitMem

(* An update that holds its lock goes on holding it. *)
LEMMA ReplacedLocked ==
    ASSUME NEW r, NEW u \in r.upd, NEW s, Locked(r), Holds(u), s.o = u.o,
           NEW q, q.upd = (r.upd \ {u}) \cup {s}, q.mem = r.mem
    PROVE  Locked(q)
<1>1. ASSUME NEW x \in q.upd, NEW y \in q.upd, Holds(x), Holds(y), x.o.key[1] = y.o.key[1]
      PROVE  x = y
  <2>1. CASE x = s /\ y = s
    BY <2>1
  <2>2. CASE x # s /\ y # s
    BY <1>1, <2>2 DEF Locked
  <2>3. CASE x = s /\ y # s
    BY <1>1, <2>3 DEF Locked
  <2>4. CASE x # s /\ y = s
    BY <1>1, <2>4 DEF Locked
  <2> QED BY <2>1, <2>2, <2>3, <2>4
<1>2. ASSUME NEW x \in q.upd, Holds(x), x.o.op = "destroy"
      PROVE  x.o.key \notin q.mem
  BY <1>2 DEF Locked
<1> QED BY <1>1, <1>2 DEF Locked

(* What is known of a master with updates. *)
LEMMA MasterFacts ==
    ASSUME Inv2, NEW n \in Nodes
    PROVE  /\ node \in [Nodes -> NodeRecords] /\ node[n] \in NodeRecords
           /\ node[n].upd \in SUBSET AnyUpdate /\ node[n].mem \in SUBSET Keys
           /\ Dated(n, node[n]) /\ Locked(node[n])
           /\ \A u \in node[n].upd : Holds(u) => Marked(node[n], u.llu.gen)
BY NodeFacts, NodeParts, StillQuiet DEF Inv2, Dated

(* An update enters. *)
LEMMA EnterMirror ==
    ASSUME Inv2, NEW n \in Nodes, NEW o \in Ops, Enter(n, o)
    PROVE  DateInv' /\ \A k, m \in Nodes : Mirror(k, m)'
<1> DEFINE u == [o |-> o, pc |-> "entered", dead |-> FALSE, llu |-> LLU(0, 0), todo |-> {}]
           r == node[n]
           q == [r EXCEPT !.upd = @ \cup {u}]
<1>1. /\ r \in NodeRecords /\ Locked(r)
      /\ \A v \in r.upd : Holds(v) => Marked(r, v.llu.gen)
  BY MasterFacts
<1>2. ~Holds(u)
  BY DEF Holds
<1>3. node' = [node EXCEPT ![n] = q]
  BY MasterFacts DEF Enter
<1>4. IsMaster(n) /\ groups' = groups /\ stamped' = stamped /\ inits' = inits
  BY DEF Enter
<1> HIDE DEF u
<1>5. /\ q.state = r.state /\ q.coord = r.coord /\ q.group = r.group /\ q.gen = r.gen
      /\ q.phase = r.phase /\ q.by = r.by /\ q.llu = r.llu /\ q.obs = r.obs /\ q.mem = r.mem
      /\ q.upd = r.upd \cup {u}
  BY <1>1 DEF NodeRecords
<1> HIDE DEF q
<1>6. Locked(q)
  BY <1>1, <1>2, <1>5 DEF Locked
<1>7. \A v \in q.upd : Holds(v) => Marked(r, v.llu.gen)
  BY <1>1, <1>2, <1>5
<1>8. \A m, t : Mirrored(r, node[m], m, t) => Mirrored(q, node[m], m, t)
  BY <1>2, <1>5 DEF Mirrored, On
<1> QED BY <1>3, <1>4, <1>5, <1>6, <1>7, <1>8, MasterMirror

(* The observers are called. *)
LEMMA SendMirror ==
    ASSUME Inv2, NEW n \in Nodes, Send(n)
    PROVE  DateInv' /\ \A k, m \in Nodes : Mirror(k, m)'
<1>1. PICK u \in node[n].upd :
        /\ u.pc = "committed"
        /\ node' = [node EXCEPT ![n].upd =
               (@ \ {u}) \cup {[u EXCEPT !.pc = "sending", !.todo = node[n].obs]}]
  BY DEF Send
<1> DEFINE r == node[n]
           s == [u EXCEPT !.pc = "sending", !.todo = r.obs]
           q == [r EXCEPT !.upd = (@ \ {u}) \cup {s}]
<1>2. /\ r \in NodeRecords /\ Locked(r) /\ u \in AnyUpdate
      /\ \A v \in r.upd : Holds(v) => Marked(r, v.llu.gen)
  BY MasterFacts
<1>3. s.o = u.o /\ s.llu = u.llu /\ s.todo = r.obs /\ s.pc = "sending"
  BY <1>2 DEF AnyUpdate
<1>4. node' = [node EXCEPT ![n] = q]
  BY <1>1, MasterFacts
<1>5. groups' = groups /\ stamped' = stamped /\ inits' = inits
  BY DEF Send
<1> HIDE DEF s
<1>6. /\ q.state = r.state /\ q.coord = r.coord /\ q.group = r.group /\ q.gen = r.gen
      /\ q.phase = r.phase /\ q.by = r.by /\ q.llu = r.llu /\ q.obs = r.obs /\ q.mem = r.mem
      /\ q.upd = (r.upd \ {u}) \cup {s}
  BY <1>2 DEF NodeRecords
<1> HIDE DEF q
<1>7. Holds(u) /\ Holds(s)
  BY <1>1, <1>3 DEF Holds
<1>8. Locked(q)
  BY <1>2, <1>3, <1>6, <1>7, ReplacedLocked
<1>9. \A v \in q.upd : Holds(v) => Marked(r, v.llu.gen)
  BY <1>2, <1>3, <1>6, <1>7
<1>10. ASSUME NEW m, NEW t, Mirrored(r, node[m], m, t),
              [node |-> m, inc |-> node[m].inc] \in q.obs
       PROVE  Mirrored(q, node[m], m, t)
  <2>1. On(s, t) <=> On(u, t)
    BY <1>3, <1>7 DEF On
  <2> QED BY <1>3, <1>6, <1>10, <2>1 DEF Mirrored
<1> QED BY <1>4, <1>5, <1>6, <1>8, <1>9, <1>10, MasterMirror

(* An update is committed, or is found to be pointless. *)
LEMMA CommitMirror ==
    ASSUME Inv2, NEW n \in Nodes, Commit(n)
    PROVE  DateInv' /\ \A k, m \in Nodes : Mirror(k, m)'
<1> DEFINE r == node[n]
           l == getIncrementedLLU(r.llu)
           Dies(u, v) == IF u.o.op = "destroy" /\ v.o.key[1] = u.o.key[1] /\ v.o.op # "create"
                         THEN [v EXCEPT !.dead = TRUE] ELSE v
           c(u) == [u EXCEPT !.pc = "committed", !.llu = l]
           Upd(u) == {Dies(u, v) : v \in r.upd \ {u}} \cup {c(u)}
           q(u) == [r EXCEPT !.db = CommitDb(@, u.o), !.mem = CommitMem(@, u), !.llu = l,
                             !.upd = Upd(u)]
<1>1. PICK u \in node[n].upd :
        /\ u.pc = "entered" /\ LockFree(n, u)
        /\ \/ node' = [node EXCEPT ![n].upd = @ \ {u}]
           \/ ~Pointless(r, u) /\ node' = [node EXCEPT ![n] = q(u)]
  BY DEF Commit
<1>2. /\ node \in [Nodes -> NodeRecords] /\ r \in NodeRecords /\ Locked(r) /\ u \in AnyUpdate
      /\ r.upd \in SUBSET AnyUpdate /\ r.mem \in SUBSET Keys
      /\ \A v \in r.upd : Holds(v) => Marked(r, v.llu.gen)
      /\ Marked(r, r.llu.gen) /\ r.llu \in AnyStamp
  <2>1. Dated(n, r) /\ r.upd # {}
    BY MasterFacts
  <2>2. Marked(r, r.llu.gen)
    BY <2>1 DEF Dated
  <2> QED BY <2>2, MasterFacts, NodeParts DEF Inv2
<1>3. groups' = groups /\ stamped' = stamped /\ inits' = inits
  BY DEF Commit
<1>4. ~Holds(u) /\ u.o \in Ops
  BY <1>1, <1>2 DEF Holds, AnyUpdate
<1>5. CASE node' = [node EXCEPT ![n].upd = @ \ {u}]
  <2> DEFINE p == [r EXCEPT !.upd = @ \ {u}]
  <2>1. node' = [node EXCEPT ![n] = p]
    BY <1>2, <1>5
  <2>2. /\ p.state = r.state /\ p.coord = r.coord /\ p.group = r.group /\ p.gen = r.gen
        /\ p.phase = r.phase /\ p.by = r.by /\ p.llu = r.llu /\ p.obs = r.obs /\ p.mem = r.mem
        /\ p.upd = r.upd \ {u}
    BY <1>2 DEF NodeRecords
  <2> HIDE DEF p
  <2>3. Locked(p)
    BY <1>2, <2>2 DEF Locked
  <2>4. \A v \in p.upd : Holds(v) => Marked(r, v.llu.gen)
    BY <1>2, <2>2
  <2>5. \A m, t : Mirrored(r, node[m], m, t) => Mirrored(p, node[m], m, t)
    BY <1>4, <2>2 DEF Mirrored, On
  <2> QED BY <1>3, <2>1, <2>2, <2>3, <2>4, <2>5, MasterMirror
<1>6. CASE ~Pointless(r, u) /\ node' = [node EXCEPT ![n] = q(u)]
  <2> DEFINE p == q(u)
             d == c(u)
  <2>1. /\ p.state = r.state /\ p.coord = r.coord /\ p.group = r.group /\ p.gen = r.gen
        /\ p.phase = r.phase /\ p.by = r.by /\ p.llu = l /\ p.obs = r.obs
        /\ p.mem = CommitMem(r.mem, u) /\ p.upd = Upd(u)
    <3> HIDE DEF l, Upd
    <3> QED BY <1>2 DEF NodeRecords
  <2>2. l.gen = r.llu.gen
    BY <1>2 DEF getIncrementedLLU, AnyStamp
  <2>3. d.o = u.o /\ d.pc = "committed" /\ d.llu = l
    <3> HIDE DEF l
    <3> QED BY <1>2 DEF AnyUpdate
  <2>4. \A v \in AnyUpdate : /\ Dies(u, v).o = v.o /\ Dies(u, v).pc = v.pc
                             /\ Dies(u, v).llu = v.llu /\ Dies(u, v).todo = v.todo
    BY DEF AnyUpdate
  <2> HIDE DEF l, q, c, Dies
  <2>5. \A x \in p.upd : x = d \/ \E v \in r.upd \ {u} : x = Dies(u, v)
    BY <2>1
  <2>6. d \in p.upd /\ \A v \in r.upd \ {u} : Dies(u, v) \in p.upd
    BY <2>1
  <2>7. \A v \in r.upd \ {u} : /\ v \in AnyUpdate /\ v.o \in Ops
                               /\ Dies(u, v).o = v.o /\ Dies(u, v).pc = v.pc
                               /\ Dies(u, v).llu = v.llu /\ Dies(u, v).todo = v.todo
                               /\ Holds(Dies(u, v)) <=> Holds(v)
                               /\ Holds(v) => v.o.key[1] # u.o.key[1]
    <3>1. \A v \in r.upd \ {u} : v \in AnyUpdate
      BY <1>2
    <3> QED BY <1>1, <2>4, <3>1 DEF Holds, LockFree, AnyUpdate
  <2>8. u.o.op = "destroy" => ~u.dead
    BY <1>6 DEF Pointless
  <2> HIDE DEF p, d, Upd
  <2>9. \A t \in Topics : TopicKey(t) \in p.mem <=>
          TopicKey(t) \in r.mem /\ ~(u.o.op = "destroy" /\ t = u.o.key[1])
    BY <1>2, <2>1, <2>8, CommitMemTopics
  <2>10. Locked(p)
    <3>1. ASSUME NEW x \in p.upd, NEW y \in p.upd, Holds(x), Holds(y), x.o.key[1] = y.o.key[1]
          PROVE  x = y
      <4>1. CASE x = d /\ y = d
        BY <4>1
      <4>2. CASE x = d /\ y # d
        BY <2>3, <2>5, <2>7, <3>1, <4>2
      <4>3. CASE x # d /\ y = d
        BY <2>3, <2>5, <2>7, <3>1, <4>3
      <4>4. CASE x # d /\ y # d
        <5>1. PICK v \in r.upd \ {u} : x = Dies(u, v)
          BY <2>5, <4>4
        <5>2. PICK w \in r.upd \ {u} : y = Dies(u, w)
          BY <2>5, <4>4
        <5>3. v = w
          BY <1>2, <2>7, <3>1, <5>1, <5>2 DEF Locked
        <5> QED BY <5>1, <5>2, <5>3
      <4> QED BY <4>1, <4>2, <4>3, <4>4
    <3>2. ASSUME NEW x \in p.upd, Holds(x), x.o.op = "destroy"
          PROVE  x.o.key \notin p.mem
      <4>1. CASE x = d
        <5>1. u.o.key = TopicKey(u.o.key[1]) /\ u.o.key[1] \in Topics /\ u.o.op = "destroy"
          BY <1>4, <2>3, <3>2, <4>1, OpKeys
        <5> QED BY <2>3, <2>9, <4>1, <5>1
      <4>2. CASE x # d
        <5>1. PICK v \in r.upd \ {u} : x = Dies(u, v)
          BY <2>5, <4>2
        <5>2. /\ v.o.key = TopicKey(v.o.key[1]) /\ v.o.key[1] \in Topics
              /\ v.o.key \notin r.mem /\ x.o = v.o
          BY <1>2, <2>7, <3>2, <5>1, OpKeys DEF Locked
        <5> QED BY <2>9, <5>2
      <4> QED BY <4>1, <4>2
    <3> QED BY <3>1, <3>2 DEF Locked
  <2>11. \A v \in p.upd : Holds(v) => Marked(r, v.llu.gen)
    <3> SUFFICES ASSUME NEW x \in p.upd, Holds(x)
                 PROVE  Marked(r, x.llu.gen)
      OBVIOUS
    <3>1. CASE x = d
      BY <1>2, <2>2, <2>3, <3>1
    <3>2. CASE x # d
      <4>1. PICK v \in r.upd \ {u} : x = Dies(u, v)
        BY <2>5, <3>2
      <4> QED BY <1>2, <2>7, <4>1
    <3> QED BY <3>1, <3>2
  <2>12. ASSUME NEW m, NEW t \in Topics, Mirrored(r, node[m], m, t)
         PROVE  Mirrored(p, node[m], m, t)
    <3>1. \A v \in r.upd \ {u} : On(Dies(u, v), t) <=> On(v, t)
      BY <2>7 DEF On
    <3>2. ~On(u, t)
      BY <1>4 DEF On
    <3>3. ASSUME \A x \in p.upd : ~On(x, t)
          PROVE  TopicKey(t) \in node[m].mem <=> TopicKey(t) \in p.mem
      <4>1. \A v \in r.upd : ~On(v, t)
        BY <2>6, <3>1, <3>2, <3>3
      <4>2. ~(u.o.op = "destroy" /\ t = u.o.key[1])
        <5>1. ~On(d, t)
          BY <2>6, <3>3
        <5> QED BY <1>4, <2>3, <5>1, OpKeys DEF On, Holds
      <4> QED BY <2>9, <3>2, <4>1, <4>2, <2>12 DEF Mirrored
    <3>4. ASSUME NEW x \in p.upd, On(x, t), x.pc = "sending",
                 [node |-> m, inc |-> node[m].inc] \notin x.todo
          PROVE  TopicKey(t) \in node[m].mem <=> x.o.op = "create"
      <4>1. PICK v \in r.upd \ {u} : x = Dies(u, v)
        BY <2>3, <2>5, <3>4
      <4>2. On(v, t) /\ v.pc = "sending" /\ x.o = v.o
            /\ [node |-> m, inc |-> node[m].inc] \notin v.todo
        BY <2>7, <3>1, <3>4, <4>1
      <4> QED BY <2>12, <4>2 DEF Mirrored
    <3> QED BY <3>3, <3>4 DEF Mirrored
  <2>13. node' = [node EXCEPT ![n] = p]
    BY <1>6 DEF p
  <2>14. p.llu.gen = r.llu.gen /\ p.obs \subseteq r.obs /\ r.upd # {}
    BY <2>1, <2>2
  <2>15. \A m \in Nodes \ {n}, t \in Topics :
           Mirrored(r, node[m], m, t) => Mirrored(p, node[m], m, t)
    BY <2>12
  <2>16. /\ p.state = r.state /\ p.coord = r.coord /\ p.group = r.group /\ p.gen = r.gen
         /\ p.phase = r.phase /\ p.by = r.by
    BY <2>1
  <2> QED BY <1>3, <2>10, <2>11, <2>13, <2>14, <2>15, <2>16, MasterMirror
<1> QED BY <1>1, <1>5, <1>6

(* An update is answered. *)
LEMMA FinishMirror ==
    ASSUME Inv2, NEW n \in Nodes, Finish(n)
    PROVE  DateInv' /\ \A k, m \in Nodes : Mirror(k, m)'
<1> DEFINE r == node[n]
           ok == Cardinality(r.obs) >= Majority
           mem(u) == IF ok /\ u.o.op = "create" THEN r.mem \cup {u.o.key} ELSE r.mem
<1>1. PICK u \in node[n].upd :
        /\ u.pc = "sending" /\ u.todo = {}
        /\ node' = [node EXCEPT ![n].upd = @ \ {u},
                      ![n].mem = IF ok /\ u.o.op = "create" THEN @ \cup {u.o.key} ELSE @]
  BY DEF Finish
<1> DEFINE q == [r EXCEPT !.upd = @ \ {u}, !.mem = mem(u)]
<1>2. /\ node \in [Nodes -> NodeRecords] /\ r \in NodeRecords /\ Locked(r) /\ u \in AnyUpdate
      /\ r.upd \in SUBSET AnyUpdate
      /\ \A v \in r.upd : Holds(v) => Marked(r, v.llu.gen)
  BY MasterFacts
<1>3. groups' = groups /\ stamped' = stamped /\ inits' = inits
  BY DEF Finish
<1>4. Holds(u) /\ u.o \in Ops
  BY <1>1, <1>2 DEF Holds, AnyUpdate
<1>5. node' = [node EXCEPT ![n] = q]
  <2> HIDE DEF ok
  <2> QED BY <1>1, <1>2 DEF NodeRecords, ok
<1>6. /\ q.state = r.state /\ q.coord = r.coord /\ q.group = r.group /\ q.gen = r.gen
      /\ q.phase = r.phase /\ q.by = r.by /\ q.llu = r.llu /\ q.obs = r.obs
      /\ q.mem = mem(u) /\ q.upd = r.upd \ {u}
  <2> HIDE DEF mem
  <2> QED BY <1>2 DEF NodeRecords
<1>7. \A t \in Topics : TopicKey(t) \in q.mem <=>
        TopicKey(t) \in r.mem \/ (ok /\ u.o.op = "create" /\ t = u.o.key[1])
  <2>1. \A t, s : TopicKey(t) = TopicKey(s) => t = s
    BY DEF TopicKey
  <2> HIDE DEF ok
  <2>2. u.o.op = "create" => u.o.key = TopicKey(u.o.key[1])
    BY <1>4, OpKeys
  <2> QED BY <1>6, <2>1, <2>2
<1> HIDE DEF q, mem, ok
<1>8. Locked(q)
  <2>1. ASSUME NEW v \in q.upd, Holds(v), v.o.op = "destroy"
        PROVE  v.o.key \notin q.mem
    <3>1. v \in r.upd /\ v # u /\ v.o.key \notin r.mem /\ v.o.key[1] # u.o.key[1]
      BY <1>2, <1>4, <1>6, <2>1 DEF Locked
    <3>2. v.o.key = TopicKey(v.o.key[1]) /\ v.o.key[1] \in Topics
      BY <1>2, <2>1, <3>1, OpKeys DEF AnyUpdate
    <3> QED BY <1>7, <3>1, <3>2
  <2> QED BY <1>2, <1>6, <2>1 DEF Locked
<1>9. \A v \in q.upd : Holds(v) => Marked(r, v.llu.gen)
  BY <1>2, <1>6
<1>10. ASSUME NEW m, NEW t \in Topics, Mirrored(r, node[m], m, t), ok
       PROVE  Mirrored(q, node[m], m, t)
  <2>1. ASSUME \A v \in q.upd : ~On(v, t)
        PROVE  TopicKey(t) \in node[m].mem <=> TopicKey(t) \in q.mem
    <3>1. CASE On(u, t)
      <4>1. TopicKey(t) \in node[m].mem <=> u.o.op = "create"
        BY <1>1, <1>10, <3>1 DEF Mirrored
      <4>2. u.o.op \in {"create", "destroy"} /\ u.o.key = TopicKey(t)
        BY <3>1 DEF On
      <4>3. t = u.o.key[1]
        BY <4>2 DEF TopicKey
      <4>4. u.o.op = "destroy" => TopicKey(t) \notin r.mem
        BY <1>2, <1>4, <4>2 DEF Locked
      <4> QED BY <1>7, <1>10, <4>1, <4>2, <4>3, <4>4
    <3>2. CASE ~On(u, t)
      <4>1. \A v \in r.upd : ~On(v, t)
        BY <1>6, <2>1, <3>2
      <4>2. ~(u.o.op = "create" /\ t = u.o.key[1])
        BY <1>4, <3>2, OpKeys DEF On
      <4> QED BY <1>7, <1>10, <4>1, <4>2 DEF Mirrored
    <3> QED BY <3>1, <3>2
  <2>2. \A v \in q.upd : v \in r.upd
    BY <1>6
  <2> QED BY <1>10, <2>1, <2>2 DEF Mirrored
<1>11. \A m \in Nodes \ {n}, t \in Topics :
         /\ Mirrored(node[n], node[m], m, t) /\ Cardinality(q.obs) >= Majority
         => Mirrored(q, node[m], m, t)
  BY <1>6, <1>10 DEF ok
<1> QED BY <1>3, <1>5, <1>6, <1>8, <1>9, <1>11, MasterMirror

-----------------------------------------------------------------------------
(* The loss of nodes.                                                      *)

(* One node stops serving. *)
LEMMA GoneMirror ==
    ASSUME Inv2, groups' = groups, stamped' = stamped, inits' \subseteq inits,
           NEW n \in Nodes, NEW q, node' = [node EXCEPT ![n] = q],
           Quiet(n, q), q.state # "Normal"
    PROVE  DateInv' /\ \A k, m \in Nodes : Mirror(k, m)'
<1>1. DateInv'
  BY QuietOne DEF Inv2
<1>2. node'[n] = q
  BY MasterFacts
<1>3. \A m \in Nodes \ {n} : Mirror(n, m)'
  <2>1. node'[n].state # "Normal"
    BY <1>2
  <2> QED BY <2>1, MirrorIdle
<1> QED BY <1>1, <1>3, MirrorOne

(* A master without a majority of observers, and a node that leaves. *)
LEMMA LeavesMirror ==
    ASSUME Inv2, NEW n \in Nodes, MajorityLost(n) \/ Leaves(n)
    PROVE  DateInv' /\ \A k, m \in Nodes : Mirror(k, m)'
<1>1. groups' = groups /\ stamped' = stamped /\ inits' = inits
  BY DEF MajorityLost, Leaves
<1>2. CASE node' = [node EXCEPT ![n] = Recovery(n, @)]
  <2>1. node' = [node EXCEPT ![n] = Recovery(n, node[n])]
    BY <1>2
  <2>2. Quiet(n, Recovery(n, node[n])) /\ Recovery(n, node[n]).state = "Inactive"
    BY NodeFacts, StillQuiet, RecoveryQuiet DEF Inv2
  <2> QED BY <1>1, <2>1, <2>2, GoneMirror
<1>3. ASSUME IsMaster(n), NEW w, node' = [node EXCEPT ![n].obs = @ \ {w}]
      PROVE  DateInv' /\ \A k, m \in Nodes : Mirror(k, m)'
  <2> DEFINE r == node[n]
             q == [r EXCEPT !.obs = @ \ {w}]
  <2>1. /\ r \in NodeRecords /\ Locked(r)
        /\ \A v \in r.upd : Holds(v) => Marked(r, v.llu.gen)
    BY MasterFacts
  <2>2. node' = [node EXCEPT ![n] = q]
    BY <1>3, MasterFacts
  <2>3. /\ q.state = r.state /\ q.coord = r.coord /\ q.group = r.group /\ q.gen = r.gen
        /\ q.phase = r.phase /\ q.by = r.by /\ q.llu = r.llu /\ q.obs \subseteq r.obs
        /\ q.mem = r.mem /\ q.upd = r.upd
    BY <2>1 DEF NodeRecords
  <2> HIDE DEF q
  <2>4. Locked(q) /\ \A v \in q.upd : Holds(v) => Marked(r, v.llu.gen)
    BY <2>1, <2>3 DEF Locked
  <2>5. \A m, t : Mirrored(r, node[m], m, t) => Mirrored(q, node[m], m, t)
    BY <2>3 DEF Mirrored
  <2> QED BY <1>1, <1>3, <2>2, <2>3, <2>4, <2>5, MasterMirror
<1>4. CASE MajorityLost(n)
  BY <1>2, <1>3, <1>4 DEF MajorityLost
<1> QED BY <1>2, <1>4 DEF Leaves

(* A node is started again. *)
LEMMA RestartMirror ==
    ASSUME Inv2, NEW n \in Nodes, Restart(n)
    PROVE  DateInv' /\ \A k, m \in Nodes : Mirror(k, m)'
<1> DEFINE idle == [node[n] EXCEPT !.upd = {}]
           r == Recovery(n, idle)
           mem(F) == (node[n].db \ F) \cup {TopicKey(k[1]) : k \in F}
           q(F) == [r EXCEPT !.inc = node[n].inc + 1, !.llu = LLU(0, 0), !.mem = mem(F), !.obs = {}]
<1>1. PICK F \in FirstRecords(node[n].db) : node' = [node EXCEPT ![n] = q(F)]
  BY DEF Restart
<1>2. groups' = groups /\ stamped' = stamped /\ inits' = inits
  BY DEF Restart
<1>3. node[n] \in NodeRecords /\ Stamped(node[n].by)
  BY MasterFacts DEF Dated
<1>4. /\ r \in NodeRecords /\ r.coord = n /\ r.state = "Inactive" /\ r.phase = "idle"
      /\ r.group = 0 /\ r.upd = {} /\ r.by = node[n].by
  <2>1. idle \in NodeRecords /\ idle.upd = {} /\ idle.by = node[n].by
    BY <1>3 DEF NodeRecords
  <2> HIDE DEF idle
  <2> QED BY <2>1 DEF Recovery, NodeRecords
<1> HIDE DEF r, mem
<1>5. /\ q(F).coord = n /\ q(F).state = "Inactive" /\ q(F).phase = "idle" /\ q(F).group = 0
      /\ q(F).upd = {} /\ q(F).by = node[n].by /\ q(F).obs = {}
  BY <1>4 DEF NodeRecords
<1> HIDE DEF q
<1>6. Quiet(n, q(F))
  <2>1. Dated(n, q(F))
    BY <1>3, <1>5, FS_EmptySet DEF Dated, Locked
  <2> QED BY <1>5, <2>1 DEF Quiet
<1> QED BY <1>1, <1>2, <1>5, <1>6, GoneMirror

-----------------------------------------------------------------------------
(* The update at an observer.                                              *)

(* A slave that follows a master has the generation of its updates, and of *)
(* no others.                                                              *)
LEMMA SameGeneration ==
    ASSUME Inv2, NEW n \in Nodes, NEW k \in Nodes, Follows(n, k),
           NEW j \in Nodes, NEW u \in node[j].upd, Holds(u)
    PROVE  node[k].gen = u.llu.gen <=> j = n
<1>1. /\ [group |-> node[j].group, gen |-> u.llu.gen] \in stamped
      /\ [group |-> node[n].group, gen |-> node[n].gen] \in stamped
      /\ [group |-> node[n].group, gen |-> node[k].gen] \in stamped
  BY MasterFacts DEF Dated, Marked, Follows, IsMaster
<1>2. node[k].gen = node[n].gen
  BY <1>1 DEF Inv2, DateInv, StampInv
<1>3. j = n => u.llu.gen = node[n].gen
  BY <1>1 DEF Inv2, DateInv, StampInv
<1>4. ASSUME node[k].gen = u.llu.gen
      PROVE  j = n
  <2>1. node[j].group = node[n].group
    <3>1. /\ [group |-> node[j].group, gen |-> u.llu.gen].gen = node[n].gen
          /\ [group |-> node[n].group, gen |-> node[n].gen].gen = node[n].gen
      BY <1>2, <1>4
    <3>2. [group |-> node[j].group, gen |-> u.llu.gen] = [group |-> node[n].group, gen |-> node[n].gen]
      BY <1>1, <3>1 DEF Follows, OnlyGroup
    <3> QED BY <3>2
  <2>2. node[n].group # 0
    BY <1>1 DEF Inv2, DateInv, StampInv
  <2>3. node[j].coord = node[n].coord
    BY <2>1, <2>2 DEF Inv2, DateInv, LeadInv
  <2> QED BY <2>3, BusyMaster DEF Follows, IsMaster, Inv2
<1> QED BY <1>2, <1>3, <1>4

(* What an observer makes of an update it accepts. *)
LEMMA ObserveTopics ==
    ASSUME NEW r \in NodeRecords, NEW u \in AnyUpdate, NEW t \in Topics
    PROVE  /\ TopicKey(t) \in Observe(r, u).mem <=>
                \/ u.o.op = "create" /\ t = u.o.key[1]
                \/ TopicKey(t) \in r.mem /\ ~(u.o.op = "destroy" /\ t = u.o.key[1])
           /\ Observe(r, u).state = r.state /\ Observe(r, u).coord = r.coord
           /\ Observe(r, u).group = r.group /\ Observe(r, u).gen = r.gen
           /\ Observe(r, u).phase = r.phase /\ Observe(r, u).by = r.by
           /\ Observe(r, u).inc = r.inc /\ Observe(r, u).obs = r.obs
           /\ Observe(r, u).upd = r.upd
<1> DEFINE p == [r EXCEPT !.db = CommitDb(@, u.o), !.mem = CommitDb(@, u.o), !.llu = u.llu]
<1>1. /\ p.mem = CommitDb(r.mem, u.o)
      /\ p.state = r.state /\ p.coord = r.coord /\ p.group = r.group /\ p.gen = r.gen
      /\ p.phase = r.phase /\ p.by = r.by /\ p.inc = r.inc /\ p.obs = r.obs /\ p.upd = r.upd
  BY DEF NodeRecords
<1>2. u.o \in Ops /\ r.mem \in SUBSET Keys
  BY DEF AnyUpdate, NodeRecords
<1>3. Observe(r, u) = p \/ (Observe(r, u) = r /\ u.o.op = "subscribe")
  BY DEF Observe
<1> HIDE DEF p
<1>4. CASE Observe(r, u) = p
  BY <1>1, <1>2, <1>4, CommitTopics
<1>5. CASE Observe(r, u) = r /\ u.o.op = "subscribe"
  BY <1>5
<1> QED BY <1>3, <1>4, <1>5

(* An observer is quiet, and changes its topics only to follow.            *)
LEMMA AtObserverQuiet ==
    ASSUME Inv2, NEW k \in Nodes, NEW u \in AnyUpdate
    PROVE  LET q == AtObserver(k, u)
           IN  /\ Quiet(k, q)
               /\ \/ q = node[k] /\ (node[k].state = "Normal" /\ node[k].coord # k
                                       => node[k].gen # u.llu.gen)
                  \/ q = Recovery(k, node[k]) /\ q.state = "Inactive"
                  \/ /\ q = Observe(node[k], u) /\ node[k].state = "Normal"
                     /\ node[k].coord # k /\ node[k].gen = u.llu.gen
<1> DEFINE r == node[k]
           o == Observe(r, u)
<1>1. /\ r \in NodeRecords /\ Well(k, r) /\ Quiet(k, r) /\ Dated(k, r)
  BY NodeFacts, StillQuiet DEF Inv2
<1>2. CASE ~Inconsistent(k, r, u)
  <2>1. AtObserver(k, u) = o
    BY <1>2 DEF AtObserver
  <2>2. r.state = "Normal" /\ r.coord # k /\ r.gen = u.llu.gen
    BY <1>2 DEF Inconsistent, startObserverUpdate
  <2>3. r.upd = {} /\ r.phase = "idle"
    BY <1>1, <2>2 DEF Well
  <2>4. /\ o.state = r.state /\ o.coord = r.coord /\ o.group = r.group /\ o.gen = r.gen
        /\ o.phase = r.phase /\ o.by = r.by /\ o.obs = r.obs /\ o.upd = r.upd
    <3>1. CASE u.o.op = "subscribe" /\ u.o.key \in r.mem
      BY <3>1 DEF Observe
    <3>2. CASE ~(u.o.op = "subscribe" /\ u.o.key \in r.mem)
      BY <1>1, <3>2 DEF Observe, NodeRecords
    <3> QED BY <3>1, <3>2
  <2> HIDE DEF o
  <2>5. Dated(k, o)
    BY <1>1, <2>2, <2>3, <2>4 DEF Dated, Marked, Locked
  <2>6. Quiet(k, o)
    BY <1>1, <2>2, <2>3, <2>4, <2>5 DEF Quiet
  <2> QED BY <2>1, <2>2, <2>6 DEF o
<1>3. CASE Inconsistent(k, r, u) /\ r.gen = u.llu.gen
  <2>1. AtObserver(k, u) = Recovery(k, r)
    BY <1>3 DEF AtObserver
  <2> QED BY <1>1, <2>1, RecoveryQuiet DEF Inv2
<1>4. CASE Inconsistent(k, r, u) /\ r.gen # u.llu.gen
  <2>1. AtObserver(k, u) = r
    BY <1>4 DEF AtObserver
  <2> QED BY <1>1, <1>4, <2>1
<1> QED BY <1>2, <1>3, <1>4

(* What the answer of an observer leaves alone. *)
LEMMA EndedFacts ==
    ASSUME NEW r \in NodeRecords, NEW u \in AnyUpdate, u \in r.upd, u.pc = "sending",
           NEW w, NEW e, Locked(r)
    PROVE  LET q == EndedState(r, u, w, e)
           IN  /\ q.state = r.state /\ q.coord = r.coord /\ q.group = r.group /\ q.gen = r.gen
               /\ q.phase = r.phase /\ q.by = r.by /\ q.llu = r.llu /\ q.mem = r.mem
               /\ q.obs = r.obs \ e
               /\ \E a : /\ q.upd = (r.upd \ {u}) \cup {a}
                         /\ a.o = u.o /\ a.pc = "sending" /\ a.llu = u.llu /\ a.todo = u.todo \ {w}
               /\ Locked(q) /\ q.upd # {}
               /\ \A v \in q.upd : \E y \in r.upd : v.llu = y.llu /\ (Holds(v) <=> Holds(y))
<1> DEFINE a == [u EXCEPT !.todo = @ \ {w}]
           q == EndedState(r, u, w, e)
<1>1. a.o = u.o /\ a.pc = "sending" /\ a.llu = u.llu /\ a.todo = u.todo \ {w}
  BY DEF AnyUpdate
<1>2. q = [r EXCEPT !.upd = (@ \ {u}) \cup {a}, !.obs = @ \ e]
  BY DEF EndedState
<1> HIDE DEF a, q
<1>3. /\ q.state = r.state /\ q.coord = r.coord /\ q.group = r.group /\ q.gen = r.gen
      /\ q.phase = r.phase /\ q.by = r.by /\ q.llu = r.llu /\ q.mem = r.mem
      /\ q.obs = r.obs \ e /\ q.upd = (r.upd \ {u}) \cup {a}
  BY <1>2 DEF NodeRecords
<1>4. Holds(u) /\ Holds(a)
  BY <1>1 DEF Holds
<1>5. Locked(q)
  BY <1>1, <1>3, <1>4, ReplacedLocked
<1>6. \A v \in q.upd : \E y \in r.upd : v.llu = y.llu /\ (Holds(v) <=> Holds(y))
  BY <1>1, <1>3, <1>4
<1>7. q.upd # {}
  BY <1>3
<1> QED BY <1>1, <1>3, <1>5, <1>6, <1>7 DEF q

(* An answer that changes nothing at the observer. *)
LEMMA AnsweredMirror ==
    ASSUME Inv2, groups' = groups, stamped' = stamped, inits' \subseteq inits,
           NEW n \in Nodes, NEW u \in node[n].upd, u.pc = "sending", NEW w, NEW e,
           node' = [node EXCEPT ![n] = EndedState(node[n], u, w, e)],
           w.node = n \/ w \in e
    PROVE  DateInv' /\ \A k, m \in Nodes : Mirror(k, m)'
<1> DEFINE r == node[n]
           q == EndedState(r, u, w, e)
<1>1. /\ r \in NodeRecords /\ u \in AnyUpdate /\ Locked(r)
      /\ \A v \in r.upd : Holds(v) => Marked(r, v.llu.gen)
  BY MasterFacts
<1>2. /\ q.state = r.state /\ q.coord = r.coord /\ q.group = r.group /\ q.gen = r.gen
      /\ q.phase = r.phase /\ q.by = r.by /\ q.llu = r.llu /\ q.mem = r.mem
      /\ q.obs = r.obs \ e /\ Locked(q)
      /\ \A v \in q.upd : \E y \in r.upd : v.llu = y.llu /\ (Holds(v) <=> Holds(y))
  BY <1>1, EndedFacts
<1>3. PICK a : /\ q.upd = (r.upd \ {u}) \cup {a}
               /\ a.o = u.o /\ a.pc = "sending" /\ a.llu = u.llu /\ a.todo = u.todo \ {w}
  BY <1>1, EndedFacts
<1> HIDE DEF q
<1>4. ASSUME NEW m \in Nodes \ {n}, NEW t, Mirrored(r, node[m], m, t),
             [node |-> m, inc |-> node[m].inc] \in q.obs
      PROVE  Mirrored(q, node[m], m, t)
  <2> DEFINE x == [node |-> m, inc |-> node[m].inc]
  <2>1. x.node = m /\ x # w
    <3>1. x.node = m
      OBVIOUS
    <3> QED BY <1>2, <1>4, <3>1
  <2> HIDE DEF x
  <2>2. On(a, t) <=> On(u, t)
    BY <1>3 DEF On, Holds
  <2>3. ASSUME \A v \in q.upd : ~On(v, t)
        PROVE  \A v \in r.upd : ~On(v, t)
    BY <1>3, <2>2, <2>3
  <2>4. ASSUME NEW v \in q.upd, On(v, t), v.pc = "sending", x \notin v.todo
        PROVE  TopicKey(t) \in node[m].mem <=> v.o.op = "create"
    <3>1. CASE v = a
      <4>1. x \notin u.todo
        BY <1>3, <2>1, <2>4, <3>1
      <4> QED BY <1>3, <1>4, <2>2, <2>4, <3>1, <4>1 DEF Mirrored, x
    <3>2. CASE v # a
      BY <1>3, <1>4, <2>4, <3>2 DEF Mirrored, x
    <3> QED BY <3>1, <3>2
  <2> QED BY <1>2, <1>4, <2>3, <2>4 DEF Mirrored, x
<1>5. node' = [node EXCEPT ![n] = q] /\ q.obs \subseteq r.obs /\ r.upd # {}
  BY <1>2 DEF q
<1>6. \A v \in q.upd : Holds(v) => Marked(r, v.llu.gen)
  BY <1>1, <1>2
<1> QED BY <1>2, <1>4, <1>5, <1>6, MasterMirror

(* A slave that follows a master executes an update of it.                 *)
LEMMA FollowerMirror ==
    ASSUME Inv2, NEW n \in Nodes, NEW k \in Nodes, n # k, Follows(n, k),
           NEW u \in node[n].upd, u.pc = "sending", NEW w, NEW e,
           NEW t \in Topics, Mirrored(node[n], node[k], k, t)
    PROVE  Mirrored(EndedState(node[n], u, w, e), Observe(node[k], u), k, t)
<1> DEFINE r == node[n]
           q == EndedState(r, u, w, e)
           x == Observe(node[k], u)
<1>1. r \in NodeRecords /\ u \in AnyUpdate /\ Locked(r) /\ node[k] \in NodeRecords
      /\ u.o \in Ops
  BY MasterFacts DEF AnyUpdate
<1>2. q.mem = r.mem
  BY <1>1, EndedFacts
<1>3. PICK a : /\ q.upd = (r.upd \ {u}) \cup {a}
               /\ a.o = u.o /\ a.pc = "sending" /\ a.llu = u.llu /\ a.todo = u.todo \ {w}
  BY <1>1, EndedFacts
<1>4. /\ x.inc = node[k].inc
      /\ TopicKey(t) \in x.mem <=>
             \/ u.o.op = "create" /\ t = u.o.key[1]
             \/ TopicKey(t) \in node[k].mem /\ ~(u.o.op = "destroy" /\ t = u.o.key[1])
  BY <1>1, ObserveTopics
<1> HIDE DEF q, x
<1>5. (On(a, t) <=> On(u, t)) /\ Holds(u)
  BY <1>1, <1>3 DEF On, Holds
<1>6. On(u, t) <=> u.o.op \in {"create", "destroy"} /\ t = u.o.key[1]
  <2>1. \A s : TopicKey(s) = TopicKey(t) => s = t
    BY DEF TopicKey
  <2> QED BY <1>1, <1>5, <2>1, OpKeys DEF On
<1>7. ASSUME \A v \in q.upd : ~On(v, t)
      PROVE  TopicKey(t) \in x.mem <=> TopicKey(t) \in q.mem
  <2>1. ~On(u, t) /\ \A v \in r.upd : ~On(v, t)
    BY <1>3, <1>5, <1>7
  <2>2. TopicKey(t) \in node[k].mem <=> TopicKey(t) \in r.mem
    BY <2>1 DEF Mirrored
  <2> QED BY <1>2, <1>4, <1>6, <2>1, <2>2
<1>8. ASSUME NEW v \in q.upd, On(v, t), v.pc = "sending",
             [node |-> k, inc |-> x.inc] \notin v.todo
      PROVE  TopicKey(t) \in x.mem <=> v.o.op = "create"
  <2>1. CASE v = a
    BY <1>3, <1>4, <1>5, <1>6, <1>8, <2>1
  <2>2. CASE v # a
    <3>1. v \in r.upd /\ v # u
      BY <1>3, <2>2
    <3>2. ~On(u, t)
      BY <1>1, <1>8, <3>1 DEF On, Locked
    <3>3. TopicKey(t) \in node[k].mem <=> v.o.op = "create"
      BY <1>4, <1>8, <3>1 DEF Mirrored
    <3> QED BY <1>4, <1>6, <3>2, <3>3
  <2> QED BY <2>1, <2>2
<1>9. Mirrored(q, x, k, t)
  BY <1>7, <1>8 DEF Mirrored
<1> QED BY <1>9 DEF q, x

(* The call of an observer: the update reaches it, or only the reply is    *)
(* lost.                                                                   *)
LEMMA ObservedMirror ==
    ASSUME Inv2, groups' = groups, stamped' = stamped, inits' \subseteq inits,
           NEW n \in Nodes, NEW u \in node[n].upd, u.pc = "sending",
           NEW k \in Nodes, k # n, NEW w, w.node = k, NEW e,
           node' = [[node EXCEPT ![k] = AtObserver(k, u)] EXCEPT ![n] = EndedState(node[n], u, w, e)]
    PROVE  DateInv' /\ \A a, b \in Nodes : Mirror(a, b)'
<1> DEFINE r == node[n]
           q == EndedState(r, u, w, e)
           x == AtObserver(k, u)
<1>1. /\ r \in NodeRecords /\ u \in AnyUpdate /\ Locked(r)
      /\ node[k] \in NodeRecords /\ Well(k, node[k])
      /\ \A v \in r.upd : Holds(v) => Marked(r, v.llu.gen)
  BY MasterFacts DEF Inv2, Inv
<1>2. /\ q.state = r.state /\ q.coord = r.coord /\ q.group = r.group /\ q.gen = r.gen
      /\ q.phase = r.phase /\ q.by = r.by /\ q.llu = r.llu /\ q.mem = r.mem
      /\ q.obs = r.obs \ e /\ Locked(q)
      /\ \A v \in q.upd : \E y \in r.upd : v.llu = y.llu /\ (Holds(v) <=> Holds(y))
  BY <1>1, EndedFacts
<1>3. /\ Quiet(k, x)
      /\ \/ x = node[k] /\ (node[k].state = "Normal" /\ node[k].coord # k
                              => node[k].gen # u.llu.gen)
         \/ x.state = "Inactive"
         \/ x = Observe(node[k], u) /\ node[k].state = "Normal" /\ node[k].coord # k
            /\ node[k].gen = u.llu.gen
  BY <1>1, AtObserverQuiet
<1>4. /\ r.coord = n /\ r.state # "Reorganization" /\ r.phase = "idle" /\ r.upd # {}
  BY BusyMaster DEF Inv2
<1>5. Holds(u) /\ w.node = k
  BY DEF Holds
<1>6. /\ node'[n] = q /\ node'[k] = x
      /\ \A p \in Nodes : p # n /\ p # k => node'[p] = node[p]
  BY MasterFacts
<1> HIDE DEF q, x
<1>7. DateInv'
  <2>1. Quiet(n, r) /\ IsFiniteSet(q.obs)
    <3>1. Quiet(n, r) /\ IsFiniteSet(r.obs)
      BY StillQuiet DEF Inv2, Dated
    <3> QED BY <1>2, <3>1, FS_Subset
  <2>2. \A v \in q.upd : Holds(v) => Marked(r, v.llu.gen)
    BY <1>1, <1>2
  <2>3. Quiet(n, q)
    BY <1>2, <1>4, <2>1, <2>2, MasterQuiet
  <2>4. \A p \in Nodes : Quiet(p, node'[p])
    BY <1>3, <1>6, <2>3, StillQuiet DEF Inv2
  <2> QED BY <2>4, QuietStep DEF Inv2
<1>8. x.state = "Normal" => /\ x.state = node[k].state /\ x.coord = node[k].coord
                            /\ x.group = node[k].group /\ x.by = node[k].by
                            /\ x.inc = node[k].inc /\ x.gen = node[k].gen
  <2>1. CASE x = Observe(node[k], u)
    <3> DEFINE o == Observe(node[k], u)
    <3>1. /\ o.state = node[k].state /\ o.coord = node[k].coord /\ o.group = node[k].group
          /\ o.by = node[k].by /\ o.inc = node[k].inc /\ o.gen = node[k].gen
      BY <1>1 DEF Observe, NodeRecords
    <3> HIDE DEF o
    <3> QED BY <2>1, <3>1 DEF o
  <2>2. CASE x # Observe(node[k], u)
    BY <1>3, <2>2
  <2> QED BY <2>1, <2>2
<1>9. ASSUME NEW a \in Nodes, a # n, a # k, Follows(a, k)'
      PROVE  Mirror(a, k)'
  <2>1. x.state = "Normal"
    BY <1>6, <1>9 DEF Follows
  <2>2. Follows(a, k)
    BY <1>6, <1>8, <1>9, <2>1, MasterFollows
  <2>3. node[k].gen # u.llu.gen
    BY <1>5, <1>9, <2>2, SameGeneration
  <2>4. x = node[k]
    BY <1>3, <2>1, <2>3
  <2> QED BY <1>6, <1>9, <2>4, MirrorStill DEF Inv2
<1>10. ASSUME Follows(n, k)', NEW t \in Topics
       PROVE  Mirrored(node'[n], node'[k], k, t)
  <2>1. x.state = "Normal"
    BY <1>6, <1>10 DEF Follows
  <2>2. node'[n].obs \subseteq node[n].obs
    BY <1>2, <1>6
  <2>3. Follows(n, k)
    BY <1>2, <1>6, <1>8, <1>10, <2>1, <2>2, MasterFollows
  <2>4. node[k].gen = u.llu.gen /\ node[k].state = "Normal" /\ node[k].coord # k
    BY <1>5, <2>3, SameGeneration DEF Follows
  <2>5. x = Observe(node[k], u)
    BY <1>3, <2>1, <2>4
  <2>6. Mirrored(node[n], node[k], k, t)
    BY <2>3 DEF Inv2, Mirror
  <2>7. Mirrored(q, x, k, t)
    BY <2>3, <2>5, <2>6, FollowerMirror DEF q
  <2> QED BY <1>6, <2>7
<1>11. ASSUME NEW m \in Nodes, m # n, m # k, Follows(n, m)', NEW t \in Topics
       PROVE  Mirrored(node'[n], node'[m], m, t)
  <2>1. node'[n].obs \subseteq node[n].obs
    BY <1>2, <1>6
  <2>2. Follows(n, m)
    BY <1>2, <1>6, <1>11, <2>1, MasterFollows
  <2>3. Mirrored(r, node[m], m, t)
    BY <2>2 DEF Inv2, Mirror
  <2>4. PICK a : /\ q.upd = (r.upd \ {u}) \cup {a}
                 /\ a.o = u.o /\ a.pc = "sending" /\ a.llu = u.llu /\ a.todo = u.todo \ {w}
    BY <1>1, EndedFacts DEF q
  <2> DEFINE z == [node |-> m, inc |-> node[m].inc]
  <2>5. z # w
    <3>1. z.node = m
      OBVIOUS
    <3> QED BY <1>5, <1>11, <3>1
  <2> HIDE DEF z
  <2>6. On(a, t) <=> On(u, t)
    BY <2>4 DEF On, Holds
  <2>7. ASSUME \A v \in q.upd : ~On(v, t)
        PROVE  \A v \in r.upd : ~On(v, t)
    BY <2>4, <2>6, <2>7
  <2>8. ASSUME NEW v \in q.upd, On(v, t), v.pc = "sending", z \notin v.todo
        PROVE  TopicKey(t) \in node[m].mem <=> v.o.op = "create"
    <3>1. CASE v = a
      <4>1. z \notin u.todo
        BY <2>4, <2>5, <2>8, <3>1
      <4> QED BY <2>3, <2>4, <2>6, <2>8, <3>1, <4>1 DEF Mirrored, z
    <3>2. CASE v # a
      BY <2>3, <2>4, <2>8, <3>2 DEF Mirrored, z
    <3> QED BY <3>1, <3>2
  <2>9. Mirrored(q, node[m], m, t)
    BY <1>2, <2>3, <2>7, <2>8 DEF Mirrored, z
  <2> QED BY <1>6, <1>11, <2>9
<1>12. ASSUME NEW a \in Nodes, NEW b \in Nodes
       PROVE  Mirror(a, b)'
  <2>1. CASE a = b
    BY <2>1, MirrorIdle
  <2>2. CASE a = k /\ b = n
    <3>1. node'[b].coord # a
      BY <1>2, <1>4, <1>6, <2>2
    <3> QED BY <3>1, MirrorIdle
  <2>3. CASE a = k /\ b # n /\ b # k
    <3>1. CASE x = node[k]
      BY <1>6, <2>3, <3>1, MirrorStill DEF Inv2
    <3>2. CASE x # node[k]
      <4>1. x.state # "Normal" \/ x.coord # k
        BY <1>3, <1>8, <3>2
      <4>2. node'[a].state # "Normal" \/ node'[a].coord # a
        BY <1>6, <2>3, <4>1
      <4> QED BY <4>2, MirrorIdle
    <3> QED BY <3>1, <3>2
  <2>4. CASE a = n /\ b = k
    BY <1>10, <2>4 DEF Mirror
  <2>5. CASE a = n /\ b # k /\ b # n
    BY <1>11, <2>5 DEF Mirror
  <2>6. CASE a # n /\ a # k /\ b = n
    <3>1. node'[b].coord # a
      BY <1>2, <1>4, <1>6, <2>6
    <3> QED BY <3>1, MirrorIdle
  <2>7. CASE a # n /\ a # k /\ b = k
    <3>1. CASE Follows(a, k)'
      BY <1>9, <2>7, <3>1
    <3>2. CASE ~Follows(a, k)'
      BY <2>7, <3>2 DEF Mirror
    <3> QED BY <3>1, <3>2
  <2>8. CASE a # n /\ a # k /\ b # n /\ b # k
    BY <1>6, <2>8, MirrorStill DEF Inv2
  <2> QED BY <2>1, <2>2, <2>3, <2>4, <2>5, <2>6, <2>7, <2>8
<1> QED BY <1>7, <1>12

(* A reply, or the lack of one. *)
LEMMA ReplyMirror ==
    ASSUME Inv2, NEW n \in Nodes, Reply(n)
    PROVE  DateInv' /\ \A k, m \in Nodes : Mirror(k, m)'
<1>0. PICK u \in node[n].upd : u.pc = "sending" /\ \E w \in u.todo :
        \/ node' = [node EXCEPT ![n] = EndedState(@, u, w, {w})]
        \/ w.inc = node[w.node].inc /\ \E r \in {node[w.node], AtObserver(w.node, u)} :
             node' = [[node EXCEPT ![w.node] = r] EXCEPT ![n] = EndedState(@, u, w, {w})]
        \/ w.inc = node[w.node].inc /\
             node' = [[node EXCEPT ![w.node] = AtObserver(w.node, u)] EXCEPT
                        ![n] = EndedState(@, u, w, {})]
  BY ZenonT(40) DEF Reply, EndedState
<1>1. PICK w \in u.todo :
        \/ node' = [node EXCEPT ![n] = EndedState(@, u, w, {w})]
        \/ w.inc = node[w.node].inc /\ \E r \in {node[w.node], AtObserver(w.node, u)} :
             node' = [[node EXCEPT ![w.node] = r] EXCEPT ![n] = EndedState(@, u, w, {w})]
        \/ w.inc = node[w.node].inc /\
             node' = [[node EXCEPT ![w.node] = AtObserver(w.node, u)] EXCEPT
                        ![n] = EndedState(@, u, w, {})]
  BY <1>0
<1>2. groups' = groups /\ stamped' = stamped /\ inits' \subseteq inits
  BY DEF Reply
<1> DEFINE k == w.node
<1>3. u \in AnyUpdate /\ w \in AnyObserver /\ k \in Nodes
  <2>1. u \in AnyUpdate
    BY MasterFacts
  <2> QED BY <2>1 DEF AnyUpdate, AnyObserver
<1>4. node \in [Nodes -> NodeRecords]
  BY MasterFacts
<1>5. CASE node' = [node EXCEPT ![n] = EndedState(@, u, w, {w})]
  <2>1. node' = [node EXCEPT ![n] = EndedState(node[n], u, w, {w})]
    BY <1>5
  <2> QED BY <1>0, <1>2, <2>1, AnsweredMirror
<1>6. ASSUME node' = [[node EXCEPT ![k] = node[k]] EXCEPT ![n] = EndedState(@, u, w, {w})]
      PROVE  DateInv' /\ \A a, b \in Nodes : Mirror(a, b)'
  <2>1. [node EXCEPT ![k] = node[k]] = node
    BY <1>3, <1>4
  <2>2. node' = [node EXCEPT ![n] = EndedState(@, u, w, {w})]
    BY <1>6, <2>1
  <2> QED BY <1>5, <2>2
<1>7. ASSUME NEW e,
             node' = [[node EXCEPT ![k] = AtObserver(k, u)] EXCEPT ![n] = EndedState(@, u, w, e)]
      PROVE  DateInv' /\ \A a, b \in Nodes : Mirror(a, b)'
  <2>1. CASE k # n
    <3>1. node' = [[node EXCEPT ![k] = AtObserver(k, u)] EXCEPT
                     ![n] = EndedState(node[n], u, w, e)]
      BY <1>4, <1>7, <2>1
    <3> QED BY <1>0, <1>2, <1>3, <2>1, <3>1, ObservedMirror
  <2>2. CASE k = n
    <3> DEFINE x == AtObserver(n, u)
    <3>1. node' = [node EXCEPT ![n] = EndedState(x, u, w, e)]
      BY <1>4, <1>7, <2>2
    <3>2. node[n].coord = n /\ node[n].phase = "idle" /\ node[n].state # "Reorganization"
          /\ node[n] \in NodeRecords /\ Locked(node[n]) /\ IsFiniteSet(node[n].obs)
          /\ \A v \in node[n].upd : Holds(v) => Marked(node[n], v.llu.gen)
      BY BusyMaster, MasterFacts DEF Inv2, Dated
    <3>3. Quiet(n, x) /\ (x = node[n] \/ (x = Recovery(n, node[n]) /\ x.state = "Inactive"))
      BY <1>3, <3>2, AtObserverQuiet
    <3>4. CASE x = node[n]
      <4>1. node' = [node EXCEPT ![n] = EndedState(node[n], u, w, e)]
        BY <3>1, <3>4
      <4> QED BY <1>0, <1>2, <2>2, <4>1, AnsweredMirror
    <3>5. CASE x = Recovery(n, node[n]) /\ x.state = "Inactive"
      <4>1. x = [node[n] EXCEPT !.state = "Inactive"]
        BY <3>5 DEF Recovery
      <4>2. /\ x \in NodeRecords /\ x.upd = node[n].upd /\ x.mem = node[n].mem
            /\ x.coord = n /\ x.phase = "idle" /\ x.obs = node[n].obs /\ x.group = node[n].group
        BY <3>2, <4>1 DEF NodeRecords
      <4>3. Locked(x) /\ u \in x.upd
        BY <3>2, <4>2 DEF Locked
      <4> HIDE DEF x
      <4> DEFINE q == EndedState(x, u, w, e)
      <4>4. /\ q.state = x.state /\ q.coord = x.coord /\ q.group = x.group /\ q.gen = x.gen
            /\ q.phase = x.phase /\ q.by = x.by /\ q.llu = x.llu
            /\ q.obs = x.obs \ e /\ Locked(q)
            /\ \A v \in q.upd : \E y \in x.upd : v.llu = y.llu /\ (Holds(v) <=> Holds(y))
        BY <1>0, <1>3, <4>2, <4>3, EndedFacts
      <4> HIDE DEF q
      <4>5. \A v \in q.upd : Holds(v) => Marked(x, v.llu.gen)
        BY <3>2, <4>2, <4>4 DEF Marked
      <4>6. IsFiniteSet(q.obs)
        BY <3>2, <4>2, <4>4, FS_Subset
      <4>7. Quiet(n, q)
        BY <3>3, <3>5, <4>2, <4>3, <4>4, <4>5, <4>6, MasterQuiet
      <4> QED BY <1>2, <3>1, <3>5, <4>4, <4>7, GoneMirror DEF q
    <3> QED BY <3>3, <3>4, <3>5
  <2> QED BY <2>1, <2>2
<1> QED BY <1>1, <1>5, <1>6, <1>7

-----------------------------------------------------------------------------
(* Elections.                                                              *)

(* A coordinator and its slaves reorganize in a group of a new name. *)
LEMMA ElectMirror ==
    ASSUME Inv2, NEW n \in Nodes, NEW S \in SUBSET (Nodes \ {n}), Elect(n, S)
    PROVE  DateInv' /\ \A k, m \in Nodes : Mirror(k, m)'
<1> DEFINE wait == {[node |-> k, llu |-> node[k].llu] : k \in S}
           g == groups + 1
           master == [node[n] EXCEPT !.state = "Reorganization", !.group = g,
                                     !.phase = "sync", !.wait = wait]
           slave(m) == [node[m] EXCEPT !.state = "Reorganization", !.coord = n, !.group = g]
<1>1. /\ node[n].coord = n
      /\ \A m \in S \cup {n} : node[m].state # "Reorganization" /\ node[m].upd = {}
      /\ groups' = g /\ inits' = inits /\ stamped' = stamped
  BY DEF Elect
<1>2. \A m \in Nodes : /\ node[m] \in NodeRecords /\ Well(m, node[m]) /\ Dated(m, node[m])
                       /\ node[m].group <= groups /\ node[m].group \in Nat
  BY NodeFacts, StillQuiet DEF NodeRecords, Inv2
<1>3. groups \in Nat /\ g \in Nat /\ g # 0 /\ ~Stamped(g) /\ ~(g <= groups)
      /\ \A m \in Nodes : node[m].group # g
  <2>1. groups \in Nat
    BY DEF Inv2, Inv, TypeInv
  <2>2. g \in Nat /\ g # 0 /\ ~(g <= groups)
    BY <2>1
  <2>3. \A a \in stamped : a.group \in 1..groups
    BY DEF Inv2, DateInv, StampInv
  <2>4. ~Stamped(g)
    BY <2>1, <2>3 DEF Stamped
  <2> QED BY <1>2, <2>1, <2>2, <2>4
<1>4. /\ node'[n] = master
      /\ \A m \in S : node'[m] = slave(m)
      /\ \A m \in Nodes : m # n /\ m \notin S => node'[m] = node[m]
  <2>1. node' = [m \in Nodes |-> IF m = n THEN master ELSE IF m \in S THEN slave(m) ELSE node[m]]
    BY DEF Elect
  <2> HIDE DEF master, slave
  <2> QED BY <2>1
<1> HIDE DEF wait, g
<1>5. /\ master.state = "Reorganization" /\ master.coord = n /\ master.phase = "sync"
      /\ master.upd = {} /\ master.group = g /\ master.by = node[n].by
      /\ master.obs = node[n].obs
  BY <1>1, <1>2 DEF NodeRecords
<1>6. ASSUME NEW m \in S
      PROVE  /\ slave(m).state = "Reorganization" /\ slave(m).coord = n
             /\ slave(m).phase = "idle" /\ slave(m).upd = {} /\ slave(m).group = g
             /\ slave(m).by = node[m].by /\ slave(m).obs = node[m].obs
  <2>1. node[m].phase = "idle" /\ node[m].upd = {} /\ node[m] \in NodeRecords
    BY <1>1, <1>2 DEF Well
  <2> QED BY <2>1 DEF NodeRecords
<1> HIDE DEF master, slave
<1>7. \A m \in Nodes : \/ /\ m \in S \cup {n}
                          /\ node'[m].state = "Reorganization" /\ node'[m].coord = n
                          /\ node'[m].group = g /\ node'[m].phase # "init"
                          /\ node'[m].upd = {} /\ node'[m].by = node[m].by
                          /\ node'[m].obs = node[m].obs
                       \/ node'[m] = node[m]
  BY <1>4, <1>5, <1>6
<1>8. StampInv'
  <2>1. 1..groups \subseteq 1..g
    BY <1>3 DEF g
  <2>2. stamped' \subseteq [group : 1..g, gen : Nat]
    BY <1>1, <2>1 DEF Inv2, DateInv, StampInv
  <2> QED BY <1>1, <2>2 DEF Inv2, DateInv, StampInv, Stamped
<1>9. ASSUME NEW m \in Nodes
      PROVE  Dated(m, node[m])'
  <2>1. CASE node'[m] = node[m]
    BY <1>1, <1>2, <2>1 DEF Dated, Stamped, Marked, Locked
  <2>2. CASE node'[m] # node[m]
    <3>1. /\ node'[m].state = "Reorganization" /\ node'[m].group = g
          /\ node'[m].phase # "init" /\ node'[m].upd = {} /\ node'[m].by = node[m].by
          /\ node'[m].obs = node[m].obs
      BY <1>7, <2>2
    <3>2. IsFiniteSet(node[m].obs) /\ Stamped(node[m].by) /\ ~Stamped(g) /\ g # 0
      BY <1>2, <1>3 DEF Dated
    <3>3. Dated(m, node'[m])
      BY <3>1, <3>2 DEF Dated, Locked
    <3> QED BY <1>1, <3>3 DEF Dated, Stamped, Marked, Locked
  <2> QED BY <2>1, <2>2
<1>10. LeadInv'
  <2> SUFFICES ASSUME NEW p \in Nodes, NEW m \in Nodes,
                      node'[p].group # 0, node'[m].group = node'[p].group
               PROVE  /\ node'[m].coord = node'[p].coord
                      /\ node'[p].phase # "idle" => node'[m].state # "Normal"
    BY DEF LeadInv
  <2>1. CASE node'[p].group = g
    BY <1>3, <1>7, <2>1
  <2>2. CASE node'[p].group # g
    <3>1. node'[p] = node[p] /\ node'[m] = node[m]
      BY <1>7, <2>2
    <3> QED BY <3>1 DEF Inv2, DateInv, LeadInv
  <2> QED BY <2>1, <2>2
<1>11. ContentInv'
  <2>1. \A p \in Nodes : node'[p].phase = "init" => node'[p] = node[p] /\ node'[p].group # g
    BY <1>3, <1>7
  <2>2. \A m \in Nodes : node'[m].group # g => node'[m] = node[m]
    BY <1>7
  <2> QED BY <1>1, <2>1, <2>2 DEF Inv2, DateInv, ContentInv
<1>12. ASSUME NEW a \in Nodes, NEW b \in Nodes
       PROVE  Mirror(a, b)'
  <2>1. CASE node'[a] = node[a] /\ node'[b] = node[b]
    BY <1>1, <2>1, MirrorStill DEF Inv2
  <2>2. CASE node'[a] # node[a] \/ node'[b] # node[b]
    BY <1>7, <2>2, MirrorIdle
  <2> QED BY <2>1, <2>2
<1> QED BY <1>8, <1>9, <1>10, <1>11, <1>12 DEF DateInv

(* Everyone goes to duty. *)
LEMMA ReadyAllMirror ==
    ASSUME Inv2, NEW n \in Nodes, ReadyAll(n)
    PROVE  DateInv' /\ \A k, m \in Nodes : Mirror(k, m)'
<1> DEFINE g == node[n].llu.gen
           goes(m) == /\ node[m].state = "Reorganization" /\ node[m].group = node[n].group
                      /\ [node |-> m, inc |-> node[m].inc] \in node[n].obs
           master == [node[n] EXCEPT !.state = "Normal", !.phase = "idle", !.gen = g]
           slave(m) == [node[m] EXCEPT !.state = "Normal", !.gen = g]
<1>1. /\ node[n].phase = "init"
      /\ node' = [m \in Nodes |-> IF m = n THEN master ELSE IF goes(m) THEN slave(m) ELSE node[m]]
      /\ groups' = groups /\ inits' = inits /\ stamped' = stamped
  BY DEF ReadyAll
<1>2. \A m \in Nodes : node[m] \in NodeRecords /\ Well(m, node[m]) /\ Dated(m, node[m])
  BY NodeFacts, StillQuiet DEF Inv2
<1>3. /\ node[n].state = "Reorganization" /\ node[n].coord = n /\ node[n].upd = {}
      /\ node[n].group # 0 /\ Marked(node[n], g)
  BY <1>1, <1>2 DEF Well, Dated
<1> HIDE DEF g
<1>4. /\ master.state = "Normal" /\ master.coord = n /\ master.phase = "idle"
      /\ master.upd = {} /\ master.group = node[n].group /\ master.by = node[n].by
      /\ master.gen = g /\ master.llu = node[n].llu
      /\ master.mem = node[n].mem /\ master.obs = node[n].obs
  BY <1>2, <1>3 DEF NodeRecords
<1>5. ASSUME NEW m \in Nodes, m # n, goes(m)
      PROVE  /\ slave(m).state = "Normal" /\ slave(m).coord = n /\ slave(m).phase = "idle"
             /\ slave(m).upd = {} /\ slave(m).group = node[n].group
             /\ slave(m).by = node[m].by /\ slave(m).gen = g
             /\ slave(m).mem = node[m].mem /\ slave(m).obs = node[m].obs
  <2>1. node[m].phase = "idle"
    BY <1>1, <1>5 DEF Inv2, Inv, GroupInv
  <2>2. node[m].upd = {}
    BY <1>2, <1>5 DEF Well
  <2>3. node[m].coord = n
    BY <1>3, <1>5 DEF Inv2, DateInv, LeadInv
  <2>4. node[m] \in NodeRecords /\ node[m].group = node[n].group
    BY <1>2, <1>5
  <2> HIDE DEF goes
  <2> QED BY <2>1, <2>2, <2>3, <2>4 DEF NodeRecords
<1>6. \A m \in Nodes : goes(m) => node[m].state = "Reorganization" /\ node[m].group = node[n].group
  OBVIOUS
<1> HIDE DEF goes, master, slave
<1>7. node'[n] = master
  BY <1>1
<1>8. \A m \in Nodes : m = n \/ node'[m] = node[m] \/
        /\ node[m].state = "Reorganization" /\ node[m].group = node[n].group
        /\ node'[m].state = "Normal" /\ node'[m].coord = n /\ node'[m].phase = "idle"
        /\ node'[m].upd = {} /\ node'[m].group = node[n].group
        /\ node'[m].by = node[m].by /\ node'[m].gen = g
        /\ node'[m].mem = node[m].mem /\ node'[m].obs = node[m].obs
  BY <1>1, <1>5, <1>6
<1>9. StampInv'
  BY <1>1 DEF Inv2, DateInv, StampInv, Stamped
<1>10. ASSUME NEW m \in Nodes
       PROVE  Dated(m, node[m])'
  <2>1. CASE node'[m] = node[m]
    BY <1>1, <1>2, <2>1 DEF Dated, Stamped, Marked, Locked
  <2>2. CASE m = n
    <3>1. Dated(n, master)
      BY <1>2, <1>3, <1>4 DEF Dated, Marked, Locked, g
    <3> QED BY <1>1, <1>7, <2>2, <3>1 DEF Dated, Stamped, Marked, Locked
  <2>3. CASE m # n /\ node'[m] # node[m]
    <3>1. Dated(m, node'[m])
      BY <1>2, <1>3, <1>8, <2>3 DEF Dated, Marked, Locked
    <3> QED BY <1>1, <3>1 DEF Dated, Stamped, Marked, Locked
  <2> QED BY <2>1, <2>2, <2>3
<1>11. \A m \in Nodes : /\ node'[m].group = node[m].group
                        /\ node[n].group = node[m].group => node'[m].coord = n
                        /\ node'[m].coord = n \/ node'[m].coord = node[m].coord
  <2>1. \A m \in Nodes : node[m].group = node[n].group => node[m].coord = n
    BY <1>3 DEF Inv2, DateInv, LeadInv
  <2> QED BY <1>4, <1>7, <1>8, <2>1
<1>12. LeadInv'
  <2> SUFFICES ASSUME NEW p \in Nodes, NEW m \in Nodes,
                      node'[p].group # 0, node'[m].group = node'[p].group
               PROVE  /\ node'[m].coord = node'[p].coord
                      /\ node'[p].phase # "idle" => node'[m].state # "Normal"
    BY DEF LeadInv
  <2>1. CASE node[p].group = node[n].group
    <3>1. node'[m].coord = n /\ node'[p].coord = n
      BY <1>11, <2>1
    <3>2. node'[p].phase = "idle"
      <4>1. node[p].phase # "idle" => p = n
        BY <1>1, <2>1 DEF Inv2, Inv, GroupInv
      <4> QED BY <1>4, <1>7, <1>8, <4>1
    <3> QED BY <3>1, <3>2
  <2>2. CASE node[p].group # node[n].group
    <3>1. node'[p] = node[p] /\ node'[m] = node[m]
      BY <1>8, <1>11, <2>2
    <3> QED BY <3>1 DEF Inv2, DateInv, LeadInv
  <2> QED BY <2>1, <2>2
<1>13. ContentInv'
  <2>1. \A p \in Nodes : node'[p].phase = "init" => node'[p] = node[p]
    BY <1>4, <1>7, <1>8
  <2>2. \A p \in Nodes : node'[p].state = "Reorganization" => node'[p] = node[p]
    BY <1>4, <1>7, <1>8
  <2> QED BY <1>1, <2>1, <2>2 DEF Inv2, DateInv, ContentInv
<1>14. ASSUME NEW m \in Nodes
       PROVE  Mirror(n, m)'
  <2> SUFFICES ASSUME Follows(n, m)', NEW t \in Topics
               PROVE  Mirrored(node'[n], node'[m], m, t)
    BY DEF Mirror
  <2>1. m # n /\ node'[m].state = "Normal" /\ node'[m].group = node[n].group
        /\ node'[m].by = node[n].group
    BY <1>4, <1>7 DEF Follows
  <2>2. node'[m] # node[m]
    BY <1>1, <1>3, <2>1 DEF Inv2, DateInv, LeadInv
  <2>3. node[m].mem = node[n].mem
    BY <1>1, <1>8, <2>1, <2>2 DEF Inv2, DateInv, ContentInv
  <2>4. node'[m].mem = node'[n].mem /\ node'[n].upd = {}
    BY <1>4, <1>7, <1>8, <2>1, <2>2, <2>3
  <2> QED BY <2>4 DEF Mirrored
<1>15. ASSUME NEW a \in Nodes, NEW b \in Nodes, a # n
       PROVE  Mirror(a, b)'
  <2>1. CASE node'[a] = node[a] /\ node'[b] = node[b]
    BY <1>1, <2>1, MirrorStill DEF Inv2
  <2>2. CASE node'[a] # node[a] \/ node'[b] # node[b]
    <3>1. node'[a].coord # a \/ node'[b].coord # a
      BY <1>4, <1>7, <1>8, <1>15, <2>2
    <3> QED BY <3>1, MirrorIdle
  <2> QED BY <2>1, <2>2
<1> QED BY <1>9, <1>10, <1>12, <1>13, <1>14, <1>15 DEF DateInv

(* What mergeContinue() makes of its coordinator. *)
LEMMA SyncAndInitMirror ==
    ASSUME Inv2, NEW n \in Nodes, SyncAndInit(n)
    PROVE  DateInv' /\ \A k, m \in Nodes : Mirror(k, m)'
<1> DEFINE new(m) == LLU(m.llu.gen + 1, 0)
           src(m) == node[m.node]
           r(m) == IF Newer(m.llu, node[n].llu) THEN observerInit(node[n], src(m).llu, src(m).mem)
                   ELSE node[n]
           q(m) == [r(m) EXCEPT !.llu = new(m), !.phase = "init", !.obs = {}]
           sent(m, k) == [from |-> n, to |-> k.node, inc |-> node[k.node].inc, llu |-> new(m),
                          content |-> r(m).mem, group |-> node[n].group]
           mark(m) == [group |-> node[n].group, gen |-> new(m).gen]
<1>1. PICK m \in node[n].wait :
        /\ node' = [node EXCEPT ![n] = q(m)]
        /\ stamped' = stamped \cup {mark(m)}
        /\ inits' = inits \cup {sent(m, k) : k \in node[n].wait}
  BY DEF SyncAndInit
<1>2. groups' = groups /\ node[n].phase = "sync" /\ groups \in Nat
  BY DEF SyncAndInit, Inv2, Inv, TypeInv
<1>3. /\ \A p \in Nodes : node[p] \in NodeRecords /\ Well(p, node[p]) /\ Dated(p, node[p])
      /\ node[n].group <= groups /\ node[n].group \in Nat
  BY NodeFacts, StillQuiet DEF Inv2, NodeRecords
<1>4. /\ node[n].state = "Reorganization" /\ node[n].coord = n /\ node[n].upd = {}
      /\ ~Stamped(node[n].group) /\ node[n].group \in 1..groups /\ Stamped(node[n].by)
  BY <1>2, <1>3 DEF Well, Dated
<1>5. m.llu.gen \in Nat /\ new(m).gen \in Nat
  <2>1. m.llu \in AnyStamp
    BY <1>3 DEF NodeRecords
  <2> QED BY <2>1 DEF AnyStamp, LLU
<1>6. /\ r(m) \in NodeRecords /\ r(m).state = "Reorganization" /\ r(m).coord = n
      /\ r(m).upd = {} /\ r(m).group = node[n].group /\ r(m).by = node[n].by
  <2>1. src(m).llu \in AnyStamp /\ src(m).mem \in SUBSET Keys
    <3>1. m.node \in Nodes
      BY <1>3 DEF NodeRecords
    <3> QED BY <3>1, NodeParts DEF Inv2
  <2>2. ASSUME NEW l \in AnyStamp, NEW c \in SUBSET Keys
        PROVE  LET x == observerInit(node[n], l, c)
               IN  /\ x \in NodeRecords /\ x.state = "Reorganization" /\ x.coord = n
                   /\ x.upd = {} /\ x.group = node[n].group /\ x.by = node[n].by
    <3> DEFINE z == node[n]
               x == observerInit(z, l, c)
    <3>1. z \in NodeRecords /\ z.state = "Reorganization" /\ z.coord = n /\ z.upd = {}
      BY <1>3, <1>4
    <3> HIDE DEF z
    <3>2. /\ x \in NodeRecords /\ x.state = "Reorganization" /\ x.coord = n
          /\ x.upd = {} /\ x.group = z.group /\ x.by = z.by
      BY <3>1 DEF observerInit, NodeRecords
    <3> QED BY <3>2 DEF z
  <2> HIDE DEF src
  <2>3. CASE Newer(m.llu, node[n].llu)
    <3>1. r(m) = observerInit(node[n], src(m).llu, src(m).mem)
      BY <2>3
    <3> HIDE DEF r
    <3> QED BY <2>1, <2>2, <3>1
  <2>4. CASE ~Newer(m.llu, node[n].llu)
    <3>1. r(m) = node[n]
      BY <2>4
    <3> HIDE DEF r
    <3> QED BY <1>3, <1>4, <3>1
  <2> QED BY <2>3, <2>4
<1> HIDE DEF new, r
<1>7. /\ q(m).state = "Reorganization" /\ q(m).coord = n /\ q(m).upd = {}
      /\ q(m).group = node[n].group /\ q(m).by = node[n].by
      /\ q(m).phase = "init" /\ q(m).obs = {} /\ q(m).llu = new(m) /\ q(m).mem = r(m).mem
  BY <1>6 DEF NodeRecords
<1>8. \A i \in inits' : \/ i \in inits /\ Stamped(i.group)
                        \/ i.group = node[n].group /\ i.content = r(m).mem
  BY <1>1 DEF Inv2, DateInv, StampInv
<1>9. mark(m).group = node[n].group /\ mark(m).gen = new(m).gen
  OBVIOUS
<1> HIDE DEF q, sent, mark
<1>10. node'[n] = q(m) /\ \A p \in Nodes \ {n} : node'[p] = node[p]
  BY <1>1, MasterFacts
<1>11. StampInv'
  <2>1. stamped' \subseteq [group : 1..groups', gen : Nat]
    BY <1>1, <1>2, <1>4, <1>5 DEF Inv2, DateInv, StampInv, mark
  <2>2. \A a, b \in stamped' : a.group = b.group => a = b
    BY <1>1, <1>4, <1>9 DEF Inv2, DateInv, StampInv, Stamped
  <2>3. \A i \in inits' : \E a \in stamped' : a.group = i.group
    BY <1>1, <1>8, <1>9 DEF Stamped
  <2> QED BY <2>1, <2>2, <2>3 DEF StampInv, Stamped
<1>12. ASSUME NEW p \in Nodes
       PROVE  Dated(p, node[p])'
  <2>1. CASE p = n
    <3>1. \E a \in stamped' : a.group = q(m).by
      BY <1>1, <1>4, <1>7 DEF Stamped
    <3>2. [group |-> q(m).group, gen |-> q(m).llu.gen] \in stamped'
      BY <1>1, <1>7 DEF mark
    <3>3. q(m).group # 0
      BY <1>4, <1>7
    <3> QED BY <1>7, <1>10, <2>1, <3>1, <3>2, <3>3, FS_EmptySet DEF Dated, Stamped, Marked, Locked
  <2>2. CASE p # n
    <3>1. node'[p] = node[p]
      BY <1>10, <2>2
    <3>2. node[p].phase = "sync" => ~(\E a \in stamped' : a.group = node[p].group)
      <4>1. node[p].phase = "sync" => node[p].group # node[n].group
        BY <1>2, <2>2 DEF Inv2, Inv, GroupInv
      <4> QED BY <1>1, <1>3, <1>9, <4>1 DEF Dated, Stamped
    <3>3. \E a \in stamped' : a.group = node[p].by
      BY <1>1, <1>3 DEF Dated, Stamped
    <3>4. stamped \subseteq stamped' /\ Dated(p, node[p])
      BY <1>1, <1>3
    <3> QED BY <3>1, <3>2, <3>3, <3>4 DEF Dated, Stamped, Marked, Locked
  <2> QED BY <2>1, <2>2
<1>13. LeadInv'
  <2>1. \A p \in Nodes : /\ node'[p].group = node[p].group /\ node'[p].coord = node[p].coord
                         /\ node'[p].state = node[p].state
                         /\ node'[p].phase # "idle" => node[p].phase # "idle"
    BY <1>2, <1>4, <1>7, <1>10
  <2> QED BY <2>1 DEF Inv2, DateInv, LeadInv
<1>14. ASSUME NEW p \in Nodes, NEW i \in inits', node'[p].phase = "init",
              i.group = node'[p].group
       PROVE  i.content = node'[p].mem
  <2>1. CASE p = n
    <3>1. i.group = node[n].group
      BY <1>7, <1>10, <1>14, <2>1
    <3> QED BY <1>4, <1>7, <1>8, <1>10, <2>1, <3>1
  <2>2. CASE p # n
    <3>1. node'[p] = node[p] /\ node[p].group # node[n].group
      BY <1>2, <1>10, <1>14, <2>2 DEF Inv2, Inv, GroupInv
    <3> QED BY <1>8, <1>14, <3>1 DEF Inv2, DateInv, ContentInv
  <2> QED BY <2>1, <2>2
<1>15. ASSUME NEW p \in Nodes, NEW k \in Nodes,
              node'[p].phase = "init", k # p, node'[k].state = "Reorganization",
              node'[k].group = node'[p].group, node'[k].by = node'[p].group
       PROVE  node'[k].mem = node'[p].mem
  <2>1. CASE p = n
    <3>1. node[k].by = node[n].group
      BY <1>7, <1>10, <1>15, <2>1
    <3> QED BY <1>3, <1>4, <3>1 DEF Dated
  <2>2. CASE p # n
    <3>1. node'[p] = node[p] /\ node[p].group # node[n].group
      BY <1>2, <1>10, <1>15, <2>2 DEF Inv2, Inv, GroupInv
    <3>2. node'[k] = node[k]
      BY <1>7, <1>10, <1>15, <3>1
    <3> QED BY <1>15, <3>1, <3>2 DEF Inv2, DateInv, ContentInv
  <2> QED BY <2>1, <2>2
<1>16. ContentInv'
  BY <1>14, <1>15 DEF ContentInv
<1>17. \A a, b \in Nodes : Mirror(a, b)'
  <2>1. \A k \in Nodes \ {n} : Mirror(n, k)'
    BY <1>7, <1>10, MirrorIdle
  <2> QED BY <1>1, <1>7, <2>1, MirrorOne
<1> QED BY <1>11, <1>12, <1>13, <1>16, <1>17 DEF DateInv

(* init() executes, and is answered. *)
LEMMA InitSlaveMirror ==
    ASSUME Inv2, NEW m \in Nodes, InitSlave(m)
    PROVE  DateInv' /\ \A a, b \in Nodes : Mirror(a, b)'
<1> DEFINE mine(i)      == {w \in node[i.from].wait : w.node = m}
           waited(i)    == node[i.from].phase = "init" /\ mine(i) # {} /\ node[i.from].llu = i.llu
           Answer(i, r) == IF ~waited(i) THEN r
                           ELSE IF ~checkObserverInit(m) THEN Recovery(i.from, r)
                           ELSE [r EXCEPT !.wait = @ \ mine(i),
                                          !.obs = @ \cup {[node |-> m, inc |-> i.inc]}]
           Inited(i)    == IF ~checkObserverInit(m) THEN node[m]
                           ELSE [observerInit(node[m], i.llu, i.content) EXCEPT !.by = i.group]
<1>1. PICK i \in inits :
        node' = [[node EXCEPT ![m] = Inited(i)] EXCEPT ![i.from] = Answer(i, @)]
  BY DEF InitSlave
<1>2. groups' = groups /\ inits' \subseteq inits /\ stamped' = stamped
  BY DEF InitSlave
<1> DEFINE n == i.from
<1>3. n \in Nodes /\ Stamped(i.group)
  BY DEF Inv2, Inv, TypeInv, Inits, DateInv, StampInv
<1>4. /\ node \in [Nodes -> NodeRecords]
      /\ node[m] \in NodeRecords /\ Well(m, node[m]) /\ Dated(m, node[m]) /\ Quiet(m, node[m])
      /\ node[n] \in NodeRecords /\ Well(n, node[n]) /\ Dated(n, node[n]) /\ Quiet(n, node[n])
  BY <1>3, NodeFacts, StillQuiet DEF Inv2
<1>5. ASSUME checkObserverInit(m)
      PROVE  Quiet(m, Inited(i)) /\ Inited(i).state = "Reorganization"
  <2> DEFINE q == Inited(i)
  <2>1. node[m].state = "Reorganization" /\ node[m].coord # m
        /\ node[m].phase = "idle" /\ node[m].upd = {} /\ node[m].group # 0
    BY <1>4, <1>5 DEF checkObserverInit, Well, Dated
  <2>2. /\ q.state = "Reorganization" /\ q.coord = node[m].coord
        /\ q.phase = "idle" /\ q.upd = {} /\ q.group = node[m].group
        /\ q.by = i.group /\ q.mem = i.content /\ q.obs = {}
    <3>1. q = [observerInit(node[m], i.llu, i.content) EXCEPT !.by = i.group]
      BY <1>5
    <3> HIDE DEF q
    <3> QED BY <1>4, <2>1, <3>1 DEF observerInit, NodeRecords
  <2> HIDE DEF Inited
  <2>3. Dated(m, q)
    BY <1>3, <2>1, <2>2, FS_EmptySet DEF Dated, Locked
  <2> QED BY <2>1, <2>2, <2>3 DEF Quiet
<1>6. ASSUME waited(i)
      PROVE  Quiet(n, Answer(i, node[n])) /\ Answer(i, node[n]).state # "Normal"
  <2>1. node[n].phase = "init" /\ node[n].state = "Reorganization" /\ node[n].upd = {}
    BY <1>4, <1>6 DEF Well
  <2>2. CASE ~checkObserverInit(m)
    <3>1. Answer(i, node[n]) = Recovery(n, node[n])
      BY <1>6, <2>2
    <3> HIDE DEF Answer
    <3> QED BY <1>3, <1>4, <3>1, RecoveryQuiet DEF Inv2
  <2>3. CASE checkObserverInit(m)
    <3> DEFINE wait == node[n].wait \ mine(i)
               new == [node |-> m, inc |-> i.inc]
               obs == node[n].obs \cup {new}
               q == [node[n] EXCEPT !.wait = wait, !.obs = obs]
    <3>1. Answer(i, node[n]) = q
      BY <1>6, <2>3
    <3>2. IsFiniteSet(obs)
      <4>1. IsFiniteSet(node[n].obs)
        BY <1>4 DEF Dated
      <4> HIDE DEF new
      <4> QED BY <4>1, FS_AddElement
    <3> HIDE DEF wait, obs, Answer
    <3>3. /\ q.state = node[n].state /\ q.coord = node[n].coord /\ q.phase = node[n].phase
          /\ q.upd = node[n].upd /\ q.group = node[n].group /\ q.by = node[n].by
          /\ q.mem = node[n].mem /\ q.obs = obs /\ q.llu = node[n].llu /\ q.gen = node[n].gen
      BY <1>4 DEF NodeRecords
    <3> HIDE DEF q
    <3>4. Dated(n, q)
      BY <1>4, <3>2, <3>3 DEF Dated, Marked, Locked
    <3>5. Quiet(n, q)
      BY <1>4, <2>1, <3>3, <3>4 DEF Quiet
    <3> QED BY <2>1, <3>1, <3>3, <3>5
  <2> QED BY <2>2, <2>3
<1>7. \A p \in Nodes : node'[p] = node[p] \/ (Quiet(p, node'[p]) /\ node'[p].state # "Normal")
  <2>1. CASE n # m
    <3>1. /\ node'[n] = Answer(i, node[n]) /\ node'[m] = Inited(i)
          /\ \A p \in Nodes : p # n /\ p # m => node'[p] = node[p]
      <4> HIDE DEF Answer, Inited
      <4> QED BY <1>1, <1>3, <1>4, <2>1
    <3>2. ~waited(i) => Answer(i, node[n]) = node[n]
      OBVIOUS
    <3>3. ~checkObserverInit(m) => Inited(i) = node[m]
      OBVIOUS
    <3> HIDE DEF Answer, Inited, waited, n
    <3> QED BY <1>5, <1>6, <3>1, <3>2, <3>3
  <2>2. CASE n = m /\ checkObserverInit(m)
    <3>1. ~waited(i)
      BY <1>4, <2>2 DEF checkObserverInit, Well
    <3>2. \A x : Answer(i, x) = x
      BY <3>1
    <3> HIDE DEF Answer, Inited, waited
    <3>3. node'[m] = Inited(i) /\ \A p \in Nodes : p # m => node'[p] = node[p]
      BY <1>1, <1>3, <1>4, <2>2, <3>2
    <3> QED BY <1>5, <2>2, <3>3
  <2>3. CASE n = m /\ ~checkObserverInit(m)
    <3>1. Inited(i) = node[m]
      BY <2>3
    <3>2. ~waited(i) => Answer(i, node[n]) = node[n]
      OBVIOUS
    <3> HIDE DEF Answer, Inited, waited
    <3>3. node'[n] = Answer(i, node[n]) /\ \A p \in Nodes : p # n => node'[p] = node[p]
      BY <1>1, <1>3, <1>4, <2>3, <3>1
    <3> HIDE DEF n
    <3> QED BY <1>6, <3>2, <3>3
  <2> QED BY <2>1, <2>2, <2>3
<1>8. DateInv'
  <2>1. \A p \in Nodes : Quiet(p, node'[p])
    BY <1>7, StillQuiet DEF Inv2
  <2> QED BY <1>2, <2>1, QuietStep DEF Inv2
<1>9. ASSUME NEW a \in Nodes, NEW b \in Nodes
      PROVE  Mirror(a, b)'
  <2>1. CASE node'[a] = node[a] /\ node'[b] = node[b]
    BY <1>2, <2>1, MirrorStill DEF Inv2
  <2>2. CASE node'[a] # node[a] \/ node'[b] # node[b]
    <3>1. node'[a].state # "Normal" \/ node'[b].state # "Normal"
      BY <1>7, <2>2
    <3> QED BY <3>1, MirrorIdle
  <2> QED BY <2>1, <2>2
<1> QED BY <1>8, <1>9

-----------------------------------------------------------------------------

(* It holds at first: the group is on duty in generation 1, which it is    *)
(* taken to have stamped.                                                  *)
LEMMA InitMirror ==
    Init => Inv2
<1> SUFFICES ASSUME Init
             PROVE  Inv2
  OBVIOUS
<1>1. PICK c \in Nodes : node = [n \in Nodes |-> OnDuty(n, c)]
  BY DEF Init
<1>2. inits = {} /\ groups = 1 /\ stamped = {[group |-> 1, gen |-> 1]}
  BY DEF Init
<1>3. \A n \in Nodes : /\ node[n].state = "Normal" /\ node[n].coord = c /\ node[n].phase = "idle"
                       /\ node[n].upd = {} /\ node[n].group = 1 /\ node[n].by = 1
                       /\ node[n].gen = 1 /\ node[n].llu.gen = 1 /\ node[n].mem = {}
  BY <1>1 DEF OnDuty, LLU
<1>4. IsFiniteSet([node : Nodes \ {c}, inc : {0}])
  <2> DEFINE T == [node : Nodes \ {c}, inc : {0}]
             f == [p \in Nodes \ {c} |-> [node |-> p, inc |-> 0]]
  <2>1. IsFiniteSet(Nodes \ {c})
    BY NodesAssumption, FS_RemoveElement
  <2>2. f \in Surjection(Nodes \ {c}, T)
    <3>1. f \in [Nodes \ {c} -> T]
      OBVIOUS
    <3>2. \A x \in T : \E p \in Nodes \ {c} : f[p] = x
      OBVIOUS
    <3> QED BY <3>1, <3>2 DEF Surjection
  <2> QED BY <2>1, <2>2, FS_Surjection
<1>5. \A n \in Nodes : IsFiniteSet(node[n].obs)
  <2> SUFFICES ASSUME NEW n \in Nodes
               PROVE  IsFiniteSet(node[n].obs)
    OBVIOUS
  <2>1. node[n].obs = IF n = c THEN [node : Nodes \ {c}, inc : {0}] ELSE {}
    BY <1>1 DEF OnDuty
  <2> QED BY <1>4, <2>1, FS_EmptySet
<1>6. StampInv
  BY <1>2 DEF StampInv
<1>7. LeadInv /\ ContentInv
  BY <1>2, <1>3 DEF LeadInv, ContentInv
<1>8. \A n \in Nodes : Dated(n, node[n])
  <2>1. Stamped(1)
    BY <1>2 DEF Stamped
  <2> QED BY <1>2, <1>3, <1>5, <2>1 DEF Dated, Marked, Locked
<1>9. \A n, m \in Nodes : Mirror(n, m)
  BY <1>3 DEF Mirror, Mirrored
<1>10. Inv
  BY InitInv
<1> QED BY <1>6, <1>7, <1>8, <1>9, <1>10 DEF Inv2, DateInv

(* Every step preserves it. *)
LEMMA NextMirror ==
    Inv2 /\ [Next]_vars => Inv2'
<1> SUFFICES ASSUME Inv2, [Next]_vars
             PROVE  Inv2'
  OBVIOUS
<1>0. Inv'
  BY NextInv DEF Inv2
<1>1. CASE UNCHANGED vars
  <2>1. DateInv'
    BY <1>1 DEF vars, Inv2, DateInv, StampInv, LeadInv, ContentInv, Dated, Stamped, Marked, Locked
  <2>2. \A n, m \in Nodes : Mirror(n, m)'
    BY <1>1, MirrorStill DEF vars, Inv2
  <2> QED BY <1>0, <2>1, <2>2 DEF Inv2
<1>2. ASSUME NEW n \in Nodes, NEW o \in Ops, Enter(n, o)
      PROVE  DateInv' /\ \A k, m \in Nodes : Mirror(k, m)'
  BY <1>2, EnterMirror
<1>3. ASSUME NEW n \in Nodes, Commit(n) \/ Send(n) \/ Reply(n) \/ Finish(n)
      PROVE  DateInv' /\ \A k, m \in Nodes : Mirror(k, m)'
  BY <1>3, CommitMirror, SendMirror, ReplyMirror, FinishMirror
<1>4. ASSUME NEW n \in Nodes, MajorityLost(n) \/ Leaves(n) \/ Restart(n)
      PROVE  DateInv' /\ \A k, m \in Nodes : Mirror(k, m)'
  BY <1>4, LeavesMirror, RestartMirror
<1>5. ASSUME NEW n \in Nodes, NEW S \in SUBSET (Nodes \ {n}), Elect(n, S)
      PROVE  DateInv' /\ \A k, m \in Nodes : Mirror(k, m)'
  BY <1>5, ElectMirror
<1>6. ASSUME NEW n \in Nodes, SyncAndInit(n) \/ InitSlave(n) \/ ReadyAll(n)
      PROVE  DateInv' /\ \A k, m \in Nodes : Mirror(k, m)'
  BY <1>6, SyncAndInitMirror, InitSlaveMirror, ReadyAllMirror
<1>7. CASE Next
  <2>1. DateInv' /\ \A k, m \in Nodes : Mirror(k, m)'
    BY <1>2, <1>3, <1>4, <1>5, <1>6, <1>7 DEF Next
  <2> QED BY <1>0, <2>1 DEF Inv2
<1> QED BY <1>1, <1>7

(* A slave on duty that its master counts has, whenever no update is on    *)
(* its way, the topics of the master: what it was initialized with and     *)
(* every update since, through any interleaving of updates, lost replies,  *)
(* crashes and elections.                                                  *)
THEOREM SlaveFollows == Spec => []SlaveMirrors
<1>1. Spec => []Inv2
  BY InitMirror, NextMirror, PTL DEF Spec
<1>2. Inv2 => SlaveMirrors
  <2> SUFFICES ASSUME Inv2, NEW n \in Nodes, NEW m \in Nodes,
                      IsMaster(n), node[n].upd = {}, Cardinality(node[n].obs) >= Majority,
                      [node |-> m, inc |-> node[m].inc] \in node[n].obs,
                      node[m].state = "Normal", node[m].coord = n,
                      node[m].group = node[n].group, node[m].by = node[n].group,
                      OnlyGroup(node[n].gen)
               PROVE  TopicsIn(node[m].mem) = TopicsIn(node[n].mem)
    BY DEF SlaveMirrors
  <2>1. CASE n = m
    BY <2>1
  <2>2. CASE n # m
    <3>1. Follows(n, m)
      BY <2>2 DEF Follows
    <3>2. \A t \in Topics : TopicKey(t) \in node[m].mem <=> TopicKey(t) \in node[n].mem
      BY <3>1 DEF Inv2, Mirror, Mirrored
    <3>3. node[m].mem \in SUBSET Keys /\ node[n].mem \in SUBSET Keys
      BY MasterFacts
    <3>4. \A k \in Keys : k[2] = Placeholder => k = TopicKey(k[1]) /\ k[1] \in Topics
      BY DEF Keys, TopicKey
    <3>5. \A k : k \in TopicsIn(node[m].mem) <=> k \in TopicsIn(node[n].mem)
      BY <3>2, <3>3, <3>4 DEF TopicsIn
    <3> QED BY <3>5
  <2> QED BY <2>1, <2>2
<1> QED BY <1>1, <1>2, PTL

(* Two masters on duty are never of one group: a group has one coordinator. *)
THEOREM OneMasterOfGroup ==
    Spec => [](\A n, m \in Nodes :
                 IsMaster(n) /\ IsMaster(m) /\ node[n].group = node[m].group => n = m)
<1>1. Spec => []Inv2
  BY InitMirror, NextMirror, PTL DEF Spec
<1>2. Inv2 => \A n, m \in Nodes :
                 IsMaster(n) /\ IsMaster(m) /\ node[n].group = node[m].group => n = m
  <2> SUFFICES ASSUME Inv2, NEW n \in Nodes, NEW m \in Nodes, IsMaster(n), IsMaster(m),
                      node[n].group = node[m].group
               PROVE  n = m
    OBVIOUS
  <2>1. [group |-> node[n].group, gen |-> node[n].gen] \in stamped
    BY MasterFacts DEF Dated, Marked, IsMaster
  <2>2. node[n].group # 0
    BY <2>1 DEF Inv2, DateInv, StampInv
  <2> QED BY <2>2 DEF Inv2, DateInv, LeadInv, IsMaster
<1> QED BY <1>1, <1>2, PTL

=============================================================================
