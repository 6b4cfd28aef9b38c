--------------------------- MODULE ElectionProofs ---------------------------
(***************************************************************************)
(* Theorems about Election, for any number of replicas and any bounds.     *)
(*                                                                         *)
(* A node that may still make a group known by its name claims the group   *)
(* for a coordinator: a member, an invitation in transit or in dispatch,   *)
(* and the merge that is about to create it.  All the claims to a group    *)
(* name one coordinator, and only a merge makes a claim that is not copied *)
(* from another one: that is the inductive invariant behind GroupAgreement.*)
(***************************************************************************)
EXTENDS Election, FiniteSetTheorems, TLAPS

(* Names of the groups that exist, the private one included. *)
Names == 0..merges

(* A check that may still lead to a merge. *)
Pending(r) == r.timer = "poll" \/ r.merge = "queued"

CheckingNodes == {n \in Nodes : Pending(node[n])}

(* The types, the groups being no more than the merges fired. *)
TypeInv ==
    /\ bounds \in Bounds
    /\ node \in [Nodes -> NodeRecords(Names)]
    /\ msgs \subseteq Messages(Names)
    /\ merges \in Nat /\ checks \in 0..MaxChecks
    /\ failures \in 0..MaxFailures /\ forwards \in 0..MaxForwards /\ restarts \in 0..MaxRestarts

(* Every merge took a check of its own. *)
MergeInv == merges + Cardinality(CheckingNodes) <= checks + 1

(* Node n, in state r, claims group g for the coordinator c. *)
NodeClaims(n, r, g, c) ==
    \/ r.group = g /\ r.coord = c
    \/ \E v \in r.inv : v.group = g /\ v.from = c
    \/ r.timer \in {"merge", "mergewait"} /\ r.gp = g /\ n = c

Claim(g, c) ==
    \/ \E n \in Nodes : NodeClaims(n, node[n], g, c)
    \/ \E m \in msgs : m.type = "invitation" /\ m.group = g /\ m.from = c

ClaimInv ==
    \A g \in Nat \ {Private}, c, d \in Nodes : Claim(g, c) /\ Claim(g, d) => c = d

(* Past the test of mergeContinue() a coordinator knows of a full group,   *)
(* or is about to lead one.                                                *)
Knows(r) ==
    /\ r.timer = "sync" => r.max >= N \/ Cardinality(r.set) = N - 1
    /\ r.timer \in {"init", "ready"} => r.max >= N
    /\ r.state = "Normal" => r.max >= N

ServeInv == \A n \in Nodes : Knows(node[n])

Inv == TypeInv /\ MergeInv /\ ClaimInv /\ ServeInv

CountTypes ==
    /\ bounds \in Bounds
    /\ checks \in 0..MaxChecks
    /\ failures \in 0..MaxFailures /\ forwards \in 0..MaxForwards /\ restarts \in 0..MaxRestarts

-----------------------------------------------------------------------------
(* What a step does to a node and to the messages.                         *)

(* Node n may go to state q: it makes no claim that is not copied.         *)
Calm(n, q) ==
    /\ q \in NodeRecords(Names)
    /\ Knows(q)
    /\ \A g \in Nat \ {Private}, c \in Nodes : NodeClaims(n, q, g, c) => Claim(g, c)

(* It takes no check and keeps its group under an update.                  *)
Steady(n, q) ==
    /\ Pending(q) => Pending(node[n])
    /\ node[n].updates > 0 => q.group = node[n].group /\ q.coord = node[n].coord

(* An invitation sent is a claim copied.                                   *)
CalmMsgs ==
    \A m \in msgs' :
        /\ m \in Messages(Names)
        /\ m.type = "invitation" /\ m.group # Private => Claim(m.group, m.from)

(* The step property of MembershipStable. *)
StableStep ==
    \A n \in Nodes :
        node[n].updates > 0 /\ restarts' = restarts =>
            node'[n].group = node[n].group /\ node'[n].coord = node[n].coord

(* The number of nodes is a number. *)
LEMMA NType == N \in Nat /\ N >= 3
BY NodesAssumption, FS_CardinalityType DEF N

(* A set of nodes is finite, and not larger than all of them. *)
LEMMA NodeSets ==
    ASSUME NEW S \in SUBSET Nodes
    PROVE  IsFiniteSet(S) /\ Cardinality(S) \in 0..N
<1>1. IsFiniteSet(S) /\ Cardinality(S) <= Cardinality(Nodes)
  BY NodesAssumption, FS_Subset
<1>2. Cardinality(S) \in Nat
  BY <1>1, FS_CardinalityType
<1> QED BY <1>1, <1>2, NType DEF N

(* What is known of a node. *)
LEMMA NodeFacts ==
    ASSUME Inv, NEW n \in Nodes
    PROVE  /\ node \in [Nodes -> NodeRecords(Names)]
           /\ node[n] \in NodeRecords(Names)
           /\ Knows(node[n])
           /\ Private \in Names /\ merges \in Nat /\ CountTypes
BY DEF Inv, TypeInv, ServeInv, Names, Private, CountTypes

(* A step of calm nodes keeps everything but the count of the merges. *)
LEMMA CalmStep ==
    ASSUME Inv, merges' = merges, CountTypes', CalmMsgs,
           DOMAIN node' = Nodes, node' = [p \in Nodes |-> node'[p]],
           \A p \in Nodes : Calm(p, node'[p])
    PROVE  TypeInv' /\ ClaimInv' /\ ServeInv'
<1>1. TypeInv'
  <2>1. merges \in Nat /\ Names' = Names
    BY DEF Inv, TypeInv, Names
  <2>2. node' \in [Nodes -> NodeRecords(Names)]
    BY DEF Calm
  <2>3. msgs' \subseteq Messages(Names)
    BY DEF CalmMsgs
  <2>4. NodeRecords(Names') = NodeRecords(Names) /\ Messages(Names') = Messages(Names)
    BY <2>1
  <2> QED BY <2>1, <2>2, <2>3, <2>4 DEF TypeInv, CountTypes
<1>2. ASSUME NEW g \in Nat \ {Private}, NEW c \in Nodes, Claim(g, c)'
      PROVE  Claim(g, c)
  <2>1. CASE \E n \in Nodes : NodeClaims(n, node'[n], g, c)
    BY <2>1 DEF Calm
  <2>2. CASE \E m \in msgs' : m.type = "invitation" /\ m.group = g /\ m.from = c
    BY <2>2 DEF CalmMsgs
  <2> QED BY <1>2, <2>1, <2>2 DEF Claim
<1>3. ClaimInv'
  BY <1>2 DEF Inv, ClaimInv
<1>4. ServeInv'
  BY DEF ServeInv, Calm
<1> QED BY <1>1, <1>3, <1>4

(* A step that takes no check keeps the count of the merges. *)
LEMMA SteadyStep ==
    ASSUME Inv, merges' = merges, checks' \in {checks, checks + 1},
           \A p \in Nodes : Pending(node'[p]) => Pending(node[p])
    PROVE  MergeInv'
<1> DEFINE S == CheckingNodes
           T == CheckingNodes'
<1>1. T \subseteq S /\ S \in SUBSET Nodes
  BY DEF CheckingNodes
<1>2. Cardinality(T) <= Cardinality(S) /\ Cardinality(S) \in Nat /\ Cardinality(T) \in Nat
  BY <1>1, NodeSets, FS_Subset, FS_CardinalityType, NType
<1>3. merges \in Nat /\ checks \in Nat /\ merges + Cardinality(S) <= checks + 1
  <2>1. checks \in 0..MaxChecks
    BY DEF Inv, TypeInv
  <2> QED BY <2>1 DEF Inv, TypeInv, MergeInv
<1>4. merges + Cardinality(T) <= checks' + 1
  <2> HIDE DEF S, T
  <2> QED BY <1>2, <1>3
<1> QED BY <1>4 DEF MergeInv

(* One calm node goes to state q. *)
LEMMA OneCalmNode ==
    ASSUME Inv, NEW n \in Nodes, NEW q, node' = [node EXCEPT ![n] = q],
           Calm(n, q), merges' = merges, CountTypes', CalmMsgs
    PROVE  TypeInv' /\ ClaimInv' /\ ServeInv'
<1>1. node \in [Nodes -> NodeRecords(Names)]
  BY DEF Inv, TypeInv
<1>2. /\ DOMAIN node' = Nodes
      /\ node' = [p \in Nodes |-> node'[p]]
      /\ node'[n] = q
      /\ \A p \in Nodes \ {n} : node'[p] = node[p]
  BY <1>1
<1>3. ASSUME NEW p \in Nodes PROVE Calm(p, node[p])
  <2>1. Knows(node[p])
    BY DEF Inv, ServeInv
  <2> QED BY <1>1, <2>1 DEF Calm, Claim
<1>4. \A p \in Nodes : Calm(p, node'[p])
  BY <1>2, <1>3
<1> QED BY <1>2, <1>4, CalmStep

(* One node goes to state q and does not take a check. *)
LEMMA OneNode ==
    ASSUME Inv, NEW n \in Nodes, NEW q, node' = [node EXCEPT ![n] = q],
           Calm(n, q), Steady(n, q), merges' = merges, checks' \in {checks, checks + 1},
           CountTypes', CalmMsgs
    PROVE  Inv' /\ StableStep
<1>1. node \in [Nodes -> NodeRecords(Names)]
  BY DEF Inv, TypeInv
<1>2. node'[n] = q /\ \A p \in Nodes \ {n} : node'[p] = node[p]
  BY <1>1
<1>3. TypeInv' /\ ClaimInv' /\ ServeInv'
  BY OneCalmNode
<1>4. MergeInv'
  BY <1>2, SteadyStep DEF Steady
<1>5. StableStep
  BY <1>2 DEF StableStep, Steady
<1> QED BY <1>3, <1>4, <1>5 DEF Inv

(* The messages in transit are claims already. *)
LEMMA OldMsgs ==
    ASSUME Inv, NEW m \in msgs
    PROVE  m \in Messages(Names) /\ (m.type = "invitation" /\ m.group # Private => Claim(m.group, m.from))
BY DEF Inv, TypeInv, Claim

(* A step that sends nothing, and may fail. *)
Silent ==
    /\ msgs' \subseteq msgs
    /\ failures' = failures \/ Fail
    /\ UNCHANGED <<merges, checks, forwards, restarts, bounds>>

(* The bounds are numbers. *)
LEMMA BoundTypes ==
    ASSUME bounds \in Bounds
    PROVE  MaxChecks \in Nat /\ MaxFailures \in Nat /\ MaxForwards \in Nat /\ MaxRestarts \in Nat
BY ElectionBounds DEF MaxChecks, MaxFailures, MaxForwards, MaxRestarts

(* The counters keep their bounds. *)
LEMMA Counted ==
    ASSUME CountTypes, failures' = failures \/ Fail, UNCHANGED <<forwards, restarts, bounds>>,
           checks' = checks \/ (checks < MaxChecks /\ checks' = checks + 1)
    PROVE  CountTypes'
<1>1. /\ bounds \in Bounds /\ bounds' \in Bounds
      /\ MaxChecks' = MaxChecks /\ MaxFailures' = MaxFailures
      /\ MaxForwards' = MaxForwards /\ MaxRestarts' = MaxRestarts
  BY DEF CountTypes, MaxChecks, MaxFailures, MaxForwards, MaxRestarts
<1>2. checks' \in 0..MaxChecks
  BY <1>1, BoundTypes DEF CountTypes
<1>3. failures' \in 0..MaxFailures
  BY <1>1, BoundTypes DEF CountTypes, Fail
<1>4. forwards' \in 0..MaxForwards /\ restarts' \in 0..MaxRestarts
  BY DEF CountTypes
<1> QED BY <1>1, <1>2, <1>3, <1>4 DEF CountTypes

(* One node goes to state q and sends nothing. *)
LEMMA SilentNode ==
    ASSUME Inv, NEW n \in Nodes, NEW q, node' = [node EXCEPT ![n] = q],
           Calm(n, q), Steady(n, q), Silent
    PROVE  Inv' /\ StableStep
<1>1. CalmMsgs
  BY OldMsgs DEF CalmMsgs, Silent
<1>2. CountTypes' /\ checks' = checks /\ merges' = merges
  BY NodeFacts, Counted DEF Silent
<1> QED BY <1>1, <1>2, OneNode

-----------------------------------------------------------------------------
(* The steps of one node.                                                  *)

(* A new private group changes the group and what depends on it. *)
LEMMA NewGroupFields ==
    ASSUME NEW n \in Nodes, NEW y \in NodeRecords(Names), Private \in Names
    PROVE  LET z == NewPrivateGroup(n, y)
           IN  /\ z \in NodeRecords(Names)
               /\ z.state = y.state /\ z.timer = y.timer /\ z.set = y.set /\ z.max = y.max
               /\ z.gp = y.gp /\ z.inv = y.inv /\ z.merge = "none" /\ z.group = Private
               /\ z.updates = y.updates
<1> DEFINE c == IF y.check = "none" THEN "queued" ELSE y.check
           z == [y EXCEPT !.group = Private, !.gen = Private, !.coord = n, !.up = {},
                          !.merge = "none", !.timeout = FALSE, !.check = c]
<1>1. c \in {"none", "queued", "running"}
  BY DEF NodeRecords
<1>2. NewPrivateGroup(n, y) = z
  BY DEF NewPrivateGroup, NodeRecords
<1>3. z \in NodeRecords(Names)
  <2> HIDE DEF c
  <2> QED BY <1>1 DEF NodeRecords
<1>4. /\ z.state = y.state /\ z.timer = y.timer /\ z.set = y.set /\ z.max = y.max
      /\ z.gp = y.gp /\ z.inv = y.inv /\ z.merge = "none" /\ z.group = Private
      /\ z.updates = y.updates
  BY DEF NodeRecords
<1> QED BY <1>2, <1>3, <1>4

(* recovery() does nothing more to a claim than dropping it. *)
LEMMA RecoveryCalm ==
    ASSUME Inv, NEW n \in Nodes, NEW q, Calm(n, q), Steady(n, q), q.updates = node[n].updates,
           NEW t \in {"timer", "dispatch", "client"}
    PROVE  Calm(n, Recovery(n, q, t)) /\ Steady(n, Recovery(n, q, t))
<1> DEFINE p == Recovery(n, q, t)
           w == [q EXCEPT !.state = "Inactive", !.waiting = @ \cup {t}]
           z == NewPrivateGroup(n, [q EXCEPT !.state = "Inactive"])
<1>1. q \in NodeRecords(Names) /\ Private \in Names /\ Knows(q)
  BY DEF Calm, Names, Private, Inv, TypeInv
<1>2. /\ w \in NodeRecords(Names) /\ w.state = "Inactive"
      /\ w.timer = q.timer /\ w.set = q.set /\ w.max = q.max /\ w.merge = q.merge
      /\ w.gp = q.gp /\ w.inv = q.inv /\ w.group = q.group /\ w.coord = q.coord
  BY <1>1 DEF NodeRecords
<1>3. /\ z \in NodeRecords(Names) /\ z.state = "Inactive"
      /\ z.timer = q.timer /\ z.set = q.set /\ z.max = q.max /\ z.merge = "none"
      /\ z.gp = q.gp /\ z.inv = q.inv /\ z.group = Private
  <2> DEFINE y == [q EXCEPT !.state = "Inactive"]
  <2>1. y \in NodeRecords(Names) /\ y.state = "Inactive"
        /\ y.timer = q.timer /\ y.set = q.set /\ y.max = q.max
        /\ y.gp = q.gp /\ y.inv = q.inv
    BY <1>1 DEF NodeRecords
  <2> HIDE DEF y
  <2>2. /\ NewPrivateGroup(n, y) \in NodeRecords(Names)
        /\ NewPrivateGroup(n, y).state = y.state /\ NewPrivateGroup(n, y).timer = y.timer
        /\ NewPrivateGroup(n, y).set = y.set /\ NewPrivateGroup(n, y).max = y.max
        /\ NewPrivateGroup(n, y).gp = y.gp /\ NewPrivateGroup(n, y).inv = y.inv
        /\ NewPrivateGroup(n, y).merge = "none" /\ NewPrivateGroup(n, y).group = Private
        /\ NewPrivateGroup(n, y).updates = y.updates
    BY <1>1, <2>1, NewGroupFields
  <2> QED BY <2>1, <2>2 DEF y
<1>4. Calm(n, w) /\ Steady(n, w)
  <2> HIDE DEF w
  <2>1. Knows(w)
    BY <1>1, <1>2 DEF Knows
  <2>2. \A g \in Nat \ {Private}, c \in Nodes : NodeClaims(n, w, g, c) => NodeClaims(n, q, g, c)
    BY <1>2 DEF NodeClaims
  <2>3. Steady(n, w)
    BY <1>2 DEF Steady, Pending
  <2> QED BY <1>2, <2>1, <2>2, <2>3 DEF Calm
<1>5. ASSUME q.updates = 0 PROVE Calm(n, z) /\ Steady(n, z)
  <2> HIDE DEF z
  <2>1. Knows(z)
    BY <1>1, <1>3 DEF Knows
  <2>2. \A g \in Nat \ {Private}, c \in Nodes : NodeClaims(n, z, g, c) => NodeClaims(n, q, g, c)
    BY <1>3 DEF NodeClaims
  <2>3. Steady(n, z)
    BY <1>3, <1>5 DEF Steady, Pending
  <2> QED BY <1>3, <2>1, <2>2, <2>3 DEF Calm
<1>6. p = IF q.updates = 0 THEN z ELSE w
  BY DEF Recovery
<1> QED BY <1>4, <1>5, <1>6

(* A node that stays in its group, whatever else of it changes. *)
LEMMA SameGroup ==
    ASSUME Inv, NEW n \in Nodes, NEW q \in NodeRecords(Names), Knows(q),
           q.group = node[n].group, q.coord = node[n].coord,
           q.inv = node[n].inv \/ q.inv = {},
           q.timer \in {"merge", "mergewait"} =>
               node[n].timer \in {"merge", "mergewait"} /\ q.gp = node[n].gp
    PROVE  Calm(n, q) /\ ((Pending(q) => Pending(node[n])) => Steady(n, q))
<1>1. \A g \in Nat \ {Private}, c \in Nodes : NodeClaims(n, q, g, c) => NodeClaims(n, node[n], g, c)
  BY DEF NodeClaims
<1>2. \A g \in Nat \ {Private}, c \in Nodes : NodeClaims(n, q, g, c) => Claim(g, c)
  BY <1>1 DEF Claim
<1> QED BY <1>2 DEF Calm, Steady

-----------------------------------------------------------------------------
(* check().                                                                *)

(* CheckStart keeps the invariant. *)
LEMMA CheckStartStep ==
    ASSUME Inv, NEW n \in Nodes, CheckStart(n), UNCHANGED bounds
    PROVE  Inv' /\ StableStep
<1>0. /\ node \in [Nodes -> NodeRecords(Names)] /\ node[n] \in NodeRecords(Names)
      /\ Knows(node[n]) /\ Private \in Names /\ merges \in Nat /\ CountTypes
  BY NodeFacts
<1>1. PICK dead \in SUBSET node[n].up :
        LET r == [node[n] EXCEPT !.up = @ \ dead]
        IN  /\ node' = [node EXCEPT ![n] =
                   IF dead # {} /\ Cardinality(r.up) < N \div 2
                   THEN Recovery(n, [r EXCEPT !.check = "none"], "timer")
                   ELSE [r EXCEPT !.check = "running", !.timer = "poll",
                                  !.todo = Nodes \ {n}]]
            /\ IF dead = {} THEN UNCHANGED failures ELSE Fail
  BY DEF CheckStart
<1> DEFINE r == [node[n] EXCEPT !.up = @ \ dead]
           a == [r EXCEPT !.check = "none"]
           b == [r EXCEPT !.check = "running", !.timer = "poll", !.todo = Nodes \ {n}]
<1>2. checks < MaxChecks /\ checks' = checks + 1 /\ checks \in Nat
      /\ UNCHANGED <<msgs, merges, forwards, restarts>> /\ (failures' = failures \/ Fail)
  BY <1>0, <1>1 DEF CheckStart, CountTypes
<1>3. CountTypes'
  BY <1>0, <1>2, Counted
<1>4. CalmMsgs
  BY <1>2, OldMsgs DEF CalmMsgs
<1>5. CASE dead # {} /\ Cardinality(r.up) < N \div 2
  <2>0. a \in NodeRecords(Names)
    BY <1>0 DEF NodeRecords
  <2>1. a.group = node[n].group /\ a.coord = node[n].coord /\ a.inv = node[n].inv
        /\ a.timer = node[n].timer /\ a.gp = node[n].gp /\ a.updates = node[n].updates
        /\ a.set = node[n].set /\ a.max = node[n].max /\ a.state = node[n].state
        /\ a.merge = node[n].merge
    BY <1>0 DEF NodeRecords
  <2> HIDE DEF a
  <2>2. Calm(n, a) /\ Steady(n, a)
    <3>1. Knows(a) /\ (Pending(a) => Pending(node[n]))
      BY <1>0, <2>1 DEF Knows, Pending
    <3> QED BY <2>0, <2>1, <3>1, SameGroup
  <2>3. Calm(n, Recovery(n, a, "timer")) /\ Steady(n, Recovery(n, a, "timer"))
    BY <2>1, <2>2, RecoveryCalm
  <2>4. node' = [node EXCEPT ![n] = Recovery(n, a, "timer")]
    BY <1>1, <1>5 DEF a
  <2> QED BY <1>2, <1>3, <1>4, <2>3, <2>4, OneNode
<1>6. CASE ~(dead # {} /\ Cardinality(r.up) < N \div 2)
  <2>1. b \in NodeRecords(Names) /\ Knows(b) /\ b.timer = "poll"
        /\ b.group = node[n].group /\ b.coord = node[n].coord /\ b.inv = node[n].inv
    BY <1>0, ZenonT(40) DEF NodeRecords, Knows
  <2>2. node' = [node EXCEPT ![n] = b]
    BY <1>0, <1>1, <1>6
  <2> HIDE DEF b
  <2>3. Calm(n, b)
    BY <2>1, SameGroup
  <2>4. TypeInv' /\ ClaimInv' /\ ServeInv'
    BY <1>2, <1>3, <1>4, <2>2, <2>3, OneCalmNode
  <2>5. node'[n] = b /\ \A p \in Nodes \ {n} : node'[p] = node[p]
    BY <1>0, <2>2
  <2>6. StableStep
    BY <2>1, <2>5 DEF StableStep
  <2>7. MergeInv'
    <3> DEFINE S == CheckingNodes
               T == CheckingNodes'
    <3>1. T \subseteq S \cup {n} /\ S \in SUBSET Nodes /\ T \in SUBSET Nodes
      BY <2>5 DEF CheckingNodes
    <3>2. Cardinality(S \cup {n}) <= Cardinality(S) + 1 /\ IsFiniteSet(S \cup {n})
          /\ Cardinality(S) \in Nat
      BY <3>1, NodeSets, FS_AddElement, FS_CardinalityType
    <3>3. Cardinality(T) <= Cardinality(S \cup {n}) /\ Cardinality(T) \in Nat
          /\ Cardinality(S \cup {n}) \in Nat
      BY <3>1, <3>2, FS_Subset, FS_CardinalityType
    <3>4. merges + Cardinality(S) <= checks + 1
      BY DEF Inv, MergeInv
    <3>5. merges' + Cardinality(T) <= checks' + 1
      <4> HIDE DEF S, T
      <4> QED BY <1>0, <1>2, <3>2, <3>3, <3>4
    <3> QED BY <3>5 DEF MergeInv
  <2> QED BY <2>4, <2>6, <2>7 DEF Inv
<1> QED BY <1>5, <1>6

(* A node that answers its own timer: the group and the threads dispatching *)
(* an invitation are left alone. *)
LEMMA SilentStep ==
    ASSUME Inv, NEW n \in Nodes, NEW q \in NodeRecords(Names), node' = [node EXCEPT ![n] = q],
           Silent, Knows(q), Pending(q) => Pending(node[n]),
           q.group = node[n].group, q.coord = node[n].coord,
           q.inv = node[n].inv \/ q.inv = {},
           q.timer \in {"merge", "mergewait"} =>
               node[n].timer \in {"merge", "mergewait"} /\ q.gp = node[n].gp
    PROVE  Inv' /\ StableStep
BY SameGroup, SilentNode

(* CheckCall keeps the invariant. *)
LEMMA CheckCallStep ==
    ASSUME Inv, NEW n \in Nodes, CheckCall(n), UNCHANGED bounds
    PROVE  Inv' /\ StableStep
<1>0. /\ node \in [Nodes -> NodeRecords(Names)] /\ node[n] \in NodeRecords(Names)
      /\ Knows(node[n]) /\ Private \in Names /\ merges \in Nat /\ CountTypes
  BY NodeFacts
<1>1. PICK m \in node[n].todo :
        \/ /\ node' = [node EXCEPT ![n].todo = @ \ {m},
                 ![n].found = IF areYouCoordinator(m) THEN @ \cup {m} ELSE @]
           /\ UNCHANGED failures
        \/ /\ node' = [node EXCEPT ![n].todo = @ \ {m}]
           /\ Fail
  BY DEF CheckCall
<1>2. Silent
  BY <1>1 DEF CheckCall, Silent
<1>3. node[n].timer = "poll" /\ m \in Nodes
  BY <1>0 DEF CheckCall, NodeRecords
<1>4. ASSUME NEW S \in SUBSET Nodes, node' = [node EXCEPT ![n].todo = @ \ {m}, ![n].found = S]
      PROVE  Inv' /\ StableStep
  <2> DEFINE q == [node[n] EXCEPT !.todo = @ \ {m}, !.found = S]
  <2>1. node' = [node EXCEPT ![n] = q]
    BY <1>0, <1>4
  <2>2. q \in NodeRecords(Names) /\ Knows(q) /\ (Pending(q) => Pending(node[n]))
        /\ q.group = node[n].group /\ q.coord = node[n].coord /\ q.inv = node[n].inv
        /\ q.timer = "poll"
    BY <1>0, <1>3, ZenonT(40) DEF NodeRecords, Knows, Pending
  <2> HIDE DEF q
  <2> QED BY <1>2, <2>1, <2>2, SilentStep
<1>5. node[n].found \in SUBSET Nodes /\ node[n].found \cup {m} \in SUBSET Nodes
  BY <1>0, <1>3 DEF NodeRecords
<1>6. \E S \in SUBSET Nodes : node' = [node EXCEPT ![n].todo = @ \ {m}, ![n].found = S]
  <2>1. CASE node' = [node EXCEPT ![n].todo = @ \ {m},
                   ![n].found = IF areYouCoordinator(m) THEN @ \cup {m} ELSE @]
    <3> DEFINE S == IF areYouCoordinator(m) THEN node[n].found \cup {m} ELSE node[n].found
    <3>1. S \in SUBSET Nodes
      BY <1>5
    <3> QED BY <1>0, <2>1, <3>1
  <2>2. CASE node' = [node EXCEPT ![n].todo = @ \ {m}]
    <3>1. [node[n] EXCEPT !.todo = @ \ {m}] =
              [node[n] EXCEPT !.todo = @ \ {m}, !.found = node[n].found]
      BY <1>0 DEF NodeRecords
    <3>2. node' = [node EXCEPT ![n].todo = @ \ {m}, ![n].found = node[n].found]
      BY <1>0, <2>2, <3>1
    <3> QED BY <1>5, <3>2
  <2> QED BY <1>1, <2>1, <2>2
<1> QED BY <1>4, <1>6

(* CheckEnd keeps the invariant. *)
LEMMA CheckEndStep ==
    ASSUME Inv, NEW n \in Nodes, CheckEnd(n), UNCHANGED bounds
    PROVE  Inv' /\ StableStep
<1>0. /\ node \in [Nodes -> NodeRecords(Names)] /\ node[n] \in NodeRecords(Names)
      /\ Knows(node[n]) /\ Private \in Names /\ merges \in Nat /\ CountTypes
  BY NodeFacts
<1> DEFINE r == [node[n] EXCEPT !.timer = "idle"]
           q == IF Busy(r) \/ r.coord # n THEN [r EXCEPT !.check = "none", !.found = {}]
                ELSE IF r.found = {} THEN [r EXCEPT !.check = "queued"]
                ELSE [r EXCEPT !.check = "none", !.merge = "queued"]
<1>1. Silent /\ node' = [node EXCEPT ![n] = q] /\ node[n].timer = "poll"
  BY DEF CheckEnd, Silent
<1>2. /\ [r EXCEPT !.check = "none", !.found = {}] \in NodeRecords(Names)
      /\ [r EXCEPT !.check = "queued"] \in NodeRecords(Names)
      /\ [r EXCEPT !.check = "none", !.merge = "queued"] \in NodeRecords(Names)
  BY <1>0, ZenonT(40) DEF NodeRecords
<1>3. q \in NodeRecords(Names)
  BY <1>2
<1>4. Knows(q) /\ Pending(node[n])
      /\ q.group = node[n].group /\ q.coord = node[n].coord /\ q.inv = node[n].inv
      /\ q.timer = "idle"
  BY <1>0, <1>1 DEF NodeRecords, Knows, Pending
<1> HIDE DEF q
<1> QED BY <1>1, <1>3, <1>4, SilentStep

-----------------------------------------------------------------------------
(* merge().                                                                *)

(* A group that is claimed exists. *)
LEMMA ClaimedExists ==
    ASSUME Inv, NEW g, NEW c, Claim(g, c)
    PROVE  g \in Names
<1>1. CASE \E p \in Nodes : NodeClaims(p, node[p], g, c)
  <2>1. PICK p \in Nodes : NodeClaims(p, node[p], g, c)
    BY <1>1
  <2>2. /\ node[p].group \in Names /\ node[p].gp \in Names
        /\ \A v \in node[p].inv : v.group \in Names
    BY NodeFacts DEF NodeRecords
  <2> QED BY <2>1, <2>2 DEF NodeClaims
<1>2. CASE \E m \in msgs : m.type = "invitation" /\ m.group = g /\ m.from = c
  <2>1. PICK m \in msgs : m.type = "invitation" /\ m.group = g
    BY <1>2
  <2>2. m \in Messages(Names)
    BY OldMsgs
  <2> QED BY <2>1, <2>2 DEF Messages
<1> QED BY <1>1, <1>2 DEF Claim

(* MergeFires keeps the invariant: its group has a new name. *)
LEMMA MergeFiresStep ==
    ASSUME Inv, NEW n \in Nodes, MergeFires(n), UNCHANGED bounds
    PROVE  Inv' /\ StableStep
<1>0. /\ node \in [Nodes -> NodeRecords(Names)] /\ node[n] \in NodeRecords(Names)
      /\ Knows(node[n]) /\ Private \in Names /\ merges \in Nat /\ CountTypes
  BY NodeFacts
<1> DEFINE q == [node[n] EXCEPT !.merge = "fired", !.timer = "merge", !.gp = merges + 1]
<1>1. /\ node' = [node EXCEPT ![n] = q] /\ merges' = merges + 1
      /\ UNCHANGED <<msgs, failures, checks, forwards, restarts, bounds>>
      /\ node[n].timer = "idle" /\ node[n].merge = "queued"
  BY <1>0 DEF MergeFires, TimerIdle
<1>2. node'[n] = q /\ \A p \in Nodes \ {n} : node'[p] = node[p]
  BY <1>0, <1>1
<1>3. /\ q.group = node[n].group /\ q.coord = node[n].coord /\ q.inv = node[n].inv
      /\ q.timer = "merge" /\ q.merge = "fired" /\ q.gp = merges + 1
      /\ q.state = node[n].state /\ q.max = node[n].max
  BY <1>0 DEF NodeRecords
<1>4. Names \subseteq Names' /\ merges + 1 \in Names' /\ merges + 1 \notin Names
  BY <1>0, <1>1 DEF Names
<1>5. TypeInv'
  <2>1. ASSUME NEW p \in Nodes PROVE node[p] \in NodeRecords(Names')
    BY <1>0, <1>4 DEF NodeRecords
  <2>2. q \in NodeRecords(Names')
    <3>1. ASSUME NEW G, NEW w \in G, NEW o \in NodeRecords(G)
          PROVE  [o EXCEPT !.merge = "fired", !.timer = "merge", !.gp = w] \in NodeRecords(G)
      BY <3>1, ZenonT(40) DEF NodeRecords
    <3> QED BY <1>4, <2>1, <3>1
  <2>3. node' \in [Nodes -> NodeRecords(Names')]
    <3> HIDE DEF q
    <3> QED BY <1>0, <1>1, <2>1, <2>2
  <2>4. msgs' \subseteq Messages(Names')
    <3>1. Messages(Names) \subseteq Messages(Names')
      BY <1>4 DEF Messages
    <3> QED BY <1>1, <3>1 DEF Inv, TypeInv
  <2>5. CountTypes'
    BY <1>0, <1>1, Counted
  <2> QED BY <1>0, <1>1, <2>3, <2>4, <2>5 DEF TypeInv, CountTypes
<1>6. ASSUME NEW g \in Nat, NEW c, Claim(g, c)'
      PROVE  Claim(g, c) \/ (g = merges + 1 /\ c = n)
  <2>1. CASE \E p \in Nodes : NodeClaims(p, node'[p], g, c)
    <3>1. PICK p \in Nodes : NodeClaims(p, node'[p], g, c)
      BY <2>1
    <3>2. CASE p # n
      BY <1>2, <3>1, <3>2 DEF Claim
    <3>3. CASE p = n
      <4> HIDE DEF q
      <4>1. NodeClaims(n, node[n], g, c) \/ (g = merges + 1 /\ c = n)
        BY <1>2, <1>3, <3>1, <3>3 DEF NodeClaims
      <4> QED BY <4>1 DEF Claim
    <3> QED BY <3>2, <3>3
  <2>2. CASE \E m \in msgs' : m.type = "invitation" /\ m.group = g /\ m.from = c
    BY <1>1, <2>2 DEF Claim
  <2> QED BY <1>6, <2>1, <2>2 DEF Claim
<1>7. ClaimInv'
  <2> SUFFICES ASSUME NEW g \in Nat \ {Private}, NEW c \in Nodes, NEW d \in Nodes,
                      Claim(g, c)', Claim(g, d)'
               PROVE  c = d
    BY DEF ClaimInv
  <2>1. CASE g = merges + 1
    BY <1>4, <1>6, <2>1, ClaimedExists
  <2>2. CASE g # merges + 1
    BY <1>6, <2>2 DEF Inv, ClaimInv
  <2> QED BY <2>1, <2>2
<1>8. ServeInv'
  <2> HIDE DEF q
  <2>1. Knows(q)
    BY <1>0, <1>3 DEF Knows
  <2> QED BY <1>2, <2>1 DEF Inv, ServeInv
<1>9. StableStep
  <2> HIDE DEF q
  <2> QED BY <1>2, <1>3 DEF StableStep
<1>10. MergeInv'
  <2> DEFINE S == CheckingNodes
             T == CheckingNodes'
  <2>1. n \in S /\ T \subseteq S \ {n} /\ S \in SUBSET Nodes /\ S \ {n} \in SUBSET Nodes
        /\ T \in SUBSET Nodes
    <3>1. Pending(node[n]) /\ ~Pending(node'[n])
      BY <1>1, <1>2, <1>3 DEF Pending
    <3> QED BY <1>2, <3>1 DEF CheckingNodes
  <2>2. Cardinality(S \ {n}) = Cardinality(S) - 1 /\ IsFiniteSet(S \ {n})
        /\ Cardinality(S) \in Nat
    BY <2>1, NodeSets, FS_RemoveElement, FS_CardinalityType
  <2>3. Cardinality(T) <= Cardinality(S \ {n}) /\ Cardinality(T) \in Nat
        /\ Cardinality(S \ {n}) \in Nat
    BY <2>1, <2>2, FS_Subset, NodeSets, FS_CardinalityType
  <2>4. merges + Cardinality(S) <= checks + 1 /\ checks \in Nat
    BY <1>0 DEF Inv, MergeInv, CountTypes
  <2>5. merges' + Cardinality(T) <= checks' + 1
    <3> HIDE DEF S, T
    <3> QED BY <1>0, <1>1, <2>2, <2>3, <2>4
  <2> QED BY <2>5 DEF MergeInv
<1> QED BY <1>5, <1>7, <1>8, <1>9, <1>10 DEF Inv

(* A new group is the one its merge has claimed. *)
LEMMA NewGroupStep ==
    ASSUME Inv, NEW n \in Nodes, NEW r \in NodeRecords(Names), NewGroup(n, r),
           node[n].timer \in {"merge", "mergewait"}, r.gp = node[n].gp, r.inv = node[n].inv,
           Knows(r), r.merge \in {"none", node[n].merge}, node[n].updates = 0,
           UNCHANGED <<merges, checks, forwards, restarts, bounds>>
    PROVE  Inv' /\ StableStep
<1>0. Private \in Names /\ CountTypes
  BY NodeFacts
<1> DEFINE q == [r EXCEPT !.timer = "idle", !.group = r.gp, !.gp = Private, !.coord = n,
                          !.up = {}, !.found = {}, !.mc = TRUE]
<1>1. /\ q \in NodeRecords(Names) /\ q.group = r.gp /\ q.coord = n /\ q.inv = r.inv
      /\ q.timer = "idle" /\ q.state = r.state /\ q.max = r.max /\ q.merge = r.merge
  BY <1>0, ZenonT(40) DEF NodeRecords
<1>2. node' = [node EXCEPT ![n] = q]
  BY DEF NewGroup
<1>3. \A g \in Nat \ {Private}, c \in Nodes : NodeClaims(n, q, g, c) => NodeClaims(n, node[n], g, c)
  <2> HIDE DEF q
  <2> QED BY <1>1 DEF NodeClaims
<1>4. Calm(n, q) /\ Steady(n, q)
  <2> HIDE DEF q
  <2>1. Knows(q)
    BY <1>1 DEF Knows
  <2>2. \A g \in Nat \ {Private}, c \in Nodes : NodeClaims(n, q, g, c) => Claim(g, c)
    BY <1>3 DEF Claim
  <2>3. Steady(n, q)
    BY <1>1 DEF Steady, Pending
  <2> QED BY <1>1, <2>1, <2>2, <2>3 DEF Calm
<1>5. PICK lost \in SUBSET (r.found \cup r.up) :
           /\ msgs' = msgs \cup Invitations(n, r.gp, (r.found \cup r.up) \ lost)
           /\ IF lost = {} THEN UNCHANGED failures ELSE Fail
  BY DEF NewGroup
<1>6. Claim(r.gp, n)
  BY DEF Claim, NodeClaims
<1>7. CalmMsgs
  <2>1. r.found \cup r.up \subseteq Nodes /\ r.gp \in Names
    BY DEF NodeRecords
  <2>2. ASSUME NEW m \in Invitations(n, r.gp, (r.found \cup r.up) \ lost)
        PROVE  m \in Messages(Names) /\ m.group = r.gp /\ m.from = n
    BY <2>1 DEF Invitations, Messages
  <2> QED BY <1>5, <1>6, <2>2, OldMsgs DEF CalmMsgs
<1>8. CountTypes'
  BY <1>0, <1>5, Counted
<1> HIDE DEF q
<1> QED BY <1>2, <1>4, <1>7, <1>8, OneNode

(* MergeBegins keeps the invariant. *)
LEMMA MergeBeginsStep ==
    ASSUME Inv, NEW n \in Nodes, MergeBegins(n), UNCHANGED bounds
    PROVE  Inv' /\ StableStep
<1>0. /\ node \in [Nodes -> NodeRecords(Names)] /\ node[n] \in NodeRecords(Names)
      /\ Knows(node[n]) /\ Private \in Names /\ merges \in Nat /\ CountTypes
  BY NodeFacts
<1> DEFINE r == [node[n] EXCEPT !.merge = "none"]
<1>1. /\ r \in NodeRecords(Names) /\ r.group = node[n].group /\ r.coord = node[n].coord
      /\ r.inv = node[n].inv /\ r.gp = node[n].gp /\ r.timer = node[n].timer
      /\ r.updates = node[n].updates /\ r.max = node[n].max /\ r.state = node[n].state
      /\ r.merge = "none" /\ r.timer = "merge"
  BY <1>0 DEF NodeRecords, MergeBegins
<1>2. UNCHANGED <<merges, checks, forwards, restarts, bounds>>
  BY DEF MergeBegins
<1>3. CASE Busy(r)
  <2> DEFINE q == [r EXCEPT !.timer = "idle", !.found = {}, !.gp = Private]
  <2>1. node' = [node EXCEPT ![n] = q] /\ Silent
    BY <1>3 DEF MergeBegins, Silent
  <2> HIDE DEF r
  <2>2. /\ q \in NodeRecords(Names) /\ q.timer = "idle" /\ q.state = r.state
        /\ q.max = r.max /\ q.merge = "none" /\ q.group = r.group /\ q.coord = r.coord
        /\ q.inv = r.inv
    BY <1>0, <1>1, ZenonT(40) DEF NodeRecords
  <2> HIDE DEF q
  <2>3. Knows(q) /\ ~Pending(q)
    BY <1>0, <1>1, <2>2 DEF Knows, Pending
  <2> QED BY <1>1, <2>1, <2>2, <2>3, SilentStep
<1>4. CASE ~Busy(r) /\ r.updates > 0
  <2> DEFINE q == [r EXCEPT !.timer = "mergewait", !.state = "Election"]
  <2>1. node' = [node EXCEPT ![n] = q] /\ Silent
    BY <1>4 DEF MergeBegins, Silent
  <2> HIDE DEF r
  <2>2. /\ q \in NodeRecords(Names) /\ q.timer = "mergewait" /\ q.state = "Election"
        /\ q.max = r.max /\ q.merge = "none" /\ q.group = r.group /\ q.coord = r.coord
        /\ q.inv = r.inv /\ q.gp = r.gp
    BY <1>0, <1>1 DEF NodeRecords
  <2> HIDE DEF q
  <2>3. Knows(q) /\ ~Pending(q)
    BY <1>0, <1>1, <2>2 DEF Knows, Pending
  <2> QED BY <1>1, <2>1, <2>2, <2>3, SilentStep
<1>5. CASE ~Busy(r) /\ ~(r.updates > 0)
  <2> DEFINE q == [r EXCEPT !.state = "Election"]
  <2>1. NewGroup(n, q)
    BY <1>5 DEF MergeBegins
  <2>2. node[n].updates = 0
    BY <1>0, <1>1, <1>5 DEF NodeRecords
  <2> HIDE DEF r
  <2>3. /\ q \in NodeRecords(Names) /\ q.state = "Election" /\ q.merge = "none"
        /\ q.inv = r.inv /\ q.gp = r.gp /\ q.timer = r.timer /\ q.max = r.max
    BY <1>1 DEF NodeRecords
  <2> HIDE DEF q
  <2>4. Knows(q)
    BY <1>1, <2>3 DEF Knows
  <2> QED BY <1>1, <1>2, <2>1, <2>2, <2>3, <2>4, NewGroupStep
<1> QED BY <1>3, <1>4, <1>5

(* MergeResumes keeps the invariant. *)
LEMMA MergeResumesStep ==
    ASSUME Inv, NEW n \in Nodes, MergeResumes(n), UNCHANGED bounds
    PROVE  Inv' /\ StableStep
BY NodeFacts, NewGroupStep DEF MergeResumes

-----------------------------------------------------------------------------
(* mergeContinue().                                                        *)

(* What a step of the timer thread that gives up the group does. *)
LEMMA GivesUpCalm ==
    ASSUME Inv, NEW n \in Nodes, NEW r \in NodeRecords(Names), Knows(r),
           r.group = node[n].group, r.coord = node[n].coord, r.inv = node[n].inv,
           r.updates = node[n].updates, r.merge = node[n].merge
    PROVE  Calm(n, GivesUp(n, r)) /\ Steady(n, GivesUp(n, r))
<1> DEFINE q == [r EXCEPT !.timer = "idle", !.set = {}, !.todo = {}, !.gp = Private]
<1>0. Private \in Names
  BY NodeFacts
<1>1. /\ q \in NodeRecords(Names) /\ q.timer = "idle" /\ q.state = r.state /\ q.max = r.max
      /\ q.group = r.group /\ q.coord = r.coord /\ q.inv = r.inv /\ q.updates = r.updates
      /\ q.merge = r.merge
  BY <1>0 DEF NodeRecords
<1>2. GivesUp(n, r) = Recovery(n, q, "timer")
  BY DEF GivesUp
<1> HIDE DEF q
<1>3. Knows(q) /\ (Pending(q) => Pending(node[n]))
  BY <1>1 DEF Knows, Pending
<1>4. Calm(n, q) /\ Steady(n, q)
  BY <1>1, <1>3, SameGroup
<1> QED BY <1>1, <1>2, <1>4, RecoveryCalm

(* MergeContinues keeps the invariant. *)
LEMMA MergeContinuesStep ==
    ASSUME Inv, NEW n \in Nodes, MergeContinues(n), UNCHANGED bounds
    PROVE  Inv' /\ StableStep
<1>0. /\ node \in [Nodes -> NodeRecords(Names)] /\ node[n] \in NodeRecords(Names)
      /\ Knows(node[n]) /\ Private \in Names /\ merges \in Nat /\ CountTypes
  BY NodeFacts
<1> DEFINE r == [node[n] EXCEPT !.mc = FALSE, !.state = "Reorganization"]
           q == [r EXCEPT !.timer = "sync", !.set = r.up, !.gp = r.group]
<1>1. /\ r \in NodeRecords(Names) /\ r.group = node[n].group /\ r.coord = node[n].coord
      /\ r.inv = node[n].inv /\ r.timer = "idle" /\ r.state = "Reorganization"
      /\ r.updates = node[n].updates /\ r.merge = node[n].merge
  BY <1>0 DEF NodeRecords, MergeContinues, TimerIdle
<1>2. Silent
  BY DEF MergeContinues, Silent
<1>3. node' = [node EXCEPT ![n] = IF Enough(r) THEN q ELSE Recovery(n, r, "timer")]
  BY DEF MergeContinues
<1>4. CASE Enough(r)
  <2>1. /\ q \in NodeRecords(Names) /\ q.timer = "sync" /\ q.state = "Reorganization"
        /\ q.max = r.max /\ q.set = r.up
        /\ q.group = node[n].group /\ q.coord = node[n].coord /\ q.inv = node[n].inv
        /\ q.merge = node[n].merge
    <3> HIDE DEF r
    <3> QED BY <1>1 DEF NodeRecords
  <2>2. node' = [node EXCEPT ![n] = q]
    BY <1>3, <1>4
  <2> HIDE DEF q, r
  <2>3. Knows(q)
    BY <1>4, <2>1, NType DEF Knows, Enough
  <2>4. Pending(q) => Pending(node[n])
    BY <2>1 DEF Pending
  <2> QED BY <1>2, <2>1, <2>2, <2>3, <2>4, SilentStep
<1>5. CASE ~Enough(r)
  <2>1. node' = [node EXCEPT ![n] = Recovery(n, r, "timer")]
    BY <1>3, <1>5
  <2> HIDE DEF q, r
  <2>2. Knows(r) /\ (Pending(r) => Pending(node[n]))
    BY <1>1 DEF Knows, Pending
  <2>3. Calm(n, r) /\ Steady(n, r)
    BY <1>1, <2>2, SameGroup
  <2>4. Calm(n, Recovery(n, r, "timer")) /\ Steady(n, Recovery(n, r, "timer"))
    BY <1>1, <2>3, RecoveryCalm
  <2> QED BY <1>2, <2>1, <2>4, SilentNode
<1> QED BY <1>4, <1>5

(* Sync keeps the invariant. *)
LEMMA SyncStep ==
    ASSUME Inv, NEW n \in Nodes, Sync(n), UNCHANGED bounds
    PROVE  Inv' /\ StableStep
<1>0. /\ node \in [Nodes -> NodeRecords(Names)] /\ node[n] \in NodeRecords(Names)
      /\ Knows(node[n]) /\ Private \in Names /\ merges \in Nat /\ CountTypes
  BY NodeFacts
<1>1. Silent /\ node[n].timer = "sync"
  BY DEF Sync, Silent
<1>2. CASE node' = [node EXCEPT ![n] = GivesUp(n, @)]
  <2>1. Calm(n, GivesUp(n, node[n])) /\ Steady(n, GivesUp(n, node[n]))
    BY <1>0, GivesUpCalm
  <2> QED BY <1>0, <1>1, <1>2, <2>1, SilentNode
<1>3. CASE node' = [node EXCEPT ![n].timer = "init", ![n].todo = node[n].set,
                          ![n].max = Raise(@, GroupSize(node[n].set))]
  <2> DEFINE m == Raise(node[n].max, GroupSize(node[n].set))
             q == [node[n] EXCEPT !.timer = "init", !.todo = node[n].set, !.max = m]
  <2>1. node[n].set \in SUBSET Nodes /\ node[n].max \in 0..(N + 1)
    BY <1>0 DEF NodeRecords
  <2>2. Cardinality(node[n].set) \in 0..N
    BY <2>1, NodeSets
  <2>3. m \in 0..(N + 1) /\ m >= node[n].max /\ m >= GroupSize(node[n].set)
    BY <2>1, <2>2, NType DEF Raise, GroupSize
  <2>4. node[n].max >= N \/ Cardinality(node[n].set) = N - 1
    BY <1>0, <1>1 DEF Knows
  <2>5. m >= N
    <3> HIDE DEF m
    <3> QED BY <2>1, <2>2, <2>3, <2>4, NType DEF GroupSize
  <2> HIDE DEF m
  <2>6. /\ q \in NodeRecords(Names) /\ q.timer = "init" /\ q.max = m
        /\ q.group = node[n].group /\ q.coord = node[n].coord /\ q.inv = node[n].inv
        /\ q.merge = node[n].merge
    BY <1>0, <2>1, <2>3 DEF NodeRecords
  <2>7. node' = [node EXCEPT ![n] = q]
    BY <1>0, <1>3 DEF m
  <2> HIDE DEF q
  <2>8. Knows(q) /\ (Pending(q) => Pending(node[n]))
    BY <2>5, <2>6 DEF Knows, Pending
  <2> QED BY <1>1, <2>6, <2>7, <2>8, SilentStep
<1> QED BY <1>2, <1>3 DEF Sync

(* A state of node n that differs only in what no claim depends on. *)
Tame(n, r) ==
    /\ r \in NodeRecords(Names) /\ Knows(r)
    /\ r.group = node[n].group /\ r.coord = node[n].coord /\ r.inv = node[n].inv
    /\ r.updates = node[n].updates /\ r.merge = node[n].merge
    /\ r.timer = node[n].timer /\ r.gp = node[n].gp

(* InitMaster keeps the invariant. *)
LEMMA InitMasterStep ==
    ASSUME Inv, NEW n \in Nodes, InitMaster(n), UNCHANGED bounds
    PROVE  Inv' /\ StableStep
<1>0. /\ node \in [Nodes -> NodeRecords(Names)] /\ node[n] \in NodeRecords(Names)
      /\ Knows(node[n]) /\ Private \in Names /\ merges \in Nat /\ CountTypes
  BY NodeFacts
<1>1. Silent /\ node[n].timer = "init"
  BY DEF InitMaster, Silent
<1>2. PICK m \in node[n].todo :
       LET r == [node[n] EXCEPT !.todo = @ \ {m}]
       IN  \/ node' = [node EXCEPT ![n] =
                    IF ~checkObserverInit(m) THEN GivesUp(n, r)
                    ELSE IF r.todo = {} THEN [r EXCEPT !.timer = "ready", !.todo = r.set]
                    ELSE r]
           \/ node' = [node EXCEPT ![n] = GivesUp(n, r)]
  BY DEF InitMaster
<1> DEFINE r == [node[n] EXCEPT !.todo = @ \ {m}]
           q == [r EXCEPT !.timer = "ready", !.todo = r.set]
<1>3. /\ r \in NodeRecords(Names) /\ r.group = node[n].group /\ r.coord = node[n].coord
      /\ r.inv = node[n].inv /\ r.updates = node[n].updates /\ r.merge = node[n].merge
      /\ r.timer = "init" /\ r.max = node[n].max /\ r.state = node[n].state
  BY <1>0, <1>1 DEF NodeRecords
<1>4. \/ node' = [node EXCEPT ![n] = GivesUp(n, r)]
      \/ node' = [node EXCEPT ![n] = r]
      \/ node' = [node EXCEPT ![n] = q]
  BY <1>2
<1>5. /\ q \in NodeRecords(Names) /\ q.group = node[n].group /\ q.coord = node[n].coord
      /\ q.inv = node[n].inv /\ q.updates = node[n].updates /\ q.merge = node[n].merge
      /\ q.timer = "ready" /\ q.max = node[n].max /\ q.state = node[n].state
  <2> HIDE DEF r
  <2> QED BY <1>3 DEF NodeRecords
<1> HIDE DEF r, q
<1>6. Knows(r) /\ Knows(q) /\ (Pending(r) => Pending(node[n])) /\ (Pending(q) => Pending(node[n]))
  BY <1>0, <1>1, <1>3, <1>5 DEF Knows, Pending
<1>7. CASE node' = [node EXCEPT ![n] = GivesUp(n, r)]
  <2>1. Calm(n, GivesUp(n, r)) /\ Steady(n, GivesUp(n, r))
    BY <1>3, <1>6, GivesUpCalm
  <2> QED BY <1>1, <1>7, <2>1, SilentNode
<1>8. CASE node' = [node EXCEPT ![n] = r]
  BY <1>1, <1>3, <1>6, <1>8, SilentStep
<1>9. CASE node' = [node EXCEPT ![n] = q]
  BY <1>1, <1>5, <1>6, <1>9, SilentStep
<1> QED BY <1>4, <1>7, <1>8, <1>9

(* A tame state is calm. *)
LEMMA TameCalm ==
    ASSUME Inv, NEW n \in Nodes, NEW r, Tame(n, r)
    PROVE  Calm(n, r) /\ Steady(n, r)
<1>1. Pending(r) => Pending(node[n])
  BY DEF Tame, Pending
<1> QED BY <1>1, SameGroup DEF Tame

(* ready() is tame, whoever calls it. *)
LEMMA ReadyTame ==
    ASSUME Inv, NEW m \in Nodes, NEW n \in Nodes, NEW g \in Names, NEW x \in 0..(N + 1), x >= N
    PROVE  Tame(m, Ready(node[m], n, g, x)) /\ Tame(m, node[m])
<1> DEFINE r == node[m]
           y == Raise(r.max, x)
           c == IF r.check = "none" THEN "queued" ELSE r.check
           q == [r EXCEPT !.max = y, !.gen = g, !.state = "Normal", !.proxy = {n}, !.check = c]
<1>1. r \in NodeRecords(Names) /\ Knows(r)
  BY NodeFacts
<1>2. Tame(m, r)
  BY <1>1 DEF Tame
<1>3. y \in 0..(N + 1) /\ y >= x /\ y >= r.max /\ c \in {"none", "queued", "running"}
  <2>1. r.max \in 0..(N + 1) /\ r.check \in {"none", "queued", "running"}
    BY <1>1 DEF NodeRecords
  <2> QED BY <2>1, NType DEF Raise
<1>4. /\ q \in NodeRecords(Names) /\ q.group = r.group /\ q.coord = r.coord /\ q.inv = r.inv
      /\ q.updates = r.updates /\ q.merge = r.merge /\ q.timer = r.timer /\ q.gp = r.gp
      /\ q.max = y /\ q.set = r.set
  <2> HIDE DEF r, y, c
  <2> QED BY <1>1, <1>3, ZenonT(40) DEF NodeRecords
<1>5. y >= N /\ (r.max >= N => y >= N)
  <2>1. x \in Nat /\ y \in Nat /\ r.max \in Nat
    BY <1>1, <1>3 DEF NodeRecords
  <2> HIDE DEF r, y
  <2> QED BY <1>3, <2>1, NType
<1>6. Knows(q)
  <2> HIDE DEF q, y, r
  <2> QED BY <1>1, <1>4, <1>5 DEF Knows
<1>7. Tame(m, q)
  <2> HIDE DEF q, y
  <2> QED BY <1>4, <1>6 DEF Tame
<1>8. Ready(r, n, g, x) = q \/ Ready(r, n, g, x) = r
  BY <1>1 DEF Ready, NodeRecords
<1> HIDE DEF q
<1> QED BY <1>2, <1>7, <1>8

(* Two nodes take a step, one of them maybe the other. *)
LEMMA TwoNodes ==
    ASSUME Inv, NEW n \in Nodes, NEW m \in Nodes, NEW p, NEW q,
           node' = [node EXCEPT ![m] = p, ![n] = q],
           Calm(m, p), Steady(m, p), Calm(n, q), Steady(n, q), Silent
    PROVE  Inv' /\ StableStep
<1>0. node \in [Nodes -> NodeRecords(Names)] /\ CountTypes
  BY NodeFacts
<1>1. /\ DOMAIN node' = Nodes
      /\ node' = [u \in Nodes |-> node'[u]]
      /\ \A u \in Nodes : node'[u] = node[u] \/ (u = m /\ node'[u] = p) \/ (u = n /\ node'[u] = q)
  BY <1>0
<1>2. ASSUME NEW u \in Nodes PROVE Calm(u, node[u]) /\ Steady(u, node[u])
  <2>1. Calm(u, node[u])
    BY NodeFacts DEF Calm, Claim
  <2> QED BY <2>1 DEF Steady
<1>3. \A u \in Nodes : Calm(u, node'[u]) /\ Steady(u, node'[u])
  BY <1>1, <1>2
<1>4. CalmMsgs
  BY OldMsgs DEF CalmMsgs, Silent
<1>5. CountTypes' /\ checks' = checks /\ merges' = merges
  BY <1>0, Counted DEF Silent
<1>6. TypeInv' /\ ClaimInv' /\ ServeInv'
  BY <1>1, <1>3, <1>4, <1>5, CalmStep
<1>7. MergeInv'
  BY <1>3, <1>5, SteadyStep DEF Steady
<1>8. StableStep
  BY <1>3 DEF StableStep, Steady
<1> QED BY <1>6, <1>7, <1>8 DEF Inv

(* CallReady keeps the invariant. *)
LEMMA CallReadyStep ==
    ASSUME Inv, NEW n \in Nodes, CallReady(n), UNCHANGED bounds
    PROVE  Inv' /\ StableStep
<1>0. /\ node \in [Nodes -> NodeRecords(Names)] /\ node[n] \in NodeRecords(Names)
      /\ Knows(node[n]) /\ Private \in Names /\ merges \in Nat /\ CountTypes
  BY NodeFacts
<1>1. Silent /\ node[n].timer = "ready"
  BY DEF CallReady, Silent
<1>2. PICK m \in node[n].todo :
       LET told == Ready(node[m], n, node[n].gp, node[n].max)
       IN  \/ node' = [[node EXCEPT ![m] = told] EXCEPT ![n].todo = @ \ {m}]
           \/ \E r \in {told, node[m]} :
                   node' = [[node EXCEPT ![m] = r] EXCEPT ![n] = GivesUp(n, @)]
  BY DEF CallReady
<1> DEFINE told == Ready(node[m], n, node[n].gp, node[n].max)
<1>3. m \in Nodes /\ node[n].gp \in Names /\ node[n].max \in 0..(N + 1) /\ node[n].max >= N
  BY <1>0, <1>1 DEF NodeRecords, Knows
<1>4. Tame(m, told) /\ Tame(m, node[m]) /\ Tame(n, node[n])
  BY <1>3, ReadyTame, NodeFacts DEF Tame
<1> HIDE DEF told
<1>5. ASSUME NEW after, Tame(m, after),
             node' = [[node EXCEPT ![m] = after] EXCEPT ![n].todo = @ \ {m}]
      PROVE  Inv' /\ StableStep
  <2> DEFINE o == IF m = n THEN after ELSE node[n]
             q == [o EXCEPT !.todo = @ \ {m}]
  <2>1. Tame(n, o)
    BY <1>4, <1>5
  <2>2. node' = [node EXCEPT ![m] = after, ![n] = q]
    <3> DEFINE f == [node EXCEPT ![m] = after]
    <3>1. f[n] = o
      BY <1>0, <1>3
    <3>2. node' = [f EXCEPT ![n] = [f[n] EXCEPT !.todo = @ \ {m}]]
      BY <1>5
    <3> HIDE DEF o
    <3>3. node' = [f EXCEPT ![n] = q]
      BY <3>1, <3>2
    <3> HIDE DEF q
    <3> QED BY <3>3
  <2> HIDE DEF o
  <2>3. /\ q \in NodeRecords(Names) /\ q.group = o.group /\ q.coord = o.coord
        /\ q.inv = o.inv /\ q.updates = o.updates /\ q.merge = o.merge
        /\ q.timer = o.timer /\ q.gp = o.gp /\ q.max = o.max /\ q.set = o.set
        /\ q.state = o.state
    BY <2>1 DEF NodeRecords, Tame
  <2> HIDE DEF q
  <2>4. Tame(n, q)
    BY <2>1, <2>3 DEF Tame, Knows
  <2> QED BY <1>1, <1>3, <1>5, <2>2, <2>4, TameCalm, TwoNodes
<1>6. ASSUME NEW after, Tame(m, after),
             node' = [[node EXCEPT ![m] = after] EXCEPT ![n] = GivesUp(n, @)]
      PROVE  Inv' /\ StableStep
  <2> DEFINE o == IF m = n THEN after ELSE node[n]
  <2>1. Tame(n, o)
    BY <1>4, <1>6
  <2>2. node' = [node EXCEPT ![m] = after, ![n] = GivesUp(n, o)]
    <3> DEFINE f == [node EXCEPT ![m] = after]
    <3>1. f[n] = o
      BY <1>0, <1>3
    <3>2. node' = [f EXCEPT ![n] = GivesUp(n, f[n])]
      BY <1>6
    <3> HIDE DEF o
    <3>3. node' = [f EXCEPT ![n] = GivesUp(n, o)]
      BY <3>1, <3>2
    <3> QED BY <3>3
  <2> HIDE DEF o
  <2>3. Calm(n, GivesUp(n, o)) /\ Steady(n, GivesUp(n, o))
    BY <2>1, GivesUpCalm DEF Tame
  <2> QED BY <1>1, <1>3, <1>6, <2>2, <2>3, TameCalm, TwoNodes
<1> QED BY <1>2, <1>4, <1>5, <1>6 DEF told

(* MasterReady keeps the invariant. *)
LEMMA MasterReadyStep ==
    ASSUME Inv, NEW n \in Nodes, MasterReady(n), UNCHANGED bounds
    PROVE  Inv' /\ StableStep
<1>0. /\ node \in [Nodes -> NodeRecords(Names)] /\ node[n] \in NodeRecords(Names)
      /\ Knows(node[n]) /\ Private \in Names /\ merges \in Nat /\ CountTypes
  BY NodeFacts
<1> DEFINE q == [node[n] EXCEPT !.timer = "idle", !.set = {}, !.state = "Normal", !.proxy = {},
                     !.gen = node[n].gp, !.gp = Private, !.check = "queued"]
<1>1. Silent /\ node[n].timer = "ready" /\ node' = [node EXCEPT ![n] = q]
  BY DEF MasterReady, Silent
<1>2. /\ q \in NodeRecords(Names) /\ q.group = node[n].group /\ q.coord = node[n].coord
      /\ q.inv = node[n].inv /\ q.merge = node[n].merge /\ q.timer = "idle"
      /\ q.max = node[n].max
  BY <1>0, ZenonT(40) DEF NodeRecords
<1> HIDE DEF q
<1>3. Knows(q) /\ (Pending(q) => Pending(node[n]))
  BY <1>0, <1>1, <1>2 DEF Knows, Pending
<1> QED BY <1>1, <1>2, <1>3, SilentStep

-----------------------------------------------------------------------------
(* timeout(), and the other calls of recovery().                           *)

(* A thread gives up the group. *)
LEMMA RecoversStep ==
    ASSUME Inv, NEW n \in Nodes, NEW q \in NodeRecords(Names),
           NEW t \in {"timer", "dispatch", "client"},
           node' = [node EXCEPT ![n] = Recovery(n, q, t)], Silent,
           Knows(q), Pending(q) => Pending(node[n]),
           q.group = node[n].group, q.coord = node[n].coord, q.updates = node[n].updates,
           q.inv = node[n].inv \/ q.inv = {},
           q.timer \in {"merge", "mergewait"} =>
               node[n].timer \in {"merge", "mergewait"} /\ q.gp = node[n].gp
    PROVE  Inv' /\ StableStep
<1>1. Calm(n, q) /\ Steady(n, q)
  BY SameGroup
<1>2. Calm(n, Recovery(n, q, t)) /\ Steady(n, Recovery(n, q, t))
  BY <1>1, RecoveryCalm
<1> QED BY <1>2, SilentNode

(* The steps of timeout() keep the invariant. *)
LEMMA TimeoutStep ==
    ASSUME Inv, NEW n \in Nodes, UNCHANGED bounds,
           TimeoutStart(n) \/ TimeoutCall(n) \/ TimeoutRecovers(n)
    PROVE  Inv' /\ StableStep
<1>0. /\ node \in [Nodes -> NodeRecords(Names)] /\ node[n] \in NodeRecords(Names)
      /\ Knows(node[n]) /\ Private \in Names /\ merges \in Nat /\ CountTypes
  BY NodeFacts
<1>1. CASE TimeoutStart(n)
  <2> DEFINE q == [node[n] EXCEPT !.timer = "there", !.set = {node[n].coord},
                                  !.gp = node[n].group]
  <2>1. node' = [node EXCEPT ![n] = q] /\ Silent
    BY <1>0, <1>1 DEF TimeoutStart, Silent
  <2>2. /\ q \in NodeRecords(Names) /\ q.group = node[n].group /\ q.coord = node[n].coord
        /\ q.inv = node[n].inv /\ q.merge = node[n].merge /\ q.timer = "there"
        /\ q.max = node[n].max /\ q.state = node[n].state
    BY <1>0, ZenonT(40) DEF NodeRecords
  <2> HIDE DEF q
  <2>3. Knows(q) /\ (Pending(q) => Pending(node[n]))
    BY <1>0, <2>2 DEF Knows, Pending
  <2> QED BY <2>1, <2>2, <2>3, SilentStep
<1>2. CASE TimeoutCall(n)
  <2>1. PICK x \in {"idle", "lost"} :
          node' = [node EXCEPT ![n].set = {}, ![n].gp = Private, ![n].timer = x]
    BY <1>2 DEF TimeoutCall
  <2>2. Silent /\ node[n].timer = "there"
    BY <1>2 DEF TimeoutCall, Silent
  <2> DEFINE q == [node[n] EXCEPT !.set = {}, !.gp = Private, !.timer = x]
  <2>3. node' = [node EXCEPT ![n] = q]
    BY <1>0, <2>1
  <2>4. /\ q \in NodeRecords(Names) /\ q.group = node[n].group /\ q.coord = node[n].coord
        /\ q.inv = node[n].inv /\ q.merge = node[n].merge /\ q.timer = x
        /\ q.max = node[n].max /\ q.state = node[n].state
    BY <1>0, ZenonT(40) DEF NodeRecords
  <2> HIDE DEF q
  <2>5. Knows(q) /\ (Pending(q) => Pending(node[n]))
    BY <1>0, <2>4 DEF Knows, Pending
  <2> QED BY <2>2, <2>3, <2>4, <2>5, SilentStep
<1>3. CASE TimeoutRecovers(n)
  <2> DEFINE q == [node[n] EXCEPT !.timer = "idle"]
  <2>1. node' = [node EXCEPT ![n] = Recovery(n, q, "timer")] /\ Silent
    BY <1>3 DEF TimeoutRecovers, Silent
  <2>2. /\ q \in NodeRecords(Names) /\ q.group = node[n].group /\ q.coord = node[n].coord
        /\ q.inv = node[n].inv /\ q.merge = node[n].merge /\ q.timer = "idle"
        /\ q.max = node[n].max /\ q.state = node[n].state /\ q.updates = node[n].updates
    BY <1>0 DEF NodeRecords
  <2> HIDE DEF q
  <2>3. Knows(q) /\ (Pending(q) => Pending(node[n]))
    BY <1>0, <2>2 DEF Knows, Pending
  <2> QED BY <2>1, <2>2, <2>3, RecoversStep
<1> QED BY <1>1, <1>2, <1>3

-----------------------------------------------------------------------------
(* Invitations and accepts.                                                *)

(* To join a group a node copies a claim to it. *)
LEMMA JoinsStep ==
    ASSUME Inv, NEW n \in Nodes, NEW r \in NodeRecords(Names), NEW j \in Nodes, NEW g \in Names,
           Claim(g, j), Joins(n, r, j, g), Knows(r), Pending(r) => Pending(node[n]),
           r.timer = node[n].timer, r.gp = node[n].gp, node[n].updates = 0,
           UNCHANGED <<merges, checks, forwards, restarts, bounds>>
    PROVE  Inv' /\ StableStep
<1>0. CountTypes
  BY NodeFacts
<1> DEFINE i == {[pc |-> "accept", from |-> j, group |-> g]}
           q == [r EXCEPT !.coord = j, !.group = g, !.inv = i]
<1>1. node' = [node EXCEPT ![n] = q]
  BY DEF Joins
<1>2. i \in SUBSET [pc : {"wait", "accept", "failed"}, from : Nodes, group : Names]
      /\ \A v \in i : v.from = j /\ v.group = g
  OBVIOUS
<1> HIDE DEF i
<1>3. /\ q \in NodeRecords(Names) /\ q.group = g /\ q.coord = j /\ q.inv = i
      /\ q.timer = r.timer /\ q.gp = r.gp /\ q.state = r.state /\ q.max = r.max
      /\ q.set = r.set /\ q.merge = r.merge
  BY <1>2, ZenonT(40) DEF NodeRecords
<1> HIDE DEF q
<1>4. Calm(n, q) /\ Steady(n, q)
  <2>1. Knows(q)
    BY <1>3 DEF Knows
  <2>2. ASSUME NEW h \in Nat \ {Private}, NEW c \in Nodes, NodeClaims(n, q, h, c)
        PROVE  (h = g /\ c = j) \/ NodeClaims(n, node[n], h, c)
    BY <1>2, <1>3, <2>2 DEF NodeClaims
  <2>3. \A h \in Nat \ {Private}, c \in Nodes : NodeClaims(n, q, h, c) => Claim(h, c)
    BY <2>2 DEF Claim
  <2>4. Steady(n, q)
    BY <1>3 DEF Steady, Pending
  <2> QED BY <1>3, <2>1, <2>3, <2>4 DEF Calm
<1>5. PICK lost \in SUBSET r.up :
           /\ msgs' = (msgs \ {[type |-> "invitation", from |-> j, to |-> n, group |-> g]})
                      \cup (IF r.coord = n THEN Invitations(j, g, r.up \ lost) ELSE {})
           /\ failures' = failures \/ Fail
  BY DEF Joins
<1>6. CalmMsgs
  <2>1. r.up \subseteq Nodes
    BY DEF NodeRecords
  <2>2. ASSUME NEW m \in Invitations(j, g, r.up \ lost)
        PROVE  m \in Messages(Names) /\ m.group = g /\ m.from = j
    BY <2>1 DEF Invitations, Messages
  <2>3. \A m \in msgs' : m \in msgs \/ m \in Invitations(j, g, r.up \ lost)
    BY <1>5
  <2> QED BY <2>2, <2>3, OldMsgs DEF CalmMsgs
<1>7. CountTypes'
  BY <1>0, <1>5, Counted
<1> QED BY <1>1, <1>4, <1>6, <1>7, OneNode

(* Invitation keeps the invariant. *)
LEMMA InvitationStep ==
    ASSUME Inv, NEW n \in Nodes, Invitation(n), UNCHANGED bounds
    PROVE  Inv' /\ StableStep
<1>0. /\ node \in [Nodes -> NodeRecords(Names)] /\ node[n] \in NodeRecords(Names)
      /\ Knows(node[n]) /\ Private \in Names /\ merges \in Nat /\ CountTypes
  BY NodeFacts
<1> DEFINE f == IF node[n].merge = "queued" THEN {} ELSE node[n].found
           r == [node[n] EXCEPT !.merge = "none", !.state = "Election", !.found = f]
<1>1. PICK m \in msgs :
        /\ m.type = "invitation" /\ m.to = n /\ node[n].inv = {}
        /\ IF Busy(node[n]) \/ node[n].merge = "fired"
               THEN /\ msgs' = msgs \ {m}
                    /\ UNCHANGED <<node, failures>>
               ELSE IF r.updates > 0
               THEN /\ node' = [node EXCEPT ![n] =
                          [r EXCEPT !.inv = {[pc |-> "wait", from |-> m.from, group |-> m.group]}]]
                    /\ msgs' = msgs \ {m}
                    /\ UNCHANGED failures
               ELSE Joins(n, r, m.from, m.group)
  BY <1>0 DEF Invitation
<1>2. UNCHANGED <<merges, checks, forwards, restarts, bounds>>
  BY DEF Invitation
<1>3. m.from \in Nodes /\ m.group \in Names /\ Claim(m.group, m.from)
  <2>1. m \in Messages(Names)
    BY OldMsgs
  <2> QED BY <1>1, <2>1 DEF Messages, Claim
<1>4. /\ r \in NodeRecords(Names) /\ r.group = node[n].group /\ r.coord = node[n].coord
      /\ r.inv = node[n].inv /\ r.merge = "none" /\ r.timer = node[n].timer /\ r.gp = node[n].gp
      /\ r.max = node[n].max /\ r.state = "Election" /\ r.set = node[n].set
      /\ r.updates = node[n].updates
  <2>1. f \in SUBSET Nodes
    BY <1>0 DEF NodeRecords
  <2> HIDE DEF f
  <2> QED BY <1>0, <2>1 DEF NodeRecords
<1> HIDE DEF r
<1>5. Knows(r) /\ (Pending(r) => Pending(node[n]))
  BY <1>0, <1>4 DEF Knows, Pending
<1>6. CASE Busy(node[n]) \/ node[n].merge = "fired"
  <2>1. node' = [node EXCEPT ![n] = node[n]] /\ Silent
    BY <1>0, <1>1, <1>2, <1>6 DEF Silent
  <2> QED BY <1>0, <2>1, SilentStep
<1>7. CASE ~(Busy(node[n]) \/ node[n].merge = "fired") /\ r.updates > 0
  <2> DEFINE i == {[pc |-> "wait", from |-> m.from, group |-> m.group]}
             q == [r EXCEPT !.inv = i]
  <2>1. node' = [node EXCEPT ![n] = q] /\ Silent
    BY <1>1, <1>2, <1>7 DEF Silent
  <2>2. i \in SUBSET [pc : {"wait", "accept", "failed"}, from : Nodes, group : Names]
        /\ \A v \in i : v.from = m.from /\ v.group = m.group
    BY <1>3
  <2> HIDE DEF i
  <2>3. /\ q \in NodeRecords(Names) /\ q.group = r.group /\ q.coord = r.coord /\ q.inv = i
        /\ q.timer = r.timer /\ q.gp = r.gp /\ q.state = r.state /\ q.max = r.max
        /\ q.set = r.set /\ q.merge = r.merge
    BY <1>4, <2>2 DEF NodeRecords
  <2> HIDE DEF q
  <2>4. Knows(q) /\ Steady(n, q)
    BY <1>4, <1>5, <2>3 DEF Knows, Pending, Steady
  <2>5. ASSUME NEW h \in Nat \ {Private}, NEW c \in Nodes, NodeClaims(n, q, h, c)
        PROVE  (h = m.group /\ c = m.from) \/ NodeClaims(n, node[n], h, c)
    BY <1>4, <2>2, <2>3, <2>5 DEF NodeClaims
  <2>6. \A h \in Nat \ {Private}, c \in Nodes : NodeClaims(n, q, h, c) => Claim(h, c)
    BY <1>3, <2>5 DEF Claim
  <2>7. Calm(n, q)
    BY <2>3, <2>4, <2>6 DEF Calm
  <2> QED BY <2>1, <2>4, <2>7, SilentNode
<1>8. CASE ~(Busy(node[n]) \/ node[n].merge = "fired") /\ ~(r.updates > 0)
  <2>1. Joins(n, r, m.from, m.group)
    BY <1>1, <1>8
  <2>2. node[n].updates = 0
    BY <1>0, <1>4, <1>8 DEF NodeRecords
  <2> QED BY <1>2, <1>3, <1>4, <1>5, <2>1, <2>2, JoinsStep
<1> QED BY <1>6, <1>7, <1>8

(* InvitationResumes keeps the invariant. *)
LEMMA InvitationResumesStep ==
    ASSUME Inv, NEW n \in Nodes, InvitationResumes(n), UNCHANGED bounds
    PROVE  Inv' /\ StableStep
<1>1. PICK v \in node[n].inv :
        /\ node[n].updates = 0
        /\ Joins(n, node[n], v.from, v.group)
        /\ UNCHANGED <<merges, checks, forwards, restarts>>
  BY DEF InvitationResumes
<1>2. v.from \in Nodes /\ v.group \in Names
  BY NodeFacts DEF NodeRecords
<1>3. Claim(v.group, v.from)
  BY DEF Claim, NodeClaims
<1> QED BY <1>1, <1>2, <1>3, NodeFacts, JoinsStep

(* Reorganizes keeps the invariant. *)
LEMMA ReorganizesStep ==
    ASSUME Inv, NEW n \in Nodes, Reorganizes(n), UNCHANGED bounds
    PROVE  Inv' /\ StableStep
<1>0. /\ node \in [Nodes -> NodeRecords(Names)] /\ node[n] \in NodeRecords(Names)
      /\ Knows(node[n]) /\ Private \in Names /\ merges \in Nat /\ CountTypes
  BY NodeFacts
<1> DEFINE r == [node[n] EXCEPT !.state = "Reorganization", !.timeout = TRUE]
           a(v) == [type |-> "accept", from |-> n, to |-> v.from, group |-> v.group,
                    max |-> r.max]
<1>1. PICK v \in node[n].inv :
        \/ /\ node' = [node EXCEPT ![n] = [r EXCEPT !.inv = {}]]
           /\ msgs' = msgs \cup {a(v)}
           /\ UNCHANGED failures
        \/ /\ node' = [node EXCEPT ![n] = [r EXCEPT !.inv = {[v EXCEPT !.pc = "failed"]}]]
           /\ Fail
           /\ UNCHANGED msgs
  BY <1>0 DEF Reorganizes
<1>2. UNCHANGED <<merges, checks, forwards, restarts, bounds>>
  BY DEF Reorganizes
<1>3. v.from \in Nodes /\ v.group \in Names
      /\ v \in [pc : {"wait", "accept", "failed"}, from : Nodes, group : Names]
  BY <1>0 DEF NodeRecords
<1>4. /\ r \in NodeRecords(Names) /\ r.group = node[n].group /\ r.coord = node[n].coord
      /\ r.inv = node[n].inv /\ r.merge = node[n].merge /\ r.timer = node[n].timer
      /\ r.gp = node[n].gp /\ r.max = node[n].max /\ r.state = "Reorganization"
      /\ r.set = node[n].set /\ r.updates = node[n].updates
  BY <1>0 DEF NodeRecords
<1>5. a(v) \in Messages(Names) /\ a(v).type = "accept"
  <2>1. r.max \in 0..(N + 1)
    BY <1>4 DEF NodeRecords
  <2> HIDE DEF r
  <2> QED BY <1>3, <2>1 DEF Messages
<1>6. CalmMsgs
  <2> HIDE DEF a, r
  <2>1. msgs' \subseteq msgs \cup {a(v)}
    BY <1>1
  <2> QED BY <1>5, <2>1, OldMsgs DEF CalmMsgs
<1>7. CountTypes'
  BY <1>0, <1>1, <1>2, Counted
<1>8. ASSUME NEW i \in {{}, {[v EXCEPT !.pc = "failed"]}},
             node' = [node EXCEPT ![n] = [r EXCEPT !.inv = i]]
      PROVE  Inv' /\ StableStep
  <2> DEFINE q == [r EXCEPT !.inv = i]
  <2>1. i \in SUBSET [pc : {"wait", "accept", "failed"}, from : Nodes, group : Names]
        /\ \A w \in i : w.from = v.from /\ w.group = v.group
    BY <1>3
  <2> HIDE DEF r
  <2>2. /\ q \in NodeRecords(Names) /\ q.group = r.group /\ q.coord = r.coord /\ q.inv = i
        /\ q.timer = r.timer /\ q.gp = r.gp /\ q.state = r.state /\ q.max = r.max
        /\ q.set = r.set /\ q.merge = r.merge
    BY <1>4, <2>1 DEF NodeRecords
  <2>3. node' = [node EXCEPT ![n] = q]
    BY <1>8
  <2> HIDE DEF q
  <2>4. Knows(q) /\ Steady(n, q)
    BY <1>0, <1>4, <2>2 DEF Knows, Pending, Steady
  <2>5. ASSUME NEW h \in Nat \ {Private}, NEW c \in Nodes, NodeClaims(n, q, h, c)
        PROVE  NodeClaims(n, node[n], h, c)
    BY <1>4, <2>1, <2>2, <2>5 DEF NodeClaims
  <2>6. \A h \in Nat \ {Private}, c \in Nodes : NodeClaims(n, q, h, c) => Claim(h, c)
    BY <2>5 DEF Claim
  <2>7. Calm(n, q)
    BY <2>2, <2>4, <2>6 DEF Calm
  <2> QED BY <1>2, <1>6, <1>7, <2>3, <2>4, <2>7, OneNode
<1> HIDE DEF r, a
<1> QED BY <1>1, <1>8

(* AcceptFailed keeps the invariant. *)
LEMMA AcceptFailedStep ==
    ASSUME Inv, NEW n \in Nodes, AcceptFailed(n), UNCHANGED bounds
    PROVE  Inv' /\ StableStep
<1>0. /\ node \in [Nodes -> NodeRecords(Names)] /\ node[n] \in NodeRecords(Names)
      /\ Knows(node[n]) /\ Private \in Names /\ merges \in Nat /\ CountTypes
  BY NodeFacts
<1> DEFINE q == [node[n] EXCEPT !.inv = {}]
<1>1. node' = [node EXCEPT ![n] = Recovery(n, q, "dispatch")] /\ Silent
  BY DEF AcceptFailed, Silent
<1>2. /\ q \in NodeRecords(Names) /\ q.group = node[n].group /\ q.coord = node[n].coord
      /\ q.inv = {} /\ q.merge = node[n].merge /\ q.timer = node[n].timer
      /\ q.max = node[n].max /\ q.state = node[n].state /\ q.updates = node[n].updates
      /\ q.gp = node[n].gp /\ q.set = node[n].set
  BY <1>0 DEF NodeRecords
<1> HIDE DEF q
<1>3. Knows(q) /\ (Pending(q) => Pending(node[n]))
  BY <1>0, <1>2 DEF Knows, Pending
<1> QED BY <1>1, <1>2, <1>3, RecoversStep

(* Accept keeps the invariant. *)
LEMMA AcceptStep ==
    ASSUME Inv, NEW n \in Nodes, Accept(n), UNCHANGED bounds
    PROVE  Inv' /\ StableStep
<1>0. /\ node \in [Nodes -> NodeRecords(Names)] /\ node[n] \in NodeRecords(Names)
      /\ Knows(node[n]) /\ Private \in Names /\ merges \in Nat /\ CountTypes
  BY NodeFacts
<1>1. PICK m \in msgs :
        /\ m.type = "accept" /\ msgs' = msgs \ {m}
        /\ \/ node' = [node EXCEPT ![n].up = @ \cup {m.from}, ![n].max = Raise(@, m.max)]
           \/ UNCHANGED node
  BY DEF Accept
<1>2. Silent
  BY <1>1 DEF Accept, Silent
<1>3. m.from \in Nodes /\ m.max \in 0..(N + 1)
  BY <1>1, OldMsgs DEF Messages
<1>4. CASE UNCHANGED node
  <2>1. node' = [node EXCEPT ![n] = node[n]]
    BY <1>0, <1>4
  <2> QED BY <1>0, <1>2, <2>1, SilentStep
<1>5. CASE node' = [node EXCEPT ![n].up = @ \cup {m.from}, ![n].max = Raise(@, m.max)]
  <2> DEFINE y == Raise(node[n].max, m.max)
             q == [node[n] EXCEPT !.up = @ \cup {m.from}, !.max = y]
  <2>1. node[n].max \in 0..(N + 1)
    BY <1>0 DEF NodeRecords
  <2>2. y \in 0..(N + 1) /\ y >= node[n].max
    BY <1>3, <2>1, NType DEF Raise
  <2>3. node[n].max >= N => y >= N
    <3> HIDE DEF y
    <3> QED BY <2>1, <2>2, NType
  <2>4. node' = [node EXCEPT ![n] = q]
    BY <1>0, <1>5
  <2> HIDE DEF y
  <2>5. /\ q \in NodeRecords(Names) /\ q.group = node[n].group /\ q.coord = node[n].coord
        /\ q.inv = node[n].inv /\ q.merge = node[n].merge /\ q.timer = node[n].timer
        /\ q.max = y /\ q.state = node[n].state /\ q.gp = node[n].gp /\ q.set = node[n].set
    BY <1>0, <1>3, <2>2, ZenonT(40) DEF NodeRecords
  <2> HIDE DEF q
  <2>6. Knows(q) /\ (Pending(q) => Pending(node[n]))
    BY <1>0, <2>3, <2>5 DEF Knows, Pending
  <2> QED BY <1>2, <2>4, <2>5, <2>6, SilentStep
<1> QED BY <1>1, <1>4, <1>5

-----------------------------------------------------------------------------
(* Client threads and restarts.                                            *)

(* Updates and cached reads begin and end, or are refused. *)
LEMMA ClientStep ==
    ASSUME Inv, NEW n \in Nodes, UNCHANGED bounds,
           StartUpdate(n) \/ FinishUpdate(n) \/ ObserverUpdate(n) \/ MajorityLost(n)
    PROVE  Inv' /\ StableStep
<1>0. /\ node \in [Nodes -> NodeRecords(Names)] /\ node[n] \in NodeRecords(Names)
      /\ Knows(node[n]) /\ Private \in Names /\ merges \in Nat /\ CountTypes
  BY NodeFacts
<1>1. node[n].updates \in Nat
  BY <1>0 DEF NodeRecords
<1>2. Silent
  BY DEF StartUpdate, FinishUpdate, ObserverUpdate, MajorityLost, Silent
<1>3. ASSUME NEW u \in Nat, node' = [node EXCEPT ![n] = [node[n] EXCEPT !.updates = u]]
      PROVE  Inv' /\ StableStep
  <2> DEFINE q == [node[n] EXCEPT !.updates = u]
  <2>1. /\ q \in NodeRecords(Names) /\ q.group = node[n].group /\ q.coord = node[n].coord
        /\ q.inv = node[n].inv /\ q.merge = node[n].merge /\ q.timer = node[n].timer
        /\ q.max = node[n].max /\ q.state = node[n].state /\ q.gp = node[n].gp
        /\ q.set = node[n].set
    BY <1>0 DEF NodeRecords
  <2>2. node' = [node EXCEPT ![n] = q]
    BY <1>3
  <2> HIDE DEF q
  <2>3. Knows(q) /\ (Pending(q) => Pending(node[n]))
    BY <1>0, <2>1 DEF Knows, Pending
  <2> QED BY <1>2, <2>1, <2>2, <2>3, SilentStep
<1>4. CASE node' = [node EXCEPT ![n].updates = @ + 1]
  <2>1. node[n].updates + 1 \in Nat
    BY <1>1
  <2>2. node' = [node EXCEPT ![n] = [node[n] EXCEPT !.updates = node[n].updates + 1]]
    BY <1>0, <1>4
  <2> QED BY <1>3, <2>1, <2>2
<1>5. CASE FinishUpdate(n)
  <2>1. node[n].updates - 1 \in Nat
    BY <1>1, <1>5 DEF FinishUpdate
  <2>2. node' = [node EXCEPT ![n] = [node[n] EXCEPT !.updates = node[n].updates - 1]]
    BY <1>0, <1>5 DEF FinishUpdate
  <2> QED BY <1>3, <2>1, <2>2
<1>6. CASE node' = [node EXCEPT ![n] = Recovery(n, @, "client")]
  <2>1. node' = [node EXCEPT ![n] = Recovery(n, node[n], "client")]
    BY <1>6
  <2> QED BY <1>0, <1>2, <2>1, RecoversStep
<1>7. CASE StartUpdate(n)
  BY <1>4, <1>7 DEF StartUpdate
<1>8. CASE ObserverUpdate(n)
  BY <1>4, <1>6, <1>8 DEF ObserverUpdate
<1>9. CASE MajorityLost(n)
  BY <1>6, <1>9 DEF MajorityLost
<1> QED BY <1>5, <1>7, <1>8, <1>9

(* A call is forwarded to the master, and fails. *)
LEMMA ForwardStep ==
    ASSUME Inv, NEW n \in Nodes, UNCHANGED bounds, Forward(n) \/ ForwardFails(n)
    PROVE  Inv' /\ StableStep
<1>0. /\ node \in [Nodes -> NodeRecords(Names)] /\ node[n] \in NodeRecords(Names)
      /\ Knows(node[n]) /\ Private \in Names /\ merges \in Nat /\ CountTypes
  BY NodeFacts
<1>1. ASSUME NEW f \in Names
      PROVE  LET q == [node[n] EXCEPT !.fwd = f]
             IN  /\ q \in NodeRecords(Names) /\ Knows(q) /\ (Pending(q) => Pending(node[n]))
                 /\ q.group = node[n].group /\ q.coord = node[n].coord
                 /\ q.inv = node[n].inv /\ q.timer = node[n].timer /\ q.gp = node[n].gp
                 /\ q.updates = node[n].updates
  <2> DEFINE q == [node[n] EXCEPT !.fwd = f]
  <2>1. /\ q \in NodeRecords(Names) /\ q.group = node[n].group /\ q.coord = node[n].coord
        /\ q.inv = node[n].inv /\ q.merge = node[n].merge /\ q.timer = node[n].timer
        /\ q.max = node[n].max /\ q.state = node[n].state /\ q.gp = node[n].gp
        /\ q.set = node[n].set /\ q.updates = node[n].updates
    BY <1>0 DEF NodeRecords
  <2> HIDE DEF q
  <2>2. Knows(q) /\ (Pending(q) => Pending(node[n]))
    BY <1>0, <2>1 DEF Knows, Pending
  <2>3. /\ q \in NodeRecords(Names) /\ Knows(q) /\ (Pending(q) => Pending(node[n]))
        /\ q.group = node[n].group /\ q.coord = node[n].coord
        /\ q.inv = node[n].inv /\ q.timer = node[n].timer /\ q.gp = node[n].gp
        /\ q.updates = node[n].updates
    BY <2>1, <2>2
  <2> QED BY <2>3 DEF q
<1>2. CASE Forward(n)
  <2> DEFINE q == [node[n] EXCEPT !.fwd = node[n].gen]
  <2>1. node' = [node EXCEPT ![n] = q]
    BY <1>0, <1>2 DEF Forward
  <2>2. node[n].gen \in Names
    BY <1>0 DEF NodeRecords
  <2>3. /\ q \in NodeRecords(Names) /\ Knows(q) /\ (Pending(q) => Pending(node[n]))
        /\ q.group = node[n].group /\ q.coord = node[n].coord
        /\ q.inv = node[n].inv /\ q.timer = node[n].timer /\ q.gp = node[n].gp
    BY <1>1, <2>2
  <2> HIDE DEF q
  <2>4. Calm(n, q) /\ Steady(n, q)
    BY <2>3, SameGroup
  <2>5. CountTypes'
    <3>1. /\ MaxChecks' = MaxChecks /\ MaxFailures' = MaxFailures
          /\ MaxForwards' = MaxForwards /\ MaxRestarts' = MaxRestarts
      BY DEF MaxChecks, MaxFailures, MaxForwards, MaxRestarts
    <3>2. forwards' \in 0..MaxForwards
      BY <1>0, <1>2, BoundTypes DEF CountTypes, Forward
    <3> QED BY <1>0, <1>2, <3>1, <3>2 DEF CountTypes, Forward
  <2>6. CalmMsgs /\ merges' = merges /\ checks' = checks
    BY <1>2, OldMsgs DEF CalmMsgs, Forward
  <2> QED BY <2>1, <2>4, <2>5, <2>6, OneNode
<1>3. CASE ForwardFails(n)
  <2> DEFINE q == [node[n] EXCEPT !.fwd = Private]
  <2>1. /\ q \in NodeRecords(Names) /\ Knows(q) /\ (Pending(q) => Pending(node[n]))
        /\ q.group = node[n].group /\ q.coord = node[n].coord
        /\ q.inv = node[n].inv /\ q.timer = node[n].timer /\ q.gp = node[n].gp
        /\ q.updates = node[n].updates
    BY <1>0, <1>1
  <2>2. \/ node' = [node EXCEPT ![n] = Recovery(n, q, "client")]
        \/ node' = [node EXCEPT ![n] = q]
    BY <1>3 DEF ForwardFails
  <2>3. Silent
    BY <1>3 DEF ForwardFails, Silent
  <2> HIDE DEF q
  <2>4. CASE node' = [node EXCEPT ![n] = Recovery(n, q, "client")]
    BY <2>1, <2>3, <2>4, RecoversStep
  <2>5. CASE node' = [node EXCEPT ![n] = q]
    BY <2>1, <2>3, <2>5, SilentStep
  <2> QED BY <2>2, <2>4, <2>5
<1> QED BY <1>2, <1>3

(* A thread that waited for the updates to end leaves the group. *)
LEMMA RecoveryResumesStep ==
    ASSUME Inv, NEW n \in Nodes, RecoveryResumes(n), UNCHANGED bounds
    PROVE  Inv' /\ StableStep
<1>0. /\ node \in [Nodes -> NodeRecords(Names)] /\ node[n] \in NodeRecords(Names)
      /\ Knows(node[n]) /\ Private \in Names /\ merges \in Nat /\ CountTypes
  BY NodeFacts
<1>1. PICK t \in node[n].waiting :
        /\ node[n].updates = 0
        /\ node' = [node EXCEPT ![n] = NewPrivateGroup(n, [node[n] EXCEPT !.waiting = @ \ {t}])]
  BY DEF RecoveryResumes
<1>2. Silent
  BY DEF RecoveryResumes, Silent
<1> DEFINE y == [node[n] EXCEPT !.waiting = @ \ {t}]
           z == NewPrivateGroup(n, y)
<1>3. /\ y \in NodeRecords(Names) /\ y.inv = node[n].inv /\ y.timer = node[n].timer
      /\ y.max = node[n].max /\ y.state = node[n].state /\ y.gp = node[n].gp
      /\ y.set = node[n].set
  BY <1>0 DEF NodeRecords
<1>4. node' = [node EXCEPT ![n] = z]
  BY <1>1
<1> HIDE DEF y
<1>5. /\ z \in NodeRecords(Names)
      /\ z.state = y.state /\ z.timer = y.timer /\ z.set = y.set /\ z.max = y.max
      /\ z.gp = y.gp /\ z.inv = y.inv /\ z.merge = "none" /\ z.group = Private
  BY <1>0, <1>3, NewGroupFields
<1> HIDE DEF z
<1>6. Knows(z) /\ Steady(n, z)
  BY <1>0, <1>1, <1>3, <1>5 DEF Knows, Pending, Steady
<1>7. \A g \in Nat \ {Private}, c \in Nodes : NodeClaims(n, z, g, c) => NodeClaims(n, node[n], g, c)
  BY <1>3, <1>5 DEF NodeClaims
<1>8. Calm(n, z)
  BY <1>5, <1>6, <1>7 DEF Calm, Claim
<1> QED BY <1>2, <1>4, <1>6, <1>8, SilentNode

(* A node that starts claims nothing. *)
LEMMA StartedCalm ==
    ASSUME merges \in Nat, NEW n \in Nodes
    PROVE  /\ Started(n, 0) \in NodeRecords(Names) /\ Knows(Started(n, 0))
           /\ ~Pending(Started(n, 0))
           /\ \A g \in Nat \ {Private}, c \in Nodes : ~NodeClaims(n, Started(n, 0), g, c)
<1>1. 0 \in 0..(N + 1) /\ Private \in Names
  BY NType DEF Names, Private
<1>2. Started(n, 0) \in NodeRecords(Names)
  BY <1>1 DEF NodeRecords, Started
<1>3. Knows(Started(n, 0)) /\ ~Pending(Started(n, 0))
  BY DEF Started, Knows, Pending
<1>4. \A g \in Nat \ {Private}, c \in Nodes : ~NodeClaims(n, Started(n, 0), g, c)
  BY DEF NodeClaims, Started, Private
<1> QED BY <1>2, <1>3, <1>4

(* Restart keeps the invariant. *)
LEMMA RestartStep ==
    ASSUME Inv, NEW n \in Nodes, Restart(n), UNCHANGED bounds
    PROVE  Inv' /\ StableStep
<1>0. /\ node \in [Nodes -> NodeRecords(Names)] /\ node[n] \in NodeRecords(Names)
      /\ Knows(node[n]) /\ Private \in Names /\ merges \in Nat /\ CountTypes
  BY NodeFacts
<1> DEFINE q == Started(n, 0)
<1>1. node' = [node EXCEPT ![n] = q] /\ merges' = merges /\ checks' = checks
      /\ restarts' = restarts + 1 /\ restarts < MaxRestarts /\ msgs' = msgs
      /\ UNCHANGED <<failures, forwards>>
  BY DEF Restart
<1> HIDE DEF q
<1>2. q \in NodeRecords(Names) /\ Knows(q) /\ ~Pending(q)
      /\ \A g \in Nat \ {Private}, c \in Nodes : ~NodeClaims(n, q, g, c)
  BY <1>0, StartedCalm DEF q
<1>3. Calm(n, q)
  BY <1>2 DEF Calm
<1>4. CountTypes'
  <2>1. /\ MaxChecks' = MaxChecks /\ MaxFailures' = MaxFailures
        /\ MaxForwards' = MaxForwards /\ MaxRestarts' = MaxRestarts
    BY DEF MaxChecks, MaxFailures, MaxForwards, MaxRestarts
  <2>2. restarts' \in 0..MaxRestarts
    BY <1>0, <1>1, BoundTypes DEF CountTypes
  <2> QED BY <1>0, <1>1, <2>1, <2>2 DEF CountTypes
<1>5. CalmMsgs
  BY <1>1, OldMsgs DEF CalmMsgs
<1>6. TypeInv' /\ ClaimInv' /\ ServeInv'
  BY <1>1, <1>3, <1>4, <1>5, OneCalmNode
<1>7. node'[n] = q /\ \A p \in Nodes \ {n} : node'[p] = node[p]
  BY <1>0, <1>1
<1>8. MergeInv'
  BY <1>1, <1>2, <1>7, SteadyStep
<1>9. restarts' # restarts
  BY <1>0, <1>1, BoundTypes DEF CountTypes
<1> QED BY <1>6, <1>8, <1>9 DEF Inv, StableStep

-----------------------------------------------------------------------------
(* The theorems.                                                           *)

(* The initial states satisfy the invariant. *)
LEMMA InitInv == Init => Inv
<1> SUFFICES ASSUME Init PROVE Inv
  OBVIOUS
<1>1. CountTypes /\ merges \in Nat /\ msgs = {} /\ checks = 0
  <2>1. bounds \in Bounds /\ checks = 0 /\ failures = 0 /\ forwards = 0 /\ restarts = 0 /\ msgs = {}
    BY DEF Init
  <2>2. merges \in Nat
    BY DEF Init
  <2> QED BY <2>1, <2>2, BoundTypes DEF CountTypes
<1>2. ASSUME node \in [Nodes -> NodeRecords(Names)], merges <= 1,
             \A n \in Nodes : Knows(node[n]) /\ ~Pending(node[n]), ClaimInv
      PROVE  Inv
  <2>1. TypeInv
    BY <1>1, <1>2 DEF TypeInv, CountTypes
  <2>2. CheckingNodes = {}
    BY <1>2 DEF CheckingNodes
  <2>3. Cardinality(CheckingNodes) = 0
    BY <2>2, FS_EmptySet
  <2>4. MergeInv
    BY <1>1, <1>2, <2>3 DEF MergeInv
  <2> QED BY <1>2, <2>1, <2>4 DEF Inv, ServeInv
<1>3. CASE node = [n \in Nodes |-> Started(n, 0)] /\ merges = 0
  <2>1. ASSUME NEW n \in Nodes
        PROVE  /\ node[n] \in NodeRecords(Names) /\ Knows(node[n]) /\ ~Pending(node[n])
               /\ \A g \in Nat \ {Private}, c \in Nodes : ~NodeClaims(n, node[n], g, c)
    BY <1>1, <1>3, StartedCalm
  <2>2. ClaimInv
    BY <1>1, <2>1 DEF ClaimInv, Claim
  <2>3. node \in [Nodes -> NodeRecords(Names)]
    BY <1>3, <2>1
  <2> QED BY <1>2, <1>3, <2>1, <2>2, <2>3
<1>4. CASE merges = 1 /\ \E c \in Nodes : node = [n \in Nodes |-> OnDuty(n, c)]
  <2>1. PICK c \in Nodes : node = [n \in Nodes |-> OnDuty(n, c)]
    BY <1>4
  <2>2. ASSUME NEW n \in Nodes
        PROVE  /\ node[n] \in NodeRecords(Names)
               /\ node[n].timer = "idle" /\ node[n].merge = "none" /\ node[n].max = N
               /\ node[n].group = 1 /\ node[n].coord = c /\ node[n].inv = {}
    <3> DEFINE u == IF n = c THEN Nodes \ {c} ELSE {}
               p == IF n = c THEN {} ELSE {c}
               t == n # c
               s == Started(n, N)
               o == [s EXCEPT !.state = "Normal", !.coord = c, !.group = 1, !.gen = 1,
                              !.up = u, !.proxy = p, !.timeout = t]
    <3>1. u \in SUBSET Nodes /\ p \in SUBSET Nodes /\ t \in BOOLEAN
      OBVIOUS
    <3>2. 1 \in Names /\ Private \in Names /\ N \in 0..(N + 1)
      BY <1>4, NType DEF Names, Private
    <3>3. node[n] = o
      BY <2>1 DEF OnDuty
    <3>4. /\ s \in NodeRecords(Names) /\ s.timer = "idle" /\ s.merge = "none" /\ s.max = N
          /\ s.inv = {}
      BY <3>2 DEF NodeRecords, Started
    <3> HIDE DEF u, p, t, s
    <3>5. ASSUME NEW g \in Names
          PROVE  LET x == [s EXCEPT !.state = "Normal", !.coord = c, !.group = g, !.gen = g,
                                    !.up = u, !.proxy = p, !.timeout = t]
                 IN  /\ x \in NodeRecords(Names) /\ x.timer = s.timer /\ x.merge = s.merge
                     /\ x.max = s.max /\ x.group = g /\ x.coord = c /\ x.inv = s.inv
      <4> DEFINE x == [s EXCEPT !.state = "Normal", !.coord = c, !.group = g, !.gen = g,
                                !.up = u, !.proxy = p, !.timeout = t]
      <4>1. /\ x.timer = s.timer /\ x.merge = s.merge
            /\ x.max = s.max /\ x.group = g /\ x.coord = c /\ x.inv = s.inv
        BY <3>4 DEF NodeRecords
      <4>2. x \in NodeRecords(Names)
        <5>1. [s EXCEPT !.state = "Normal", !.coord = c, !.group = g, !.gen = g] \in NodeRecords(Names)
          BY <3>4, ZenonT(40) DEF NodeRecords
        <5>2. ASSUME NEW y \in NodeRecords(Names)
              PROVE  [y EXCEPT !.up = u, !.proxy = p, !.timeout = t] \in NodeRecords(Names)
          BY <3>1 DEF NodeRecords
        <5>3. x = [[s EXCEPT !.state = "Normal", !.coord = c, !.group = g, !.gen = g]
                      EXCEPT !.up = u, !.proxy = p, !.timeout = t]
          OBVIOUS
        <5> QED BY <5>1, <5>2, <5>3
      <4> QED BY <4>1, <4>2
    <3>6. /\ o \in NodeRecords(Names) /\ o.timer = s.timer /\ o.merge = s.merge /\ o.max = s.max
          /\ o.group = 1 /\ o.coord = c /\ o.inv = s.inv
      BY <3>2, <3>5
    <3> HIDE DEF o
    <3> QED BY <3>3, <3>4, <3>6
  <2>3. \A n \in Nodes : Knows(node[n]) /\ ~Pending(node[n])
    BY <2>2, NType DEF Knows, Pending
  <2>4. \A n, d \in Nodes, g \in Nat \ {Private} : NodeClaims(n, node[n], g, d) => d = c
    BY <2>2 DEF NodeClaims
  <2>5. ClaimInv
    BY <1>1, <2>4 DEF ClaimInv, Claim
  <2>6. node \in [Nodes -> NodeRecords(Names)]
    BY <2>1, <2>2
  <2> QED BY <1>2, <1>4, <2>3, <2>5, <2>6
<1> QED BY <1>3, <1>4 DEF Init

(* Every step keeps the invariant, and the groups under an update. *)
LEMMA NextInv == Inv /\ [Next]_vars => Inv' /\ (StableStep \/ UNCHANGED vars)
<1> SUFFICES ASSUME Inv, [Next]_vars PROVE Inv' /\ (StableStep \/ UNCHANGED vars)
  OBVIOUS
<1>1. CASE UNCHANGED vars
  BY <1>1 DEF vars, Inv, TypeInv, Names, CheckingNodes, MergeInv, ClaimInv, Claim, ServeInv,
              MaxChecks, MaxFailures, MaxForwards, MaxRestarts
<1>2. CASE Next
  <2>1. PICK n \in Nodes :
          TimerThread(n) \/ DispatchThread(n) \/ RecoveryResumes(n) \/ FinishUpdate(n) \/ Other(n)
    BY <1>2 DEF Next
  <2>2. UNCHANGED bounds
    BY <1>2 DEF Next
  <2>3. CASE TimerThread(n)
    BY <2>2, <2>3, CheckStartStep, CheckCallStep, CheckEndStep, MergeFiresStep, MergeBeginsStep,
       MergeResumesStep, MergeContinuesStep, SyncStep, InitMasterStep, CallReadyStep,
       MasterReadyStep, TimeoutStep DEF TimerThread
  <2>4. CASE DispatchThread(n)
    BY <2>2, <2>4, InvitationResumesStep, ReorganizesStep, AcceptFailedStep DEF DispatchThread
  <2>5. CASE Other(n)
    BY <2>2, <2>5, InvitationStep, AcceptStep, ClientStep, ForwardStep, RestartStep DEF Other
  <2> QED BY <2>1, <2>2, <2>3, <2>4, <2>5, RecoveryResumesStep, ClientStep
<1> QED BY <1>1, <1>2

(* The inductive invariant holds of every behaviour of NodeI. *)
THEOREM ElectionInvariant == Spec => []Inv
<1>1. Inv /\ [Next]_vars => Inv'
  BY NextInv
<1> QED BY <1>1, InitInv, PTL DEF Spec

(* Every variable keeps its type, and no merge is fired without a check of *)
(* its own: MergeFires follows a CheckEnd that follows a CheckStart.       *)
THEOREM TypeCorrect == Spec => []TypeOK
<1>1. Inv => TypeOK
  <2> SUFFICES ASSUME Inv PROVE TypeOK
    OBVIOUS
  <2>1. Cardinality(CheckingNodes) \in Nat
    <3>1. CheckingNodes \in SUBSET Nodes
      BY DEF CheckingNodes
    <3> QED BY <3>1, NodeSets, FS_CardinalityType
  <2>2. merges \in Nat /\ CountTypes /\ MaxChecks \in Nat /\ checks \in Nat
    BY NodeFacts, BoundTypes DEF Inv, TypeInv, CountTypes
  <2>3. merges \in 0..(checks + 1) /\ checks <= MaxChecks
    BY <2>1, <2>2 DEF Inv, MergeInv, CountTypes
  <2>4. Names \subseteq 0..(MaxChecks + 1)
    BY <2>2, <2>3 DEF Names
  <2>5. NodeRecords(Names) \subseteq NodeRecords(0..(MaxChecks + 1))
    <3>1. ASSUME NEW G, NEW H, G \subseteq H PROVE NodeRecords(G) \subseteq NodeRecords(H)
      BY <3>1 DEF NodeRecords
    <3> QED BY <2>4, <3>1
  <2>6. Messages(Names) \subseteq Messages(0..(MaxChecks + 1))
    BY <2>4 DEF Messages
  <2> QED BY <2>2, <2>3, <2>5, <2>6 DEF Inv, TypeInv, TypeOK, CountTypes
<1> QED BY <1>1, ElectionInvariant, PTL

(* No node serves before a group of all the nodes: what mergeContinue()    *)
(* tests reaches a slave only with ready(), and _max is never lowered.     *)
THEOREM FullGroupFirst == Spec => []NoServiceBeforeFullGroup
<1>1. Inv => NoServiceBeforeFullGroup
  BY DEF Inv, ServeInv, Knows, NoServiceBeforeFullGroup
<1> QED BY <1>1, ElectionInvariant, PTL

(* Nodes of one group follow one coordinator, whoever forwarded the        *)
(* invitation to them and whatever failed on the way.                      *)
THEOREM OneCoordinator == Spec => []GroupAgreement
<1>1. Inv => GroupAgreement
  <2> SUFFICES ASSUME Inv, NEW n \in Nodes, NEW m \in Nodes,
                      node[n].group # Private, node[n].group = node[m].group
               PROVE  node[n].coord = node[m].coord
    BY DEF GroupAgreement
  <2>1. Claim(node[n].group, node[n].coord) /\ Claim(node[n].group, node[m].coord)
    BY DEF Claim, NodeClaims
  <2>2. node[n].coord \in Nodes /\ node[m].coord \in Nodes /\ node[n].group \in Nat \ {Private}
    BY NodeFacts DEF NodeRecords, Names
  <2> QED BY <2>1, <2>2 DEF Inv, ClaimInv
<1> QED BY <1>1, ElectionInvariant, PTL

(* The group of a node does not change under an update: recovery(), merge()*)
(* and invitation() wait for the updates in progress.                      *)
THEOREM GroupHeldByUpdates == Spec => MembershipStable
<1>1. Inv /\ [Next]_vars =>
        [\A n \in Nodes :
           node[n].updates > 0 /\ restarts' = restarts =>
               node'[n].group = node[n].group /\ node'[n].coord = node[n].coord]_vars
  BY NextInv DEF StableStep
<1> QED BY <1>1, ElectionInvariant, PTL DEF Spec, MembershipStable

=============================================================================
