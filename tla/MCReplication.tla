---------------------------- MODULE MCReplication ----------------------------
(* Instances of Replication for TLC; the values are in the configurations. *)
EXTENDS Replication, TLC

CONSTANTS n1, n2, n3, t1, t2, s1     \* replicas, topics and subscribers

(* Ids only break ties between slaves with equal stamps, and the model     *)
(* takes either; topics and nodes are otherwise alike.                     *)
Symmetric == Permutations(Nodes) \cup Permutations(Topics)
=============================================================================
