----------------------------- MODULE MCElection -----------------------------
(* Instances of Election for TLC.                                          *)
EXTENDS Election, TLC

CONSTANTS n1, n2, n3     \* replicas

(* An id only orders the calls of ready(), and the model allows any order. *)
NodeSymmetry == Permutations(Nodes)

(* The first elections, from nothing, with one failed call.                *)
Cold == [coldStart |-> TRUE, checks |-> 2, failures |-> 1, updates |-> 0,
         forwards |-> 0, restarts |-> 0]

(* A group on duty, with updates and forwarded calls, and a failure.       *)
Updates == [coldStart |-> FALSE, checks |-> 1, failures |-> 1, updates |-> 1,
            forwards |-> 1, restarts |-> 0]

(* A group on duty loses a node, which comes back.                         *)
Crash == [coldStart |-> FALSE, checks |-> 1, failures |-> 0, updates |-> 0,
          forwards |-> 0, restarts |-> 1]

SafetyBounds == {Cold, Updates}
LiveBounds == {Crash}
=============================================================================
