---------------------------- MODULE MCThreadPool ----------------------------
(* Instances of ThreadPool for TLC; the values are in the configurations.  *)
EXTENDS ThreadPool, TLC

CONSTANTS t1, t2, t3, t4, h1          \* threads and connections

(* Pools of at most two threads that shrink, one that serializes and one   *)
(* that may fail to grow, and the default pool of a single thread.         *)
Serializing ==
    [size |-> 1, sizeMax |-> 2, sizeIO |-> 2, serialize |-> TRUE, idle |-> TRUE,
     serverIdle |-> TRUE, startFails |-> FALSE]
Failing == [Serializing EXCEPT !.serialize = FALSE, !.startFails = TRUE, !.serverIdle = FALSE]
Single == [Serializing EXCEPT !.sizeMax = 1, !.sizeIO = 1, !.idle = FALSE]

(* Two threads at start, which may become three. *)
Large == [Serializing EXCEPT !.size = 2, !.sizeMax = 3, !.serverIdle = FALSE]

SafetyConfigs == {Serializing, Failing, Single, Large}
LiveConfigs == {[Serializing EXCEPT !.serverIdle = FALSE], Single}

(* Threads are interchangeable. *)
PoolSymmetry == Permutations(Threads)
=============================================================================
