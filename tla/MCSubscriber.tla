---------------------------- MODULE MCSubscriber ----------------------------
(* Instances of Subscriber for TLC; the values are in the configurations.  *)
EXTENDS Subscriber, TLC

CONSTANTS p1, p2     \* publisher threads

(* No limit on the queue, or on the number of retries. *)
Unlimited == -1

(* Publisher threads are interchangeable. *)
PublisherSymmetry == Permutations(Publishers)
=============================================================================
