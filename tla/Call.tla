-------------------------------- MODULE Call --------------------------------
(***************************************************************************)
(* What an Ice invocation promises its caller, whatever happens to the     *)
(* connections under it: it completes at most once, it returns a result    *)
(* only if a servant ran it, and a servant runs it at most once unless the *)
(* operation is idempotent (slice/Ice/Current.ice, OperationMode).  An     *)
(* invocation that failed or was canceled may still be run later, by a     *)
(* server that has the request already.                                    *)
(***************************************************************************)
EXTENDS Naturals

CONSTANTS Calls, Idempotent

VARIABLES status, runs

vars == <<status, runs>>

Statuses == {"idle", "pending", "ok", "failed"}

TypeOK == /\ status \in [Calls -> Statuses]
          /\ runs \in [Calls -> Nat]

Init == /\ status = [k \in Calls |-> "idle"]
        /\ runs = [k \in Calls |-> 0]

Begin(k) == /\ status[k] = "idle"
            /\ status' = [status EXCEPT ![k] = "pending"]
            /\ UNCHANGED runs

(* A servant runs the operation. *)
Run(k) == /\ status[k] # "idle"
          /\ runs[k] = 0 \/ k \in Idempotent
          /\ runs' = [runs EXCEPT ![k] = @ + 1]
          /\ UNCHANGED status

Return(k) == /\ status[k] = "pending"
             /\ runs[k] > 0
             /\ status' = [status EXCEPT ![k] = "ok"]
             /\ UNCHANGED runs

(* Several invocations fail together when the connection they share goes.  *)
Fail(S) == /\ S # {}
           /\ \A k \in S : status[k] = "pending"
           /\ status' = [k \in Calls |-> IF k \in S THEN "failed" ELSE status[k]]
           /\ UNCHANGED runs

Next == \/ \E k \in Calls : Begin(k) \/ Run(k) \/ Return(k)
        \/ \E S \in SUBSET Calls : Fail(S)

Spec == Init /\ [][Next]_vars
=============================================================================
