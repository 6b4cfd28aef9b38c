---------------------------- MODULE MCInvocation ----------------------------
(* Instances of Invocation for TLC; k1 is not idempotent, k2 is.           *)
EXTENDS Invocation

CONSTANTS k1, k2

Scenario(calls, cancelable, intervals, faults) ==
  [calls |-> calls, cancelable |-> cancelable, intervals |-> intervals, faults |-> faults]

(* Two calls share connections that are closed, or break; one call fails   *)
(* without a retry; one is canceled while its connections end.             *)
SafetyScenarios ==
  {Scenario({k1, k2}, {}, <<>>, {"close"}),
   Scenario({k1, k2}, {}, <<0>>, {"reset"}),
   Scenario({k2}, {}, <<>>, {"reset", "refuse", "timeout"}),
   Scenario({k2}, {k2}, <<1>>, {"reset", "refuse", "timeout"}),
   Scenario({k1}, {k1}, <<0>>, {"close", "idle", "force"})}

(* The same with fewer faults, and two calls that a refused connection     *)
(* sends round the loop.                                                   *)
LiveScenarios ==
  {Scenario({k1, k2}, {}, <<0>>, {"refuse"}),
   Scenario({k2}, {k2}, <<1>>, {"reset", "refuse"}),
   Scenario({k1}, {k1}, <<0>>, {"close"})}
=============================================================================
