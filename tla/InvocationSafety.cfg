\* Calls that are retried and canceled while their connections end.
SPECIFICATION Spec
CONSTANTS
    k1 = k1
    k2 = k2
    Calls = {k1, k2}
    Idempotent = {k2}
    MaxConns = 2
    Scenarios <- SafetyScenarios
    BothReady = FALSE
\* Once the calls are over there is nothing left to do.
CHECK_DEADLOCK FALSE
INVARIANTS
    TypeOK
    CloseConnRepeatable
    OneOwner
PROPERTIES
    CallRefined
