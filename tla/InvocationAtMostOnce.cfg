\* A socket that is writable and readable at once.
SPECIFICATION Spec
CONSTANTS
    k1 = k1
    k2 = k2
    Calls = {k1, k2}
    Idempotent = {k2}
    MaxConns = 2
    Scenarios <- SafetyScenarios
    BothReady = TRUE
\* Once the calls are over there is nothing left to do.
CHECK_DEADLOCK FALSE
INVARIANTS
    AtMostOnce
