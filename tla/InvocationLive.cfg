\* Every call completes and every closure ends.
SPECIFICATION FairSpec
CONSTANTS
    k1 = k1
    k2 = k2
    Calls = {k1, k2}
    Idempotent = {k2}
    MaxConns = 2
    Scenarios <- LiveScenarios
    BothReady = TRUE
\* Once the calls are over there is nothing left to do.
CHECK_DEADLOCK FALSE
PROPERTIES
    CallsComplete
    CloseCompletes
