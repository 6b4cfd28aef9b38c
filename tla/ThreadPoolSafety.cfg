\* Every configuration, with one connection.
\* The pool stops once it is destroyed and its threads have ended.
SPECIFICATION Spec
CONSTANTS
    t1 = t1
    t2 = t2
    t3 = t3
    t4 = t4
    h1 = h1
    Threads = {t1, t2, t3, t4}
    Handlers = {h1}
    Configs <- SafetyConfigs
    MaxData = 2
    MaxDispatch = 1
SYMMETRY PoolSymmetry
CHECK_DEADLOCK FALSE
INVARIANTS
    TypeOK
    OneLeader
    InUseAccounted
    HandlerExclusive
    NoDanglingHandler
    PoolAssertions
    PoolNotExhausted
    NoLostWakeup
PROPERTIES
    ThreadsImmutable
