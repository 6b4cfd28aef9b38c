\* Threads are scheduled and the application returns.
\* The pool stops once it is destroyed and its threads have ended.
SPECIFICATION FairSpec
CONSTANTS
    t1 = t1
    t2 = t2
    t3 = t3
    t4 = t4
    h1 = h1
    Threads = {t1, t2, t3}
    Handlers = {h1}
    Configs <- LiveConfigs
    MaxData = 2
    MaxDispatch = 0
CHECK_DEADLOCK FALSE
PROPERTIES
    WorkDone
    DataServed
    PoolTerminates
