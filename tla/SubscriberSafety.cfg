\* Every kind of subscriber, removed at its first failure or a full queue.
SPECIFICATION Spec
CONSTANTS
    p1 = p1
    p2 = p2
    Publishers = {p1, p2}
    Kinds = {"oneway", "twoway", "ordered", "batch", "link"}
    WindowSize = 2
    RetryCount = 0
    QueueMax = 3
    DropEvents = FALSE
    Costly = {2}
    MaxEvents = 7
    MaxBatch = 2
    MaxResets = 1
CHECK_DEADLOCK FALSE
SYMMETRY PublisherSymmetry
INVARIANTS
    TypeOK
    OutstandingAccounted
    NoStuckQueue
    SentInOrder
    QueueBounded
    ReapAssertion
    ReapedOnce
    BatchNotEmpty
    ShutdownDrains
PROPERTIES
    NoSilentLoss
