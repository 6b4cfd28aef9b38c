\* Subscribers that go offline and come back; the oldest events are dropped.
SPECIFICATION FairSpec
CONSTANTS
    p1 = p1
    p2 = p2
    Publishers = {p1, p2}
    Kinds = {"oneway", "twoway", "ordered", "link"}
    WindowSize = 2
    RetryCount = 2
    QueueMax = 2
    DropEvents = TRUE
    Costly = {}
    MaxEvents = 7
    MaxBatch = 2
    MaxResets = 1
\* After shutdown nothing is left to do.
CHECK_DEADLOCK FALSE
INVARIANTS
    QueueBounded
PROPERTIES
    NoSilentLoss
    ShutdownReturns
    QueuedEventLeaves
