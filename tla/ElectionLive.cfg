\* A group on duty loses a node, which comes back.
SPECIFICATION FairSpec
CONSTANTS
    n1 = n1
    n2 = n2
    n3 = n3
    Nodes = {n1, n2, n3}
    Bounds <- LiveBounds
\* Out of bounds the nodes have nothing left to do.
CHECK_DEADLOCK FALSE
PROPERTIES
    OrphansLeave
