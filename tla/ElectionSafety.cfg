\* The first elections, and updates of a group on duty when a failure comes.
SPECIFICATION Spec
CONSTANTS
    n1 = n1
    n2 = n2
    n3 = n3
    Nodes = {n1, n2, n3}
    Bounds <- SafetyBounds
\* Out of bounds the nodes have nothing left to do.
CHECK_DEADLOCK FALSE
SYMMETRY NodeSymmetry
INVARIANTS
    TypeOK
    NoServiceBeforeFullGroup
    GroupAgreement
PROPERTIES
    MembershipStable
