\* Updates, a failed call, a crash and two elections.
SPECIFICATION Spec
CONSTANTS
    n1 = n1
    n2 = n2
    n3 = n3
    t1 = t1
    t2 = t2
    s1 = s1
    Nodes = {n1, n2, n3}
    Topics = {t1}
    Subs = {s1}
    MaxOps = 3
    MaxGroups = 3
    MaxFailures = 1
    MaxRestarts = 1
\* Out of bounds the nodes have nothing left to do.
CHECK_DEADLOCK FALSE
SYMMETRY Symmetric
INVARIANTS
    TypeOK
    
    
