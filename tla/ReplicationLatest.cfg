\* An election after a restart: does the new master have what clients were told?
SPECIFICATION Spec
CONSTANTS
    n1 = n1
    n2 = n2
    n3 = n3
    t1 = t1
    t2 = t2
    s1 = s1
    Nodes = {n1, n2, n3}
    Topics = {t1}
    Subs = {}
    MaxOps = 1
    MaxGroups = 2
    MaxFailures = 1
    MaxRestarts = 1
\* Out of bounds the nodes have nothing left to do.
CHECK_DEADLOCK FALSE
SYMMETRY Symmetric
PROPERTIES
    LatestDatabaseState
