SPECIFICATION FairSpec
CONSTANTS
    g1 = g1  g2 = g2  w = w  s = s  t1 = t1  t2 = t2  t3 = t3
    NoOperation = NoOperation
    Replica = {g1, g2}
    Workspace = {w}
    Sandbox = {s}
    Task = {t1, t2, t3}
    ReplicaOf <- Replicas
    WorkspaceOf <- Workspaces
    GlobalKey = 2
    KeyOf <- Derived
    Slots = 1
    MayDo <- Doings
INVARIANTS TypeOK ConflictsExcluded NoCircularWait
PROPERTIES AcquisitionsDecided
