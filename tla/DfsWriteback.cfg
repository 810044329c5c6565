SPECIFICATION Spec
CONSTANTS
    n1 = n1
    n2 = n2
    t1 = t1
    m1 = m1
    t2 = t2
    h1 = h1
    h2 = h2
    Nodes = {n1}
    Threads = {t1, m1}
    NodeOf <- MCNodeOf
    Maintenance = {m1}
    Readers = {}
    WriteReasons = {"none", "FullSync", "DirtyBudget"}
    SyncReasons = {"DataSync", "FullSync"}
    KillOptions = {FALSE, TRUE}
    Slots = {h1, h2}
    MaxWrites = 2
    MaxOps = 2
    MaxExpiries = 0
    MaxChmods = 1
    MaxFailures = 1
    MaxCrashes = 0
SYMMETRY SlotSymmetry
INVARIANTS TypeOK SyncedPublished NothingPassesPending OneCommitter 
CHECK_DEADLOCK FALSE
