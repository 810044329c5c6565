SPECIFICATION Spec
CONSTANTS
    n1 = n1
    n2 = n2
    t1 = t1
    m1 = m1
    t2 = t2
    h1 = h1
    h2 = h2
    Nodes = {n1, n2}
    Threads = {t1, t2}
    NodeOf <- MCNodeOf
    Maintenance = {}
    Readers = {n1}
    WriteReasons = {"none"}
    SyncReasons = {"FullSync"}
    KillOptions = {FALSE}
    Slots = {h1, h2}
    MaxWrites = 2
    MaxOps = 2
    MaxExpiries = 1
    MaxChmods = 0
    MaxFailures = 1
    MaxCrashes = 1
SYMMETRY SlotSymmetry
INVARIANTS SyncedPublished
PROPERTIES HeadGrows OnlyHolderPublishes
CHECK_DEADLOCK FALSE
