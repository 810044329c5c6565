SPECIFICATION Spec
CONSTANTS
    n1 = n1
    n2 = n2
    t1 = t1
    m1 = m1
    t2 = t2
    h1 = h1
    h2 = h2
    Nodes = {n1}
    Threads = {t1}
    NodeOf <- MCNodeOf
    Maintenance = {}
    Readers = {}
    WriteReasons = {"none"}
    SyncReasons = {"DataSync"}
    KillOptions = {FALSE}
    Slots = {h1, h2}
    MaxWrites = 1
    MaxOps = 1
    MaxExpiries = 0
    MaxChmods = 0
    MaxFailures = 1
    MaxCrashes = 0
SYMMETRY SlotSymmetry
INVARIANT RejectionIsDefinite
CHECK_DEADLOCK FALSE
