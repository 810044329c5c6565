\* Two Meta processes over one backend, conditional transactions
CONSTANTS
    Key = {k1, k2}
    Value = {v1, v2}
    Request = {r1, r2}
    Operation = {"create", "update", "RegisterNode"}
    Node = {}
    Session = {}
    Ttl = 1
    None = None
    Meta = {p1, p2}
    Caller = {c1, c2}
    Ops <- TxnOps
    BatchMax = 2
    QueueMax = 2
    WatchLimit = 1
    MaxCalls = 3
    MaxCrashes = 1
    MaxTime = 0
    k1 = k1
    k2 = k2
    v1 = v1
    v2 = v2
    r1 = r1
    r2 = r2
    r3 = r3
    n1 = n1
    s1 = s1
    s2 = s2
SPECIFICATION Spec
INVARIANTS TypeOK VisibleIsDurable AckedDurable ExactlyOnce WatchComplete
PROPERTIES OutcomesStable ImplementsAuthority
SYMMETRY Symmetry
CHECK_DEADLOCK FALSE
