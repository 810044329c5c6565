\* A late heartbeat of a replaced session
CONSTANTS
    Key = {k1}
    Value = {v1}
    Request = {r1, r2, r3}
    Operation = {"create", "RegisterNode"}
    Node = {n1}
    Session = {s1, s2}
    Ttl = 2
    None = None
    Meta = {p1}
    Caller = {c1}
    Ops <- SessionOps
    BatchMax = 2
    QueueMax = 2
    WatchLimit = 1
    MaxCalls = 4
    MaxCrashes = 0
    MaxTime = 2
    k1 = k1
    k2 = k2
    v1 = v1
    v2 = v2
    r1 = r1
    r2 = r2
    r3 = r3
    n1 = n1
    s1 = s1
    s2 = s2
SPECIFICATION Spec
PROPERTY ReplacedSessionFenced
CHECK_DEADLOCK FALSE
