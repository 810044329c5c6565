SPECIFICATION Spec
CONSTANTS
    a = a
    b = b
    c = c
    s1 = s1
    s2 = s2
    s3 = s3
    t1 = t1
    t2 = t2
    t3 = t3
    t4 = t4
    i1 = i1
    i2 = i2
    i3 = i3
    Owners = {a, b, c}
    Sessions = {s1, s2}
    Threads = {t1, t3, t4}
    Ids = {i1, i2, i3}
    OwnerSession <- MCOwnerSession
    IdSession <- MCIdSession
    Call <- RingCall
    Requests <- RingRequests
    MaxByte = 2
    MaxLocks = 4
    MaxWaiters = 3
    MaxCancelledWaiters = 2
INVARIANTS NoConflict NoSilentDeadlock NoLostWakeup
CHECK_DEADLOCK FALSE
