SPECIFICATION Spec
CONSTANTS
    a = a
    b = b
    c = c
    s1 = s1
    s2 = s2
    s3 = s3
    t1 = t1
    t2 = t2
    t3 = t3
    t4 = t4
    i1 = i1
    i2 = i2
    i3 = i3
    Owners = {a, b, c}
    Sessions = {s1, s2, s3}
    Threads = {t1, t2, t4}
    Ids = {i1, i2, i3}
    OwnerSession <- MCOwnerSession
    IdSession <- MCIdSession
    Call <- MCCall
    Requests <- MCRequests
    MaxByte = 2
    MaxLocks = 3
    MaxWaiters = 1
    MaxCancelledWaiters = 2
INVARIANTS  Bounded GrantedOnce EndedHoldNothing
PROPERTY CancelIsFinal
CHECK_DEADLOCK FALSE
