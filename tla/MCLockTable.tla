---------------------------- MODULE MCLockTable ----------------------------
(* Small instances of LockTable over three bytes: three owners in two      *)
(* sessions; the third session is empty.                                   *)
EXTENDS LockTable

CONSTANTS a, b, c, s1, s2, s3, t1, t2, t3, t4, i1, i2, i3

Posix(owner, type, first, last) ==
    [kind |-> "posix", owner |-> owner, type |-> type, first |-> first, last |-> last]

MCOwnerSession == (a :> s1) @@ (b :> s1) @@ (c :> s2)
MCIdSession == (i1 :> s1) @@ (i2 :> s1) @@ (i3 :> s2)

(* i1 is delivered twice: t2 is the retry of t1.                           *)
MCCall == (t1 :> [id |-> i1, req |-> Posix(a, "write", 0, 1)])
       @@ (t2 :> [id |-> i1, req |-> Posix(a, "write", 0, 1)])
       @@ (t4 :> [id |-> i3, req |-> Posix(c, "read", 1, 2)])

(* b may keep a and c out; the partial unlock splits b's segment.          *)
MCRequests == { Posix(b, "write", 0, 2), Posix(b, "unlock", 1, 1), 
                [kind |-> "flock", owner |-> a, type |-> "write", first |-> 0, last |-> 2] }

(* Every owner holds one byte and wants the next owner's: a cycle of three *)
(* waits, and shorter ones when a byte changes hands.                      *)
RingCall == (t1 :> [id |-> i1, req |-> Posix(a, "write", 1, 1)])
         @@ (t3 :> [id |-> i2, req |-> Posix(b, "write", 2, 2)])
         @@ (t4 :> [id |-> i3, req |-> Posix(c, "write", 0, 0)])

RingRequests == { Posix(a, "write", 0, 0), Posix(b, "write", 1, 1), Posix(c, "read", 2, 2),
                  Posix(b, "unlock", 1, 1), Posix(c, "read", 1, 1) }
=============================================================================
