---------------------------- MODULE MCLockRanges ----------------------------
(* The range arithmetic of LockRanges against a reference that keeps, for  *)
(* every owner, the type each byte is held under.  Both follow every       *)
(* sequence of requests that conflict with nobody.                         *)
EXTENDS LockRanges

CONSTANT MaxLocks

VARIABLES locks,   \* the merged segments, as apply_lock leaves them
          bytes    \* the reference

vars == <<locks, bytes>>

(* One kind is enough: kinds never meet.                                   *)
Asked == { r \in LockRequest : r.kind = "posix" }

Init ==
    /\ locks = {}
    /\ bytes = [o \in Owners |-> [x \in Bytes |-> "unlock"]]

(* apply_lock: nothing changes when the result would not fit.              *)
ApplyLock(req) ==
    /\ ~ HasConflict(locks, req)
    /\ Cardinality(Applied(locks, req)) <= MaxLocks
    /\ locks' = Applied(locks, req)
    /\ bytes' = [bytes EXCEPT ![req.owner] =
           [x \in Bytes |-> IF x \in req.first .. req.last THEN req.type ELSE bytes[req.owner][x]]]

Next == \E req \in Asked : ApplyLock(req)

Spec == Init /\ [][Next]_vars

(* After any sequence of locks, upgrades, downgrades and partial unlocks   *)
(* the segments of an owner cover a byte exactly under the type it was     *)
(* last given, and no other owner's bytes were touched.                    *)
SegmentsMatchBytes ==
    \A o \in Owners, x \in Bytes :
        { l.type : l \in { l \in locks : l.owner = o /\ x \in l.first .. l.last } }
            = {bytes[o][x]} \ {"unlock"}

(* Segments stay merged: no owner has two over one byte, or two of one     *)
(* type that touch, so that max_locks counts merged segments.              *)
SegmentsMerged ==
    \A l, m \in locks :
        (l # m /\ l.owner = m.owner) =>
            /\ ~ Overlaps(l, m)
            /\ l.type = m.type => ~ TouchesOrOverlaps(l, m)
=============================================================================
