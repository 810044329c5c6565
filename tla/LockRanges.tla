----------------------------- MODULE LockRanges -----------------------------
(***************************************************************************)
(* The byte-range arithmetic of the advisory lock table                    *)
(* (src/node/vfs/locks.rs): which lock conflicts with which request, and   *)
(* how a granted request rewrites the owner's merged segments.             *)
(*                                                                         *)
(* A lock is a record of the kind of lock (POSIX or flock), the owner, the *)
(* type and the inclusive range first..last.  The vector of the code is a  *)
(* set here: one owner never holds two segments over the same byte, and    *)
(* nothing the table decides depends on the order.  The pid and the        *)
(* sequence number, which only choose the lock that getlk reports, are     *)
(* left out.  MaxByte stands for u64::MAX, the end of a lock that runs to  *)
(* the end of the file.                                                    *)
(***************************************************************************)
EXTENDS Naturals, FiniteSets, Sequences, SequencesExt

CONSTANTS Owners,   \* FileLockOwner values
          MaxByte   \* the largest offset

ASSUME RangesAssumption == MaxByte \in Nat

Kinds == {"posix", "flock"}

Bytes == 0 .. MaxByte

(* A request; "unlock" is a type of request, never of a held lock.         *)
LockRequest ==
    { r \in [kind : Kinds, owner : Owners, type : {"read", "write", "unlock"},
             first : Bytes, last : Bytes] : r.first <= r.last }

ActiveLock == { r \in LockRequest : r.type # "unlock" }

Overlaps(a, b) == a.first <= b.last /\ b.first <= a.last

(* checked_add: nothing touches a range that ends at the largest offset.   *)
Follows(a, b) == a.last < MaxByte /\ a.last + 1 = b.first

TouchesOrOverlaps(a, b) == Overlaps(a, b) \/ Follows(a, b) \/ Follows(b, a)

(* Faulty variant: an exclusive request passes over a shared lock.         *)
ConflictsHeldWriteOnly(lock, req) ==
    /\ lock.kind = req.kind
    /\ lock.owner # req.owner
    /\ Overlaps(lock, req)
    /\ lock.type = "write"

Conflicts(lock, req) ==
    /\ lock.kind = req.kind
    /\ lock.owner # req.owner
    /\ Overlaps(lock, req)
    /\ "write" \in {lock.type, req.type}

HasConflict(locks, req) ==
    req.type # "unlock" /\ \E lock \in locks : Conflicts(lock, req)

BlockingOwners(locks, req) ==
    { lock.owner : lock \in { l \in locks : Conflicts(l, req) } }

(* Faulty variant: the part behind the removed range starts on its last    *)
(* byte.                                                                   *)
RemainsOverlap(lock, cut) ==
    (IF lock.first < cut.first THEN {[lock EXCEPT !.last = cut.first - 1]} ELSE {})
    \cup
    (IF lock.last > cut.last THEN {[lock EXCEPT !.first = cut.last]} ELSE {})

(* What one overlapped segment leaves before and behind the removed range. *)
Remains(lock, cut) ==
    (IF lock.first < cut.first THEN {[lock EXCEPT !.last = cut.first - 1]} ELSE {})
    \cup
    (IF lock.last > cut.last THEN {[lock EXCEPT !.first = cut.last + 1]} ELSE {})

TrimSameOwnerRange(locks, req) ==
    UNION { IF lock.kind = req.kind /\ lock.owner = req.owner /\ Overlaps(lock, req)
              THEN Remains(lock, req)
              ELSE {lock} : lock \in locks }

(* Faulty variant: only overlapping segments are merged.                   *)
MergeOverlapping(merged, lock) ==
    IF merged # << >> /\ Overlaps(Last(merged), lock)
      THEN [merged EXCEPT ![Len(merged)].last = IF lock.last > @ THEN lock.last ELSE @]
      ELSE Append(merged, lock)

(* The scan over one group of segments (same kind, owner and type) in      *)
(* order of their first byte: a segment that touches the last merged one   *)
(* extends it.                                                             *)
MergeNext(merged, lock) ==
    IF merged # << >> /\ TouchesOrOverlaps(Last(merged), lock)
      THEN [merged EXCEPT ![Len(merged)].last = IF lock.last > @ THEN lock.last ELSE @]
      ELSE Append(merged, lock)

Group(locks, lock) ==
    { l \in locks : /\ l.kind = lock.kind
                    /\ l.owner = lock.owner
                    /\ l.type = lock.type }

Coalesce(locks) ==
    UNION { LET sorted == SetToSortSeq(Group(locks, lock), LAMBDA a, b : a.first < b.first)
            IN  ToSet(FoldLeft(MergeNext, << >>, sorted)) : lock \in locks }

(* The segments after the request is applied.                              *)
Applied(locks, req) ==
    IF req.type = "unlock"
      THEN TrimSameOwnerRange(locks, req)
      ELSE Coalesce(TrimSameOwnerRange(locks, req) \cup {req})
=============================================================================
