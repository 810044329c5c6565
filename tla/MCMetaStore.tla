----------------------------- MODULE MCMetaStore -----------------------------
(***************************************************************************)
(* Instances of MetaStore for TLC.                                         *)
(***************************************************************************)
EXTENDS MetaStore, TLC

CONSTANTS k1, k2, v1, v2, r1, r2, r3, n1, s1, s2

\* Processes and callers are interchangeable
Symmetry == Permutations(Meta) \cup Permutations(Caller)

Txn(r, o, conds, writes, result) ==
    [kind |-> "txn", request |-> r, operation |-> o, conditions |-> conds,
     writes |-> writes, result |-> result]

Lease(r, n, s) == [kind |-> "register", request |-> r, node |-> n, session |-> s]

(* Two racing creators of k1, the second of which also deletes k2, and a    *)
(* reuse of the first request key for another operation.                    *)
TxnOps ==
    {Txn(r1, "create", {[kind |-> "missing", key |-> k1]},
         <<[key |-> k1, value |-> v1], [key |-> k2, value |-> v1]>>, v1),
     Txn(r2, "update", {[kind |-> "equals", key |-> k1, value |-> v1]},
         <<[key |-> k1, value |-> v2], [key |-> k2, value |-> None]>>, v2),
     Txn(r1, "update", {[kind |-> "revision", key |-> k1, revision |-> 1]},
         <<[key |-> k1, value |-> v2]>>, v2)}

(* Two processes of one node: the first registers, the second takes over,  *)
(* the first sends one more heartbeat; a transaction fenced by the first.  *)
SessionOps ==
    {Lease(r1, n1, s1), Lease(r2, n1, s2), Lease(r3, n1, s1),
     Txn(r2, "create", {[kind |-> "session", node |-> n1, session |-> s1]},
         <<[key |-> k1, value |-> v1]>>, v1)}
=============================================================================
