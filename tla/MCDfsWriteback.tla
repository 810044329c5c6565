-------------------------- MODULE MCDfsWriteback --------------------------
(* Small instances of DfsWriteback: n1 with a caller's thread and the      *)
(* maintenance thread, n2 with one caller's thread.  Handler slots are     *)
(* interchangeable.                                                        *)
EXTENDS DfsWriteback, TLC

CONSTANTS n1, n2, t1, m1, t2, h1, h2

MCNodeOf == [t \in Threads |-> IF t = t2 THEN n2 ELSE n1]

SlotSymmetry == Permutations(Slots)
=============================================================================
