---------------------------- MODULE MetaAuthority ----------------------------
(***************************************************************************)
(* What the Store of afs-meta promises its services, whatever happens to   *)
(* processes and to the backend: one authority that records the outcome of *)
(* each request at most once, numbers its changes consecutively, and       *)
(* answers a caller only with a recorded outcome.                          *)
(***************************************************************************)
EXTENDS Naturals, FiniteSets

CONSTANTS Caller, Request, Outcome, None

VARIABLES
    requests,  \* the recorded outcome of each request, or None
    revision,  \* the number of changes made so far
    answer     \* the outcome each caller was given for its last call, or None

vars == <<requests, revision, answer>>

Answers == [request: Request, outcome: Outcome]

Init ==
    /\ requests = [r \in Request |-> None]
    /\ revision = 0
    /\ answer = [c \in Caller |-> None]

\* Some unanswered requests take effect, each in a revision of its own
Advance ==
    /\ requests' \in [Request -> Outcome \cup {None}]
    /\ \A r \in Request : requests[r] # None => requests'[r] = requests[r]
    /\ revision' = revision
          + Cardinality({r \in Request : requests[r] = None /\ requests'[r] # None})
    /\ UNCHANGED answer

\* A caller starts another call
Begin(c) ==
    /\ answer' = [answer EXCEPT ![c] = None]
    /\ UNCHANGED <<requests, revision>>

\* A caller learns what is recorded for its request
Answer(c, r) ==
    /\ requests[r] # None
    /\ answer' = [answer EXCEPT ![c] = [request |-> r, outcome |-> requests[r]]]
    /\ UNCHANGED <<requests, revision>>

Next ==
    \/ Advance
    \/ \E c \in Caller : Begin(c) \/ \E r \in Request : Answer(c, r)

Spec == Init /\ [][Next]_vars
=============================================================================
