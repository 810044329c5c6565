------------------------------ MODULE MetaState ------------------------------
(***************************************************************************)
(* The authority state that afs-meta keeps behind its Store                *)
(* (src/src/meta/store.rs, MemoryState) and the pure transitions that the  *)
(* commit loop runs on a private fork of it: compare_and_commit,           *)
(* register_node_session and watch.                                        *)
(*                                                                         *)
(* Abstractions.  An entity's payload is a member of Value.  A transaction *)
(* is a record of its request key, its operation, its conditions and the   *)
(* entities it writes (None is a Delete); RecordRequestOutcome, which      *)
(* MetaTxn::validate forces on every transaction, is implied.  A           *)
(* RequestOutcome is the operation with the result that the transaction    *)
(* carries.  Conditions on OwnerFs roots and on the DFS namespace belong   *)
(* to the modules of those services.                                       *)
(***************************************************************************)
EXTENDS Naturals, Sequences, FiniteSets

CONSTANTS
    Key,        \* keys of ordinary entities
    Value,      \* their payloads
    Request,    \* RequestKey values: caller_id with request_id
    Operation,  \* StoreOperation values
    Node,       \* node ids
    Session,    \* session ids
    Ttl,        \* the lease_ttl that a node asks for
    None        \* the absent value

NodeSession == [session: Session, epoch: Nat, expires: Nat]

\* VersionedEntity: an entity with the revision that wrote it
Versioned == [revision: Nat, value: Value]

Outcome == [operation: Operation, result: Value \cup NodeSession]

(***************************************************************************)
(* MetaKey: a node session is stored under two keys, its own and the       *)
(* node's current one.                                                     *)
(***************************************************************************)
SessionKey(n, s) == <<"session", n, s>>

CurrentKey(n) == <<"current", n>>

MetaKey ==
    Key \cup {SessionKey(n, s) : n \in Node, s \in Session}
        \cup {CurrentKey(n) : n \in Node}

WatchEvent == [revision: Nat, index: Nat, key: MetaKey]

\* MemoryState
StoreState ==
    [revision: Nat,
     entities: [Key -> Versioned \cup {None}],
     sessions: [Node -> [Session -> NodeSession \cup {None}]],
     current: [Node -> NodeSession \cup {None}],
     requests: [Request -> Outcome \cup {None}],
     events: Seq(WatchEvent),
     epochs: [Node -> Nat]]

EmptyState ==
    [revision |-> 0,
     entities |-> [k \in Key |-> None],
     sessions |-> [n \in Node |-> [s \in Session |-> None]],
     current |-> [n \in Node |-> None],
     requests |-> [r \in Request |-> None],
     events |-> << >>,
     epochs |-> [n \in Node |-> 0]]

\* A write of a transaction: Put, or Delete when the value is None
Write == [key: Key, value: Value \cup {None}]

Condition ==
    [kind: {"missing"}, key: Key]
        \cup [kind: {"revision"}, key: Key, revision: Nat]
        \cup [kind: {"equals"}, key: Key, value: Value]
        \cup [kind: {"session"}, node: Node, session: Session]

\* Mutation::Transaction and Mutation::RegisterNode
Mutation ==
    [kind: {"txn"}, request: Request, operation: Operation,
     conditions: SUBSET Condition, writes: Seq(Write), result: Value]
        \cup [kind: {"register"}, request: Request, node: Node, session: Session]

ASSUME MetaStateAssumption ==
    /\ None \notin Value \cup Versioned \cup NodeSession \cup Outcome
    /\ "RegisterNode" \in Operation
    /\ IsFiniteSet(Request)
    /\ Ttl \in Nat \ {0}

-----------------------------------------------------------------------------
(***************************************************************************)
(* Replies of the two mutations.  "existing" is ConditionFailed with the   *)
(* recorded outcome, "failed" is ConditionFailed without one, "error" is   *)
(* Err before any change, "unavailable" is the reply of a Store whose      *)
(* commit loop failed.                                                     *)
(***************************************************************************)
Reply ==
    [kind: {"committed", "existing"}, outcome: Outcome]
        \cup [kind: {"failed", "error", "unavailable"}]

Committed(o) == [kind |-> "committed", outcome |-> o]

Existing(o) == [kind |-> "existing", outcome |-> o]

Plain(kind) == [kind |-> kind]

HasOutcome(reply) == reply.kind \in {"committed", "existing"}

-----------------------------------------------------------------------------
IsLive(session, now) == session.expires > now

\* current_session_matches
CurrentSessionMatches(st, n, s, now) ==
    /\ st.current[n] # None
    /\ st.current[n].session = s
    /\ IsLive(st.current[n], now)

\* condition_matches
ConditionMatches(st, c, now) ==
    CASE c.kind = "missing" -> st.entities[c.key] = None
      [] c.kind = "revision" -> /\ st.entities[c.key] # None
                                /\ st.entities[c.key].revision = c.revision
      [] c.kind = "equals"   -> /\ st.entities[c.key] # None
                                /\ st.entities[c.key].value = c.value
      [] c.kind = "session"  -> CurrentSessionMatches(st, c.node, c.session, now)

\* The entities after the writes of one transaction: the last write of a key wins
WritesOf(writes, k) == {i \in DOMAIN writes : writes[i].key = k}

LastWrite(writes, k) ==
    CHOOSE i \in WritesOf(writes, k) : \A j \in WritesOf(writes, k) : j <= i

\* Faulty variant: a Delete leaves an entity without a value behind
WrittenTombstone(st, writes, revision) ==
    [k \in Key |->
        IF WritesOf(writes, k) = {} THEN st.entities[k]
        ELSE [revision |-> revision, value |-> writes[LastWrite(writes, k)].value]]

Written(st, writes, revision) ==
    [k \in Key |->
        IF WritesOf(writes, k) = {} THEN st.entities[k]
        ELSE IF writes[LastWrite(writes, k)].value = None THEN None
        ELSE [revision |-> revision, value |-> writes[LastWrite(writes, k)].value]]

\* Faulty variant: the request's recorded outcome is not looked up
CommitAgain(st, txn, now) ==
    LET revision == st.revision + 1
        outcome == [operation |-> txn.operation, result |-> txn.result]
    IN  IF \E c \in txn.conditions : ~ConditionMatches(st, c, now)
        THEN [state |-> st, reply |-> Plain("failed")]
        ELSE [state |->
                 [st EXCEPT !.revision = revision,
                            !.entities = Written(st, txn.writes, revision),
                            !.requests[txn.request] = outcome],
              reply |-> Committed(outcome)]

(***************************************************************************)
(* StoreState::compare_and_commit: a recorded request is answered with its *)
(* outcome, failed conditions change nothing, and a commit takes the next  *)
(* revision, writes its entities, appends one event per write and records  *)
(* the outcome of its request.                                             *)
(***************************************************************************)
CompareAndCommit(st, txn, now) ==
    LET revision == st.revision + 1
        outcome == [operation |-> txn.operation, result |-> txn.result]
        new == [i \in 1..Len(txn.writes) |->
                   [revision |-> revision, index |-> i - 1,
                    key |-> txn.writes[i].key]]
    IN  IF st.requests[txn.request] # None
        THEN [state |-> st, reply |-> Existing(st.requests[txn.request])]
        ELSE IF \E c \in txn.conditions : ~ConditionMatches(st, c, now)
        THEN [state |-> st, reply |-> Plain("failed")]
        ELSE [state |->
                 [st EXCEPT !.revision = revision,
                            !.entities = Written(st, txn.writes, revision),
                            !.requests[txn.request] = outcome,
                            !.events = @ \o new],
              reply |-> Committed(outcome)]

(***************************************************************************)
(* StoreState::register_node_session: a known session that has expired is  *)
(* refused, the node's current session is renewed in its epoch while it is *)
(* live, and every other session takes the node's next epoch.  Both keys   *)
(* of the session are written in one revision.                             *)
(***************************************************************************)
IsExpired(st, lease, now) ==
    LET known == st.sessions[lease.node][lease.session]
    IN  known # None /\ ~IsLive(known, now)

\* Faulty variant: any heartbeat renews while some session of the node is live
RenewsAnySession(st, lease, now) ==
    /\ st.current[lease.node] # None
    /\ IsLive(st.current[lease.node], now)

IsRenewal(st, lease, now) ==
    CurrentSessionMatches(st, lease.node, lease.session, now)

\* Faulty variant: a known session keeps the epoch it was first given
EpochKept(st, lease, now) ==
    LET known == st.sessions[lease.node][lease.session]
    IN  IF known # None THEN known.epoch ELSE st.epochs[lease.node] + 1

LeaseEpoch(st, lease, now) ==
    IF IsRenewal(st, lease, now)
    THEN st.current[lease.node].epoch
    ELSE st.epochs[lease.node] + 1

RegisterNodeSession(st, lease, now) ==
    LET epoch == LeaseEpoch(st, lease, now)
        session == [session |-> lease.session, epoch |-> epoch,
                    expires |-> now + Ttl]
        revision == st.revision + 1
        outcome == [operation |-> "RegisterNode", result |-> session]
        new == <<[revision |-> revision, index |-> Len(st.events),
                  key |-> SessionKey(lease.node, lease.session)],
                 [revision |-> revision, index |-> Len(st.events) + 1,
                  key |-> CurrentKey(lease.node)]>>
    IN  IF st.requests[lease.request] # None
        THEN [state |-> st, reply |-> Existing(st.requests[lease.request])]
        ELSE IF IsExpired(st, lease, now)
        THEN [state |-> st, reply |-> Plain("error")]
        ELSE [state |->
                 [st EXCEPT !.revision = revision,
                            !.sessions[lease.node][lease.session] = session,
                            !.current[lease.node] = session,
                            !.requests[lease.request] = outcome,
                            !.events = @ \o new,
                            !.epochs[lease.node] =
                                IF IsRenewal(st, lease, now) THEN @ ELSE epoch],
              reply |-> Committed(outcome)]

\* A Mutation is a transaction or the registration of a node session
Execute(st, op, now) ==
    IF op.kind = "txn" THEN CompareAndCommit(st, op, now)
                       ELSE RegisterNodeSession(st, op, now)

-----------------------------------------------------------------------------
(***************************************************************************)
(* StoreState::watch: the events after a cursor, cut behind the revision   *)
(* of the limit-th one so that no revision is split.                       *)
(***************************************************************************)
EventsAfter(st, after) == SelectSeq(st.events, LAMBDA e : e.revision > after)

\* Faulty variant: the batch is cut at the limit, within a revision
WatchCut(st, after, limit) ==
    LET events == EventsAfter(st, after)
    IN  IF limit > 0 /\ Len(events) > limit THEN SubSeq(events, 1, limit) ELSE events

Watch(st, after, limit) ==
    LET events == EventsAfter(st, after)
    IN  IF limit > 0 /\ Len(events) > limit
        THEN SelectSeq(events, LAMBDA e : e.revision <= events[limit].revision)
        ELSE events

NextRevision(events, after) ==
    IF events = << >> THEN after + 1 ELSE events[Len(events)].revision + 1
=============================================================================
