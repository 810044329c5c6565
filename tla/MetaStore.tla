------------------------------ MODULE MetaStore ------------------------------
(***************************************************************************)
(* The Store of afs-meta: its commit loop, its visible snapshot, and the   *)
(* versioned backend it persists through (src/src/meta/store.rs).          *)
(*                                                                         *)
(* Several Meta processes may share one compare-and-swap backend (etcd or  *)
(* redis; a local-file backend admits one at a time): a process may crash  *)
(* at any step, a commit request that was sent may take effect after its   *)
(* sender has given up, and another process may take over in between.      *)
(* Callers give up on calls and retry them under the same request key, at  *)
(* any process.                                                            *)
(***************************************************************************)
EXTENDS MetaState

CONSTANTS
    Meta,         \* Meta processes
    Caller,       \* RPC tasks that call the store
    Ops,          \* the mutations they may ask for
    BatchMax,     \* bound on one commit batch (64 in the source)
    QueueMax,     \* capacity of the mutation queue (1024 in the source)
    WatchLimit,   \* limit of one watch batch (1024 in the source)
    MaxCalls,     \* bound: calls made by all callers together
    MaxCrashes,   \* bound: crashes of Meta processes
    MaxTime       \* bound: the wall clock

ASSUME MetaStoreAssumption ==
    /\ Ops \subseteq Mutation
    /\ {BatchMax, QueueMax, WatchLimit} \subseteq Nat \ {0}
    /\ {MaxCalls, MaxCrashes, MaxTime} \subseteq Nat

VARIABLES
    backend,   \* every snapshot the backend has accepted; its version is Len(backend)
    wire,      \* commit requests on their way to the backend
    proc,      \* the Meta processes
    call,      \* the callers
    calls,     \* calls made so far; a call is known by its number
    watcher,   \* one consumer of the event stream
    now,       \* wall clock
    crashes    \* crashes so far

vars == <<backend, wire, proc, call, calls, watcher, now, crashes>>

-----------------------------------------------------------------------------
CallId == [caller: Caller, number: Nat]

Item == [id: CallId, op: Ops]

QueuedReply == [id: CallId, request: Request, reply: Reply]

Phase == {"idle", "staging", "persisting", "accepted", "replying", "stopped"}

Process ==
    [up: BOOLEAN, poisoned: BOOLEAN,
     committed: StoreState, version: Nat,          \* Visible and backend_version
     queue: Seq(Item), batch: Seq(Item),
     phase: Phase, staged: StoreState, dirty: BOOLEAN,
     replies: Seq(QueuedReply)]

Commit == [meta: Meta, version: Nat, state: StoreState]

Call ==
    [status: {"idle", "waiting", "done", "abandoned"}, number: Nat,
     meta: Meta \cup {None}, request: Request \cup {None}, reply: Reply]

\* The watcher's cursor and events are typed by WatchComplete
TypeOK ==
    /\ backend \in Seq(StoreState)
    /\ wire \in SUBSET Commit
    /\ proc \in [Meta -> Process]
    /\ call \in [Caller -> Call]
    /\ calls \in Nat
    /\ now \in Nat
    /\ crashes \in Nat

\* The snapshot that backend.load returns at a version; None loads the empty state
At(v) == IF v = 0 THEN EmptyState ELSE backend[v]

Latest == At(Len(backend))

Down ==
    [up |-> FALSE, poisoned |-> TRUE, committed |-> EmptyState, version |-> 0,
     queue |-> << >>, batch |-> << >>, phase |-> "stopped",
     staged |-> EmptyState, dirty |-> FALSE, replies |-> << >>]

NoCall ==
    [status |-> "idle", number |-> 0, meta |-> None, request |-> None,
     reply |-> Plain("unavailable")]

Init ==
    /\ backend = << >>
    /\ wire = {}
    /\ proc = [p \in Meta |-> Down]
    /\ call = [c \in Caller |-> NoCall]
    /\ calls = 0
    /\ watcher = [cursor |-> 0, seen |-> << >>]
    /\ now = 0
    /\ crashes = 0

-----------------------------------------------------------------------------
\* A caller waits for the reply of the call it made last
Waits(id) ==
    call[id.caller].status = "waiting" /\ call[id.caller].number = id.number

Answer(id, reply) ==
    IF Waits(id)
    THEN call' = [call EXCEPT ![id.caller] = [@ EXCEPT !.status = "done", !.reply = reply]]
    ELSE UNCHANGED call

\* Every waiting call at p loses its reply channel
AnswerUnavailable(p) ==
    call' = [c \in Caller |->
                IF call[c].status = "waiting" /\ call[c].meta = p
                THEN [call[c] EXCEPT !.status = "done", !.reply = Plain("unavailable")]
                ELSE call[c]]

-----------------------------------------------------------------------------
\* Store::open
Open(p) ==
    /\ ~proc[p].up
    /\ proc' = [proc EXCEPT ![p] =
                   [Down EXCEPT !.up = TRUE, !.poisoned = FALSE, !.phase = "idle",
                                !.committed = Latest, !.version = Len(backend)]]
    /\ UNCHANGED <<backend, wire, call, calls, watcher, now, crashes>>

\* Store::mutate: refused by a poisoned store, queued otherwise
Mutate(c, p, op) ==
    /\ call[c].status # "waiting"
    /\ calls < MaxCalls
    /\ proc[p].up
    /\ ~proc[p].poisoned
    /\ Len(proc[p].queue) < QueueMax
    /\ call' = [call EXCEPT ![c] =
                   [status |-> "waiting", number |-> calls + 1, meta |-> p,
                    request |-> op.request, reply |-> Plain("unavailable")]]
    /\ calls' = calls + 1
    /\ LET item == [id |-> [caller |-> c, number |-> calls + 1], op |-> op]
       IN  proc' = [proc EXCEPT ![p] = [@ EXCEPT !.queue = Append(proc[p].queue, item)]]
    /\ UNCHANGED <<backend, wire, watcher, now, crashes>>

\* The caller's deadline passes; what it queued stays queued
GiveUp(c) ==
    /\ call[c].status = "waiting"
    /\ call' = [call EXCEPT ![c] = [@ EXCEPT !.status = "abandoned"]]
    /\ UNCHANGED <<backend, wire, proc, calls, watcher, now, crashes>>

\* run_commit_loop: collect a batch and fork the committed state
Gather(p) ==
    /\ proc[p].phase = "idle"
    /\ proc[p].queue # << >>
    /\ LET n == IF Len(proc[p].queue) < BatchMax THEN Len(proc[p].queue) ELSE BatchMax
       IN  proc' = [proc EXCEPT ![p] =
                       [@ EXCEPT !.phase = "staging",
                                 !.batch = SubSeq(proc[p].queue, 1, n),
                                 !.queue = SubSeq(proc[p].queue, n + 1, Len(proc[p].queue)),
                                 !.staged = proc[p].committed,
                                 !.dirty = FALSE,
                                 !.replies = << >>]]
    /\ UNCHANGED <<backend, wire, call, calls, watcher, now, crashes>>

\* run_commit_loop: one mutation of the batch runs on the fork
Stage(p) ==
    /\ proc[p].phase = "staging"
    /\ proc[p].batch # << >>
    /\ LET item == Head(proc[p].batch)
           result == Execute(proc[p].staged, item.op, now)
           entry == [id |-> item.id, request |-> item.op.request,
                     reply |-> result.reply]
       IN  proc' = [proc EXCEPT ![p] =
                       [@ EXCEPT !.batch = Tail(proc[p].batch),
                                 !.staged = result.state,
                                 !.dirty = proc[p].dirty \/ result.reply.kind = "committed",
                                 !.replies = Append(proc[p].replies, entry)]]
    /\ UNCHANGED <<backend, wire, call, calls, watcher, now, crashes>>

\* Faulty variant: the replies go out without the commit
SkipPersistAlways(p) ==
    /\ proc[p].phase = "staging"
    /\ proc[p].batch = << >>
    /\ proc' = [proc EXCEPT ![p] = [@ EXCEPT !.phase = "replying"]]
    /\ UNCHANGED <<backend, wire, call, calls, watcher, now, crashes>>

\* run_commit_loop: nothing changed, the replies go out at once
SkipPersist(p) ==
    /\ proc[p].phase = "staging"
    /\ proc[p].batch = << >>
    /\ ~proc[p].dirty
    /\ proc' = [proc EXCEPT ![p] = [@ EXCEPT !.phase = "replying"]]
    /\ UNCHANGED <<backend, wire, call, calls, watcher, now, crashes>>

\* run_commit_loop: backend.commit is sent with the version the loop knows
Persist(p) ==
    /\ proc[p].phase = "staging"
    /\ proc[p].batch = << >>
    /\ proc[p].dirty
    /\ proc' = [proc EXCEPT ![p] = [@ EXCEPT !.phase = "persisting"]]
    /\ wire' = wire \cup {[meta |-> p, version |-> proc[p].version,
                           state |-> proc[p].staged]}
    /\ UNCHANGED <<backend, call, calls, watcher, now, crashes>>

\* The sender of m still waits for the answer to m
AwaitsCommit(m) ==
    /\ proc[m.meta].phase = "persisting"
    /\ proc[m.meta].version = m.version
    /\ proc[m.meta].staged = m.state

\* Faulty variant: the expected version is not compared
BackendCommitBlind(m) ==
    /\ backend' = Append(backend, m.state)
    /\ wire' = wire \ {m}
    /\ proc' = IF AwaitsCommit(m)
               THEN [proc EXCEPT ![m.meta] = [@ EXCEPT !.phase = "accepted"]] ELSE proc
    /\ UNCHANGED <<call, calls, watcher, now, crashes>>

\* StoreBackend::commit replaces the snapshot when its version is the expected one
BackendCommit(m) ==
    /\ m.version = Len(backend)
    /\ backend' = Append(backend, m.state)
    /\ wire' = wire \ {m}
    /\ proc' = IF AwaitsCommit(m)
               THEN [proc EXCEPT ![m.meta] = [@ EXCEPT !.phase = "accepted"]] ELSE proc
    /\ UNCHANGED <<call, calls, watcher, now, crashes>>

\* Faulty variant: the failed batch keeps its reply channels
FailSilently(p) ==
    /\ proc' = [proc EXCEPT ![p] =
                   [@ EXCEPT !.poisoned = TRUE, !.phase = "stopped",
                             !.queue = << >>, !.replies = << >>]]
    /\ UNCHANGED call

\* The loop breaks: poison, answer unavailable, drop the receiver with its queue
Fail(p) ==
    /\ proc' = [proc EXCEPT ![p] =
                   [@ EXCEPT !.poisoned = TRUE, !.phase = "stopped",
                             !.queue = << >>, !.replies = << >>]]
    /\ AnswerUnavailable(p)

\* The backend refuses a commit whose expected version is stale
BackendRefuse(m) ==
    /\ m.version # Len(backend)
    /\ wire' = wire \ {m}
    /\ IF AwaitsCommit(m) THEN Fail(m.meta) ELSE UNCHANGED <<proc, call>>
    /\ UNCHANGED <<backend, calls, watcher, now, crashes>>

\* The answer is lost, before or after the backend acted on the commit
CommitLost(p) ==
    /\ proc[p].phase \in {"persisting", "accepted"}
    /\ Fail(p)
    /\ UNCHANGED <<backend, wire, calls, watcher, now, crashes>>

\* Faulty variant: the fork becomes visible while its commit is under way
PublishEarly(p) ==
    /\ proc[p].phase \in {"persisting", "accepted"}
    /\ proc' = [proc EXCEPT ![p] =
                   [@ EXCEPT !.phase = "replying", !.version = proc[p].version + 1,
                             !.committed = proc[p].staged]]
    /\ UNCHANGED <<backend, wire, call, calls, watcher, now, crashes>>

\* run_commit_loop: the acknowledged fork becomes visible to readers
Publish(p) ==
    /\ proc[p].phase = "accepted"
    /\ proc' = [proc EXCEPT ![p] =
                   [@ EXCEPT !.phase = "replying", !.version = proc[p].version + 1,
                             !.committed = proc[p].staged]]
    /\ UNCHANGED <<backend, wire, call, calls, watcher, now, crashes>>

\* run_commit_loop: send one reply of the batch
SendReply(p) ==
    /\ proc[p].phase = "replying"
    /\ proc[p].replies # << >>
    /\ Answer(Head(proc[p].replies).id, Head(proc[p].replies).reply)
    /\ proc' = [proc EXCEPT ![p] = [@ EXCEPT !.replies = Tail(proc[p].replies)]]
    /\ UNCHANGED <<backend, wire, calls, watcher, now, crashes>>

EndBatch(p) ==
    /\ proc[p].phase = "replying"
    /\ proc[p].replies = << >>
    /\ proc' = [proc EXCEPT ![p] = [@ EXCEPT !.phase = "idle"]]
    /\ UNCHANGED <<backend, wire, call, calls, watcher, now, crashes>>

\* The process dies; its memory is gone, what it sent to the backend is not
Crash(p) ==
    /\ proc[p].up
    /\ crashes < MaxCrashes
    /\ crashes' = crashes + 1
    /\ proc' = [proc EXCEPT ![p] = Down]
    /\ AnswerUnavailable(p)
    /\ UNCHANGED <<backend, wire, calls, watcher, now>>

\* Store::watch from the cursor, which then moves to next_revision - 1
Poll(p) ==
    /\ proc[p].up
    /\ ~proc[p].poisoned
    /\ LET events == Watch(proc[p].committed, watcher.cursor, WatchLimit)
       IN  watcher' = [cursor |-> NextRevision(events, watcher.cursor) - 1,
                       seen |-> watcher.seen \o events]
    /\ UNCHANGED <<backend, wire, proc, call, calls, now, crashes>>

Tick ==
    /\ now < MaxTime
    /\ now' = now + 1
    /\ UNCHANGED <<backend, wire, proc, call, calls, watcher, crashes>>

Loop(p) ==
    \/ Gather(p) \/ Stage(p) \/ SkipPersist(p) \/ Persist(p)
    \/ CommitLost(p) \/ Publish(p) \/ SendReply(p) \/ EndBatch(p)

Next ==
    \/ \E p \in Meta : Open(p) \/ Loop(p) \/ Crash(p) \/ Poll(p)
    \/ \E m \in wire : BackendCommit(m) \/ BackendRefuse(m)
    \/ \E c \in Caller :
          GiveUp(c) \/ \E p \in Meta, op \in Ops : Mutate(c, p, op)
    \/ Tick

Spec == Init /\ [][Next]_vars

(***************************************************************************)
(* Fairness.  The commit loop is a task of the async runtime that always   *)
(* runs on, and every backend request is answered or fails.                *)
(***************************************************************************)
Fairness ==
    /\ \A p \in Meta : WF_vars(Loop(p))
    /\ WF_vars(\E m \in wire : BackendCommit(m) \/ BackendRefuse(m))

FairSpec == Spec /\ Fairness

-----------------------------------------------------------------------------
(***************************************************************************)
(* Readers of a store never see more than the backend has accepted: the    *)
(* visible snapshot of every process is the one stored under its version,  *)
(* whatever the loop has staged (Store::committed, StoreState::fork).      *)
(***************************************************************************)
VisibleIsDurable ==
    \A p \in Meta :
        proc[p].up => /\ proc[p].version <= Len(backend)
                      /\ proc[p].committed = At(proc[p].version)

(***************************************************************************)
(* An outcome that a caller was given, freshly committed or replayed, is   *)
(* the one the backend holds for that request, through every crash,        *)
(* takeover and retry (run_commit_loop replies after the commit).          *)
(***************************************************************************)
AckedDurable ==
    \A c \in Caller :
        call[c].status = "done" /\ HasOutcome(call[c].reply) =>
            Latest.requests[call[c].request] = call[c].reply.outcome

(***************************************************************************)
(* Exactly once: the revisions of the authority are as many as the         *)
(* requests it has answered, so no retry was applied twice and no applied  *)
(* request lost its outcome (MetaTxn::validate, compare_and_commit).       *)
(***************************************************************************)
ExactlyOnce ==
    Latest.revision = Cardinality({r \in Request : Latest.requests[r] # None})

(***************************************************************************)
(* A consumer that resumes from its cursor has seen every event up to the  *)
(* cursor once and in order, across restarts of the process it polls and   *)
(* however small the watch limit, and its cursor never runs ahead of the   *)
(* authority, where it would skip events to come (StoreState::watch).      *)
(***************************************************************************)
WatchComplete ==
    /\ watcher.cursor \in 0..Latest.revision
    /\ watcher.seen = SelectSeq(Latest.events, LAMBDA e : e.revision <= watcher.cursor)

(***************************************************************************)
(* A session epoch is never handed out twice for a node: two sessions that *)
(* were registered for one node have different epochs, even when they were *)
(* registered at different processes (register_node_session).              *)
(***************************************************************************)
EpochsDistinct ==
    \A n \in Node, s, t \in Session :
        LET a == Latest.sessions[n][s]
            b == Latest.sessions[n][t]
        IN  s # t /\ a # None /\ b # None => a.epoch # b.epoch

(***************************************************************************)
(* The epoch of a node's current session never decreases, and it stays     *)
(* only while the same session is renewed (register_node_session: "Only a  *)
(* new session_id advances the Node epoch").                               *)
(***************************************************************************)
EpochsAdvance ==
    [][\A n \in Node :
          LET a == Latest.current[n]
              b == Latest'.current[n]
          IN  a # None /\ b # None /\ a # b =>
                  \/ b.epoch > a.epoch
                  \/ b.epoch = a.epoch
                        /\ b.session = a.session]_backend

(***************************************************************************)
(* "A successful new session for the same node fences the previous         *)
(* session" (MetaStore::register_node_session): a session that becomes     *)
(* current either is current already or was never registered before.       *)
(***************************************************************************)
ReplacedSessionFenced ==
    [][\A n \in Node :
          LET a == Latest.current[n]
              b == Latest'.current[n]
          IN  a # None /\ b # None /\ a.session # b.session =>
                  Latest.sessions[n][b.session] = None]_backend

(***************************************************************************)
(* What the backend holds for a request is never rewritten, and the        *)
(* authority never moves back to an earlier revision (the compare-and-swap *)
(* on backend_version).                                                    *)
(***************************************************************************)
OutcomesStable ==
    [][/\ Latest'.revision >= Latest.revision
       /\ \A r \in Request :
             Latest.requests[r] # None => Latest'.requests[r] = Latest.requests[r]]_backend

(***************************************************************************)
(* Every call is answered, if only with unavailable: a batch that fails    *)
(* answers its callers and the loop's exit drops the queue (fail_batch,    *)
(* oneshot and mpsc channels).                                             *)
(***************************************************************************)
CallsAnswered ==
    \A c \in Caller : call[c].status = "waiting" ~> call[c].status # "waiting"

-----------------------------------------------------------------------------
(***************************************************************************)
(* The Store implements the abstract authority: the authority's records    *)
(* are those of the backend's latest snapshot, and an answer is a reply    *)
(* that carries an outcome.                                                *)
(***************************************************************************)
Answered ==
    [c \in Caller |->
        IF call[c].status = "done" /\ HasOutcome(call[c].reply)
        THEN [request |-> call[c].request, outcome |-> call[c].reply.outcome]
        ELSE None]

Authority ==
    INSTANCE MetaAuthority
        WITH requests <- Latest.requests, revision <- Latest.revision,
             answer <- Answered

(***************************************************************************)
(* Every step of the Store is a step of the abstract authority or leaves   *)
(* it alone (run_commit_loop, Store::mutate, Store::open).                 *)
(***************************************************************************)
ImplementsAuthority == Authority!Spec
=============================================================================
