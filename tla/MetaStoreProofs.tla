--------------------------- MODULE MetaStoreProofs ---------------------------
(***************************************************************************)
(* Proofs about the Store of afs-meta: its type invariant, that visible    *)
(* state is durable, that acknowledged outcomes are durable, and that      *)
(* every request takes effect at most once.                                *)
(***************************************************************************)
EXTENDS MetaStore, FiniteSetTheorems, WellFoundedInduction, TLAPS

Recorded(st) == {r \in Request : st.requests[r] # None}

\* One revision per recorded request
Counted(st) == st.revision = Cardinality(Recorded(st))

\* Later authority states keep every recorded outcome
Extends(s, t) ==
    /\ s.revision <= t.revision
    /\ \A r \in Request : s.requests[r] # None => t.requests[r] = s.requests[r]

-----------------------------------------------------------------------------
\* A nonempty set of indices has a greatest one
LEMMA GreatestIndex ==
    ASSUME NEW n \in Nat, NEW A \in SUBSET (1..n), A # {}
    PROVE  \E i \in A : \A j \in A : j <= i
  <1> DEFINE D == {n - i : i \in A}
  <1>1. D \subseteq Nat /\ D # {}
    <2>1. \A i \in A : n - i \in Nat
      OBVIOUS
    <2>2. PICK i \in A : TRUE
      BY Zenon
    <2>3. n - i \in D
      BY <2>2
    <2> QED
      BY <2>1, <2>3
  <1>2. PICK d \in D : \A e \in D : ~(<<e, d>> \in OpToRel(<, Nat))
    BY <1>1, NatLessThanWellFounded, WFMin, Zenon
  <1>3. \A e \in D : ~(e < d)
    BY Zenon, <1>1, <1>2 DEF OpToRel
  <1>4. PICK i \in A : d = n - i
    OBVIOUS
  <1>5. ASSUME NEW j \in A PROVE j <= i
    <2>1. n - j \in D
      OBVIOUS
    <2>2. ~(n - j < n - i)
      BY Zenon, <2>1, <1>3, <1>4
    <2>3. i \in Nat /\ j \in Nat
      OBVIOUS
    <2> HIDE DEF D
    <2> QED
      BY <2>2, <2>3
  <1> QED
    BY Zenon, <1>5

\* The entities that a transaction leaves behind are well-formed
LEMMA WrittenType ==
    ASSUME NEW st \in StoreState, NEW w \in Seq(Write), NEW v \in Nat
    PROVE  Written(st, w, v) \in [Key -> Versioned \cup {None}]
  <1>1. ASSUME NEW k \in Key, WritesOf(w, k) # {}
        PROVE  w[LastWrite(w, k)].value \in Value \cup {None}
    <2>1. WritesOf(w, k) \in SUBSET (1..Len(w))
      <3>1. DOMAIN w = 1..Len(w)
        OBVIOUS
      <3> QED
        BY <3>1 DEF WritesOf
    <2>2. \E i \in WritesOf(w, k) : \A j \in WritesOf(w, k) : j <= i
      <3>1. Len(w) \in Nat
        OBVIOUS
      <3> QED
        BY <3>1, <2>1, <1>1, GreatestIndex, Zenon
    <2>3. LastWrite(w, k) \in 1..Len(w)
      BY <2>1, <2>2 DEF LastWrite
    <2>4. w[LastWrite(w, k)] \in Write
      BY <2>3
    <2> QED
      BY <2>4 DEF Write
  <1>2. ASSUME NEW k \in Key
        PROVE  IF WritesOf(w, k) = {} THEN st.entities[k] \in Versioned \cup {None}
               ELSE IF w[LastWrite(w, k)].value = None THEN TRUE
               ELSE [revision |-> v, value |-> w[LastWrite(w, k)].value] \in Versioned
    BY <1>1, <1>2 DEF StoreState, Versioned
  <1> QED
    BY <1>2 DEF Written

-----------------------------------------------------------------------------
(***************************************************************************)
(* What Execute, the staged run of one mutation, may do.                   *)
(***************************************************************************)
LEMMA CompareAndCommitType ==
    ASSUME NEW st \in StoreState, NEW op \in Mutation, NEW t \in Nat,
           op.kind = "txn"
    PROVE  /\ CompareAndCommit(st, op, t).state \in StoreState
           /\ CompareAndCommit(st, op, t).reply \in Reply
  <1> DEFINE revision == st.revision + 1
             outcome == [operation |-> op.operation, result |-> op.result]
             new == [i \in 1..Len(op.writes) |->
                        [revision |-> revision, index |-> i - 1,
                         key |-> op.writes[i].key]]
  <1>1. op.request \in Request /\ op.writes \in Seq(Write) /\ outcome \in Outcome
    BY DEF Mutation, Outcome
  <1>2. revision \in Nat
    BY DEF StoreState
  <1>3. new \in Seq(WatchEvent)
    <2>1. ASSUME NEW i \in 1..Len(op.writes)
          PROVE  op.writes[i].key \in MetaKey /\ i - 1 \in Nat
      <3>1. op.writes[i] \in Write
        BY <1>1
      <3> QED
        BY <3>1 DEF Write, MetaKey
    <2>2. \A i \in 1..Len(op.writes) :
              [revision |-> revision, index |-> i - 1,
               key |-> op.writes[i].key] \in WatchEvent
      BY <2>1, <1>2 DEF WatchEvent
    <2>3. Len(op.writes) \in Nat
      BY <1>1
    <2> QED
      BY <2>2, <2>3
  <1>4. Written(st, op.writes, revision) \in [Key -> Versioned \cup {None}]
    BY <1>1, <1>2, WrittenType
  <1>5. CASE st.requests[op.request] # None
    BY <1>1, <1>5 DEF CompareAndCommit, Existing, Reply, StoreState
  <1>6. CASE /\ st.requests[op.request] = None
             /\ \E c \in op.conditions : ~ConditionMatches(st, c, t)
    BY <1>6 DEF CompareAndCommit, Plain, Reply
  <1>7. CASE /\ st.requests[op.request] = None
             /\ ~\E c \in op.conditions : ~ConditionMatches(st, c, t)
    <2> DEFINE end == [st EXCEPT !.revision = revision,
                                 !.entities = Written(st, op.writes, revision),
                                 !.requests[op.request] = outcome,
                                 !.events = @ \o new]
    <2>1. CompareAndCommit(st, op, t) = [state |-> end, reply |-> Committed(outcome)]
      BY <1>7 DEF CompareAndCommit
    <2>2. st.events \o new \in Seq(WatchEvent)
      BY <1>3 DEF StoreState
    <2>3. [st.requests EXCEPT ![op.request] = outcome]
              \in [Request -> Outcome \cup {None}]
      BY <1>1 DEF StoreState
    <2>4. end \in StoreState
      BY Zenon, <1>2, <1>4, <2>2, <2>3 DEF StoreState
    <2>5. Committed(outcome) \in Reply
      BY <1>1 DEF Committed, Reply
    <2> QED
      BY <2>1, <2>4, <2>5
  <1> QED
    BY <1>5, <1>6, <1>7

\* register_node_session leaves a well-formed state and answers with a reply.
LEMMA RegisterNodeSessionType ==
    ASSUME NEW st \in StoreState, NEW op \in Mutation, NEW t \in Nat,
           op.kind = "register"
    PROVE  /\ RegisterNodeSession(st, op, t).state \in StoreState
           /\ RegisterNodeSession(st, op, t).reply \in Reply
  <1> DEFINE epoch == LeaseEpoch(st, op, t)
             session == [session |-> op.session, epoch |-> epoch,
                         expires |-> t + Ttl]
             revision == st.revision + 1
             outcome == [operation |-> "RegisterNode", result |-> session]
             new == <<[revision |-> revision, index |-> Len(st.events),
                       key |-> SessionKey(op.node, op.session)],
                      [revision |-> revision, index |-> Len(st.events) + 1,
                       key |-> CurrentKey(op.node)]>>
  <1>1. op.request \in Request /\ op.node \in Node /\ op.session \in Session
    BY DEF Mutation
  <1>2. revision \in Nat /\ Len(st.events) \in Nat
    BY DEF StoreState
  <1>3. epoch \in Nat
    BY <1>1 DEF LeaseEpoch, IsRenewal, CurrentSessionMatches, StoreState, NodeSession
  <1>4. session \in NodeSession /\ outcome \in Outcome
    <2>1. t + Ttl \in Nat /\ "RegisterNode" \in Operation
      BY MetaStateAssumption
    <2>2. session \in NodeSession
      BY <1>1, <1>3, <2>1 DEF NodeSession
    <2> QED
      BY <2>1, <2>2 DEF Outcome
  <1>5. new \in Seq(WatchEvent)
    <2>1. SessionKey(op.node, op.session) \in MetaKey /\ CurrentKey(op.node) \in MetaKey
      BY <1>1 DEF MetaKey
    <2> QED
      BY <1>2, <2>1 DEF WatchEvent
  <1>6. CASE st.requests[op.request] # None
    BY <1>1, <1>6 DEF RegisterNodeSession, Existing, Reply, StoreState
  <1>7. CASE st.requests[op.request] = None /\ IsExpired(st, op, t)
    BY <1>7 DEF RegisterNodeSession, Plain, Reply
  <1>8. CASE st.requests[op.request] = None /\ ~IsExpired(st, op, t)
    <2> DEFINE end ==
            [st EXCEPT !.revision = revision,
                       !.sessions[op.node][op.session] = session,
                       !.current[op.node] = session,
                       !.requests[op.request] = outcome,
                       !.events = @ \o new,
                       !.epochs[op.node] = IF IsRenewal(st, op, t) THEN @ ELSE epoch]
    <2>1. RegisterNodeSession(st, op, t) = [state |-> end, reply |-> Committed(outcome)]
      BY <1>8 DEF RegisterNodeSession
    <2>2. st.events \o new \in Seq(WatchEvent)
      BY <1>5 DEF StoreState
    <2>3. [st.requests EXCEPT ![op.request] = outcome]
              \in [Request -> Outcome \cup {None}]
      BY <1>1, <1>4 DEF StoreState
    <2>4. [st.sessions EXCEPT ![op.node][op.session] = session]
              \in [Node -> [Session -> NodeSession \cup {None}]]
      BY <1>1, <1>4 DEF StoreState
    <2>5. [st.current EXCEPT ![op.node] = session] \in [Node -> NodeSession \cup {None}]
      BY <1>1, <1>4 DEF StoreState
    <2>6. [st.epochs EXCEPT ![op.node] = IF IsRenewal(st, op, t) THEN @ ELSE epoch]
              \in [Node -> Nat]
      BY <1>1, <1>3 DEF StoreState
    <2>7. end \in StoreState
      BY Zenon, <1>2, <2>2, <2>3, <2>4, <2>5, <2>6 DEF StoreState
    <2>8. Committed(outcome) \in Reply
      BY Zenon, <1>4 DEF Committed, Reply
    <2> QED
      BY <2>1, <2>7, <2>8
  <1> QED
    BY <1>6, <1>7, <1>8

\* A mutation applied by the commit loop leaves a well-formed state and answers
\* with a reply.
LEMMA ExecuteType ==
    ASSUME NEW st \in StoreState, NEW op \in Mutation, NEW t \in Nat
    PROVE  /\ Execute(st, op, t).state \in StoreState
           /\ Execute(st, op, t).reply \in Reply
  <1>1. op.kind = "txn" \/ op.kind = "register"
    BY DEF Mutation
  <1> QED
    BY <1>1, CompareAndCommitType, RegisterNodeSessionType DEF Execute

\* Either nothing changes, or one request that had no outcome gets one
LEMMA ExecuteEffect ==
    ASSUME NEW st \in StoreState, NEW op \in Mutation, NEW t \in Nat
    PROVE  LET end == Execute(st, op, t).state
               reply == Execute(st, op, t).reply
           IN  \/ /\ end = st
                  /\ reply.kind # "committed"
                  /\ HasOutcome(reply) => reply.outcome = st.requests[op.request]
               \/ /\ st.requests[op.request] = None
                  /\ reply.kind = "committed"
                  /\ reply.outcome \in Outcome
                  /\ end.requests = [st.requests EXCEPT ![op.request] = reply.outcome]
                  /\ end.revision = st.revision + 1
  <1>1. CASE op.kind = "txn"
    <2>1. [operation |-> op.operation, result |-> op.result] \in Outcome
      BY Zenon, <1>1 DEF Mutation, Outcome
    <2> QED
      BY Zenon, <1>1, <2>1 DEF Execute, CompareAndCommit, HasOutcome, Existing, Plain,
                        Committed, StoreState
  <1>2. CASE op.kind # "txn"
    <2>1. op.kind = "register" /\ Execute(st, op, t) = RegisterNodeSession(st, op, t)
      BY <1>2 DEF Mutation, Execute
    <2>2. RegisterNodeSession(st, op, t).reply \in Reply
      BY <2>1, RegisterNodeSessionType
    <2>3. RegisterNodeSession(st, op, t).reply.kind = "committed" =>
              RegisterNodeSession(st, op, t).reply.outcome \in Outcome
      BY <2>2 DEF Reply
    <2> QED
      BY <2>1, <2>3 DEF RegisterNodeSession, HasOutcome, Existing, Plain,
                        Committed, StoreState
  <1> QED
    BY <1>1, <1>2

\* No mutation forgets a recorded outcome, rewrites it or lowers the revision.
LEMMA ExecuteExtends ==
    ASSUME NEW st \in StoreState, NEW op \in Mutation, NEW t \in Nat
    PROVE  Extends(st, Execute(st, op, t).state)
  <1>1. op.request \in Request /\ st.revision \in Nat
        /\ st.requests \in [Request -> Outcome \cup {None}]
    BY DEF Mutation, StoreState
  <1>2. CASE Execute(st, op, t).state = st
    BY <1>1, <1>2 DEF Extends
  <1>3. CASE /\ st.requests[op.request] = None
             /\ Execute(st, op, t).state.requests
                   = [st.requests EXCEPT ![op.request] = Execute(st, op, t).reply.outcome]
             /\ Execute(st, op, t).state.revision = st.revision + 1
    BY <1>1, <1>3 DEF Extends
  <1> QED
    BY Zenon, <1>2, <1>3, ExecuteEffect

\* An outcome that a mutation returns is recorded in the state it leaves.
LEMMA ExecuteReply ==
    ASSUME NEW st \in StoreState, NEW op \in Mutation, NEW t \in Nat,
           HasOutcome(Execute(st, op, t).reply)
    PROVE  Execute(st, op, t).state.requests[op.request]
               = Execute(st, op, t).reply.outcome
  <1>1. op.request \in Request /\ st.requests \in [Request -> Outcome \cup {None}]
    BY DEF Mutation, StoreState
  <1>2. CASE /\ Execute(st, op, t).state = st
             /\ Execute(st, op, t).reply.outcome = st.requests[op.request]
    BY <1>2
  <1>3. CASE Execute(st, op, t).state.requests
                = [st.requests EXCEPT ![op.request] = Execute(st, op, t).reply.outcome]
    BY <1>1, <1>3
  <1> QED
    BY <1>2, <1>3, ExecuteEffect
\* A mutation keeps the execution count of every request at most one, and at
\* one exactly for the recorded ones.
LEMMA ExecuteCounted ==
    ASSUME NEW st \in StoreState, NEW op \in Mutation, NEW t \in Nat, Counted(st)
    PROVE  Counted(Execute(st, op, t).state)
  <1> DEFINE end == Execute(st, op, t).state
             reply == Execute(st, op, t).reply
  <1>1. CASE end = st
    BY <1>1
  <1>2. CASE /\ st.requests[op.request] = None
             /\ reply.outcome \in Outcome
             /\ end.requests = [st.requests EXCEPT ![op.request] = reply.outcome]
             /\ end.revision = st.revision + 1
    <2>1. op.request \in Request /\ st.requests \in [Request -> Outcome \cup {None}]
      BY DEF Mutation, StoreState
    <2>2. reply.outcome # None
      BY <1>2, MetaStateAssumption
    <2>3. Recorded(end) = Recorded(st) \cup {op.request} /\ op.request \notin Recorded(st)
      BY <1>2, <2>1, <2>2 DEF Recorded
    <2>4. IsFiniteSet(Recorded(st))
      BY FS_Subset, MetaStateAssumption DEF Recorded
    <2>5. Cardinality(Recorded(end)) = Cardinality(Recorded(st)) + 1
      BY Zenon, <2>3, <2>4, FS_AddElement
    <2> QED
      BY <1>2, <2>5 DEF Counted
  <1> QED
    BY <1>1, <1>2, ExecuteEffect

\* Histories of the state compose: what extends an extension extends the
\* original.
LEMMA ExtendsTransitive ==
    ASSUME NEW r \in StoreState, NEW s \in StoreState, NEW t \in StoreState,
           Extends(r, s), Extends(s, t)
    PROVE  Extends(r, t)
  BY DEF Extends, StoreState

\* A state extends itself: a batch may change nothing.
LEMMA ExtendsReflexive ==
    ASSUME NEW s \in StoreState
    PROVE  Extends(s, s)
  BY DEF Extends, StoreState

\* The state of a store without a snapshot is well formed, and nothing was
\* executed in it.
LEMMA EmptyStateType == EmptyState \in StoreState /\ Counted(EmptyState)
  <1>1. EmptyState \in StoreState
    BY DEF EmptyState, StoreState
  <1>2. Recorded(EmptyState) = {}
    BY DEF Recorded, EmptyState
  <1> QED
    BY Zenon, <1>1, <1>2, FS_EmptySet DEF Counted, EmptyState

-----------------------------------------------------------------------------
(***************************************************************************)
(* Type correctness.                                                       *)
(***************************************************************************)
LEMMA DownType == Down \in Process
  BY EmptyStateType DEF Down, Process, Phase

\* The newest state of the backend, or the empty one, is well formed.
LEMMA LatestType ==
    ASSUME TypeOK
    PROVE  Latest \in StoreState /\ Len(backend) \in Nat
  <1>1. backend \in Seq(StoreState) /\ Len(backend) \in Nat
    BY DEF TypeOK
  <1> QED
    BY <1>1, EmptyStateType DEF Latest, At

\* The empty queue and the empty reply list are sequences of their kinds.
LEMMA EmptySeqs == << >> \in Seq(Item) /\ << >> \in Seq(QueuedReply)
  OBVIOUS

\* Replacing one process by a well-formed one keeps the types.
LEMMA ProcUpdate ==
    ASSUME TypeOK, NEW p \in Meta, NEW q \in Process,
           proc' = [proc EXCEPT ![p] = q]
    PROVE  proc' \in [Meta -> Process]
  BY DEF TypeOK

\* Replacing one call by a well-formed one keeps the types.
LEMMA CallUpdate ==
    ASSUME TypeOK, NEW c \in Caller, NEW d \in Call,
           call' = [call EXCEPT ![c] = d]
    PROVE  call' \in [Caller -> Call]
  BY DEF TypeOK

\* Answering the waiting callers keeps the calls well formed.
LEMMA AnswerType ==
    ASSUME TypeOK, NEW id \in CallId, NEW reply \in Reply, Answer(id, reply)
    PROVE  call' \in [Caller -> Call]
  <1>1. id.caller \in Caller /\ call[id.caller] \in Call
    BY DEF CallId, TypeOK
  <1>2. [call[id.caller] EXCEPT !.status = "done", !.reply = reply] \in Call
    BY Zenon, <1>1 DEF Call
  <1>3. CASE Waits(id)
    BY <1>1, <1>2, <1>3, CallUpdate DEF Answer
  <1>4. CASE ~Waits(id)
    BY <1>4 DEF Answer, TypeOK
  <1> QED
    BY <1>3, <1>4

\* Answering callers with unavailable keeps the calls well formed.
LEMMA AnswerUnavailableType ==
    ASSUME TypeOK, NEW p \in Meta, AnswerUnavailable(p)
    PROVE  call' \in [Caller -> Call]
  <1>1. Plain("unavailable") \in Reply
    BY DEF Plain, Reply
  <1>2. \A c \in Caller : call[c] \in Call
    BY DEF TypeOK
  <1>3. \A c \in Caller :
            [call[c] EXCEPT !.status = "done", !.reply = Plain("unavailable")] \in Call
    BY Zenon, <1>1, <1>2 DEF Call
  <1> QED
    BY Zenon, <1>2, <1>3 DEF AnswerUnavailable

\* fail_batch and the poisoned loop keep the types.
LEMMA FailType ==
    ASSUME TypeOK, NEW p \in Meta, Fail(p)
    PROVE  proc' \in [Meta -> Process] /\ call' \in [Caller -> Call]
  <1>1. proc[p] \in Process
    BY DEF TypeOK
  <1>2. [proc[p] EXCEPT !.poisoned = TRUE, !.phase = "stopped",
                        !.queue = << >>, !.replies = << >>] \in Process
    BY Zenon, <1>1, EmptySeqs DEF Process, Phase
  <1>3. proc' \in [Meta -> Process]
    BY Zenon, <1>2, ProcUpdate DEF Fail
  <1> QED
    BY <1>3, AnswerUnavailableType DEF Fail

\* Every step of run_commit_loop keeps the types.
LEMMA LoopType ==
    ASSUME TypeOK, NEW p \in Meta, Loop(p)
    PROVE  TypeOK'
  <1>1. proc[p] \in Process
    BY DEF TypeOK
  <1>2. CASE Gather(p)
    <2> DEFINE n == IF Len(proc[p].queue) < BatchMax THEN Len(proc[p].queue) ELSE BatchMax
               q == [proc[p] EXCEPT !.phase = "staging",
                                    !.batch = SubSeq(proc[p].queue, 1, n),
                                    !.queue = SubSeq(proc[p].queue, n + 1,
                                                     Len(proc[p].queue)),
                                    !.staged = proc[p].committed,
                                    !.dirty = FALSE,
                                    !.replies = << >>]
    <2>1. proc[p].queue \in Seq(Item) /\ proc[p].committed \in StoreState
      BY <1>1 DEF Process
    <2>2. n \in 0..Len(proc[p].queue) /\ Len(proc[p].queue) \in Nat
      BY <2>1, MetaStoreAssumption
    <2>3. /\ SubSeq(proc[p].queue, 1, n) \in Seq(Item)
          /\ SubSeq(proc[p].queue, n + 1, Len(proc[p].queue)) \in Seq(Item)
      BY <2>1, <2>2
    <2>4. proc' = [proc EXCEPT ![p] = q]
      BY <1>2 DEF Gather
    <2> HIDE DEF n
    <2>5. q \in Process
      BY Zenon, <1>1, <2>1, <2>3, EmptySeqs DEF Process, Phase
    <2> HIDE DEF q
    <2>6. proc' \in [Meta -> Process]
      BY Zenon, <2>4, <2>5, ProcUpdate
    <2> QED
      BY <1>2, <2>6 DEF Gather, TypeOK
  <1>3. CASE Stage(p)
    <2> DEFINE item == Head(proc[p].batch)
               result == Execute(proc[p].staged, item.op, now)
               entry == [id |-> item.id, request |-> item.op.request,
                         reply |-> result.reply]
               q == [proc[p] EXCEPT !.batch = Tail(proc[p].batch), !.staged = result.state,
                                    !.dirty = proc[p].dirty \/ result.reply.kind = "committed",
                                    !.replies = Append(proc[p].replies, entry)]
    <2>1. item \in Item /\ Tail(proc[p].batch) \in Seq(Item)
          /\ proc[p].staged \in StoreState /\ now \in Nat
          /\ proc[p].replies \in Seq(QueuedReply)
      BY <1>1, <1>3 DEF Process, Stage, TypeOK
    <2>2. item.op \in Mutation /\ item.id \in CallId
      BY Zenon, <2>1, MetaStoreAssumption DEF Item
    <2>3. result.state \in StoreState /\ result.reply \in Reply
      BY <2>1, <2>2, ExecuteType
    <2>4. item.op.request \in Request
      BY Zenon, <2>2 DEF Mutation
    <2>5. entry \in QueuedReply
      BY <2>2, <2>3, <2>4 DEF QueuedReply
    <2>6. (proc[p].dirty \/ result.reply.kind = "committed") \in BOOLEAN
      OBVIOUS
    <2>7. proc' = [proc EXCEPT ![p] = q]
      BY <1>3 DEF Stage
    <2> HIDE DEF item, result, entry
    <2>8. Append(proc[p].replies, entry) \in Seq(QueuedReply)
      BY <2>1, <2>5
    <2>9. q \in Process
      BY Zenon, <1>1, <2>1, <2>3, <2>6, <2>8 DEF Process
    <2> HIDE DEF q
    <2>10. proc' \in [Meta -> Process]
      BY Zenon, <2>7, <2>9, ProcUpdate
    <2> QED
      BY Zenon, <1>3, <2>10 DEF Stage, TypeOK
  <1>4. CASE SkipPersist(p) \/ EndBatch(p)
    <2>1. \A ph \in Phase : [proc[p] EXCEPT !.phase = ph] \in Process
      BY Zenon, <1>1 DEF Process
    <2>2. proc' \in [Meta -> Process]
      BY <1>4, <2>1, ProcUpdate DEF SkipPersist, EndBatch, Phase
    <2> QED
      BY <1>4, <2>2 DEF SkipPersist, EndBatch, TypeOK
  <1>5. CASE Persist(p)
    <2>1. [meta |-> p, version |-> proc[p].version, state |-> proc[p].staged] \in Commit
      BY <1>1 DEF Process, Commit
    <2>2. [proc[p] EXCEPT !.phase = "persisting"] \in Process
      BY Zenon, <1>1 DEF Process, Phase
    <2>3. proc' \in [Meta -> Process]
      BY Zenon, <1>5, <2>2, ProcUpdate DEF Persist
    <2> QED
      BY Zenon, <1>5, <2>1, <2>3 DEF Persist, TypeOK
  <1>6. CASE CommitLost(p)
    BY Zenon, <1>6, FailType DEF CommitLost, TypeOK
  <1>7. CASE Publish(p)
    <2>0. proc[p].version + 1 \in Nat /\ proc[p].staged \in StoreState
      BY <1>1 DEF Process
    <2>1. [proc[p] EXCEPT !.phase = "replying", !.version = proc[p].version + 1,
                          !.committed = proc[p].staged] \in Process
      BY Zenon, <1>1, <2>0 DEF Process, Phase
    <2>2. proc' \in [Meta -> Process]
      BY Zenon, <1>7, <2>1, ProcUpdate DEF Publish
    <2> QED
      BY <1>7, <2>2 DEF Publish, TypeOK
  <1>8. CASE SendReply(p)
    <2>1. proc[p].replies \in Seq(QueuedReply) /\ proc[p].replies # << >>
      BY <1>1, <1>8 DEF SendReply, Process
    <2>2. Head(proc[p].replies) \in QueuedReply /\ Tail(proc[p].replies) \in Seq(QueuedReply)
      BY <2>1
    <2>3. call' \in [Caller -> Call]
      BY <1>8, <2>2, AnswerType DEF SendReply, QueuedReply
    <2>4. [proc[p] EXCEPT !.replies = Tail(proc[p].replies)] \in Process
      BY Zenon, <1>1, <2>2 DEF Process
    <2>5. proc' \in [Meta -> Process]
      BY Zenon, <1>8, <2>4, ProcUpdate DEF SendReply
    <2> QED
      BY Zenon, <1>8, <2>3, <2>5 DEF SendReply, TypeOK
  <1> QED
    BY <1>2, <1>3, <1>4, <1>5, <1>6, <1>7, <1>8 DEF Loop


\* Store::open keeps the types.
LEMMA OpenType ==
    ASSUME TypeOK, NEW p \in Meta, Open(p)
    PROVE  TypeOK'
  <1> DEFINE q == [Down EXCEPT !.up = TRUE, !.poisoned = FALSE, !.phase = "idle",
                               !.committed = Latest, !.version = Len(backend)]
  <1>1. Latest \in StoreState /\ Len(backend) \in Nat /\ Down \in Process
    BY LatestType, DownType DEF TypeOK
  <1>2. q \in Process
    BY Zenon, <1>1 DEF Process, Phase
  <1>3. proc' = [proc EXCEPT ![p] = q]
    BY DEF Open
  <1> HIDE DEF q
  <1>4. proc' \in [Meta -> Process]
    BY Zenon, <1>2, <1>3, ProcUpdate
  <1> QED
    BY <1>4 DEF Open, TypeOK

\* A caller's steps (mutate, and giving up) keep the types.
LEMMA CallerType ==
    ASSUME TypeOK, NEW c \in Caller,
           GiveUp(c) \/ \E p \in Meta, op \in Ops : Mutate(c, p, op)
    PROVE  TypeOK'
  <1>1. CASE GiveUp(c)
    <2>1. [call[c] EXCEPT !.status = "abandoned"] \in Call
      BY Zenon DEF TypeOK, Call
    <2>2. call' \in [Caller -> Call]
      BY Zenon, <1>1, <2>1, CallUpdate DEF GiveUp
    <2> QED
      BY <1>1, <2>2 DEF GiveUp, TypeOK
  <1>2. ASSUME NEW p \in Meta, NEW op \in Ops, Mutate(c, p, op)
        PROVE  TypeOK'
    <2> DEFINE id == [caller |-> c, number |-> calls + 1]
               item == [id |-> id, op |-> op]
    <2>1. op.request \in Request /\ calls + 1 \in Nat /\ Plain("unavailable") \in Reply
      BY MetaStoreAssumption DEF Mutation, TypeOK, Plain, Reply
    <2>2. [status |-> "waiting", number |-> calls + 1, meta |-> p,
           request |-> op.request, reply |-> Plain("unavailable")] \in Call
      BY <2>1 DEF Call
    <2>3. call' \in [Caller -> Call]
      BY Zenon, <1>2, <2>2, CallUpdate DEF Mutate
    <2>4. item \in Item
      BY Zenon, <2>1 DEF Item, CallId
    <2>5. proc[p] \in Process /\ proc[p].queue \in Seq(Item)
      BY Zenon DEF TypeOK, Process
    <2>6. proc' = [proc EXCEPT ![p] = [proc[p] EXCEPT !.queue = Append(proc[p].queue, item)]]
      BY <1>2 DEF Mutate
    <2> HIDE DEF item
    <2>7. Append(proc[p].queue, item) \in Seq(Item)
      BY <2>4, <2>5
    <2>8. [proc[p] EXCEPT !.queue = Append(proc[p].queue, item)] \in Process
      BY Zenon, <2>5, <2>7 DEF Process
    <2>9. proc' \in [Meta -> Process]
      BY Zenon, <2>6, <2>8, ProcUpdate
    <2> QED
      BY Zenon, <1>2, <2>1, <2>3, <2>9 DEF Mutate, TypeOK
  <1> QED
    BY <1>1, <1>2

\* An accepted and a refused commit keep the types.
LEMMA BackendType ==
    ASSUME TypeOK, NEW m \in wire, BackendCommit(m) \/ BackendRefuse(m)
    PROVE  TypeOK'
  <1>1. m \in Commit /\ m.meta \in Meta /\ m.state \in StoreState
    BY DEF TypeOK, Commit
  <1>2. CASE BackendCommit(m)
    <2>1. proc[m.meta] \in Process
      BY <1>1 DEF TypeOK
    <2>2. [proc[m.meta] EXCEPT !.phase = "accepted"] \in Process
      BY Zenon, <2>1 DEF Process, Phase
    <2>4. proc' \in [Meta -> Process]
      <3>1. CASE AwaitsCommit(m)
        <4>1. proc' = [proc EXCEPT ![m.meta] = [proc[m.meta] EXCEPT !.phase = "accepted"]]
          BY <1>2, <3>1 DEF BackendCommit
        <4> QED
          BY Zenon, <1>1, <2>2, <4>1, ProcUpdate
      <3>2. CASE ~AwaitsCommit(m)
        BY Zenon, <1>2, <3>2 DEF BackendCommit, TypeOK
      <3> QED
        BY <3>1, <3>2
    <2> QED
      BY <1>1, <1>2, <2>4 DEF BackendCommit, TypeOK
  <1>3. CASE BackendRefuse(m)
    <2>1. proc' \in [Meta -> Process] /\ call' \in [Caller -> Call]
      <3>1. CASE AwaitsCommit(m)
        BY Zenon, <1>1, <1>3, <3>1, FailType DEF BackendRefuse
      <3>2. CASE ~AwaitsCommit(m)
        BY <1>3, <3>2 DEF BackendRefuse, TypeOK
      <3> QED
        BY <3>1, <3>2
    <2> QED
      BY <1>3, <2>1 DEF BackendRefuse, TypeOK
  <1> QED
    BY <1>2, <1>3

\* Every step keeps the types.
LEMMA NextType == TypeOK /\ [Next]_vars => TypeOK'
  <1> SUFFICES ASSUME TypeOK, [Next]_vars
               PROVE  TypeOK'
    OBVIOUS
  <1>1. ASSUME NEW p \in Meta, Open(p) PROVE TypeOK'
    BY <1>1, OpenType
  <1>2. ASSUME NEW p \in Meta, Loop(p) PROVE TypeOK'
    BY <1>2, LoopType
  <1>3. ASSUME NEW p \in Meta, Crash(p) PROVE TypeOK'
    <2>1. proc' \in [Meta -> Process]
      BY Zenon, <1>3, DownType, ProcUpdate DEF Crash
    <2>2. call' \in [Caller -> Call]
      BY Zenon, <1>3, AnswerUnavailableType DEF Crash
    <2> QED
      BY <1>3, <2>1, <2>2 DEF Crash, TypeOK
  <1>4. ASSUME NEW p \in Meta, Poll(p) PROVE TypeOK'
    BY <1>4 DEF Poll, TypeOK
  <1>5. ASSUME NEW m \in wire, BackendCommit(m) \/ BackendRefuse(m) PROVE TypeOK'
    BY <1>5, BackendType
  <1>6. ASSUME NEW c \in Caller, GiveUp(c) \/ \E p \in Meta, op \in Ops : Mutate(c, p, op)
        PROVE  TypeOK'
    BY <1>6, CallerType
  <1>7. CASE Tick
    BY <1>7 DEF Tick, TypeOK
  <1>8. CASE UNCHANGED vars
    BY <1>8 DEF vars, TypeOK
  <1> QED
    BY Zenon, <1>1, <1>2, <1>3, <1>4, <1>5, <1>6, <1>7, <1>8 DEF Next

\* The initial states have the types.
LEMMA InitType == Init => TypeOK
  <1> SUFFICES ASSUME Init PROVE TypeOK
    BY Zenon
  <1>1. NoCall \in Call
    BY DEF NoCall, Call, Plain, Reply
  <1> QED
    BY <1>1, DownType DEF Init, TypeOK

(***************************************************************************)
(* Type correctness of the Store for any number of processes, callers,     *)
(* requests and any batch and queue capacity (Store, Visible, Pending).    *)
(***************************************************************************)
THEOREM TypeCorrect == Spec => []TypeOK
  BY InitType, NextType, PTL DEF Spec


-----------------------------------------------------------------------------
(***************************************************************************)
(* The inductive invariant, over a backend b, a process q, a commit        *)
(* request m, the callers cs and the number n of calls made so far.        *)
(***************************************************************************)
Snap(b, v) == IF v = 0 THEN EmptyState ELSE b[v]

\* The backend's snapshots extend one another
Chain(b) ==
    /\ \A i \in 0..Len(b) : Counted(Snap(b, i))
    /\ \A i, j \in 0..Len(b) : i <= j => Extends(Snap(b, i), Snap(b, j))

ReplyRecorded(st, entry) ==
    HasOutcome(entry.reply) => st.requests[entry.request] = entry.reply.outcome

\* The visible state is durable and the fork extends it as far as it was staged
Coherent(b, q) ==
    /\ q.up => q.version <= Len(b) /\ q.committed = Snap(b, q.version)
    /\ q.phase # "stopped" => q.up
    /\ q.phase \in {"staging", "persisting", "accepted", "replying"} =>
          /\ Extends(q.committed, q.staged)
          /\ Counted(q.staged)
          /\ \A i \in 1..Len(q.replies) : ReplyRecorded(q.staged, q.replies[i])
    /\ q.phase = "staging" /\ ~q.dirty => q.staged = q.committed
    /\ q.phase = "accepted" => q.version < Len(b) /\ b[q.version + 1] = q.staged
    /\ q.phase = "replying" => q.staged = q.committed

\* A commit under way would extend the snapshot whose version it expects
SafeCommit(b, m) ==
    /\ m.version <= Len(b)
    /\ Extends(Snap(b, m.version), m.state)
    /\ Counted(m.state)

\* What is queued under a call's number is that call's request
Matches(cs, n, id, r) ==
    /\ id.number <= n
    /\ cs[id.caller].number = id.number => cs[id.caller].request = r

Matched(cs, n, q) ==
    /\ \A i \in 1..Len(q.queue) : Matches(cs, n, q.queue[i].id, q.queue[i].op.request)
    /\ \A i \in 1..Len(q.batch) : Matches(cs, n, q.batch[i].id, q.batch[i].op.request)
    /\ \A i \in 1..Len(q.replies) : Matches(cs, n, q.replies[i].id, q.replies[i].request)

Acked(b, d) ==
    /\ d.status # "idle" => d.request \in Request
    /\ d.status = "done" /\ HasOutcome(d.reply) =>
          Snap(b, Len(b)).requests[d.request] = d.reply.outcome

IInv ==
    /\ TypeOK
    /\ Chain(backend)
    /\ \A p \in Meta : Coherent(backend, proc[p])
    /\ \A m \in wire : SafeCommit(backend, m)
    /\ \A p \in Meta : Matched(call, calls, proc[p])
    /\ \A c \in Caller : Acked(backend, call[c])


-----------------------------------------------------------------------------
\* What one more accepted snapshot leaves as it was
LEMMA SnapType ==
    ASSUME NEW b \in Seq(StoreState), NEW i \in 0..Len(b)
    PROVE  Snap(b, i) \in StoreState
  <1>1. CASE i = 0
    BY <1>1, EmptyStateType DEF Snap
  <1>2. CASE i # 0
    <2>1. i \in 1..Len(b)
      BY <1>2
    <2> QED
      BY <1>2, <2>1 DEF Snap
  <1> QED
    BY <1>1, <1>2

\* A newly appended snapshot leaves the earlier ones where they are.
LEMMA SnapAppend ==
    ASSUME NEW b \in Seq(StoreState), NEW s \in StoreState
    PROVE  /\ Len(b) \in Nat
           /\ Append(b, s) \in Seq(StoreState)
           /\ Len(Append(b, s)) = Len(b) + 1
           /\ \A i \in 0..Len(b) : Snap(Append(b, s), i) = Snap(b, i)
           /\ Snap(Append(b, s), Len(b) + 1) = s
           /\ Append(b, s)[Len(b) + 1] = s
           /\ \A i \in 1..Len(b) : Append(b, s)[i] = b[i]
  BY DEF Snap

\* The chain grows by a snapshot that extends the latest one
LEMMA ChainAppend ==
    ASSUME NEW b \in Seq(StoreState), NEW s \in StoreState, Chain(b),
           Extends(Snap(b, Len(b)), s), Counted(s)
    PROVE  Chain(Append(b, s))
  <1> DEFINE n == Len(b)
             e == Append(b, s)
  <1>1. /\ n \in Nat
        /\ Len(e) = n + 1
        /\ \A i \in 0..n : Snap(e, i) = Snap(b, i)
        /\ Snap(e, n + 1) = s
    BY SnapAppend
  <1>2. \A i \in 0..n : Snap(b, i) \in StoreState
    BY SnapType
  <1>3. /\ \A i \in 0..n : Counted(Snap(b, i))
        /\ \A i, j \in 0..n : i <= j => Extends(Snap(b, i), Snap(b, j))
    BY DEF Chain
  <1> HIDE DEF n, e
  <1>4. ASSUME NEW i \in 0..(n + 1)
        PROVE  Counted(Snap(e, i))
    <2>1. CASE i = n + 1
      BY Zenon, <1>1, <2>1
    <2>2. CASE i # n + 1
      BY <1>1, <1>3, <2>2
    <2> QED
      BY Zenon, <2>1, <2>2
  <1>5. ASSUME NEW i \in 0..(n + 1), NEW j \in 0..(n + 1), i <= j
        PROVE  Extends(Snap(e, i), Snap(e, j))
    <2>1. CASE i = n + 1
      <3>1. j = n + 1
        BY <1>1, <1>5, <2>1
      <3> QED
        BY Zenon, <1>1, <2>1, <3>1, ExtendsReflexive
    <2>2. CASE i # n + 1 /\ j = n + 1
      <3>1. i \in 0..n /\ n \in 0..n /\ i <= n
        BY <1>1, <2>2
      <3>2. Extends(Snap(b, i), Snap(b, n))
        BY <1>3, <3>1
      <3>3. Extends(Snap(b, n), s)
        BY DEF n
      <3> QED
        BY Zenon, <1>1, <1>2, <2>2, <3>1, <3>2, <3>3, ExtendsTransitive
    <2>3. CASE i # n + 1 /\ j # n + 1
      <3>1. i \in 0..n /\ j \in 0..n
        BY <1>1, <2>3
      <3> QED
        BY Zenon, <1>1, <1>3, <1>5, <3>1
    <2> QED
      BY Zenon, <2>1, <2>2, <2>3
  <1> QED
    BY Zenon, <1>1, <1>4, <1>5 DEF Chain, e

\* Processes, commit requests and answers stay coherent with a longer chain
LEMMA CoherentAppend ==
    ASSUME NEW b \in Seq(StoreState), NEW s \in StoreState,
           NEW q \in Process, Coherent(b, q)
    PROVE  Coherent(Append(b, s), q)
  <1>1. q.version \in Nat /\ Len(b) \in Nat /\ Len(Append(b, s)) = Len(b) + 1
    BY Zenon, SnapAppend DEF Process
  <1>2. q.version <= Len(b) =>
            Snap(Append(b, s), q.version) = Snap(b, q.version)
    BY <1>1, SnapAppend
  <1>3. q.version < Len(b) => Append(b, s)[q.version + 1] = b[q.version + 1]
    <2>1. q.version < Len(b) => q.version + 1 \in 1..Len(b)
      BY <1>1
    <2> QED
      BY <2>1, SnapAppend
  <1> QED
    BY <1>1, <1>2, <1>3 DEF Coherent

\* A commit on the wire stays safe when another commit is accepted before it.
LEMMA SafeAppend ==
    ASSUME NEW b \in Seq(StoreState), NEW s \in StoreState,
           NEW m \in Commit, SafeCommit(b, m)
    PROVE  SafeCommit(Append(b, s), m)
  <1>1. m.version \in 0..Len(b) /\ Len(b) \in Nat /\ Len(Append(b, s)) = Len(b) + 1
    BY SnapAppend DEF Commit, SafeCommit
  <1>2. Snap(Append(b, s), m.version) = Snap(b, m.version)
    BY <1>1, SnapAppend
  <1> QED
    BY <1>1, <1>2 DEF SafeCommit

\* A reply with an outcome carries a recorded one, never None.
LEMMA OutcomeIsSome ==
    ASSUME NEW reply \in Reply, HasOutcome(reply)
    PROVE  reply.outcome \in Outcome /\ reply.outcome # None
  BY Zenon, MetaStateAssumption DEF Reply, HasOutcome

\* An acknowledged outcome stays durable when another commit is accepted.
LEMMA AckedAppend ==
    ASSUME NEW b \in Seq(StoreState), NEW s \in StoreState,
           Extends(Snap(b, Len(b)), s), NEW d \in Call, Acked(b, d)
    PROVE  Acked(Append(b, s), d)
  <1>1. Len(Append(b, s)) = Len(b) + 1 /\ Snap(Append(b, s), Len(b) + 1) = s
    BY SnapAppend
  <1>2. d.reply \in Reply
    BY DEF Call
  <1>3. ASSUME d.status = "done", HasOutcome(d.reply)
        PROVE  s.requests[d.request] = d.reply.outcome
    <2>1. d.request \in Request
      BY Zenon, <1>3 DEF Acked
    <2>2. Snap(b, Len(b)).requests[d.request] = d.reply.outcome
      BY <1>3 DEF Acked
    <2>3. d.reply.outcome # None
      BY Zenon, <1>2, <1>3, OutcomeIsSome
    <2> QED
      BY Zenon, <2>1, <2>2, <2>3 DEF Extends
  <1> QED
    BY Zenon, <1>1, <1>3 DEF Acked


-----------------------------------------------------------------------------
\* Calls that keep their number and request keep what is queued for them
LEMMA MatchedFrame ==
    ASSUME NEW cs, NEW ds, NEW n \in Nat, NEW q \in Process,
           \A c \in Caller : ds[c].number = cs[c].number /\ ds[c].request = cs[c].request,
           Matched(cs, n, q)
    PROVE  Matched(ds, n, q)
  <1> q.queue \in Seq(Item) /\ q.batch \in Seq(Item) /\ q.replies \in Seq(QueuedReply)
    BY Zenon DEF Process
  <1>0. /\ \A x \in Item : x.id.caller \in Caller
        /\ \A x \in QueuedReply : x.id.caller \in Caller
    BY DEF Item, QueuedReply, CallId
  <1>1. \A i \in 1..Len(q.queue) : q.queue[i].id.caller \in Caller
    BY <1>0
  <1>2. \A i \in 1..Len(q.batch) : q.batch[i].id.caller \in Caller
    BY <1>0
  <1>3. \A i \in 1..Len(q.replies) : q.replies[i].id.caller \in Caller
    BY <1>0
  <1> QED
    BY Zenon, <1>1, <1>2, <1>3 DEF Matched, Matches

\* A step of one process that keeps the backend and the identity of the calls
LEMMA ProcStep ==
    ASSUME IInv, TypeOK', NEW p \in Meta, NEW q \in Process,
           proc' = [proc EXCEPT ![p] = q],
           Coherent(backend, q), Matched(call, calls, q),
           backend' = backend, calls' = calls,
           \A m \in wire' : SafeCommit(backend, m),
           \A c \in Caller : /\ call'[c].number = call[c].number
                             /\ call'[c].request = call[c].request
                             /\ Acked(backend, call'[c])
    PROVE  IInv'
  <1>1. \A r \in Meta : Coherent(backend, proc'[r]) /\ Matched(call, calls, proc'[r])
    BY Zenon DEF IInv, TypeOK
  <1>2. \A r \in Meta : proc'[r] \in Process
    BY Zenon DEF TypeOK
  <1>3. calls \in Nat
    BY DEF IInv, TypeOK
  <1>4. \A r \in Meta : Matched(call', calls, proc'[r])
    BY Zenon, <1>1, <1>2, <1>3, MatchedFrame
  <1> QED
    BY <1>1, <1>4 DEF IInv

\* Losing a reply channel turns no answer into an outcome
LEMMA UnavailableStep ==
    ASSUME IInv, NEW p \in Meta, AnswerUnavailable(p)
    PROVE  \A c \in Caller : /\ call'[c].number = call[c].number
                             /\ call'[c].request = call[c].request
                             /\ Acked(backend, call'[c])
  <1> SUFFICES ASSUME NEW c \in Caller
               PROVE  /\ call'[c].number = call[c].number
                      /\ call'[c].request = call[c].request
                      /\ Acked(backend, call'[c])
    OBVIOUS
  <1>1. call[c] \in Call /\ Acked(backend, call[c])
    BY DEF IInv, TypeOK
  <1>2. ~HasOutcome(Plain("unavailable"))
    BY DEF HasOutcome, Plain
  <1> DEFINE d == [call[c] EXCEPT !.status = "done", !.reply = Plain("unavailable")]
  <1>3. CASE call[c].status = "waiting" /\ call[c].meta = p
    <2>1. call'[c] = d
      BY Zenon, <1>3 DEF AnswerUnavailable
    <2>2. d.number = call[c].number /\ d.request = call[c].request
          /\ d.status = "done" /\ d.reply = Plain("unavailable")
      BY Zenon, <1>1 DEF Call
    <2>3. call[c].request \in Request
      BY <1>1, <1>3 DEF Acked
    <2> QED
      BY Zenon, <1>2, <2>1, <2>2, <2>3 DEF Acked
  <1>4. CASE ~(call[c].status = "waiting" /\ call[c].meta = p)
    BY Zenon, <1>1, <1>4 DEF AnswerUnavailable
  <1> QED
    BY Zenon, <1>3, <1>4

\* A failed commit loop keeps the visible state and drops everything queued
LEMMA FailStep ==
    ASSUME IInv, TypeOK', NEW p \in Meta, Fail(p),
           backend' = backend, calls' = calls, wire' \subseteq wire
    PROVE  IInv'
  <1> DEFINE q == [proc[p] EXCEPT !.poisoned = TRUE, !.phase = "stopped",
                                  !.queue = << >>, !.replies = << >>]
  <1>1. proc[p] \in Process /\ Coherent(backend, proc[p]) /\ Matched(call, calls, proc[p])
    BY DEF IInv, TypeOK
  <1>2. q \in Process
    BY Zenon, <1>1, EmptySeqs DEF Process, Phase
  <1>3. /\ q.up = proc[p].up /\ q.version = proc[p].version
        /\ q.committed = proc[p].committed /\ q.phase = "stopped"
        /\ q.queue = << >> /\ q.batch = proc[p].batch /\ q.replies = << >>
    BY <1>1 DEF Process
  <1>4. proc' = [proc EXCEPT ![p] = q]
    BY Zenon DEF Fail
  <1> HIDE DEF q
  <1>5. Coherent(backend, q)
    BY Zenon, <1>1, <1>3 DEF Coherent
  <1>6. Matched(call, calls, q)
    BY <1>1, <1>3 DEF Matched
  <1>7. \A c \in Caller : /\ call'[c].number = call[c].number
                          /\ call'[c].request = call[c].request
                          /\ Acked(backend, call'[c])
    BY UnavailableStep DEF Fail
  <1>8. \A m \in wire' : SafeCommit(backend, m)
    BY DEF IInv
  <1> QED
    BY Zenon, <1>2, <1>4, <1>5, <1>6, <1>7, <1>8, ProcStep


\* Every step of the commit loop keeps the invariant
LEMMA GatherStep ==
    ASSUME IInv, TypeOK', NEW p \in Meta, Gather(p)
    PROVE  IInv'
  <1> DEFINE me == proc[p]
             n == IF Len(me.queue) < BatchMax THEN Len(me.queue) ELSE BatchMax
             q == [me EXCEPT !.phase = "staging",
                             !.batch = SubSeq(me.queue, 1, n),
                             !.queue = SubSeq(me.queue, n + 1, Len(me.queue)),
                             !.staged = me.committed,
                             !.dirty = FALSE,
                             !.replies = << >>]
  <1>1. me \in Process /\ Coherent(backend, me) /\ Matched(call, calls, me)
    BY Zenon DEF IInv, TypeOK
  <1>2. me.queue \in Seq(Item) /\ me.committed \in StoreState /\ me.version \in Nat
    BY Zenon, <1>1 DEF Process
  <1>3. n \in 0..Len(me.queue) /\ Len(me.queue) \in Nat
    BY <1>2, MetaStoreAssumption
  <1>4. proc' = [proc EXCEPT ![p] = q]
    BY DEF Gather
  <1>5. me.phase = "idle"
    BY DEF Gather
  <1>6. backend \in Seq(StoreState) /\ Len(backend) \in Nat /\ Chain(backend)
    BY DEF IInv, TypeOK
  <1>7. /\ \A c \in Caller : Acked(backend, call[c])
        /\ \A m \in wire : SafeCommit(backend, m)
    BY DEF IInv
  <1>8. backend' = backend /\ calls' = calls /\ wire' = wire /\ call' = call
    BY DEF Gather
  <1> HIDE DEF me, n
  <1>9. /\ q.up = me.up /\ q.version = me.version /\ q.committed = me.committed
        /\ q.phase = "staging" /\ q.staged = me.committed /\ q.replies = << >>
        /\ q.batch = SubSeq(me.queue, 1, n)
        /\ q.queue = SubSeq(me.queue, n + 1, Len(me.queue))
    BY Zenon, <1>1 DEF Process
  <1>10. q \in Process
    <2>1. p \in Meta /\ proc' \in [Meta -> Process] /\ proc'[p] = q
      BY Zenon, <1>4 DEF TypeOK, IInv
    <2> QED
      BY <2>1
  <1> HIDE DEF q
  <1>11. Coherent(backend, q)
    <2>1. me.up /\ me.version \in 0..Len(backend) /\ me.committed = Snap(backend, me.version)
      BY <1>1, <1>2, <1>5, <1>6 DEF Coherent
    <2>2. Counted(me.committed)
      BY <1>6, <2>1 DEF Chain
    <2>3. Extends(me.committed, me.committed)
      BY Zenon, <1>2, ExtendsReflexive
    <2>4. q.version <= Len(backend) /\ \A i \in 1..Len(q.replies) : FALSE
      BY <1>6, <1>9, <2>1
    <2> QED
      BY Zenon, <1>9, <2>1, <2>2, <2>3, <2>4 DEF Coherent
  <1>12. Matched(call, calls, q)
    <2>1. \A i \in 1..Len(me.queue) :
              Matches(call, calls, me.queue[i].id, me.queue[i].op.request)
      BY <1>1 DEF Matched
    <2>2. /\ Len(q.batch) = n
          /\ \A i \in 1..n : q.batch[i] = me.queue[i]
      BY <1>2, <1>3, <1>9
    <2>3. /\ Len(q.queue) = Len(me.queue) - n
          /\ \A i \in 1..(Len(me.queue) - n) : q.queue[i] = me.queue[n + i]
      BY <1>2, <1>3, <1>9
    <2>4. \A i \in 1..n : i \in 1..Len(me.queue)
      BY <1>3
    <2>5. \A i \in 1..(Len(me.queue) - n) : n + i \in 1..Len(me.queue)
      BY <1>3
    <2>6. \A i \in 1..Len(q.batch) : Matches(call, calls, q.batch[i].id, q.batch[i].op.request)
      BY Zenon, <2>1, <2>2, <2>4
    <2>7. \A i \in 1..Len(q.queue) : Matches(call, calls, q.queue[i].id, q.queue[i].op.request)
      BY <2>1, <2>3, <2>5
    <2>8. \A i \in 1..Len(q.replies) : FALSE
      BY <1>9
    <2> QED
      BY Zenon, <2>6, <2>7, <2>8 DEF Matched
  <1> QED
    BY Zenon, <1>4, <1>7, <1>8, <1>10, <1>11, <1>12, ProcStep

\* Executing the batch on a copy of the visible state preserves the invariant.
LEMMA StageStep ==
    ASSUME IInv, TypeOK', NEW p \in Meta, Stage(p)
    PROVE  IInv'
  <1> DEFINE me == proc[p]
             item == Head(me.batch)
             result == Execute(me.staged, item.op, now)
             entry == [id |-> item.id, request |-> item.op.request,
                       reply |-> result.reply]
             q == [me EXCEPT !.batch = Tail(me.batch), !.staged = result.state,
                             !.dirty = me.dirty \/ result.reply.kind = "committed",
                             !.replies = Append(me.replies, entry)]
  <1>1. me \in Process /\ Coherent(backend, me) /\ Matched(call, calls, me)
    BY DEF IInv, TypeOK
  <1>2. me.batch \in Seq(Item) /\ me.batch # << >> /\ me.staged \in StoreState
        /\ me.committed \in StoreState /\ me.replies \in Seq(QueuedReply) /\ now \in Nat
    BY Zenon, <1>1 DEF Process, Stage, IInv, TypeOK
  <1>3. item \in Item /\ Tail(me.batch) \in Seq(Item)
    BY <1>2
  <1>4. item.op \in Mutation
    BY Zenon, <1>3, MetaStoreAssumption DEF Item
  <1>5. result.state \in StoreState /\ result.reply \in Reply
        /\ Extends(me.staged, result.state)
    BY Zenon, <1>2, <1>4, ExecuteType, ExecuteExtends
  <1>6. Counted(me.staged) => Counted(result.state)
    BY <1>2, <1>4, ExecuteCounted
  <1>7. HasOutcome(result.reply) =>
            result.state.requests[item.op.request] = result.reply.outcome
    BY Zenon, <1>2, <1>4, ExecuteReply
  <1>8. result.reply.kind # "committed" => result.state = me.staged
    BY Zenon, <1>2, <1>4, ExecuteEffect
  <1>9. proc' = [proc EXCEPT ![p] = q]
    BY Zenon DEF Stage
  <1>10. me.phase = "staging"
    BY Zenon DEF Stage
  <1>11. /\ \A c \in Caller : Acked(backend, call[c])
         /\ \A m \in wire : SafeCommit(backend, m)
         /\ backend' = backend /\ calls' = calls /\ wire' = wire /\ call' = call
    BY Zenon DEF IInv, Stage
  <1>12. q \in Process
    <2>1. p \in Meta /\ proc' \in [Meta -> Process] /\ proc'[p] = q
      BY Zenon, <1>9 DEF TypeOK, IInv
    <2> HIDE DEF q
    <2> QED
      BY Zenon, <2>1
  <1>13. entry.id = item.id /\ entry.request = item.op.request /\ entry.reply = result.reply
    OBVIOUS
  <1>14. result.reply.kind = "committed" \/ result.reply.kind # "committed"
    BY Zenon
  <1> HIDE DEF me, item, result, entry
  <1>15. /\ q.up = me.up /\ q.version = me.version /\ q.committed = me.committed
         /\ q.phase = "staging" /\ q.staged = result.state
         /\ q.replies = Append(me.replies, entry)
         /\ q.batch = Tail(me.batch) /\ q.queue = me.queue
    BY <1>1, <1>10 DEF Process
  <1>16. ~q.dirty => ~me.dirty /\ result.reply.kind # "committed"
    BY Zenon, <1>1 DEF Process
  <1> HIDE DEF q
  <1>17. /\ Extends(me.committed, me.staged) /\ Counted(me.staged)
         /\ \A i \in 1..Len(me.replies) : ReplyRecorded(me.staged, me.replies[i])
         /\ ~me.dirty => me.staged = me.committed
         /\ me.up => me.version <= Len(backend) /\ me.committed = Snap(backend, me.version)
         /\ me.up
    BY Zenon, <1>1, <1>10 DEF Coherent
  <1>18. Len(q.replies) = Len(me.replies) + 1 /\ Len(me.replies) \in Nat
         /\ q.replies[Len(me.replies) + 1] = entry
         /\ \A i \in 1..Len(me.replies) : q.replies[i] = me.replies[i]
    BY <1>2, <1>15
  <1>19. ASSUME NEW i \in 1..Len(q.replies)
         PROVE  ReplyRecorded(q.staged, q.replies[i])
    <2>1. CASE i = Len(me.replies) + 1
      BY Zenon, <1>7, <1>13, <1>15, <1>18, <2>1 DEF ReplyRecorded
    <2>2. CASE i # Len(me.replies) + 1
      <3>1. i \in 1..Len(me.replies) /\ q.replies[i] = me.replies[i]
        BY <1>18, <2>2
      <3>2. ReplyRecorded(me.staged, me.replies[i])
        BY Zenon, <1>17, <3>1
      <3>3. me.replies[i].request \in Request /\ me.replies[i].reply \in Reply
        <4>1. me.replies[i] \in QueuedReply
          BY <1>2, <3>1
        <4> QED
          BY Zenon, <4>1 DEF QueuedReply
      <3> QED
        BY Zenon, <1>5, <1>15, <3>1, <3>2, <3>3, OutcomeIsSome DEF ReplyRecorded, Extends
    <2> QED
      BY Zenon, <2>1, <2>2
  <1>20. Extends(me.committed, result.state)
    BY Zenon, <1>2, <1>5, <1>17, ExtendsTransitive
  <1>21. ~q.dirty => result.state = me.committed
    BY Zenon, <1>8, <1>16, <1>17
  <1>22. Coherent(backend, q)
    BY Zenon, <1>6, <1>15, <1>17, <1>19, <1>20, <1>21 DEF Coherent
  <1>23. Matched(call, calls, q)
    <2>1. Len(me.batch) \in Nat /\ Len(me.batch) > 0 /\ item = me.batch[1]
          /\ Len(q.batch) = Len(me.batch) - 1
          /\ \A i \in 1..Len(q.batch) : q.batch[i] = me.batch[i + 1]
      BY <1>2, <1>15 DEF item
    <2>2. \A i \in 1..Len(me.batch) :
              Matches(call, calls, me.batch[i].id, me.batch[i].op.request)
      BY Zenon, <1>1 DEF Matched
    <2>3. \A i \in 1..Len(q.batch) : i + 1 \in 1..Len(me.batch)
      BY <2>1
    <2>4. \A i \in 1..Len(q.batch) : Matches(call, calls, q.batch[i].id, q.batch[i].op.request)
      BY Zenon, <2>1, <2>2, <2>3
    <2>5. Matches(call, calls, entry.id, entry.request)
      <3>1. 1 \in 1..Len(me.batch)
        BY <2>1
      <3> QED
        BY Zenon, <1>13, <2>1, <2>2, <3>1
    <2>6. ASSUME NEW i \in 1..Len(q.replies)
          PROVE  Matches(call, calls, q.replies[i].id, q.replies[i].request)
      <3>1. CASE i = Len(me.replies) + 1
        BY Zenon, <1>18, <2>5, <3>1
      <3>2. CASE i # Len(me.replies) + 1
        <4>1. i \in 1..Len(me.replies) /\ q.replies[i] = me.replies[i]
          BY <1>18, <3>2
        <4> QED
          BY Zenon, <1>1, <4>1 DEF Matched
      <3> QED
        BY Zenon, <3>1, <3>2
    <2> QED
      BY Zenon, <1>1, <1>15, <2>4, <2>6 DEF Matched
  <1> QED
    BY Zenon, <1>9, <1>11, <1>12, <1>22, <1>23, ProcStep


\* A step that only moves a process to another phase
LEMMA PhaseStep ==
    ASSUME IInv, TypeOK', NEW p \in Meta, NEW ph \in Phase,
           proc' = [proc EXCEPT ![p] = [proc[p] EXCEPT !.phase = ph]],
           Coherent(backend, [proc[p] EXCEPT !.phase = ph]),
           backend' = backend, calls' = calls, call' = call,
           \A m \in wire' : SafeCommit(backend, m)
    PROVE  IInv'
  <1> DEFINE q == [proc[p] EXCEPT !.phase = ph]
  <1>1. proc[p] \in Process /\ Matched(call, calls, proc[p])
    BY DEF IInv, TypeOK
  <1>2. q \in Process /\ q.queue = proc[p].queue /\ q.batch = proc[p].batch
        /\ q.replies = proc[p].replies
    BY Zenon, <1>1 DEF Process
  <1>3. proc' = [proc EXCEPT ![p] = q] /\ Coherent(backend, q)
    OBVIOUS
  <1>4. \A c \in Caller : Acked(backend, call[c])
    BY Zenon DEF IInv
  <1> HIDE DEF q
  <1>5. Matched(call, calls, q)
    BY <1>1, <1>2 DEF Matched
  <1> QED
    BY Zenon, <1>2, <1>3, <1>4, <1>5, ProcStep

\* A batch that changed nothing goes to its replies without a commit.
LEMMA SkipPersistStep ==
    ASSUME IInv, TypeOK', NEW p \in Meta, SkipPersist(p)
    PROVE  IInv'
  <1> DEFINE q == [proc[p] EXCEPT !.phase = "replying"]
  <1>1. proc[p] \in Process /\ Coherent(backend, proc[p])
        /\ proc[p].phase = "staging" /\ ~proc[p].dirty
    BY DEF IInv, TypeOK, SkipPersist
  <1>2. /\ q.up = proc[p].up /\ q.version = proc[p].version /\ q.phase = "replying"
        /\ q.committed = proc[p].committed /\ q.staged = proc[p].staged
        /\ q.replies = proc[p].replies
    BY <1>1 DEF Process
  <1>3. proc' = [proc EXCEPT ![p] = q] /\ backend' = backend /\ calls' = calls
        /\ call' = call /\ wire' = wire
    BY Zenon DEF SkipPersist
  <1>4. Coherent(backend, q)
    <2> HIDE DEF q
    <2> QED
      BY Zenon, <1>1, <1>2 DEF Coherent
  <1>5. "replying" \in Phase /\ \A m \in wire : SafeCommit(backend, m)
    BY DEF Phase, IInv
  <1> QED
    BY Zenon, <1>3, <1>4, <1>5, PhaseStep

\* Handing the staged bytes to the backend preserves the invariant.
LEMMA PersistStep ==
    ASSUME IInv, TypeOK', NEW p \in Meta, Persist(p)
    PROVE  IInv'
  <1> DEFINE q == [proc[p] EXCEPT !.phase = "persisting"]
             m == [meta |-> p, version |-> proc[p].version, state |-> proc[p].staged]
  <1>1. proc[p] \in Process /\ Coherent(backend, proc[p]) /\ proc[p].phase = "staging"
    BY DEF IInv, TypeOK, Persist
  <1>2. /\ q.up = proc[p].up /\ q.version = proc[p].version /\ q.phase = "persisting"
        /\ q.committed = proc[p].committed /\ q.staged = proc[p].staged
        /\ q.replies = proc[p].replies
    BY <1>1 DEF Process
  <1>3. proc' = [proc EXCEPT ![p] = q] /\ backend' = backend /\ calls' = calls
        /\ call' = call /\ wire' = wire \cup {m}
    BY Zenon DEF Persist
  <1>4. Coherent(backend, q)
    <2> HIDE DEF q
    <2> QED
      BY Zenon, <1>1, <1>2 DEF Coherent
  <1>5. SafeCommit(backend, m)
    BY Zenon, <1>1 DEF Coherent, SafeCommit
  <1>6. "persisting" \in Phase /\ \A x \in wire : SafeCommit(backend, x)
    BY DEF Phase, IInv
  <1>7. \A x \in wire' : SafeCommit(backend, x)
    BY Zenon, <1>3, <1>5, <1>6
  <1> QED
    BY Zenon, <1>3, <1>4, <1>6, <1>7, PhaseStep

\* The end of a batch preserves the invariant.
LEMMA EndBatchStep ==
    ASSUME IInv, TypeOK', NEW p \in Meta, EndBatch(p)
    PROVE  IInv'
  <1> DEFINE q == [proc[p] EXCEPT !.phase = "idle"]
  <1>1. proc[p] \in Process /\ Coherent(backend, proc[p]) /\ proc[p].phase = "replying"
    BY DEF IInv, TypeOK, EndBatch
  <1>2. /\ q.up = proc[p].up /\ q.version = proc[p].version /\ q.phase = "idle"
        /\ q.committed = proc[p].committed
    BY <1>1 DEF Process
  <1>3. proc' = [proc EXCEPT ![p] = q] /\ backend' = backend /\ calls' = calls
        /\ call' = call /\ wire' = wire
    BY Zenon DEF EndBatch
  <1>4. Coherent(backend, q)
    <2> HIDE DEF q
    <2> QED
      BY Zenon, <1>1, <1>2 DEF Coherent
  <1>5. "idle" \in Phase /\ \A m \in wire : SafeCommit(backend, m)
    BY DEF Phase, IInv
  <1> QED
    BY Zenon, <1>3, <1>4, <1>5, PhaseStep

\* Publishing the staged state, after the backend acknowledged it, preserves
\* the invariant.
LEMMA PublishStep ==
    ASSUME IInv, TypeOK', NEW p \in Meta, Publish(p)
    PROVE  IInv'
  <1> DEFINE q == [proc[p] EXCEPT !.phase = "replying",
                                  !.version = proc[p].version + 1,
                                  !.committed = proc[p].staged]
  <1>1. proc[p] \in Process /\ Coherent(backend, proc[p]) /\ Matched(call, calls, proc[p])
        /\ proc[p].phase = "accepted" /\ backend \in Seq(StoreState)
    BY Zenon DEF IInv, TypeOK, Publish
  <1>2. proc[p].version \in Nat /\ proc[p].staged \in StoreState /\ Len(backend) \in Nat
    BY <1>1 DEF Process
  <1>3. /\ q.up = proc[p].up /\ q.version = proc[p].version + 1 /\ q.phase = "replying"
        /\ q.committed = proc[p].staged /\ q.staged = proc[p].staged
        /\ q.replies = proc[p].replies /\ q.queue = proc[p].queue
        /\ q.batch = proc[p].batch
    BY <1>1 DEF Process
  <1>4. proc' = [proc EXCEPT ![p] = q] /\ backend' = backend /\ calls' = calls
        /\ call' = call /\ wire' = wire
    BY DEF Publish
  <1>5. q \in Process
    <2>1. proc' \in [Meta -> Process] /\ proc'[p] = q
      BY Zenon, <1>4 DEF TypeOK, IInv
    <2> QED
      BY <2>1
  <1>6. /\ \A c \in Caller : Acked(backend, call[c])
        /\ \A m \in wire : SafeCommit(backend, m)
    BY DEF IInv
  <1> HIDE DEF q
  <1>7. Snap(backend, proc[p].version + 1) = proc[p].staged
        /\ proc[p].version + 1 <= Len(backend)
    BY <1>1, <1>2 DEF Coherent, Snap
  <1>8. Coherent(backend, q)
    BY Zenon, <1>1, <1>2, <1>3, <1>7, ExtendsReflexive DEF Coherent
  <1>9. Matched(call, calls, q)
    BY Zenon, <1>1, <1>3 DEF Matched
  <1> QED
    BY Zenon, <1>4, <1>5, <1>6, <1>8, <1>9, ProcStep

\* Sending one reply of a published batch preserves the invariant.
LEMMA SendReplyStep ==
    ASSUME IInv, TypeOK', NEW p \in Meta, SendReply(p)
    PROVE  IInv'
  <1> DEFINE me == proc[p]
             entry == Head(me.replies)
             q == [me EXCEPT !.replies = Tail(me.replies)]
             c == entry.id.caller
             d == [call[c] EXCEPT !.status = "done", !.reply = entry.reply]
  <1>1. me \in Process /\ Coherent(backend, me) /\ Matched(call, calls, me)
        /\ me.phase = "replying" /\ me.replies # << >> /\ backend \in Seq(StoreState)
    BY Zenon DEF IInv, TypeOK, SendReply
  <1>2. me.replies \in Seq(QueuedReply) /\ me.committed \in StoreState /\ me.version \in Nat
        /\ Len(backend) \in Nat
    BY <1>1 DEF Process
  <1>3. entry \in QueuedReply /\ entry = me.replies[1] /\ Len(me.replies) \in Nat
        /\ 1 \in 1..Len(me.replies)
    BY <1>1, <1>2
  <1>4. proc' = [proc EXCEPT ![p] = q] /\ backend' = backend /\ calls' = calls
        /\ wire' = wire /\ Answer(entry.id, entry.reply)
    BY DEF SendReply
  <1>5. q \in Process
    <2>1. proc' \in [Meta -> Process] /\ proc'[p] = q
      BY <1>4 DEF TypeOK, IInv
    <2> QED
      BY Zenon, <2>1
  <1>6. /\ q.up = me.up /\ q.version = me.version /\ q.phase = me.phase
        /\ q.committed = me.committed /\ q.staged = me.staged
        /\ q.replies = Tail(me.replies) /\ q.queue = me.queue /\ q.batch = me.batch
    BY <1>1 DEF Process
  <1>7. /\ Len(q.replies) = Len(me.replies) - 1
        /\ \A i \in 1..Len(q.replies) : i + 1 \in 1..Len(me.replies)
        /\ \A i \in 1..Len(q.replies) : q.replies[i] = me.replies[i + 1]
    BY <1>1, <1>2, <1>3, <1>6
  <1>8. Coherent(backend, q)
    <2> HIDE DEF me, q
    <2>1. \A i \in 1..Len(me.replies) : ReplyRecorded(me.staged, me.replies[i])
      BY Zenon, <1>1 DEF Coherent
    <2>2. \A i \in 1..Len(q.replies) : ReplyRecorded(q.staged, q.replies[i])
      BY Zenon, <1>6, <1>7, <2>1
    <2> QED
      BY Zenon, <1>1, <1>6, <2>2 DEF Coherent
  <1>9. Matched(call, calls, q)
    <2> HIDE DEF me, q
    <2>1. \A i \in 1..Len(me.replies) :
              Matches(call, calls, me.replies[i].id, me.replies[i].request)
      BY Zenon, <1>1 DEF Matched
    <2>2. \A i \in 1..Len(q.replies) :
              Matches(call, calls, q.replies[i].id, q.replies[i].request)
      BY Zenon, <1>7, <2>1
    <2> QED
      BY Zenon, <1>1, <1>6, <2>2 DEF Matched
  <1>10. /\ \A x \in Caller : call[x] \in Call /\ Acked(backend, call[x])
         /\ \A m \in wire : SafeCommit(backend, m)
         /\ Chain(backend) /\ call \in [Caller -> Call]
    BY Zenon DEF IInv, TypeOK
  <1>11. entry.reply \in Reply /\ entry.request \in Request /\ c \in Caller
         /\ entry.id.number \in Nat
    BY Zenon, <1>3 DEF QueuedReply, CallId
  <1>12. HasOutcome(entry.reply) =>
             Snap(backend, Len(backend)).requests[entry.request] = entry.reply.outcome
    <2> HIDE DEF me, entry
    <2>1. /\ ReplyRecorded(me.committed, entry)
          /\ me.version \in 0..Len(backend) /\ me.committed = Snap(backend, me.version)
      <3>1. /\ \A i \in 1..Len(me.replies) : ReplyRecorded(me.staged, me.replies[i])
            /\ me.version <= Len(backend) /\ me.committed = Snap(backend, me.version)
            /\ me.staged = me.committed
        BY Zenon, <1>1 DEF Coherent
      <3>2. me.version \in 0..Len(backend)
        BY <1>2, <3>1
      <3> QED
        BY Zenon, <1>3, <3>1, <3>2
    <2>2. Extends(me.committed, Snap(backend, Len(backend)))
      BY <1>2, <1>10, <2>1 DEF Chain
    <2> QED
      BY Zenon, <1>11, <2>1, <2>2, OutcomeIsSome DEF ReplyRecorded, Extends
  <1>13. \A x \in Caller : /\ call'[x].number = call[x].number
                           /\ call'[x].request = call[x].request
                           /\ Acked(backend, call'[x])
    <2>1. CASE Waits(entry.id)
      <3>1. call' = [call EXCEPT ![c] = d]
        BY Zenon, <1>4, <2>1 DEF Answer
      <3>2. Matches(call, calls, entry.id, entry.request)
        BY <1>1, <1>3 DEF Matched
      <3>3. call[c].request = entry.request /\ call[c] \in Call
        BY Zenon, <1>10, <1>11, <2>1, <3>2 DEF Matches, Waits
      <3>4. /\ d.number = call[c].number /\ d.request = entry.request
            /\ d.status = "done" /\ d.reply = entry.reply
        BY Zenon, <3>3 DEF Call
      <3>5. Acked(backend, d)
        <4> HIDE DEF d, entry
        <4> QED
          BY Zenon, <1>11, <1>12, <3>4 DEF Acked
      <3> HIDE DEF d, c
      <3>6. \A x \in Caller : call'[x] = IF x = c THEN d ELSE call[x]
        BY Zenon, <1>10, <3>1
      <3> QED
        BY Zenon, <1>10, <3>3, <3>4, <3>5, <3>6
    <2>2. CASE ~Waits(entry.id)
      BY <1>4, <1>10, <2>2 DEF Answer
    <2> QED
      BY Zenon, <2>1, <2>2
  <1> HIDE DEF q
  <1> QED
    BY Zenon, <1>4, <1>5, <1>8, <1>9, <1>10, <1>13, ProcStep


-----------------------------------------------------------------------------
\* Opening and losing a process keeps the invariant
LEMMA OpenStep ==
    ASSUME IInv, TypeOK', NEW p \in Meta, Open(p)
    PROVE  IInv'
  <1> DEFINE q == [Down EXCEPT !.up = TRUE, !.poisoned = FALSE, !.phase = "idle",
                               !.committed = Latest, !.version = Len(backend)]
  <1>1. proc' = [proc EXCEPT ![p] = q] /\ backend' = backend /\ calls' = calls
        /\ call' = call /\ wire' = wire
    BY DEF Open
  <1>2. q \in Process
    <2>1. proc' \in [Meta -> Process] /\ proc'[p] = q
      BY <1>1 DEF TypeOK, IInv
    <2> QED
      BY <2>1
  <1>3. /\ q.version = Len(backend) /\ q.phase = "idle" /\ q.committed = Latest
        /\ q.queue = << >> /\ q.batch = << >> /\ q.replies = << >> /\ q.up
    BY Zenon DEF Down
  <1>4. Len(backend) \in Nat /\ Latest = Snap(backend, Len(backend))
    <2>1. backend \in Seq(StoreState)
      BY DEF IInv, TypeOK
    <2>2. Latest = Snap(backend, Len(backend))
      BY Zenon DEF Latest, At, Snap
    <2> QED
      BY <2>1, <2>2
  <1>5. /\ \A c \in Caller : Acked(backend, call[c])
        /\ \A m \in wire : SafeCommit(backend, m)
    BY DEF IInv
  <1> HIDE DEF q
  <1>6. Coherent(backend, q) /\ Matched(call, calls, q)
    BY <1>3, <1>4 DEF Coherent, Matched
  <1> QED
    BY Zenon, <1>1, <1>2, <1>5, <1>6, ProcStep

\* A crash of the process preserves the invariant.
LEMMA CrashStep ==
    ASSUME IInv, TypeOK', NEW p \in Meta, Crash(p)
    PROVE  IInv'
  <1>1. proc' = [proc EXCEPT ![p] = Down] /\ backend' = backend /\ calls' = calls
        /\ wire' = wire
    BY Zenon DEF Crash
  <1>2. \A c \in Caller : /\ call'[c].number = call[c].number
                          /\ call'[c].request = call[c].request
                          /\ Acked(backend, call'[c])
    BY UnavailableStep DEF Crash
  <1>3. \A m \in wire : SafeCommit(backend, m)
    BY Zenon DEF IInv
  <1>4. Coherent(backend, Down) /\ Matched(call, calls, Down)
    BY DEF Coherent, Matched, Down
  <1> QED
    BY Zenon, <1>1, <1>2, <1>3, <1>4, DownType, ProcStep

\* An accepted commit extends the chain, even when its sender is gone
LEMMA BackendCommitStep ==
    ASSUME IInv, TypeOK', NEW m \in wire, BackendCommit(m)
    PROVE  IInv'
  <1> DEFINE s == m.state
             b == Append(backend, s)
  <1>1. m \in Commit /\ s \in StoreState /\ m.meta \in Meta /\ backend \in Seq(StoreState)
        /\ m.version \in Nat
    BY DEF IInv, TypeOK, Commit
  <1>2. backend' = b /\ wire' \subseteq wire /\ call' = call /\ calls' = calls
        /\ m.version = Len(backend)
    BY Zenon DEF BackendCommit
  <1>3. Extends(Snap(backend, Len(backend)), s) /\ Counted(s) /\ Chain(backend)
    BY <1>2 DEF IInv, SafeCommit
  <1> HIDE DEF s, b
  <1>4. Chain(b)
    BY Zenon, <1>1, <1>3, ChainAppend DEF b
  <1>5. \A x \in wire : SafeCommit(b, x)
    <2>1. \A x \in wire : x \in Commit /\ SafeCommit(backend, x)
      BY Zenon DEF IInv, TypeOK
    <2> QED
      BY Zenon, <1>1, <2>1, SafeAppend DEF b
  <1>6. \A c \in Caller : Acked(b, call[c])
    <2>1. \A c \in Caller : call[c] \in Call /\ Acked(backend, call[c])
      BY Zenon DEF IInv, TypeOK
    <2> QED
      BY Zenon, <1>1, <1>3, <2>1, AckedAppend DEF b
  <1>7. \A p \in Meta : proc[p] \in Process /\ Coherent(backend, proc[p])
                        /\ Matched(call, calls, proc[p])
    BY Zenon DEF IInv, TypeOK
  <1>8. \A p \in Meta : Coherent(b, proc[p])
    BY Zenon, <1>1, <1>7, CoherentAppend DEF b
  <1>9. CASE AwaitsCommit(m)
    <2> DEFINE q == [proc[m.meta] EXCEPT !.phase = "accepted"]
    <2>1. proc' = [proc EXCEPT ![m.meta] = q]
      BY Zenon, <1>9 DEF BackendCommit
    <2>2. proc[m.meta] \in Process /\ Coherent(b, proc[m.meta])
          /\ Matched(call, calls, proc[m.meta])
      BY Zenon, <1>1, <1>7, <1>8
    <2>3. /\ q.up = proc[m.meta].up /\ q.version = proc[m.meta].version
          /\ q.phase = "accepted" /\ q.committed = proc[m.meta].committed
          /\ q.staged = proc[m.meta].staged /\ q.replies = proc[m.meta].replies
          /\ q.queue = proc[m.meta].queue /\ q.batch = proc[m.meta].batch
      BY Zenon, <2>2 DEF Process
    <2>4. /\ proc[m.meta].phase = "persisting" /\ proc[m.meta].version = Len(backend)
          /\ proc[m.meta].staged = s
      BY Zenon, <1>2, <1>9 DEF AwaitsCommit, s
    <2>5. Len(b) = Len(backend) + 1 /\ b[Len(backend) + 1] = s /\ Len(backend) \in Nat
      BY Zenon, <1>1, SnapAppend DEF b
    <2> HIDE DEF q
    <2>6. Coherent(b, q)
      <3>1. /\ proc[m.meta].up /\ proc[m.meta].version <= Len(b)
            /\ proc[m.meta].committed = Snap(b, proc[m.meta].version)
            /\ Extends(proc[m.meta].committed, proc[m.meta].staged)
            /\ Counted(proc[m.meta].staged)
            /\ \A i \in 1..Len(proc[m.meta].replies) :
                  ReplyRecorded(proc[m.meta].staged, proc[m.meta].replies[i])
        BY Zenon, <2>2, <2>4 DEF Coherent
      <3>2. q.version < Len(b) /\ b[q.version + 1] = q.staged
        BY <2>3, <2>4, <2>5
      <3> QED
        BY Zenon, <2>3, <3>1, <3>2 DEF Coherent
    <2>7. Matched(call, calls, q)
      BY Zenon, <2>2, <2>3 DEF Matched
    <2>8. \A p \in Meta : proc'[p] = IF p = m.meta THEN q ELSE proc[p]
      BY Zenon, <2>1 DEF IInv, TypeOK
    <2>9. \A p \in Meta : Coherent(b, proc'[p]) /\ Matched(call, calls, proc'[p])
      BY Zenon, <1>7, <1>8, <2>6, <2>7, <2>8
    <2> QED
      BY Zenon, <1>2, <1>4, <1>5, <1>6, <2>9 DEF IInv
  <1>10. CASE ~AwaitsCommit(m)
    <2>1. proc' = proc
      BY Zenon, <1>10 DEF BackendCommit
    <2> QED
      BY Zenon, <1>2, <1>4, <1>5, <1>6, <1>7, <1>8, <2>1 DEF IInv
  <1> QED
    BY Zenon, <1>9, <1>10

\* A commit that lost the compare-and-swap preserves the invariant: the loop
\* fails its batch.
LEMMA BackendRefuseStep ==
    ASSUME IInv, TypeOK', NEW m \in wire, BackendRefuse(m)
    PROVE  IInv'
  <1>1. m.meta \in Meta /\ backend' = backend /\ calls' = calls /\ wire' \subseteq wire
    BY DEF IInv, TypeOK, Commit, BackendRefuse
  <1>2. CASE AwaitsCommit(m)
    BY Zenon, <1>1, <1>2, FailStep DEF BackendRefuse
  <1>3. CASE ~AwaitsCommit(m)
    BY Zenon, <1>1, <1>3 DEF BackendRefuse, IInv
  <1> QED
    BY Zenon, <1>2, <1>3

\* A new call takes a number that nothing queued carries
LEMMA MutateStep ==
    ASSUME IInv, TypeOK', NEW c \in Caller, NEW p \in Meta, NEW op \in Ops,
           Mutate(c, p, op)
    PROVE  IInv'
  <1> DEFINE n == calls + 1
             d == [status |-> "waiting", number |-> n, meta |-> p,
                   request |-> op.request, reply |-> Plain("unavailable")]
             item == [id |-> [caller |-> c, number |-> n], op |-> op]
             q == [proc[p] EXCEPT !.queue = Append(proc[p].queue, item)]
  <1>1. backend' = backend /\ wire' = wire /\ calls' = n
        /\ call' = [call EXCEPT ![c] = d] /\ proc' = [proc EXCEPT ![p] = q]
    BY Zenon DEF Mutate
  <1>2. /\ \A x \in Caller : Acked(backend, call[x])
        /\ \A m \in wire : SafeCommit(backend, m)
        /\ \A r \in Meta : proc[r] \in Process /\ Coherent(backend, proc[r])
                           /\ Matched(call, calls, proc[r])
        /\ Chain(backend) /\ calls \in Nat /\ call \in [Caller -> Call]
    BY Zenon DEF IInv, TypeOK
  <1>3. op.request \in Request
    BY Zenon, MetaStoreAssumption DEF Mutation
  <1>4. d.status = "waiting" /\ d.number = n /\ d.request = op.request
    OBVIOUS
  <1>5. Acked(backend, d)
    BY Zenon, <1>3, <1>4 DEF Acked
  <1>6. item.id.caller = c /\ item.id.number = n /\ item.op = op
    OBVIOUS
  <1>7. /\ q.up = proc[p].up /\ q.version = proc[p].version /\ q.phase = proc[p].phase
        /\ q.committed = proc[p].committed /\ q.staged = proc[p].staged
        /\ q.dirty = proc[p].dirty /\ q.replies = proc[p].replies
        /\ q.batch = proc[p].batch /\ q.queue = Append(proc[p].queue, item)
    BY Zenon, <1>2 DEF Process
  <1>8. proc[p].queue \in Seq(Item)
    BY Zenon, <1>2 DEF Process
  <1> HIDE DEF d, item, q
  <1>9. \A x \in Caller : call'[x] = IF x = c THEN d ELSE call[x]
    BY Zenon, <1>1, <1>2
  <1>10. \A id, r : Matches(call, calls, id, r) /\ id \in CallId => Matches(call', n, id, r)
    <2> SUFFICES ASSUME NEW id \in CallId, NEW r, Matches(call, calls, id, r)
                 PROVE  Matches(call', n, id, r)
      BY Zenon
    <2>1. id.caller \in Caller /\ id.number \in Nat
      BY DEF CallId
    <2>2. id.number <= calls
          /\ (call[id.caller].number = id.number => call[id.caller].request = r)
      BY Zenon DEF Matches
    <2>3. id.number <= n /\ id.number # n
      BY <1>2, <2>1, <2>2
    <2> HIDE DEF n
    <2>4. CASE id.caller = c
      BY Zenon, <1>4, <1>9, <2>1, <2>3, <2>4 DEF Matches
    <2>5. CASE id.caller # c
      BY Zenon, <1>9, <2>1, <2>2, <2>3, <2>5 DEF Matches
    <2> QED
      BY Zenon, <2>4, <2>5
  <1>11. ASSUME NEW r \in Meta
         PROVE  Matched(call', n, proc[r])
    <2> DEFINE x == proc[r]
    <2>1. x.queue \in Seq(Item) /\ x.batch \in Seq(Item) /\ x.replies \in Seq(QueuedReply)
      BY Zenon, <1>2 DEF Process
    <2>2. /\ \A i \in 1..Len(x.queue) : x.queue[i] \in Item
          /\ \A i \in 1..Len(x.batch) : x.batch[i] \in Item
          /\ \A i \in 1..Len(x.replies) : x.replies[i] \in QueuedReply
      BY <2>1
    <2>3. (\A e \in Item : e.id \in CallId) /\ (\A e \in QueuedReply : e.id \in CallId)
      BY DEF Item, QueuedReply
    <2>4. Matched(call, calls, x)
      BY Zenon, <1>2
    <2> HIDE DEF x, n
    <2>5. Matched(call', n, x)
      BY Zenon, <1>10, <2>2, <2>3, <2>4 DEF Matched
    <2> QED
      BY Zenon, <2>5 DEF x
  <1>12. Matched(call', n, q)
    <2>1. Matches(call', n, item.id, item.op.request)
      BY <1>2, <1>4, <1>6, <1>9 DEF Matches
    <2>2. Matched(call', n, proc[p])
      BY Zenon, <1>11
    <2>3. /\ Len(q.queue) = Len(proc[p].queue) + 1 /\ Len(proc[p].queue) \in Nat
          /\ q.queue[Len(proc[p].queue) + 1] = item
          /\ \A i \in 1..Len(proc[p].queue) : q.queue[i] = proc[p].queue[i]
      BY <1>7, <1>8
    <2> HIDE DEF n
    <2>4. ASSUME NEW i \in 1..Len(q.queue)
          PROVE  Matches(call', n, q.queue[i].id, q.queue[i].op.request)
      <3>1. CASE i = Len(proc[p].queue) + 1
        BY Zenon, <2>1, <2>3, <3>1
      <3>2. CASE i # Len(proc[p].queue) + 1
        <4>1. i \in 1..Len(proc[p].queue)
          BY <2>3, <3>2
        <4> QED
          BY Zenon, <2>2, <2>3, <4>1 DEF Matched
      <3> QED
        BY Zenon, <3>1, <3>2
    <2> QED
      BY Zenon, <1>7, <2>2, <2>4 DEF Matched
  <1>13. Coherent(backend, q)
    BY Zenon, <1>2, <1>7 DEF Coherent
  <1>14. \A r \in Meta : proc'[r] = IF r = p THEN q ELSE proc[r]
    BY <1>1 DEF IInv, TypeOK
  <1>15. \A r \in Meta : Coherent(backend, proc'[r]) /\ Matched(call', n, proc'[r])
    BY Zenon, <1>2, <1>11, <1>12, <1>13, <1>14
  <1>16. \A x \in Caller : Acked(backend, call'[x])
    BY Zenon, <1>2, <1>5, <1>9
  <1> QED
    BY Zenon, <1>1, <1>2, <1>15, <1>16 DEF IInv

\* A caller that stops waiting preserves the invariant.
LEMMA GiveUpStep ==
    ASSUME IInv, TypeOK', NEW c \in Caller, GiveUp(c)
    PROVE  IInv'
  <1> DEFINE d == [call[c] EXCEPT !.status = "abandoned"]
  <1>1. backend' = backend /\ wire' = wire /\ calls' = calls /\ proc' = proc
        /\ call' = [call EXCEPT ![c] = d] /\ call[c].status = "waiting"
    BY Zenon DEF GiveUp
  <1>2. /\ \A x \in Caller : Acked(backend, call[x])
        /\ \A r \in Meta : proc[r] \in Process /\ Matched(call, calls, proc[r])
        /\ calls \in Nat /\ call \in [Caller -> Call]
    BY DEF IInv, TypeOK
  <1>3. /\ d.status = "abandoned" /\ d.number = call[c].number
        /\ d.request = call[c].request
    BY Zenon, <1>2 DEF Call
  <1> HIDE DEF d
  <1>4. Acked(backend, d)
    BY Zenon, <1>1, <1>2, <1>3 DEF Acked
  <1>5. \A x \in Caller : call'[x] = IF x = c THEN d ELSE call[x]
    BY Zenon, <1>1, <1>2
  <1>6. \A x \in Caller : /\ call'[x].number = call[x].number
                          /\ call'[x].request = call[x].request
                          /\ Acked(backend, call'[x])
    BY Zenon, <1>2, <1>3, <1>4, <1>5
  <1>7. \A r \in Meta : Matched(call', calls, proc[r])
    BY Zenon, <1>2, <1>6, MatchedFrame
  <1> QED
    BY Zenon, <1>1, <1>6, <1>7 DEF IInv


-----------------------------------------------------------------------------
\* The invariant holds initially and is kept by every step
LEMMA InitIInv == Init => IInv
  <1> SUFFICES ASSUME Init PROVE IInv
    OBVIOUS
  <1>1. TypeOK
    BY Zenon, InitType
  <1>2. Len(backend) = 0 /\ Snap(backend, 0) = EmptyState
    BY DEF Init, Snap
  <1>3. Chain(backend)
    BY <1>2, EmptyStateType, ExtendsReflexive DEF Chain
  <1>4. \A p \in Meta : Coherent(backend, proc[p]) /\ Matched(call, calls, proc[p])
    <2> SUFFICES ASSUME NEW p \in Meta
                 PROVE  Coherent(backend, proc[p]) /\ Matched(call, calls, proc[p])
      OBVIOUS
    <2>1. proc[p] = Down
      BY Zenon DEF Init
    <2>2. /\ ~Down.up /\ Down.phase = "stopped"
          /\ Down.queue = << >> /\ Down.batch = << >> /\ Down.replies = << >>
      BY Zenon DEF Down
    <2>3. Coherent(backend, Down)
      BY Zenon, <2>2 DEF Coherent
    <2>4. Matched(call, calls, Down)
      BY <2>2 DEF Matched
    <2> QED
      BY Zenon, <2>1, <2>3, <2>4
  <1>5. \A c \in Caller : Acked(backend, call[c])
    BY Zenon DEF Init, Acked, NoCall
  <1> QED
    BY Zenon, <1>1, <1>3, <1>4, <1>5 DEF IInv, Init

\* Every step preserves the inductive invariant.
LEMMA NextIInv == IInv /\ [Next]_vars => IInv'
  <1> SUFFICES ASSUME IInv, [Next]_vars
               PROVE  IInv'
    BY Zenon
  <1> TypeOK'
    BY NextType DEF IInv
  <1>1. ASSUME NEW p \in Meta, Open(p) PROVE IInv'
    BY Zenon, <1>1, OpenStep
  <1>2. ASSUME NEW p \in Meta, Loop(p) PROVE IInv'
    <2>1. CASE Gather(p)
      BY Zenon, <2>1, GatherStep
    <2>2. CASE Stage(p)
      BY Zenon, <2>2, StageStep
    <2>3. CASE SkipPersist(p)
      BY Zenon, <2>3, SkipPersistStep
    <2>4. CASE Persist(p)
      BY <2>4, PersistStep
    <2>5. CASE CommitLost(p)
      BY Zenon, <2>5, FailStep DEF CommitLost
    <2>6. CASE Publish(p)
      BY Zenon, <2>6, PublishStep
    <2>7. CASE SendReply(p)
      BY <2>7, SendReplyStep
    <2>8. CASE EndBatch(p)
      BY <2>8, EndBatchStep
    <2> QED
      BY <1>2, <2>1, <2>2, <2>3, <2>4, <2>5, <2>6, <2>7, <2>8 DEF Loop
  <1>3. ASSUME NEW p \in Meta, Crash(p) PROVE IInv'
    BY <1>3, CrashStep
  <1>4. ASSUME NEW m \in wire, BackendCommit(m) PROVE IInv'
    BY Zenon, <1>4, BackendCommitStep
  <1>5. ASSUME NEW m \in wire, BackendRefuse(m) PROVE IInv'
    BY <1>5, BackendRefuseStep
  <1>6. ASSUME NEW c \in Caller, NEW p \in Meta, NEW op \in Ops, Mutate(c, p, op)
        PROVE  IInv'
    BY Zenon, <1>6, MutateStep
  <1>7. ASSUME NEW c \in Caller, GiveUp(c) PROVE IInv'
    BY <1>7, GiveUpStep
  <1>8. CASE UNCHANGED <<backend, wire, proc, call, calls>>
    BY Zenon, <1>8 DEF IInv
  <1>9. ASSUME NEW p \in Meta, Poll(p) PROVE IInv'
    BY <1>8, <1>9 DEF Poll
  <1>10. CASE Tick
    BY Zenon, <1>8, <1>10 DEF Tick
  <1>11. CASE UNCHANGED vars
    BY <1>8, <1>11 DEF vars
  <1> QED
    BY Zenon, <1>1, <1>2, <1>3, <1>4, <1>5, <1>6, <1>7, <1>9, <1>10, <1>11 DEF Next

\* The inductive invariant holds in every state of the store.
LEMMA Invariance == Spec => []IInv
  BY InitIInv, NextIInv, PTL DEF Spec

(***************************************************************************)
(* Readers never see state that the backend has not accepted, for any      *)
(* number of processes, batch size, crashes and lost answers               *)
(* (run_commit_loop publishes after backend.commit).                       *)
(***************************************************************************)
THEOREM VisibleDurable == Spec => []VisibleIsDurable
  <1>1. IInv => VisibleIsDurable
    BY Zenon DEF IInv, Coherent, VisibleIsDurable, At, Snap
  <1> QED
    BY <1>1, Invariance, PTL

(***************************************************************************)
(* An outcome that was given to a caller is what the backend records for   *)
(* its request, now and after every later commit of any process            *)
(* (run_commit_loop, compare_and_commit).                                  *)
(***************************************************************************)
THEOREM AcknowledgedDurable == Spec => []AckedDurable
  <1>1. IInv => AckedDurable
    BY Zenon DEF IInv, Acked, AckedDurable, Latest, At, Snap
  <1> QED
    BY <1>1, Invariance, PTL

(***************************************************************************)
(* Every request that has an outcome was applied in exactly one revision   *)
(* (compare_and_commit and register_node_session check the request first). *)
(***************************************************************************)
THEOREM RequestsExactlyOnce == Spec => []ExactlyOnce
  <1>1. ASSUME IInv PROVE ExactlyOnce
    <2>1. Len(backend) \in 0..Len(backend) /\ Latest = Snap(backend, Len(backend))
      BY <1>1 DEF IInv, TypeOK, Latest, At, Snap
    <2>2. Counted(Latest)
      BY Zenon, <1>1, <2>1 DEF IInv, Chain
    <2> QED
      BY <2>2 DEF Counted, Recorded, ExactlyOnce
  <1> QED
    BY <1>1, Invariance, PTL

\* A step replaces the latest snapshot only by one that extends it
LEMMA LatestExtends ==
    ASSUME IInv, IInv', [Next]_vars
    PROVE  /\ Latest \in StoreState /\ Latest' \in StoreState
           /\ Counted(Latest) /\ Counted(Latest')
           /\ Extends(Latest, Latest')
           /\ backend' # backend => call' = call
  <1>1. /\ Latest \in StoreState /\ Latest = Snap(backend, Len(backend))
        /\ Len(backend) \in 0..Len(backend) /\ backend \in Seq(StoreState)
    BY LatestType DEF Latest, At, Snap, IInv, TypeOK
  <1>2. /\ Latest' \in StoreState /\ Latest' = Snap(backend', Len(backend'))
        /\ Len(backend') \in 0..Len(backend') /\ backend' \in Seq(StoreState)
    <2>1. backend' \in Seq(StoreState) /\ Len(backend') \in Nat
      BY DEF IInv, TypeOK
    <2>2. Latest' = Snap(backend', Len(backend'))
      BY DEF Latest, At, Snap
    <2> QED
      BY <2>1, <2>2, SnapType
  <1>3. Counted(Latest) /\ Counted(Latest')
    BY Zenon, <1>1, <1>2 DEF IInv, Chain
  <1>4. CASE backend' = backend
    <2>1. Latest' = Latest
      BY Zenon, <1>1, <1>2, <1>4
    <2> QED
      BY Zenon, <1>1, <1>2, <1>3, <1>4, <2>1, ExtendsReflexive
  <1>5. ASSUME NEW m \in wire, BackendCommit(m)
        PROVE  Extends(Latest, Latest') /\ call' = call
    <2>1. m.state \in StoreState /\ backend' = Append(backend, m.state) /\ call' = call
          /\ m.version = Len(backend)
      BY <1>5 DEF IInv, TypeOK, Commit, BackendCommit
    <2>2. Extends(Snap(backend, Len(backend)), m.state)
      BY Zenon, <2>1 DEF IInv, SafeCommit
    <2>3. Snap(backend', Len(backend')) = m.state
      BY <1>1, <2>1, SnapAppend
    <2> QED
      BY Zenon, <1>1, <1>2, <2>1, <2>2, <2>3
  <1>6. backend' = backend \/ \E m \in wire : BackendCommit(m)
    BY Zenon DEF Next, vars, Open, Loop, Gather, Stage, SkipPersist, Persist, CommitLost,
           Publish, SendReply, EndBatch, Crash, Poll, BackendRefuse, GiveUp, Mutate, Tick
  <1> QED
    BY Zenon, <1>1, <1>2, <1>3, <1>4, <1>5, <1>6

(***************************************************************************)
(* No step takes back or rewrites a recorded outcome, or moves the         *)
(* authority to an earlier revision (the compare-and-swap of               *)
(* StoreBackend::commit).                                                  *)
(***************************************************************************)
THEOREM OutcomesKept == Spec => OutcomesStable
  <1> DEFINE Step == /\ Latest'.revision >= Latest.revision
                     /\ \A r \in Request :
                           Latest.requests[r] # None =>
                               Latest'.requests[r] = Latest.requests[r]
  <1>1. IInv /\ IInv' /\ [Next]_vars => [Step]_backend
    <2> SUFFICES ASSUME IInv, IInv', [Next]_vars
                 PROVE  Step
      OBVIOUS
    <2>1. Latest \in StoreState /\ Latest' \in StoreState /\ Extends(Latest, Latest')
      BY Zenon, LatestExtends
    <2>2. Latest.revision \in Nat /\ Latest'.revision \in Nat
      BY Zenon, <2>1 DEF StoreState
    <2> QED
      BY Zenon, <2>1, <2>2 DEF Extends
  <1> QED
    BY <1>1, Invariance, PTL DEF Spec, OutcomesStable


-----------------------------------------------------------------------------
\* The revisions between two snapshots are as many as the newly recorded requests
LEMMA RevisionsGained ==
    ASSUME NEW s \in StoreState, NEW t \in StoreState, Counted(s), Counted(t), Extends(s, t)
    PROVE  t.revision = s.revision
              + Cardinality({r \in Request : s.requests[r] = None /\ t.requests[r] # None})
  <1> DEFINE N == {r \in Request : s.requests[r] = None /\ t.requests[r] # None}
  <1>1. IsFiniteSet(Recorded(s)) /\ IsFiniteSet(N)
    BY Zenon, MetaStateAssumption, FS_Subset DEF Recorded
  <1>2. Recorded(t) = Recorded(s) \cup N /\ Recorded(s) \cap N = {}
    BY Zenon DEF Recorded, Extends
  <1>3. Cardinality(Recorded(s) \cup N)
          = Cardinality(Recorded(s)) + Cardinality(N) - Cardinality(Recorded(s) \cap N)
    BY Zenon, <1>1, FS_Union
  <1>4. Cardinality({}) = 0 /\ Cardinality(N) \in Nat /\ Cardinality(Recorded(s)) \in Nat
    BY Zenon, <1>1, FS_EmptySet, FS_CardinalityType
  <1> HIDE DEF N
  <1>5. Cardinality(Recorded(t)) = Cardinality(Recorded(s)) + Cardinality(N)
    <2>1. Cardinality(Recorded(s) \cap N) = 0
      BY <1>2, <1>4, Zenon
    <2>2. Cardinality(Recorded(t)) = Cardinality(Recorded(s) \cup N)
      BY <1>2, Zenon
    <2> QED
      BY <1>3, <1>4, <2>1, <2>2
  <1>6. t.revision = s.revision + Cardinality(N)
    BY Zenon, <1>5 DEF Counted
  <1> QED
    BY <1>6 DEF N

\* What a caller learned, over a call d
Learned(d) ==
    IF d.status = "done" /\ HasOutcome(d.reply)
    THEN [request |-> d.request, outcome |-> d.reply.outcome]
    ELSE None

\* The answers that the refinement shows the authority, written out call by
\* call.
LEMMA AnsweredIs == /\ Answered = [c \in Caller |-> Learned(call[c])]
                    /\ Answered' = [c \in Caller |-> Learned(call'[c])]
  BY DEF Answered, Learned

\* The abstract authority sees a call begin, an answer, or nothing
LEMMA CallStep ==
    ASSUME IInv, IInv', [Next]_vars, backend' = backend
    PROVE  \/ UNCHANGED Answered
           \/ \E c \in Caller : Answered' = [Answered EXCEPT ![c] = None]
           \/ \E c \in Caller, r \in Request :
                 /\ Latest.requests[r] # None
                 /\ Answered' = [Answered EXCEPT
                        ![c] = [request |-> r, outcome |-> Latest.requests[r]]]
  <1>1. CASE call' = call
    BY Zenon, <1>1, AnsweredIs
  <1>2. ASSUME NEW p \in Meta, AnswerUnavailable(p)
        PROVE  UNCHANGED Answered
    <2>1. ~HasOutcome(Plain("unavailable"))
      BY Zenon DEF HasOutcome, Plain
    <2>2. ASSUME NEW c \in Caller
          PROVE  Learned(call'[c]) = Learned(call[c])
      <3>1. call[c] \in Call
        BY DEF IInv, TypeOK
      <3> DEFINE d == [call[c] EXCEPT !.status = "done", !.reply = Plain("unavailable")]
      <3>2. d.reply = Plain("unavailable")
        BY <3>1 DEF Call
      <3>3. CASE call[c].status = "waiting" /\ call[c].meta = p
        <4>1. call'[c] = d
          BY Zenon, <1>2, <3>3 DEF AnswerUnavailable
        <4> QED
          BY Zenon, <2>1, <3>2, <3>3, <4>1 DEF Learned
      <3>4. CASE ~(call[c].status = "waiting" /\ call[c].meta = p)
        BY Zenon, <1>2, <3>4 DEF AnswerUnavailable
      <3> QED
        BY Zenon, <3>3, <3>4
    <2> QED
      BY <2>2, AnsweredIs
  <1>3. ASSUME NEW c \in Caller, NEW d, call' = [call EXCEPT ![c] = d]
        PROVE  Answered' = [Answered EXCEPT ![c] = Learned(d)]
    <2>1. call \in [Caller -> Call]
      BY DEF IInv, TypeOK
    <2> QED
      BY Zenon, <1>3, <2>1, AnsweredIs
  <1>4. ASSUME NEW c \in Caller, GiveUp(c)
        PROVE  \E x \in Caller : Answered' = [Answered EXCEPT ![x] = None]
    <2>1. call[c] \in Call
      BY DEF IInv, TypeOK
    <2>2. Learned([call[c] EXCEPT !.status = "abandoned"]) = None
      BY <2>1 DEF Learned, Call
    <2>3. call' = [call EXCEPT ![c] = [call[c] EXCEPT !.status = "abandoned"]]
      BY <1>4 DEF GiveUp
    <2> QED
      BY Zenon, <1>3, <2>2, <2>3
  <1>5. ASSUME NEW c \in Caller, NEW p \in Meta, NEW op \in Ops, Mutate(c, p, op)
        PROVE  \E x \in Caller : Answered' = [Answered EXCEPT ![x] = None]
    <2> DEFINE d == [status |-> "waiting", number |-> calls + 1, meta |-> p,
                     request |-> op.request, reply |-> Plain("unavailable")]
    <2>1. Learned(d) = None
      BY DEF Learned
    <2>2. call' = [call EXCEPT ![c] = d]
      BY Zenon, <1>5 DEF Mutate
    <2> QED
      BY Zenon, <1>3, <2>1, <2>2
  <1>6. ASSUME NEW p \in Meta, SendReply(p), call' # call
        PROVE  \/ \E x \in Caller : Answered' = [Answered EXCEPT ![x] = None]
               \/ \E x \in Caller, r \in Request :
                     /\ Latest.requests[r] # None
                     /\ Answered' = [Answered EXCEPT
                            ![x] = [request |-> r, outcome |-> Latest.requests[r]]]
    <2> DEFINE entry == Head(proc[p].replies)
               c == entry.id.caller
               d == [call[c] EXCEPT !.status = "done", !.reply = entry.reply]
    <2>1. proc[p].replies \in Seq(QueuedReply) /\ proc[p].replies # << >>
      BY Zenon, <1>6 DEF SendReply, IInv, TypeOK, Process
    <2>2. entry \in QueuedReply
      BY <2>1
    <2>3. c \in Caller /\ entry.reply \in Reply
      BY Zenon, <2>2 DEF QueuedReply, CallId
    <2>4. call' = [call EXCEPT ![c] = d]
      BY <1>6 DEF SendReply, Answer
    <2>5. call[c] \in Call /\ call \in [Caller -> Call]
      BY Zenon, <2>3 DEF IInv, TypeOK
    <2>6. d.status = "done" /\ d.reply = entry.reply /\ d = call'[c]
      BY Zenon, <2>3, <2>4, <2>5 DEF Call
    <2> HIDE DEF d, entry, c
    <2>7. Answered' = [Answered EXCEPT ![c] = Learned(d)]
      BY Zenon, <1>3, <2>3, <2>4
    <2>8. CASE ~HasOutcome(entry.reply)
      BY Zenon, <2>3, <2>6, <2>7, <2>8 DEF Learned
    <2>9. CASE HasOutcome(entry.reply)
      <3>1. Acked(backend, d)
        BY Zenon, <2>3, <2>6 DEF IInv
      <3>2. Latest = Snap(backend, Len(backend))
        BY Zenon DEF Latest, At, Snap
      <3>3. d.request \in Request /\ Latest.requests[d.request] = entry.reply.outcome
        BY Zenon, <2>6, <2>9, <3>1, <3>2 DEF Acked
      <3>4. entry.reply.outcome # None
        BY Zenon, <2>3, <2>9, OutcomeIsSome
      <3>5. Learned(d) = [request |-> d.request, outcome |-> Latest.requests[d.request]]
        BY Zenon, <2>6, <2>9, <3>3 DEF Learned
      <3> QED
        BY Zenon, <2>3, <2>7, <3>3, <3>4, <3>5
    <2> QED
      BY Zenon, <2>8, <2>9
  <1>7. \/ call' = call
        \/ \E p \in Meta : AnswerUnavailable(p) \/ SendReply(p)
        \/ \E c \in Caller :
              GiveUp(c) \/ \E p \in Meta, op \in Ops : Mutate(c, p, op)
    <2>1. ASSUME NEW m \in wire, BackendCommit(m) \/ BackendRefuse(m)
          PROVE  call' = call \/ \E p \in Meta : AnswerUnavailable(p)
      <3>1. m.meta \in Meta
        BY DEF IInv, TypeOK, Commit
      <3> QED
        BY Zenon, <2>1, <3>1 DEF BackendCommit, BackendRefuse, Fail
    <2> QED
      BY Zenon, <2>1 DEF Next, vars, Open, Loop, Gather, Stage, SkipPersist, Persist, CommitLost,
             Publish, EndBatch, Crash, Poll, Tick, Fail
  <1> QED
    BY Zenon, <1>1, <1>2, <1>4, <1>5, <1>6, <1>7

(***************************************************************************)
(* The Store implements the abstract authority: what is recorded, how      *)
(* revisions are numbered and what callers are told, whatever crashes,     *)
(* retries and lost answers do (run_commit_loop, Store::mutate).           *)
(***************************************************************************)
THEOREM StoreImplementsAuthority == Spec => ImplementsAuthority
  <1>1. Init => Authority!Init
    <2> SUFFICES ASSUME Init PROVE Authority!Init
      BY Zenon
    <2>1. Latest = EmptyState
      BY Zenon DEF Init, Latest, At
    <2>2. Answered = [c \in Caller |-> None]
      BY DEF Init, Answered, NoCall
    <2> QED
      BY Zenon, <2>1, <2>2 DEF Authority!Init, EmptyState
  <1>2. IInv /\ IInv' /\ [Next]_vars => [Authority!Next]_(Authority!vars)
    <2> SUFFICES ASSUME IInv, IInv', [Next]_vars
                 PROVE  [Authority!Next]_(Authority!vars)
      OBVIOUS
    <2>1. /\ Latest \in StoreState /\ Latest' \in StoreState
          /\ Counted(Latest) /\ Counted(Latest') /\ Extends(Latest, Latest')
          /\ backend' # backend => call' = call
      BY Zenon, LatestExtends
    <2>2. CASE backend' # backend
      <3>1. UNCHANGED Answered
        BY Zenon, <2>1, <2>2, AnsweredIs
      <3>2. Latest'.requests \in [Request -> Outcome \cup {None}]
        BY Zenon, <2>1 DEF StoreState
      <3>3. Latest'.revision = Latest.revision
              + Cardinality({r \in Request :
                    Latest.requests[r] = None /\ Latest'.requests[r] # None})
        BY Zenon, <2>1, RevisionsGained
      <3>4. \A S : Authority!Cardinality(S) = Cardinality(S)
        BY Zenon DEF Authority!Cardinality, Cardinality, Authority!IsFiniteSet, IsFiniteSet
      <3> QED
        BY Zenon, <2>1, <3>1, <3>2, <3>3, <3>4 DEF Authority!Next, Authority!Advance, Extends
    <2>3. CASE backend' = backend
      <3>1. UNCHANGED Latest
        BY <2>3 DEF Latest, At
      <3>2. CASE UNCHANGED Answered
        BY Zenon, <3>1, <3>2 DEF Authority!vars
      <3>3. ASSUME NEW c \in Caller, Answered' = [Answered EXCEPT ![c] = None]
            PROVE  Authority!Next
        BY Zenon, <3>1, <3>3 DEF Authority!Next, Authority!Begin
      <3>4. ASSUME NEW c \in Caller, NEW r \in Request,
                   Latest.requests[r] # None,
                   Answered' = [Answered EXCEPT
                       ![c] = [request |-> r, outcome |-> Latest.requests[r]]]
            PROVE  Authority!Next
        BY Zenon, <3>1, <3>4 DEF Authority!Next, Authority!Answer
      <3> QED
        BY Zenon, <2>3, <3>2, <3>3, <3>4, CallStep
    <2> QED
      BY Zenon, <2>2, <2>3
  <1> QED
    BY <1>1, <1>2, Invariance, PTL DEF Spec, ImplementsAuthority, Authority!Spec
=============================================================================
