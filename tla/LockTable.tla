------------------------------ MODULE LockTable ------------------------------
(***************************************************************************)
(* The per-inode advisory lock table (src/node/vfs/locks.rs): POSIX and    *)
(* flock locks of owners that belong to ingress sessions (a FUSE mount or  *)
(* a peer), blocking requests that sleep on one condition variable, their  *)
(* cancellation by waiter identity, and the retained outcomes that keep a  *)
(* late or repeated delivery of the same request from acquiring again.     *)
(*                                                                         *)
(* Every method runs under the table's mutex, so a call is one action; a   *)
(* blocking call is cut where the condition variable releases the mutex:   *)
(* SetlkBlocking runs up to the first wait or the answer, Wake from the    *)
(* return of a wait to the next one.  A thread stands for one delivery of  *)
(* a blocking call, so two threads with the same call are a request and    *)
(* its retry.                                                              *)
(***************************************************************************)
EXTENDS LockRanges

CONSTANTS Sessions,       \* ingress_session_id values
          OwnerSession,   \* the session of each owner
          Threads,        \* deliveries of setlk_blocking
          Ids,            \* LockWaiterId values
          Call,           \* the waiter identity and the request of each thread
          IdSession,      \* the session of each waiter identity
          Requests,       \* requests made through setlk_nonblocking
          MaxLocks, MaxWaiters, MaxCancelledWaiters

ASSUME TableAssumption ==
    /\ OwnerSession \in [Owners -> Sessions]
    /\ IdSession \in [Ids -> Sessions]
    /\ Call \in [Threads -> [id : Ids, req : LockRequest]]
    /\ Requests \subseteq LockRequest
    /\ MaxLocks \in Nat /\ MaxWaiters \in Nat /\ MaxCancelledWaiters \in Nat

VARIABLES
    locks,      \* the active, merged segments
    waiters,    \* the registered waiters: identity -> owner, kind, blockers
    outcomes,   \* waiter_outcomes: identity -> outcome, owner, kind
    retired,    \* retired_waiters
    closed,     \* closed_sessions
    admission,  \* FALSE once closed_session_admission_closed is set
    invalid,    \* invalidated
    thread,     \* each delivery: "new", "asleep", or its answer
    notified,   \* the sleepers a notify_all has reached
    (* What happened, kept for the properties:                             *)
    grants,     \* how often each identity was granted
    cancelled,  \* identities whose cancellation was reported as done
    ended       \* sessions that were released

table == <<locks, waiters, outcomes, retired, closed, admission, invalid>>
history == <<grants, cancelled, ended>>
vars == <<table, thread, notified, history>>

NoOwner == "none"

Answers == {"granted", "interrupted", "capacity", "duplicate", "deadlock"}

Init ==
    /\ locks = {}
    /\ waiters = << >>
    /\ outcomes = << >>
    /\ retired = {}
    /\ closed = {}
    /\ admission = TRUE
    /\ invalid = FALSE
    /\ thread = [t \in Threads |-> "new"]
    /\ notified = {}
    /\ grants = [i \in Ids |-> 0]
    /\ cancelled = {}
    /\ ended = {}

-----------------------------------------------------------------------------
(* Maps of the code, which lose and gain entries.                          *)

Put(map, key, value) == [k \in DOMAIN map \cup {key} |-> IF k = key THEN value ELSE map[k]]

Without(map, keys) == [k \in DOMAIN map \ keys |-> map[k]]

Asleep == { t \in Threads : thread[t] = "asleep" }

NotifyAll == notified' = Asleep

(* Faulty variant: the retired identities are not counted.                 *)
OutcomeCapacityAlone(id) ==
    \/ id \in DOMAIN outcomes
    \/ Cardinality(DOMAIN outcomes) < MaxCancelledWaiters

(* ensure_waiter_outcome_capacity                                          *)
OutcomeCapacity(id) ==
    \/ id \in DOMAIN outcomes
    \/ Cardinality(DOMAIN outcomes) + Cardinality(retired) < MaxCancelledWaiters

(* A request other than an unlock is turned away at the door: the answer,  *)
(* or "admitted".                                                          *)
Admission(req, sessions) ==
    IF invalid THEN "interrupted"
    ELSE IF req.type = "unlock" THEN "admitted"
    ELSE IF sessions \cap closed # {} THEN "interrupted"
    ELSE IF ~ admission THEN "capacity"
    ELSE "admitted"

(* The owners on whom an owner of S waits, by the registered waiters.      *)
WaitedFor(S) == UNION { waiters[i].blockers : i \in { i \in DOMAIN waiters : waiters[i].owner \in S } }

(* would_deadlock: the owner is among those its blockers wait for,         *)
(* directly or through others.                                             *)
WouldDeadlock(owner, blockers) ==
    \A S \in SUBSET Owners :
        (blockers \subseteq S /\ WaitedFor(S) \subseteq S) => owner \in S

-----------------------------------------------------------------------------
SetlkNonblocking(req) ==
    /\ Admission(req, {OwnerSession[req.owner]}) = "admitted"
    /\ ~ HasConflict(locks, req)
    /\ Cardinality(Applied(locks, req)) <= MaxLocks
    /\ locks' = Applied(locks, req)
    /\ NotifyAll
    /\ UNCHANGED <<waiters, outcomes, retired, closed, admission, invalid, thread, history>>

(* The end of a call: its thread answers and no longer sleeps.             *)
Answer(t, answer) ==
    /\ thread' = [thread EXCEPT ![t] = answer]
    /\ UNCHANGED <<closed, admission, invalid, retired, cancelled, ended>>


(* A call that ends without the lock.  A registered waiter is removed.     *)
Refuse(t, answer) ==
    /\ Answer(t, answer)
    /\ waiters' = Without(waiters, IF thread[t] = "asleep" THEN {Call[t].id} ELSE {})
    /\ notified' = notified \ {t}
    /\ UNCHANGED <<locks, outcomes, grants>>

(* The lock is free: it is applied, the outcome kept and everyone woken.   *)
Grant(t) ==
    LET id == Call[t].id
        req == Call[t].req
    IN  /\ OutcomeCapacity(id)
        /\ Cardinality(Applied(locks, req)) <= MaxLocks
        /\ Answer(t, "granted")
        /\ waiters' = Without(waiters, {id})
        /\ locks' = Applied(locks, req)
        /\ outcomes' = Put(outcomes, id, [outcome |-> "granted", owner |-> req.owner, kind |-> req.kind])
        /\ grants' = [grants EXCEPT ![id] = @ + 1]
        /\ notified' = Asleep \ {t}

GrantFull(t) ==
    /\ \/ ~ OutcomeCapacity(Call[t].id)
       \/ Cardinality(Applied(locks, Call[t].req)) > MaxLocks
    /\ Refuse(t, "capacity")

(* Faulty variant: the cycle is looked for only one step deep.             *)
WaitShallow(t) ==
    LET id == Call[t].id
        req == Call[t].req
        blockers == BlockingOwners(locks, req)
    IN  /\ req.owner \notin WaitedFor(blockers)
        /\ thread[t] = "asleep" \/ Cardinality(DOMAIN waiters) < MaxWaiters
        /\ waiters' = Put(waiters, id, [owner |-> req.owner, kind |-> req.kind, blockers |-> blockers])
        /\ thread' = [thread EXCEPT ![t] = "asleep"]
        /\ notified' = notified \ {t}
        /\ UNCHANGED <<locks, outcomes, retired, closed, admission, invalid, history>>

(* The lock is taken and waiting closes no cycle: the waiter is registered *)
(* with its current blockers and the thread sleeps.                        *)
Wait(t) ==
    LET id == Call[t].id
        req == Call[t].req
        blockers == BlockingOwners(locks, req)
    IN  /\ ~ WouldDeadlock(req.owner, blockers)
        /\ thread[t] = "asleep" \/ Cardinality(DOMAIN waiters) < MaxWaiters
        /\ waiters' = Put(waiters, id, [owner |-> req.owner, kind |-> req.kind, blockers |-> blockers])
        /\ thread' = [thread EXCEPT ![t] = "asleep"]
        /\ notified' = notified \ {t}
        /\ UNCHANGED <<locks, outcomes, retired, closed, admission, invalid, history>>

Deadlock(t) ==
    /\ WouldDeadlock(Call[t].req.owner, BlockingOwners(locks, Call[t].req))
    /\ Refuse(t, "deadlock")

WaitersFull(t) ==
    /\ ~ WouldDeadlock(Call[t].req.owner, BlockingOwners(locks, Call[t].req))
    /\ thread[t] # "asleep"
    /\ Cardinality(DOMAIN waiters) >= MaxWaiters
    /\ Refuse(t, "capacity")

(* One turn of the loop of setlk_blocking.                                 *)
Attempt(t) ==
    IF HasConflict(locks, Call[t].req)
      THEN Wait(t) \/ Deadlock(t) \/ WaitersFull(t)
      ELSE Grant(t) \/ GrantFull(t)

(* Faulty variant: an acknowledged identity is forgotten.                  *)
FenceOutcomesOnly(id) ==
    IF id \in DOMAIN outcomes
      THEN IF outcomes[id].outcome = "granted" THEN "duplicate" ELSE "interrupted"
      ELSE "open"

(* The replay fence: what an identity with a known end is answered.        *)
Fence(id) ==
    IF id \in DOMAIN outcomes
      THEN IF outcomes[id].outcome = "granted" THEN "duplicate" ELSE "interrupted"
      ELSE IF id \in retired THEN "interrupted" ELSE "open"

SetlkBlocking(t) ==
    LET id == Call[t].id
        door == Admission(Call[t].req, {OwnerSession[Call[t].req.owner], IdSession[id]})
    IN  /\ thread[t] = "new"
        /\ \/ door # "admitted" /\ Refuse(t, door)
           \/ door = "admitted" /\ Fence(id) # "open" /\ Refuse(t, Fence(id))
           \/ door = "admitted" /\ Fence(id) = "open" /\ id \in DOMAIN waiters /\ Refuse(t, "duplicate")
           \/ door = "admitted" /\ Fence(id) = "open" /\ id \notin DOMAIN waiters /\ Attempt(t)

(* The request has come to its end while its thread slept.                 *)
Over(t) ==
    LET id == Call[t].id IN
    \/ invalid
    \/ id \in DOMAIN outcomes /\ outcomes[id].outcome = "cancelled"
    \/ {OwnerSession[Call[t].req.owner], IdSession[id]} \cap closed # {}
    \/ id \notin DOMAIN waiters

(* The wait returned, after a notification or spuriously.                  *)
Wake(t) ==
    /\ thread[t] = "asleep"
    /\ \/ Over(t) /\ Refuse(t, "interrupted")
       \/ ~ Over(t) /\ Attempt(t)

-----------------------------------------------------------------------------
(* Faulty variant: the waiter goes, its cancellation is not remembered.    *)
CancelWaitingForget(id) ==
    /\ ~ invalid
    /\ id \in DOMAIN waiters
    /\ OutcomeCapacity(id)
    /\ waiters' = Without(waiters, {id})
    /\ cancelled' = cancelled \cup {id}
    /\ NotifyAll
    /\ UNCHANGED <<locks, outcomes, retired, closed, admission, invalid, thread, grants, ended>>

(* cancel_waiter_with_outcome: a waiting call is cancelled; an unknown one *)
(* is fenced before it arrives; a known end is only reported.              *)
CancelWaiting(id) ==
    /\ ~ invalid
    /\ id \in DOMAIN waiters
    /\ OutcomeCapacity(id)
    /\ outcomes' = Put(outcomes, id, [outcome |-> "cancelled", owner |-> waiters[id].owner, kind |-> waiters[id].kind])
    /\ waiters' = Without(waiters, {id})
    /\ cancelled' = cancelled \cup {id}
    /\ NotifyAll
    /\ UNCHANGED <<locks, retired, closed, admission, invalid, thread, grants, ended>>

CancelKnown(id) ==
    /\ ~ invalid
    /\ id \notin DOMAIN waiters
    /\ id \in DOMAIN outcomes
    /\ cancelled' = IF outcomes[id].outcome = "cancelled" THEN cancelled \cup {id} ELSE cancelled
    /\ UNCHANGED <<table, thread, notified, grants, ended>>

CancelUnseen(id) ==
    /\ ~ invalid
    /\ id \notin DOMAIN waiters \cup DOMAIN outcomes \cup retired
    /\ IdSession[id] \notin closed
    /\ admission
    /\ OutcomeCapacity(id)
    /\ outcomes' = Put(outcomes, id, [outcome |-> "cancelled", owner |-> NoOwner, kind |-> NoOwner])
    /\ NotifyAll
    /\ UNCHANGED <<locks, waiters, retired, closed, admission, invalid, thread, history>>

(* The remaining cases leave the table alone; some of them wake everyone.  *)
CancelLate(id) ==
    /\ \/ invalid
       \/ /\ id \notin DOMAIN waiters \cup DOMAIN outcomes \cup retired
          /\ IdSession[id] \in closed \/ ~ admission
    /\ NotifyAll
    /\ UNCHANGED <<table, thread, history>>

CancelWaiter(id) == CancelWaiting(id) \/ CancelKnown(id) \/ CancelUnseen(id) \/ CancelLate(id)

AcknowledgeWaiter(id) ==
    /\ id \in DOMAIN outcomes
    /\ outcomes' = Without(outcomes, {id})
    /\ retired' = retired \cup {id}
    /\ UNCHANGED <<locks, waiters, closed, admission, invalid, thread, notified, history>>

(* release_posix_owner and release_flock_owner                             *)
ReleaseOwner(owner, kind) ==
    /\ locks' = { l \in locks : ~ (l.kind = kind /\ l.owner = owner) }
    /\ outcomes' = [i \in DOMAIN outcomes |->
           IF outcomes[i] = [outcome |-> "granted", owner |-> owner, kind |-> kind]
             THEN [outcomes[i] EXCEPT !.outcome = "cancelled"]
             ELSE outcomes[i]]
    /\ IF locks' # locks THEN NotifyAll ELSE UNCHANGED notified
    /\ UNCHANGED <<waiters, retired, closed, admission, invalid, thread, history>>

(* The waiters that leave with a session.                                  *)
WaitersOf(s) ==
    { i \in DOMAIN waiters : IdSession[i] = s \/ OwnerSession[waiters[i].owner] = s }

(* Faulty variant: a session at the limit is not remembered and the table  *)
(* stays open.                                                             *)
CloseSessionForget(s) ==
    /\ closed' = IF Cardinality(closed) < MaxCancelledWaiters THEN closed \cup {s} ELSE closed
    /\ admission' = admission

(* A closed session is remembered while there is room; then the table      *)
(* admits nobody.                                                          *)
CloseSession(s) ==
    /\ closed' = IF Cardinality(closed) < MaxCancelledWaiters THEN closed \cup {s} ELSE closed
    /\ admission' = (admission /\ s \in closed')

(* Faulty variant: the waiter records go without a notification.           *)
ReleaseSessionQuietly(s) ==
    /\ ~ invalid
    /\ locks' = { l \in locks : OwnerSession[l.owner] # s }
    /\ waiters' = Without(waiters, WaitersOf(s))
    /\ outcomes' = Without(outcomes, { i \in Ids : IdSession[i] = s })
    /\ retired' = { i \in retired : IdSession[i] # s }
    /\ CloseSession(s)
    /\ ended' = ended \cup {s}
    /\ IF locks' # locks THEN NotifyAll ELSE UNCHANGED notified
    /\ UNCHANGED <<invalid, thread, grants, cancelled>>

ReleaseSession(s) ==
    /\ ~ invalid
    /\ locks' = { l \in locks : OwnerSession[l.owner] # s }
    /\ waiters' = Without(waiters, WaitersOf(s))
    /\ outcomes' = Without(outcomes, { i \in Ids : IdSession[i] = s })
    /\ retired' = { i \in retired : IdSession[i] # s }
    /\ CloseSession(s)
    /\ ended' = ended \cup {s}
    /\ IF locks' # locks \/ waiters' # waiters THEN NotifyAll ELSE UNCHANGED notified
    /\ UNCHANGED <<invalid, thread, grants, cancelled>>

(* The table's authority is lost: everything is dropped for good.          *)
Invalidate ==
    /\ invalid' = TRUE
    /\ locks' = {}
    /\ waiters' = << >>
    /\ outcomes' = << >>
    /\ retired' = {}
    /\ closed' = {}
    /\ admission' = TRUE
    /\ NotifyAll
    /\ UNCHANGED <<thread, history>>

Next ==
    \/ \E req \in Requests : SetlkNonblocking(req)
    \/ \E t \in Threads : SetlkBlocking(t) \/ Wake(t)
    \/ \E id \in Ids : CancelWaiter(id) \/ AcknowledgeWaiter(id)
    \/ \E owner \in Owners, kind \in Kinds : ReleaseOwner(owner, kind)
    \/ \E s \in Sessions : ReleaseSession(s)
    \/ Invalidate

Spec == Init /\ [][Next]_vars

(* A thread that was notified runs again.  Nothing else is promised:       *)
(* callers may never release, cancel or retry.                             *)

-----------------------------------------------------------------------------
(* Every variable holds values the code's types allow.                     *)
TypeOK ==
    /\ locks \subseteq ActiveLock
    /\ DOMAIN waiters \subseteq Ids
    /\ \A i \in DOMAIN waiters :
          waiters[i] \in [owner : Owners, kind : Kinds, blockers : SUBSET Owners]
    /\ DOMAIN outcomes \subseteq Ids
    /\ \A i \in DOMAIN outcomes : outcomes[i].outcome \in {"granted", "cancelled"}
    /\ retired \subseteq Ids
    /\ closed \subseteq Sessions
    /\ admission \in BOOLEAN /\ invalid \in BOOLEAN
    /\ thread \in [Threads -> {"new", "asleep"} \cup Answers]
    /\ notified \subseteq Asleep

(* No two owners hold locks that exclude each other, however requests,     *)
(* wake-ups, merges and partial unlocks interleave.                        *)
NoConflict == \A a, b \in locks : ~ Conflicts(a, b)

(* The limits of LockTableLimits hold in every state: merged segments,     *)
(* waiters, outcomes together with retired identities, closed sessions.    *)
(* A waiter slot is taken only while one thread sleeps for it, so slots    *)
(* are never lost.                                                         *)
Bounded ==
    /\ Cardinality(locks) <= MaxLocks
    /\ Cardinality(DOMAIN waiters) <= MaxWaiters
    /\ Cardinality(DOMAIN outcomes) + Cardinality(retired) <= MaxCancelledWaiters
    /\ Cardinality(closed) <= MaxCancelledWaiters
    /\ \A i \in DOMAIN waiters : \E t \in Asleep : Call[t].id = i

(* Replay fences: however often a blocking request is delivered, and       *)
(* whatever was acknowledged, cancelled or released between the            *)
(* deliveries, its lock is granted at most once.                           *)
GrantedOnce ==
    \A t \in Threads : Call[t].req.type # "unlock" => grants[Call[t].id] <= 1

(* Once a cancellation was reported as done, the request never acquires    *)
(* its lock.                                                               *)
CancelIsFinal == [][\A i \in cancelled : grants'[i] = grants[i]]_vars

(* A released session keeps nothing: no late delivery or wake-up gives it  *)
(* a lock or a waiter again, also when the table could not remember it.    *)
EndedHoldNothing ==
    \A s \in ended :
        /\ \A l \in locks : OwnerSession[l.owner] # s
        /\ WaitersOf(s) = {}

(* The waits that are real now: an owner and an owner whose lock keeps one *)
(* of its sleeping requests out.                                           *)
Waits(sleepers) ==
    { w \in Owners \X Owners : \E t \in sleepers :
        /\ Call[t].id \in DOMAIN waiters
        /\ Call[t].req.owner = w[1]
        /\ w[2] \in BlockingOwners(locks, Call[t].req) }

(* A set of owners in which everybody waits for another of the set.        *)
Cyclic(S, waits) == S # {} /\ \A o \in S : \E w \in waits : w[1] = o /\ w[2] \in S

(* No deadlock goes unseen: owners that really wait for each other never   *)
(* all sleep without one of them having been notified, although the        *)
(* recorded blockers are those of each waiter's last look.                 *)
NoSilentDeadlock ==
    \A S \in SUBSET Owners : ~ Cyclic(S, Waits(Asleep \ notified))

(* EDEADLK is answered only to a request whose wait would close a cycle of *)
(* real waits ("file lock would deadlock").                                *)
DeadlockIsReal ==
    [][\A t \in Threads :
          (thread'[t] = "deadlock" /\ thread[t] # "deadlock") =>
              \E S \in SUBSET Owners :
                  /\ Call[t].req.owner \in S
                  /\ Cyclic(S, Waits(Asleep)
                               \cup ({Call[t].req.owner} \X BlockingOwners(locks, Call[t].req)))]_vars

(* No wake-up is lost: a sleeper that would be answered if it looked now,  *)
(* with its lock or with the end of its request or session, has been       *)
(* notified, whichever call made it so.                                    *)
NoLostWakeup ==
    \A t \in Asleep : (Over(t) \/ ~ HasConflict(locks, Call[t].req)) => t \in notified
=============================================================================
