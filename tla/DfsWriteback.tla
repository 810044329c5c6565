---------------------------- MODULE DfsWriteback ----------------------------
(***************************************************************************)
(* The writers of one file of the distributed file system                  *)
(* (src/node/vfs/dfs.rs): every node keeps the accepted writes of its open *)
(* handle in an inode write state and publishes them to Meta by commits.   *)
(* Threads of a node share the state under its mutex and condition         *)
(* variable; a commit leaves the mutex while chunks are stored and while   *)
(* Meta answers.  Replies get lost, requests are repeated under the same   *)
(* identity while the first one may still run, leases run out, nodes       *)
(* crash.                                                                  *)
(*                                                                         *)
(* A thread's call is cut where it gives the mutex up: "enter" is the gate *)
(* of a mutation, "gate" the top of the commit loop, "prepare" while       *)
(* chunks are stored, "send" and "sent" around the request to Meta.  A     *)
(* node has one handle.  Opening a file whose lease is held by another     *)
(* node goes to that node and is not modelled here.                        *)
(***************************************************************************)
EXTENDS DfsInodeMeta

CONSTANTS Threads, NodeOf,
          Maintenance,    \* the threads that run writeback_pending
          MaxFailures,    \* lost requests and replies, failed chunk batches
          MaxCrashes,
          Readers,        \* nodes that also open the file for reading
          WriteReasons, SyncReasons,  \* the commits callers ask for
          KillOptions     \* whether a write asks to clear set-user-id

ASSUME WritebackAssumption ==
    /\ NodeOf \in [Threads -> Nodes]
    /\ Maintenance \subseteq Threads
    /\ MaxFailures \in Nat /\ MaxCrashes \in Nat
    /\ Readers \subseteq Nodes
    /\ WriteReasons \subseteq {"none", "FullSync", "DataSync", "DirtyBudget"}
    /\ SyncReasons \subseteq {"FullSync", "DataSync"}
    /\ KillOptions \subseteq BOOLEAN

VARIABLES
    state,     \* InodeWriteState of each node, with its handle
    thread,    \* the call each thread is in
    view,      \* what an open in progress has read from Meta
    session,   \* the session of each node
    nextOp, nextWrite, failures, crashes,
    (* What happened, kept for the properties:                             *)
    accepted,  \* writes each node has accepted since it started
    synced,    \* writes covered by a sync that returned success
    stale      \* nodes whose last open did not show all synced writes

counters == <<nextOp, nextWrite, failures, crashes>>
history == <<accepted, synced, stale>>
vars == <<metaVars, state, thread, view, session, counters, history>>

None == [kind |-> "none"]
Idle == [pc |-> "idle"]

NoState ==
    [up |-> FALSE, inode |-> [revision |-> 0, head |-> NoVersion, mtime |-> 0, suid |-> TRUE],
     lease |-> [node |-> "none", session |-> 0, epoch |-> 0],
     base |-> NoVersion, dirty |-> {}, flight |-> None,
     metadata |-> FALSE, kill |-> FALSE, commitBusy |-> FALSE, operationBusy |-> FALSE,
     visible |-> 0, committed |-> 0, writers |-> 0, lastWriter |-> FALSE,
     background |-> FALSE, unseen |-> FALSE, terminal |-> FALSE]

Init ==
    /\ MetaInit
    /\ state = [n \in Nodes |-> NoState]
    /\ thread = [t \in Threads |-> Idle]
    /\ view = [n \in Nodes |-> None]
    /\ session = [n \in Nodes |-> 1]
    /\ nextOp = 1 /\ nextWrite = 1 /\ failures = 0 /\ crashes = 0
    /\ accepted = [n \in Nodes |-> {}] /\ synced = {} /\ stale = {}

-----------------------------------------------------------------------------
(* Opening.                                                                *)

(* write_state_can_adopt_fresh_lease, ..._rebind_..._preserving_metadata   *)
(* and ..._refresh_committed_view differ in what they say of metadata.     *)
Quiet(s) ==
    /\ s.writers = 0 /\ s.dirty = {} /\ ~ s.kill /\ s.flight = None
    /\ ~ s.commitBusy /\ ~ s.operationBusy /\ ~ s.lastWriter
    /\ ~ s.background /\ ~ s.terminal

(* The writes a state shows to its readers: the base version, the frozen   *)
(* writes of a commit, the dirty ones.                                     *)
Shown(s) ==
    Layout(s.base) \cup s.dirty
    \cup (IF s.flight.kind \in {"preparing", "file"} THEN s.flight.frozen ELSE {})

(* The first request of an open: the inode, and for a writer the live      *)
(* lease of this session, in one view of the store.                        *)
StartOpen(n, writable) ==
    /\ view[n] = None
    /\ IF writable THEN state[n].writers = 0 ELSE n \in Readers
    /\ writable => MayAcquire(n, session[n])
    /\ view' = [view EXCEPT ![n] = [kind |-> "open", writable |-> writable, inode |-> inode, synced |-> synced]]
    /\ UNCHANGED <<metaVars, state, thread, session, counters, history>>

(* A fresh lease is adopted only by a state without local changes.         *)
Installed(s, seen, fresh) ==
    IF ~ s.up THEN [NoState EXCEPT !.up = TRUE, !.inode = seen, !.lease = fresh, !.base = seen.head]
    ELSE IF s.lease = fresh THEN s
    ELSE IF s.metadata THEN [s EXCEPT !.lease = fresh, !.base = seen.head]
    ELSE [s EXCEPT !.inode = seen, !.lease = fresh, !.base = seen.head]

MayInstall(s, seen, fresh) ==
    \/ ~ s.up
    \/ s.lease = fresh
    \/ /\ Quiet(s)
       /\ s.metadata => (s.inode.revision = seen.revision /\ s.inode.head = seen.head)

(* The lease is acquired (another node may have been faster), the state    *)
(* installed and the handle opened.  The reply of the acquisition may be   *)
(* lost, and a state with local changes refuses the lease.                 *)
FinishOpenWrite(n) ==
    LET fresh == Acquired(n, session[n])
        seen == view[n].inode
        opened == [Installed(state[n], seen, fresh) EXCEPT !.writers = 1, !.lastWriter = FALSE, !.unseen = FALSE]
    IN  /\ view[n] # None /\ view[n].writable
        /\ view' = [view EXCEPT ![n] = None]
        /\ \/ /\ ~ MayAcquire(n, session[n])
              /\ UNCHANGED <<lease, leaseLive, state>>
           \/ /\ MayAcquire(n, session[n])
              /\ lease' = fresh /\ leaseLive' = TRUE
              /\ \/ /\ MayInstall(state[n], seen, fresh)
                    /\ state' = [state EXCEPT ![n] = opened]
                 \/ /\ ~ MayInstall(state[n], seen, fresh) \/ failures < MaxFailures
                    /\ UNCHANGED state
        /\ UNCHANGED <<inode, versions, outcomes, handler, expiries, chmods, thread, session, counters, accepted, synced, stale>>

(* observe_inode_record: a state without local changes takes over a newer  *)
(* committed version.                                                      *)
Refreshed(s, seen) ==
    IF s.up /\ Quiet(s) /\ seen.revision >= s.inode.revision
            /\ <<seen.revision, seen.head>> # <<s.inode.revision, s.inode.head>>
      THEN [s EXCEPT !.inode = seen, !.base = seen.head, !.metadata = FALSE]
      ELSE s

FinishOpenRead(n) ==
    /\ view[n] # None /\ ~ view[n].writable
    /\ view' = [view EXCEPT ![n] = None]
    /\ state' = [state EXCEPT ![n] = Refreshed(state[n], view[n].inode)]
    /\ stale' = IF state'[n].up /\ ~ (view[n].synced \subseteq Shown(state'[n]))
                  THEN stale \cup {n}
                  ELSE stale \ {n}
    /\ UNCHANGED <<metaVars, thread, session, counters, accepted, synced>>

(* release: resources only.                                                *)
Release(n) ==
    /\ state[n].writers = 1
    /\ \A t \in Threads : NodeOf[t] = n => thread[t] = Idle \/ t \in Maintenance
    /\ state' = [state EXCEPT ![n].writers = 0, ![n].unseen = FALSE,
                              ![n].lastWriter = state[n].lastWriter \/ state[n].dirty # {}]
    /\ UNCHANGED <<metaVars, thread, view, session, counters, accepted, synced, stale>>

-----------------------------------------------------------------------------
(* How a call ends.  s is the node's state as the last step left it.       *)

Inside(t) == thread[t].call = "write" /\ thread[t].written

(* The reason of the commit a thread is in: a write at its gate clears a   *)
(* pending commit as background work.                                      *)
Reason(t) == IF thread[t].call = "write" /\ ~ thread[t].written THEN "Background" ELSE thread[t].reason

Syncing(t) == Reason(t) \in {"DataSync", "FullSync"}

Unguarded(t, s) == [s EXCEPT !.operationBusy = IF Inside(t) THEN FALSE ELSE s.operationBusy]

(* Success, or nothing to do.  A write that only had to clear a pending    *)
(* commit goes back to its gate.                                           *)
ReturnOk(t, s) ==
    /\ state' = [state EXCEPT ![NodeOf[t]] = Unguarded(t, s)]
    /\ thread' = [thread EXCEPT ![t] =
           IF thread[t].call = "write" /\ ~ Inside(t) THEN [thread[t] EXCEPT !.pc = "enter"] ELSE Idle]
    /\ synced' = IF thread[t].call # "maintain" /\ Syncing(t) THEN synced \cup thread[t].covers ELSE synced

(* An error.  Maintenance, and a write that filled the dirty budget, leave *)
(* it with the inode for the handle to report later.                       *)
ReturnError(t, s) ==
    LET kept == thread[t].call = "maintain" \/ Reason(t) = "DirtyBudget"
    IN  /\ state' = [state EXCEPT ![NodeOf[t]] =
               [Unguarded(t, s) EXCEPT !.background = s.background \/ kept,
                                       !.unseen = s.unseen \/ (kept /\ s.writers = 1)]]
        /\ thread' = [thread EXCEPT ![t] = Idle]
        /\ UNCHANGED synced

Begin(t, call, reason, covers) ==
    thread' = [thread EXCEPT ![t] =
        [pc |-> IF call = "write" THEN "enter" ELSE "gate", call |-> call, reason |-> reason,
         written |-> FALSE, slot |-> "none", covers |-> covers]]

(* observe_handle_error: an error that maintenance left is reported once.  *)
ReportError(t) ==
    /\ thread[t] = Idle /\ t \notin Maintenance
    /\ state[NodeOf[t]].unseen
    /\ state' = [state EXCEPT ![NodeOf[t]].unseen = FALSE]
    /\ UNCHANGED <<metaVars, thread, view, session, counters, history>>

(* write on the open handle; the reason is that of the commit the write    *)
(* itself asks for: none, that of O_SYNC or O_DSYNC, or a full budget.     *)
BeginWrite(t, reason) ==
    LET s == state[NodeOf[t]] IN
    /\ thread[t] = Idle /\ t \notin Maintenance
    /\ s.writers = 1 /\ ~ s.unseen /\ ~ s.terminal
    /\ Begin(t, "write", reason, {})
    /\ UNCHANGED <<metaVars, state, view, session, counters, history>>

(* fsync and fdatasync; flush and drain commit alike.                      *)
BeginSync(t, reason) ==
    LET s == state[NodeOf[t]] IN
    /\ thread[t] = Idle /\ t \notin Maintenance
    /\ s.writers = 1 /\ ~ s.unseen /\ ~ s.terminal
    /\ Begin(t, "sync", reason, accepted[NodeOf[t]])
    /\ UNCHANGED <<metaVars, state, view, session, counters, history>>

(* writeback_pending finds something to do.                                *)
BeginMaintenance(t) ==
    LET s == state[NodeOf[t]] IN
    /\ thread[t] = Idle /\ t \in Maintenance
    /\ s.up /\ ~ s.commitBusy /\ ~ s.operationBusy
    /\ s.dirty # {} \/ s.metadata \/ s.kill \/ s.flight # None
    /\ Begin(t, "maintain", IF s.lastWriter THEN "LastWriter" ELSE "Background", {})
    /\ UNCHANGED <<metaVars, state, view, session, counters, history>>

-----------------------------------------------------------------------------
(* Faulty variant: a write does not wait for a commit without an answer.   *)
MayEnterPassing(s) == TRUE

(* A mutation waits behind a commit that has no known result.              *)
MayEnter(s) == s.flight = None

(* begin_inode_operation, and the write once it is admitted.               *)
Enter(t) ==
    LET n == NodeOf[t]
        s == state[n]
    IN  /\ thread[t].pc = "enter"
        /\ ~ s.commitBusy /\ ~ s.operationBusy
        /\ \/ /\ s.terminal
              /\ ReturnError(t, s)
              /\ UNCHANGED <<nextWrite, accepted>>
           \/ /\ ~ s.terminal /\ ~ MayEnter(s)
              /\ thread' = [thread EXCEPT ![t].pc = "gate"]
              /\ UNCHANGED <<state, nextWrite, accepted, synced>>
           \/ /\ ~ s.terminal /\ MayEnter(s)
              /\ nextWrite <= MaxWrites
              /\ nextWrite' = nextWrite + 1
              /\ accepted' = [accepted EXCEPT ![n] = @ \cup {nextWrite}]
              /\ \E kill \in KillOptions :
                   LET written == [s EXCEPT !.dirty = s.dirty \cup {nextWrite}, !.visible = nextWrite,
                                            !.metadata = TRUE, !.inode.mtime = nextWrite,
                                            !.kill = s.kill \/ (kill /\ s.inode.suid),
                                            !.inode.suid = s.inode.suid /\ ~ kill,
                                            !.operationBusy = thread[t].reason # "none"]
                   IN  /\ state' = [state EXCEPT ![n] = written]
                       /\ thread' = [thread EXCEPT ![t] =
                              IF thread[t].reason = "none" THEN Idle
                              ELSE [thread[t] EXCEPT !.pc = "gate", !.written = TRUE, !.covers = accepted'[n]]]
              /\ UNCHANGED synced
        /\ UNCHANGED <<metaVars, view, session, nextOp, failures, crashes, stale>>

-----------------------------------------------------------------------------
(* commit_inode_with_operation_gate                                        *)

IsMaintenance(t) == Reason(t) \in {"Background", "LastWriter"}

(* The delta of the reason: these leave mtime and ctime alone.             *)
Full(t) == Reason(t) \notin {"DataSync", "DirtyBudget", "Close"}

(* A sync that finds no changed data publishes the metadata alone.         *)
MetadataRequest(n) ==
    LET s == state[n] IN
    [op |-> nextOp, kind |-> "meta", lease |-> s.lease, revision |-> s.inode.revision,
     head |-> s.base, full |-> TRUE, mtime |-> s.inode.mtime, kill |-> s.kill]

(* The dirty writes are frozen into the commit.                            *)
Frozen(s) ==
    [s EXCEPT !.commitBusy = TRUE, !.dirty = {},
              !.flight = [kind |-> "preparing", frozen |-> s.dirty, through |-> s.visible]]

(* Faulty variant: a running commit does not keep others out.              *)
BusyOperationsOnly(t, s) == s.operationBusy /\ ~ Inside(t)

(* Another thread commits, or holds the operation guard.                   *)
Busy(t, s) == s.commitBusy \/ (s.operationBusy /\ ~ Inside(t))

(* What the commit loop decides under the mutex.  An expired lease cannot  *)
(* be renewed, and then nothing changes; maintenance may have run out of   *)
(* its time.                                                               *)
Gate(t) ==
    LET n == NodeOf[t]
        s == state[n]
        busy == Busy(t, s)
        due == s.dirty # {} \/ (Reason(t) = "FullSync" /\ s.metadata) \/ s.kill
        open == ~ busy /\ ~ s.terminal
        To(pc, next) == /\ state' = [state EXCEPT ![n] = next]
                        /\ thread' = [thread EXCEPT ![t].pc = pc]
                        /\ UNCHANGED synced
    IN  /\ thread[t].pc = "gate"
        /\ \/ busy /\ IsMaintenance(t) /\ ReturnOk(t, s) /\ UNCHANGED nextOp
           \/ open /\ t \in Maintenance /\ ReturnOk(t, s) /\ UNCHANGED nextOp
           \/ ~ busy /\ s.terminal /\ ReturnError(t, s) /\ UNCHANGED nextOp
           \/ open /\ s.flight # None /\ To("send", [s EXCEPT !.commitBusy = TRUE]) /\ UNCHANGED nextOp
           \/ open /\ s.flight = None /\ ~ due /\ ReturnOk(t, s) /\ UNCHANGED nextOp
           \/ /\ open /\ s.flight = None /\ due
              /\ ~ ValidateWriteLease(s.lease)
              /\ ReturnError(t, s)
              /\ UNCHANGED nextOp
           \/ /\ open /\ s.flight = None /\ due /\ ValidateWriteLease(s.lease)
              /\ s.dirty = {}
              /\ nextOp <= MaxOps /\ nextOp' = nextOp + 1
              /\ To("send", [s EXCEPT !.commitBusy = TRUE,
                                      !.flight = [kind |-> "meta", req |-> MetadataRequest(n)]])
           \/ /\ open /\ s.flight = None /\ due /\ ValidateWriteLease(s.lease)
              /\ s.dirty # {}
              /\ To("prepare", Frozen(s))
              /\ UNCHANGED nextOp
        /\ UNCHANGED <<metaVars, view, session, nextWrite, failures, crashes, accepted, stale>>

(* The frozen writes go back in front of the ones accepted since.          *)
Restored(s) == [s EXCEPT !.dirty = s.dirty \cup s.flight.frozen, !.flight = None, !.commitBusy = FALSE]

(* prepare_commit: the chunks are stored and the request gets the identity *)
(* it keeps.  Its data come from the state as it was frozen; only lease    *)
(* renewals and attribute refreshes touch that state meanwhile.            *)
FileRequest(t) ==
    LET s == state[NodeOf[t]] IN
    [op |-> nextOp, kind |-> "file", lease |-> s.lease, revision |-> s.inode.revision,
     head |-> s.base, layout |-> Layout(s.base) \cup s.flight.frozen,
     full |-> Full(t), mtime |-> s.inode.mtime, kill |-> s.kill]

Prepare(t) ==
    LET n == NodeOf[t]
        s == state[n]
        ready == [s EXCEPT !.flight = [kind |-> "file", req |-> FileRequest(t),
                                       frozen |-> s.flight.frozen, through |-> s.flight.through]]
    IN  /\ thread[t].pc = "prepare"
        /\ \/ /\ nextOp <= MaxOps /\ nextOp' = nextOp + 1
              /\ state' = [state EXCEPT ![n] = ready]
              /\ thread' = [thread EXCEPT ![t].pc = "send"]
              /\ UNCHANGED <<failures, synced>>
           \/ /\ failures < MaxFailures /\ failures' = failures + 1
              /\ ReturnError(t, Restored(s))
              /\ UNCHANGED nextOp
        /\ UNCHANGED <<metaVars, view, session, nextWrite, crashes, accepted, stale>>

(* The request leaves; maintenance may find its deadline passed instead.   *)
Send(t) ==
    LET n == NodeOf[t]
        s == state[n]
    IN  /\ thread[t].pc = "send"
        /\ \/ \E h \in Slots :
                 /\ handler[h] = Free
                 /\ handler' = [handler EXCEPT ![h] = [stage |-> "arrived", req |-> s.flight.req]]
                 /\ thread' = [thread EXCEPT ![t].pc = "sent", ![t].slot = h]
                 /\ UNCHANGED <<state, synced>>
           \/ /\ t \in Maintenance
              /\ ReturnOk(t, [s EXCEPT !.commitBusy = FALSE])
              /\ UNCHANGED handler
        /\ UNCHANGED <<meta, expiries, chmods, view, session, counters, accepted, stale>>

-----------------------------------------------------------------------------
(* finish_commit                                                           *)


(* The new version is the base of what follows.  A commit without metadata *)
(* leaves the local times, still to be published.                          *)
AppliedFile(s, updated) ==
    LET req == s.flight.req IN
    [s EXCEPT !.commitBusy = FALSE, !.flight = None,
              !.inode = [updated EXCEPT !.mtime = IF req.full THEN updated.mtime ELSE s.inode.mtime],
              !.base = req.op,
              !.committed = s.flight.through,
              !.lastWriter = FALSE,
              !.metadata = s.metadata /\ ~ (req.full /\ s.dirty = {} /\ s.visible <= s.flight.through),
              !.kill = s.kill /\ ~ req.kill]

AppliedMetadata(s, updated) ==
    [s EXCEPT !.commitBusy = FALSE, !.flight = None, !.inode = updated, !.metadata = FALSE, !.kill = FALSE]

Applied(s, updated) ==
    IF s.flight.kind = "file" THEN AppliedFile(s, updated) ELSE AppliedMetadata(s, updated)

(* A definite rejection: the writes come back, and the inode refuses       *)
(* everything from now on.                                                 *)
Rejected(s) ==
    [s EXCEPT !.commitBusy = FALSE, !.flight = None, !.terminal = TRUE,
              !.dirty = IF s.flight.kind = "file" THEN s.dirty \cup s.flight.frozen ELSE s.dirty]

(* Faulty variant: a commit without an answer is dropped.                  *)
UnknownDropped(s) == [s EXCEPT !.commitBusy = FALSE, !.flight = None]

(* No answer: the commit stays in flight with its identity and content.    *)
Unknown(s) == [s EXCEPT !.commitBusy = FALSE]

(* The answer arrives.  A full sync goes on until the metadata is out.     *)
Receive(t) ==
    LET n == NodeOf[t]
        s == state[n]
        h == thread[t].slot
        next == Applied(s, handler[h].result.inode)
    IN  /\ thread[t].pc = "sent"
        /\ handler[h].stage = "done"
        /\ handler' = [handler EXCEPT ![h] = Free]
        /\ \/ /\ handler[h].result.status = "ok"
              /\ IF Reason(t) = "FullSync" /\ next.metadata
                   THEN /\ state' = [state EXCEPT ![n] = next]
                        /\ thread' = [thread EXCEPT ![t].pc = "gate"]
                        /\ UNCHANGED synced
                   ELSE ReturnOk(t, next)
           \/ /\ handler[h].result.status = "conflict"
              /\ ReturnError(t, Rejected(s))
        /\ UNCHANGED <<meta, expiries, chmods, view, session, counters, accepted, stale>>

(* The request or its reply is lost, or the answer takes too long: the     *)
(* handler may be anywhere, and may still run.                             *)
GiveUp(t) ==
    /\ thread[t].pc \in {"send", "sent"}
    /\ failures < MaxFailures /\ failures' = failures + 1
    /\ ReturnError(t, Unknown(state[NodeOf[t]]))
    /\ UNCHANGED <<metaVars, view, session, nextOp, nextWrite, crashes, accepted, stale>>

(* A handler nobody waits for is cancelled, or its answer discarded.       *)
DropHandler(h) ==
    /\ \A t \in Threads : thread[t].pc = "sent" => thread[t].slot # h
    /\ Drop(h)
    /\ UNCHANGED <<meta, expiries, chmods, state, thread, view, session, counters, history>>

(* The node stops and starts again under a new session; what it sent runs  *)
(* on.                                                                     *)
Crash(n) ==
    /\ crashes < MaxCrashes /\ crashes' = crashes + 1
    /\ state' = [state EXCEPT ![n] = NoState]
    /\ thread' = [t \in Threads |-> IF NodeOf[t] = n THEN Idle ELSE thread[t]]
    /\ view' = [view EXCEPT ![n] = None]
    /\ session' = [session EXCEPT ![n] = @ + 1]
    /\ accepted' = [accepted EXCEPT ![n] = {}] /\ stale' = stale \ {n}
    /\ UNCHANGED <<metaVars, nextOp, nextWrite, failures, synced>>

ThreadStep(t) ==
    \/ Enter(t) \/ Gate(t) \/ Prepare(t) \/ Send(t) \/ Receive(t) \/ GiveUp(t)
    \/ ReportError(t) \/ BeginMaintenance(t)
    \/ \E reason \in WriteReasons : BeginWrite(t, reason)
    \/ \E reason \in SyncReasons : BeginSync(t, reason)

NodeStep(n) ==
    \/ \E writable \in BOOLEAN : StartOpen(n, writable)
    \/ FinishOpenWrite(n) \/ FinishOpenRead(n) \/ Release(n) \/ Crash(n)

Next ==
    \/ \E t \in Threads : ThreadStep(t)
    \/ \E n \in Nodes : NodeStep(n)
    \/ \E h \in Slots : DropHandler(h)
    \/ MetaNext /\ UNCHANGED <<state, thread, view, session, counters, history>>

Spec == Init /\ [][Next]_vars

-----------------------------------------------------------------------------
(* The state machine stays within its shapes: counters, revisions and the  *)
(* kinds of commit in flight.                                              *)
TypeOK ==
    /\ inode.head \in {NoVersion} \cup DOMAIN versions
    /\ DOMAIN versions \subseteq Ops /\ DOMAIN outcomes \subseteq Ops
    /\ \A v \in DOMAIN versions : versions[v] \subseteq Writes
    /\ synced \subseteq Writes
    /\ \A n \in Nodes :
          /\ state[n].flight.kind \in {"none", "preparing", "file", "meta"}
          /\ state[n].dirty \subseteq Writes
          /\ state[n].base \in {NoVersion} \cup DOMAIN versions
          /\ state[n].flight.kind = "preparing" => state[n].commitBusy

(* No commit loses what was published before it: under leases that change  *)
(* hands, crashed owners, repeated and late requests, every new head       *)
(* contains all writes of the old one.                                     *)
HeadGrows == [][Layout(inode.head) \subseteq Layout(inode.head)']_vars

(* Only the holder of the write lease publishes: a request that was        *)
(* validated before another node acquired the lease has no effect after.   *)
OnlyHolderPublishes ==
    [][inode'.head # inode.head =>
          \E h \in Slots : handler[h].stage = "valid" /\ handler'[h].stage = "done"
                            /\ handler[h].req.op = inode'.head /\ handler[h].req.lease = lease]_vars

(* A sync that returned success means that every write accepted before it  *)
(* began is in the published file, whatever commit carried it.             *)
SyncedPublished == synced \subseteq Layout(inode.head)

(* No write passes a commit that has no known result: while one is in      *)
(* flight the state holds no later write, so the retry carries everything. *)
NothingPassesPending ==
    \A n \in Nodes : state[n].flight.kind \in {"preparing", "file"} =>
        state[n].dirty = {} /\ state[n].visible = state[n].flight.through

(* One thread of a node at a time is between the decision to commit and    *)
(* its result, exactly while commit_busy is set, and one holds the         *)
(* operation guard, exactly while operation_busy is set.                   *)
OneCommitter ==
    \A n \in Nodes :
        LET Mine == { t \in Threads : NodeOf[t] = n }
            committing == { t \in Mine : thread[t].pc \in {"prepare", "send", "sent"} }
            guarding == { t \in Mine : thread[t] # Idle /\ thread[t].written }
        IN  /\ Cardinality(committing) = (IF state[n].commitBusy THEN 1 ELSE 0)
            /\ Cardinality(guarding) = (IF state[n].operationBusy THEN 1 ELSE 0)


(* A commit answered with a conflict, which the writer takes as definite,  *)
(* was not applied: a retry of an applied commit gets its outcome.         *)
RejectionIsDefinite ==
    \A h \in Slots : (handler[h].stage = "done" /\ handler[h].result = Conflict)
        => handler[h].req.op \notin DOMAIN outcomes

(* Close-to-open: an open that began after a sync returned shows the       *)
(* synced writes.                                                          *)
CloseToOpen == stale = {}
=============================================================================
