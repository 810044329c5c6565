# Verification of AFS

TLA+ specifications of the protocols of AFS, kept beside the code: what the
Meta service promises and how it keeps it, how nodes publish what they have
written, and how advisory locks are handed out.  Every definition is a
translation of the Rust source under `src/`; `PROJECT.json` maps each one to
its lines.  TLC checks the specifications on small instances; TLAPS proves the
main results about the Meta Store for every instance.

## The system

| Part | Source | Modelled by |
|---|---|---|
| Meta Store: one versioned state, conditional transactions, a commit loop, request outcomes, node sessions, watch | `src/meta/store.rs` | `MetaState`, `MetaStore`, `MetaAuthority` |
| Remote backends: compare-and-swap of one snapshot | `src/meta/store/{etcd,redis,memory}.rs` | actions of `MetaStore` |
| Local-file backend: snapshot and write-ahead log | `src/meta/store/local_file.rs` | `LocalFileBackend` |
| DFS Meta, file versions and write leases | `src/meta/dfs.rs` | `DfsInodeMeta` |
| DFS node, inode write state and write-back | `src/node/vfs/dfs.rs` | `DfsWriteback` |
| Advisory locks of an inode | `src/node/vfs/locks.rs`, `types.rs` | `LockRanges`, `LockTable` |
| DFS Meta, namespace (create, rename, link, unlink) | `src/meta/dfs.rs` | planned: `DfsNamespace` |
| DFS Meta, placement and repair tasks; replica writes | `src/meta/dfs.rs`, `src/node/replication.rs`, `src/node/rpc/data.rs` | planned: `DfsReplication` |
| Chunk store: segments, catalog, recovery, quarantine | `src/node/chunk.rs`, `src/node/storage*` | planned: `ChunkStore` |
| Owner roots: reservation, grants, revocation, recovery | `src/meta/owner_roots.rs` | planned: `OwnerRoots` |
| Commit planner: dirty extents over a base layout | `src/node/vfs/dfs.rs` 3900-4211 | planned, as a pure algorithm |
| Remote owner access, lock authorities, release queue | `src/node/vfs/dfs.rs` 338-760, 2306-3745, 4316-5000 | planned |
| OwnerFs node, native workspace, bind mounts | `src/node/vfs/ownerfs*`, `src/node/native_workspace.rs` | later |
| Shared-memory transport | `common/transport/src/shm.rs` | later |
| FUSE ingress, RPC, REST, configuration, client, metrics | the rest | not modelled: translation and plumbing without protocol state |

How they interact.  A node talks to Meta through RPC handlers
(`DfsInodeMeta`); every handler ends in one conditional transaction of the
Meta Store.  The store executes transactions in batches on a copy of its
state (`MetaState`), makes the copy durable through a backend and only then
shows it (`MetaStore`); the backend is a remote compare-and-swap or the local
file (`LocalFileBackend`).  A node holds the write lease of a file, collects
accepted writes in an inode write state and publishes them as new file
versions (`DfsWriteback`).  Locks of a file live in a table of the node that
owns it (`LockTable`).

`DfsInodeMeta` takes from `MetaStore` that a transaction is atomic, that a
request takes effect once and that its outcome can be found again: these are
the properties `MetaStore` is proved to have (`ImplementsAuthority`,
`ExactlyOnce`, `OutcomesStable`).  `MetaStore` takes from its backend that a
commit replaces exactly the version it names and survives: `LocalFileBackend`
is checked for that.

## The modules

**MetaState** is the pure part of the store: the state (entities with
versions, request outcomes, sessions, watch events), `CompareAndCommit`
(`compare_and_commit`), `RegisterNodeSession` (`register_node_session`) and
`Watch` (`watch`).  Entities are opaque values of opaque keys.

**MetaStore** is the running system: any number of Meta processes over one
backend.  `Mutate` and `GiveUp` are callers; `Gather`, `Stage`,
`SkipPersist`, `Persist`, `Publish`, `SendReply`, `EndBatch` and `Fail` are
the steps of `run_commit_loop`, cut at its awaits; `BackendCommit` and
`BackendRefuse` are the compare-and-swap of the backend, which may act after
the process that asked is gone; `CommitLost` loses an answer; `Crash`, `Open`,
`Poll` (a watcher) and `Tick` complete it.

**MetaAuthority** is what callers may rely on: one recorded history that only
grows, and answers taken from it.  `MetaStore` implements it under the mapping
`ImplementsAuthority`.

**LocalFileBackend** models files by what processes see and by what a power
loss may leave: every content since the last sync.  Its actions are the single
file operations of open, load, truncation, commit and compaction.

**LockRanges** is the arithmetic of inclusive byte ranges (`apply_lock`,
`trim_same_owner_range`, `coalesce`); **LockTable** is the table: calls run
under its mutex, a blocking call is cut at the condition variable.

**DfsInodeMeta** holds the Meta side of one file: the handlers of
`commit_file_version` and `sync_inode_metadata`, cut between the replay check,
the read of the inode, the validation of the lease and the transaction; the
acquisition and expiry of the write lease; `set_inode_attributes` by others.
**DfsWriteback** adds the nodes: opens, writes, syncs, maintenance
(`writeback_pending`), the commit loop with its frozen writes and its commit
in flight, lost answers and repeated requests, crashes.  A write is a number,
a layout a set of writes; attributes are a modification time and the
set-user-id bit.

## What the runs check

| Run | Shows |
|---|---|
| `MetaStoreTxn` | visible and acknowledged states are durable, a request takes effect once, recorded outcomes stay, watches miss nothing; the store implements `MetaAuthority` |
| `MetaStoreSession` | epochs of node sessions are distinct and advance; every waiting call is answered |
| `MetaStoreFencing` | **violation**: a replaced session can become current again |
| `LocalFile` | after any kill or power loss the files load and hold every acknowledged commit |
| `LockRanges` | segments agree with a byte-wise reference and stay merged |
| `LockFences` | one grant per request identity, cancellation is final, ended sessions hold nothing, tables stay bounded |
| `LockTable` | no conflicting locks, no unnoticed deadlock, no lost wake-up |
| `LockDeadlock` | **violation**: a request is refused for a deadlock that is over |
| `DfsWriteback` | one committer per node, nothing passes a commit without an answer, a successful sync is published, metadata is not forgotten |
| `DfsLease` | with two writers and leases that run out: no published write is lost, only the holder publishes |
| `DfsRetry` | **violation**: a retry of an applied commit is answered with a conflict |
| `DfsCloseToOpen` | **violation**: an open does not show what was synced before it |

The four violations are disagreements between the code and what its comments
or documents say; `PROJECT.json` quotes both sides.  In short: a session that
was replaced may renew itself while its own lease lives; `would_deadlock`
trusts blockers recorded before the last notification; `commit_file_version`
looks for a recorded outcome before it reads the inode, so a first delivery
that lands in between turns its own retry into a conflict, which the node
keeps as the terminal error of the inode; and a write state with an idle
writer is not refreshed when its lease was taken over.

### Bounds

- `MetaStoreTxn`: two processes, two callers, three calls, one crash, batches
  of two, three transactions over two keys: a create, an update that depends on
  it and also deletes, and a reuse of the first request key for another
  operation.  Two processes are needed for a late commit to meet a newer one;
  three calls for a retry beside another request.
- `MetaStoreSession`: one process that may crash once, one caller, two sessions
  of one node, three calls (register, take over, one more heartbeat of the
  first), a transaction fenced by the first session, one expiry.
- `LocalFile`: five commits with compaction after every second frame, so that
  a commit meets a compacted, a fresh and a half-written log; two kills and
  two power losses.
- `LockRanges`: two owners, five bytes and up to four segments, so that a
  range can be cut in the middle beside a neighbour on either side.  `LockFences`: a
  request, its repetition and a competitor, limits of three segments,
  one waiter and two cancelled requests, so that every limit is met.
  `LockTable`: three owners, each of which wants the byte of the next.
- `DfsWriteback`: one node with a caller and the maintenance thread; two
  writes, two operation identities, two concurrent handlers, one failure, one
  change of attributes.  `DfsLease`: two nodes, one expiry, one failure, one
  crash.  Two handlers are what a request and its repetition need.

Processes and callers (`MetaStoreTxn`) and handler slots (`DfsWriteback`,
`DfsLease`) are interchangeable and declared symmetric; no liveness is checked
in those runs.  Deadlock checking is off where the
bounds end every behaviour; in `LockRanges` it is on.

### Fairness

`CallsAnswered` assumes that the commit loop of a running process and the
backend keep taking steps: the loop is one task that awaits only the backend,
and the backend answers or its answer is lost, which the loop sees as an
error.  Nothing is assumed of callers, crashes, the clock or watchers.

## What is proved

`MetaStoreProofs` proves, for every set of processes, callers, keys, requests
and every bound:

| Theorem | Statement |
|---|---|
| `TypeCorrect` | `Spec => []TypeOK` |
| `VisibleDurable` | `Spec => []VisibleIsDurable` |
| `AcknowledgedDurable` | `Spec => []AckedDurable` |
| `RequestsExactlyOnce` | `Spec => []ExactlyOnce` |
| `OutcomesKept` | `Spec => OutcomesStable` |
| `StoreImplementsAuthority` | `Spec => ImplementsAuthority` |

The assumptions are those of the constants (`MetaStateAssumption` and the
assumption of `MetaStore`): `None` is no value, version, session or outcome;
there are finitely many requests (so that executions can be counted); the lease
time and the capacities are positive, the bounds are numbers; the operations
are well-formed transactions and registrations.

The inductive invariant `IInv` has six parts.  Types; `Chain`: every snapshot
of the backend extends the one before it (it keeps every recorded outcome and
does not lower the revision) and counts executions right; `Coherent`: a
process shows a snapshot of the backend, what it stages extends what it shows
and records the replies it will send; `SafeCommit`: a commit on the wire carries a state that extends the
snapshot it names, so accepting it keeps the chain, however late it arrives;
`Matched`: what is queued, staged or answered under a call's number carries
that call's request key, so a reply never reaches a later call of its caller; `Acked`: an answer with an outcome is recorded
in the backend.  None of the stated properties is inductive alone: what a
caller may rely on is decided by a commit that travels after its sender is
gone, and only `SafeCommit` ties it to the chain.  The proofs go by action;
lemmas about `Execute` (it extends the state, records what it returns, counts
once) carry them.

Only model-checked: `CallsAnswered` (liveness under fairness is out of the
prover's reach), the watch (`WatchComplete` speaks of sequences built by
filtering, which needs induction over data), the session properties, and
everything outside the Meta Store.

A remark on the proof style: tlapm gives up on an SMT leaf whose translation
alone takes about five seconds, whatever time the leaf is allowed.  Leaves
that are pure logic over large records therefore name Zenon, definitions of
records are hidden as soon as their fields are known, and arithmetic has steps
of its own.

## Not modelled

- A power loss leaves a prefix of what was written to the log, not garbage.
- Two kinds of node behaviour around `DfsWriteback` are left for later:
  truncation and opens that are forwarded to the node that holds the lease,
  with the lock authorities and their lease renewals.
- Chunk receipts are valid and the replication configuration is fixed.
- `getlk` and the other queries of the lock table change nothing.
- A table of locks lives for ever; its callers drop idle tables.

## Plan

In this order; each item is a module, its run and what it should establish.

1. `OwnerRoots` (`owner_roots.rs`): reserve, activate, abort, acquire, poll,
   acknowledge, recover, each cut between its read and its transaction, with
   lost replies and repeated requests; two nodes, one root, one recovery.  No
   grant of an epoch survives its revocation; one Home at a time; a repeated
   activation or abort does not undo a later one.
2. `ChunkStore` (`chunk.rs`, `storage/localfs.rs`): batches, catalog
   transactions, device epochs, recovery, quarantine; the file model of
   `LocalFileBackend`.  What a `ReplicaAck` names survives every crash.
3. `DfsNamespace` (`meta/dfs.rs`): directory mutations as conditional
   transactions; three directories, two concurrent renames.  No cycles, link
   counts equal entries, a repeated request changes nothing.
4. `DfsReplication` (`meta/dfs.rs`, `replication.rs`): claims, reports,
   corruption reports, placement epochs against concurrent commits.  A ready
   copy is never counted twice, an expired claim never completes, a chunk with
   a live copy is eventually repaired.
5. The commit planner (`normalized_overlay`, `subtract_range`, `plan`) against
   a byte-wise reference, in one run with the lock ranges.
6. Remote owner access of `DfsWriteback`: forwarded operations, the operation
   cache, lock authorities and lease renewals.
7. Proofs: the lock table (no conflict, one grant per identity), the lease
   protocol (`HeadGrows`, `SyncedPublished`), the local-file backend
   (`AckedRecoverable`).
