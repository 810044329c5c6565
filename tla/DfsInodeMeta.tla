---------------------------- MODULE DfsInodeMeta ----------------------------
(***************************************************************************)
(* What Meta does for one regular file of the distributed file system      *)
(* (src/meta/dfs.rs): the write lease, and the handlers that publish a new *)
(* file version or new metadata.                                           *)
(*                                                                         *)
(* A handler is not atomic.  It looks for the recorded outcome of its      *)
(* request, reads the inode, reads the lease and only then submits one     *)
(* conditional transaction; other handlers, also one for the same request, *)
(* run between these steps.  The transaction itself is atomic: MetaStore   *)
(* shows that.                                                             *)
(*                                                                         *)
(* A file version is named by the operation that publishes it, and its     *)
(* layout is the set of writes it contains.  Attributes are reduced to the *)
(* modification time (the number of the write that set it) and the         *)
(* set-user-id bit.  Chunk receipts are taken as valid, the replication    *)
(* configuration as fixed.                                                 *)
(***************************************************************************)
EXTENDS Naturals, FiniteSets

CONSTANTS Nodes, Slots,         \* Slots: handlers that can run at once
          MaxWrites, MaxOps,
          MaxExpiries, MaxChmods

ASSUME MetaAssumption ==
    /\ MaxWrites \in Nat /\ MaxOps \in Nat
    /\ MaxExpiries \in Nat /\ MaxChmods \in Nat

VARIABLES
    inode,      \* the inode record: revision, head version, mtime, suid
    versions,   \* the layouts of the published versions
    lease,      \* the stored write lease
    leaseLive,  \* its expiry is in the future
    outcomes,   \* recorded request outcomes: operation -> inode
    handler,    \* the handlers of commit and metadata-sync requests
    expiries, chmods

meta == <<inode, versions, lease, leaseLive, outcomes>>
metaVars == <<meta, handler, expiries, chmods>>

NoVersion == 0
Ops == 1 .. MaxOps
Writes == 1 .. MaxWrites
Free == [stage |-> "free"]

Layout(v) == IF v = NoVersion THEN {} ELSE versions[v]

MetaInit ==
    /\ inode = [revision |-> 1, head |-> NoVersion, mtime |-> 0, suid |-> TRUE]
    /\ versions = << >>
    /\ lease = [node |-> "none", session |-> 0, epoch |-> 0]
    /\ leaseLive = FALSE
    /\ outcomes = << >>
    /\ handler = [h \in Slots |-> Free]
    /\ expiries = 0
    /\ chmods = 0

(* A map of the store with one more entry.                                 *)
With(map, key, value) == [k \in DOMAIN map \cup {key} |-> IF k = key THEN value ELSE map[k]]

-----------------------------------------------------------------------------
(* The handler of request req in slot h, step by step.                     *)

Ended(h, result) == handler' = [handler EXCEPT ![h] = [stage |-> "done", req |-> handler[h].req, result |-> result]]

Ok(record) == [status |-> "ok", inode |-> record]
Conflict == [status |-> "conflict"]

(* replayed_namespace_inode, replayed_inode                                *)
ReplayCheck(h) ==
    /\ handler[h].stage = "arrived"
    /\ IF handler[h].req.op \in DOMAIN outcomes
         THEN Ended(h, Ok(outcomes[handler[h].req.op]))
         ELSE handler' = [handler EXCEPT ![h] = [stage |-> "checked", req |-> handler[h].req]]
    /\ UNCHANGED <<meta, expiries, chmods>>

GetInode(h) ==
    /\ handler[h].stage = "checked"
    /\ handler' = [handler EXCEPT ![h] =
           [stage |-> "read", req |-> handler[h].req, inode |-> inode]]
    /\ UNCHANGED <<meta, expiries, chmods>>

ValidateWriteLease(presented) == leaseLive /\ presented = lease

(* Faulty variant: the head the writer started from is not compared.       *)
ExpectationHoldsAnyHead(req, current) == current.revision >= req.revision

ExpectationHolds(req, current) == current.revision >= req.revision /\ current.head = req.head

(* The lease is read after the inode; both are compared with what the      *)
(* writer presented.                                                       *)
Validate(h) ==
    LET req == handler[h].req IN
    /\ handler[h].stage = "read"
    /\ IF ValidateWriteLease(req.lease) /\ ExpectationHolds(req, handler[h].inode)
         THEN handler' = [handler EXCEPT ![h] =
                  [stage |-> "valid", req |-> req, inode |-> handler[h].inode, lease |-> lease]]
         ELSE Ended(h, Conflict)
    /\ UNCHANGED <<meta, expiries, chmods>>

(* Faulty variant: a metadata request moves the head like a commit.        *)
UpdatedHead(req, current) ==
    [revision |-> current.revision + 1,
     head     |-> req.op,
     mtime    |-> IF req.full THEN req.mtime ELSE current.mtime,
     suid     |-> current.suid /\ ~ req.kill]

(* The inode a request leaves.                                             *)
Updated(req, current) ==
    [revision |-> current.revision + 1,
     head     |-> IF req.kind = "file" THEN req.op ELSE current.head,
     mtime    |-> IF req.full THEN req.mtime ELSE current.mtime,
     suid     |-> current.suid /\ ~ req.kill]

(* Faulty variant: the transaction does not compare the lease.             *)
ConditionsHoldNoLease(h) == inode = handler[h].inode

ConditionsHold(h) == inode = handler[h].inode /\ lease = handler[h].lease

(* The conditional transaction.  A recorded outcome of the same request is *)
(* returned instead of a conflict.                                         *)
Submit(h) ==
    LET req == handler[h].req
        updated == Updated(req, inode)
    IN  /\ handler[h].stage = "valid"
        /\ \/ /\ req.op \in DOMAIN outcomes
              /\ Ended(h, Ok(outcomes[req.op]))
              /\ UNCHANGED <<inode, versions, outcomes>>
           \/ /\ req.op \notin DOMAIN outcomes
              /\ ~ ConditionsHold(h)
              /\ Ended(h, Conflict)
              /\ UNCHANGED <<inode, versions, outcomes>>
           \/ /\ req.op \notin DOMAIN outcomes
              /\ ConditionsHold(h)
              /\ inode' = updated
              /\ versions' = IF req.kind = "file" THEN With(versions, req.op, req.layout) ELSE versions
              /\ outcomes' = With(outcomes, req.op, updated)
              /\ Ended(h, Ok(updated))
        /\ UNCHANGED <<lease, leaseLive, expiries, chmods>>

(* The caller is gone: the handler is dropped where it stands, or its      *)
(* reply is.                                                               *)
Drop(h) ==
    /\ handler[h].stage # "free"
    /\ handler' = [handler EXCEPT ![h] = Free]

-----------------------------------------------------------------------------
(* acquire_write_lease by a session that holds no live lease: the stored   *)
(* lease is compared in the transaction, so the step is atomic.            *)
Acquired(node, session) ==
    IF leaseLive /\ lease.node = node /\ lease.session = session
      THEN lease
      ELSE [node |-> node, session |-> session, epoch |-> lease.epoch + 1]

MayAcquire(node, session) == leaseLive => (lease.node = node /\ lease.session = session)

(* Time passes the expiry of the lease.                                    *)
Expire ==
    /\ leaseLive
    /\ expiries < MaxExpiries
    /\ expiries' = expiries + 1
    /\ leaseLive' = FALSE
    /\ UNCHANGED <<inode, versions, lease, outcomes, handler, chmods>>

(* set_inode_attributes by some node: no lease is needed.                  *)
SetInodeAttributes ==
    /\ chmods < MaxChmods
    /\ chmods' = chmods + 1
    /\ inode' = [inode EXCEPT !.revision = @ + 1, !.suid = TRUE]
    /\ UNCHANGED <<versions, lease, leaseLive, outcomes, handler, expiries>>

MetaNext ==
    \/ \E h \in Slots : ReplayCheck(h) \/ GetInode(h) \/ Validate(h) \/ Submit(h)
    \/ Expire
    \/ SetInodeAttributes
=============================================================================
