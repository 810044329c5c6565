-------------------------- MODULE LocalFileBackend --------------------------
(***************************************************************************)
(* The local-file backend of the Meta Store                                *)
(* (src/src/meta/store/local_file.rs): a snapshot file and a write-ahead   *)
(* log of complete snapshots, each with its version.                       *)
(*                                                                         *)
(* A file has the content that running processes see and the contents that *)
(* a power loss may leave behind: every content it went through since it   *)
(* was last synced.  The directory entry of a log that was just created is *)
(* only durable after the directory was synced.  A killed process leaves   *)
(* the cached contents alone; a power loss picks one durable content of    *)
(* each file.                                                              *)
(*                                                                         *)
(* Abstractions.  A frame is its version and the number of the commit that *)
(* wrote it; a frame that was not written to its end is the torn tail of   *)
(* the log.  The compaction threshold counts frames (the source also       *)
(* counts bytes).  snapshot.tmp is written and synced before the rename    *)
(* and truncated on every use, so that only the rename is a step.          *)
(***************************************************************************)
EXTENDS Naturals, Sequences, SequencesExt

CONSTANTS
    CompactAfter,     \* COMPACT_AFTER_FRAMES (64 in the source)
    MaxCommits,       \* bound: calls of commit
    MaxKills,         \* bound: killed processes
    MaxPowerLosses,   \* bound: power losses
    Missing           \* a file that does not exist

ASSUME LocalFileAssumption ==
    /\ CompactAfter \in Nat \ {0}
    /\ {MaxCommits, MaxKills, MaxPowerLosses} \subseteq Nat

VARIABLES
    pc,          \* where the process that holds LOCK is
    job,         \* the call it executes: "open" or "commit"
    expected,    \* the version that the Store above knows
    snapshot,    \* the snapshot file
    snapImages,  \* what a power loss may leave of it
    wal,         \* the log
    walImages,   \* what a power loss may leave of it
    walLinked,   \* whether its directory entry is durable
    acked,       \* the frame that commit acknowledged last
    commits,     \* calls of commit so far
    kills, losses

files == <<snapshot, snapImages, wal, walImages, walLinked>>

faults == <<kills, losses>>

vars == <<pc, job, expected, files, acked, commits, faults>>

-----------------------------------------------------------------------------
Frame == [version: 1..MaxCommits, value: 1..MaxCommits]

NoFrame == [version |-> 0, value |-> 0]

Log == [frames: Seq(Frame), torn: BOOLEAN]

EmptyLog == [frames |-> << >>, torn |-> FALSE]

Pc ==
    {"down", "load", "refused", "truncate", "syncTruncate", "loaded", "idle",
     "syncCreate", "append", "finish", "syncAppend", "rename", "syncRename",
     "empty", "syncEmpty", "done"}

TypeOK ==
    /\ pc \in Pc
    /\ job \in {"open", "commit"}
    /\ expected \in 0..MaxCommits
    /\ snapshot \in Frame \cup {Missing}
    /\ snapImages \subseteq Frame \cup {Missing}
    /\ wal \in Log \cup {Missing}
    /\ walImages \subseteq Log \cup {Missing}
    /\ walLinked \in BOOLEAN
    /\ acked \in Frame \cup {NoFrame}
    /\ commits \in 0..MaxCommits
    /\ kills \in 0..MaxKills
    /\ losses \in 0..MaxPowerLosses

Init ==
    /\ pc = "down"
    /\ job = "open"
    /\ expected = 0
    /\ snapshot = Missing
    /\ snapImages = {Missing}
    /\ wal = Missing
    /\ walImages = {Missing}
    /\ walLinked = TRUE
    /\ acked = NoFrame
    /\ commits = 0
    /\ kills = 0
    /\ losses = 0

-----------------------------------------------------------------------------
(***************************************************************************)
(* read_snapshot and replay_wal: frames up to the current version are      *)
(* skipped, the next version is taken, a gap is data loss; a torn tail     *)
(* ends the log.                                                           *)
(***************************************************************************)
Base(snap) == IF snap = Missing THEN NoFrame ELSE snap

ReplayFrame(state, frame) ==
    IF state = Missing \/ frame.version > state.version + 1 THEN Missing
    ELSE IF frame.version = state.version + 1 THEN frame
    ELSE state

\* The state that the files hold; Missing when the backend reports data loss
Replay(snap, log) ==
    IF log = Missing THEN Base(snap)
                     ELSE FoldLeft(ReplayFrame, Base(snap), log.frames)

Current == Replay(snapshot, wal)

FrameCount == IF wal = Missing THEN 0 ELSE Len(wal.frames)

ShouldCompact == FrameCount >= CompactAfter

-----------------------------------------------------------------------------
WriteLog(log) ==
    /\ wal' = log
    /\ walImages' = walImages \cup {log}
    /\ UNCHANGED <<snapshot, snapImages, walLinked>>

\* sync_all on the log
SyncLog ==
    /\ walImages' = {wal}
    /\ UNCHANGED <<snapshot, snapImages, wal, walLinked>>

\* Faulty variant: the directory is not synced after the rename
SyncNoDir == UNCHANGED files

\* sync_dir
SyncDir ==
    /\ snapImages' = {snapshot}
    /\ walLinked' = TRUE
    /\ UNCHANGED <<snapshot, wal, walImages>>

Goto(next) == pc' = next

calls == <<job, expected, acked, commits>>

-----------------------------------------------------------------------------
\* LocalFileBackend::open takes the lock, syncs the directory and loads
Open ==
    /\ pc = "down"
    /\ job' = "open"
    /\ SyncDir
    /\ Goto("load")
    /\ UNCHANGED <<expected, acked, commits, faults>>

\* LocalFileBackend::commit under op_lock
Commit ==
    /\ pc = "idle"
    /\ commits < MaxCommits
    /\ commits' = commits + 1
    /\ job' = "commit"
    /\ Goto("load")
    /\ UNCHANGED <<expected, files, acked, faults>>

\* load_inner
AfterTruncate == IF ShouldCompact /\ Current # NoFrame THEN "rename" ELSE "loaded"

Load ==
    /\ pc = "load"
    /\ Goto(IF Current = Missing THEN "refused"
            ELSE IF wal # Missing /\ wal.torn THEN "truncate"
            ELSE AfterTruncate)
    /\ UNCHANGED <<calls, files, faults>>

\* truncate_wal
Truncate ==
    /\ pc = "truncate"
    /\ WriteLog([wal EXCEPT !.torn = FALSE])
    /\ Goto("syncTruncate")
    /\ UNCHANGED <<calls, faults>>

SyncTruncate ==
    /\ pc = "syncTruncate"
    /\ SyncLog
    /\ Goto(AfterTruncate)
    /\ UNCHANGED <<calls, faults>>

\* open returns the loaded state
Opened ==
    /\ pc = "loaded"
    /\ job = "open"
    /\ expected' = Current.version
    /\ Goto("idle")
    /\ UNCHANGED <<job, files, acked, commits, faults>>

\* commit checks the version and opens the log, which it may have to create
OpenLog ==
    /\ pc = "loaded"
    /\ job = "commit"
    /\ IF Current.version # expected THEN Goto("refused") /\ UNCHANGED files
       ELSE IF wal = Missing
       THEN /\ wal' = EmptyLog
            /\ walImages' = {EmptyLog}
            /\ walLinked' = FALSE
            /\ UNCHANGED <<snapshot, snapImages>>
            /\ Goto("syncCreate")
       ELSE Goto("append") /\ UNCHANGED files
    /\ UNCHANGED <<calls, faults>>

SyncCreate ==
    /\ pc = "syncCreate"
    /\ SyncDir
    /\ Goto("append")
    /\ UNCHANGED <<calls, faults>>

\* Faulty variant: the frame carries the version it replaces
OldVersion == expected

\* The version that commit writes
NewVersion == expected + 1

\* write_frame: a part of the frame, then the rest
Append1 ==
    /\ pc = "append"
    /\ WriteLog([wal EXCEPT !.torn = TRUE])
    /\ Goto("finish")
    /\ UNCHANGED <<calls, faults>>

FinishFrame ==
    /\ pc = "finish"
    /\ WriteLog([frames |-> Append(wal.frames, [version |-> NewVersion, value |-> commits]),
                 torn |-> FALSE])
    /\ Goto("syncAppend")
    /\ UNCHANGED <<calls, faults>>

SyncAppend ==
    /\ pc = "syncAppend"
    /\ SyncLog
    /\ Goto(IF ShouldCompact THEN "rename" ELSE "done")
    /\ UNCHANGED <<calls, faults>>

\* compact: the new snapshot replaces the old one, then the log is emptied
Rename ==
    /\ pc = "rename"
    /\ snapshot' = Current
    /\ snapImages' = snapImages \cup {Current}
    /\ Goto("syncRename")
    /\ UNCHANGED <<calls, wal, walImages, walLinked, faults>>

SyncRename ==
    /\ pc = "syncRename"
    /\ SyncDir
    /\ Goto("empty")
    /\ UNCHANGED <<calls, faults>>

EmptyWal ==
    /\ pc = "empty"
    /\ WriteLog(EmptyLog)
    /\ Goto("syncEmpty")
    /\ UNCHANGED <<calls, faults>>

\* A compaction of load_inner goes on with the call, one of commit ends it
SyncEmpty ==
    /\ pc = "syncEmpty"
    /\ SyncLog
    /\ Goto(IF job = "commit" /\ Current.version = NewVersion THEN "done" ELSE "loaded")
    /\ UNCHANGED <<calls, faults>>

\* Faulty variant: the caller is not told the new version
DoneStale ==
    /\ pc = "done"
    /\ acked' = Current
    /\ Goto("idle")
    /\ UNCHANGED <<job, expected, files, commits, faults>>

\* commit returns the new version
Done ==
    /\ pc = "done"
    /\ expected' = NewVersion
    /\ acked' = Current
    /\ Goto("idle")
    /\ UNCHANGED <<job, files, commits, faults>>

-----------------------------------------------------------------------------
\* The process dies, or a step fails and the poisoned Store is restarted
Kill ==
    /\ pc # "down"
    /\ kills < MaxKills
    /\ kills' = kills + 1
    /\ Goto("down")
    /\ UNCHANGED <<calls, files, losses>>

WalOutcomes == walImages \cup (IF walLinked THEN {} ELSE {Missing})

PowerLoss ==
    /\ losses < MaxPowerLosses
    /\ losses' = losses + 1
    /\ \E s \in snapImages, w \in WalOutcomes :
          /\ snapshot' = s
          /\ snapImages' = {s}
          /\ wal' = w
          /\ walImages' = {w}
          /\ walLinked' = TRUE
    /\ Goto("down")
    /\ UNCHANGED <<calls, kills>>

Next ==
    \/ Open \/ Commit \/ Load \/ Truncate \/ SyncTruncate \/ Opened \/ OpenLog
    \/ SyncCreate \/ Append1 \/ FinishFrame \/ SyncAppend
    \/ Rename \/ SyncRename \/ EmptyWal \/ SyncEmpty \/ Done
    \/ Kill \/ PowerLoss

Spec == Init /\ [][Next]_vars

-----------------------------------------------------------------------------
\* The states that the backend may load after a power loss at this moment
Recoverable == {Replay(s, w) : s \in snapImages, w \in WalOutcomes}

(***************************************************************************)
(* Whatever a power loss leaves behind, between any two steps of commit,   *)
(* truncation or compaction, the backend can load again (it never reports  *)
(* data loss by itself) and loads the acknowledged commit or a later one.  *)
(***************************************************************************)
AckedRecoverable ==
    \A f \in Recoverable :
        /\ f # Missing
        /\ f.version >= acked.version
        /\ f.version = acked.version => f = acked

(***************************************************************************)
(* The backend never refuses to load its own files and never refuses a     *)
(* commit of the process that holds the lock: the version that the Store   *)
(* keeps is the one on disk, through kills inside commit and compaction.   *)
(***************************************************************************)
NeverRefused == pc # "refused"
=============================================================================
