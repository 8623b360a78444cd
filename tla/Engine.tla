------------------------------- MODULE Engine -------------------------------
(***************************************************************************)
(* rust/src/lib.rs over rust/src/wal.rs: the transaction operations of     *)
(* VersionStore made durable by a write-ahead log and checkpoints, with    *)
(* crashes between any two writes to the disk and recovery at open.        *)
(*                                                                         *)
(* The engine holds one lock for the whole of a commit or checkpoint, so   *)
(* `op' says how far the lock holder has come and every other operation    *)
(* waits for "idle".  A step of the holder ends where a crash could tell   *)
(* the difference.  The log is a sequence of whole frames: a frame a crash *)
(* tears fails its CRC and is as good as missing, so only a frame torn by  *)
(* a failed append, with frames written behind it, is represented.  The    *)
(* pager is its contract (module Pager): `disk' is the flush that an open  *)
(* would show, `file' whether the database file holds it by itself.        *)
(***************************************************************************)
EXTENDS VersionStore, Wal

CONSTANTS
    CheckpointFrames, \* Options::checkpoint_bytes, counted in frames
    Settings,         \* what a behaviour may be set to: Options::sync_on_commit,
                      \* which I/O errors happen in it, and bounds on its
                      \* crashes, transactions and keys
    MaxLog            \* bound: no append fails with this many frames in the
                      \* log, and no sync with more

ASSUME EngineAssumption ==
    /\ CheckpointFrames \in Nat \ {0}
    /\ Settings \subseteq [sync_on_commit : BOOLEAN,
                          faults : SUBSET {"append", "sync", "merge", "flush", "reset"},
                          crashes : Nat, txns : 0 .. MaxTxnId, keys : SUBSET Keys]
    /\ MaxLog \in Nat

VARIABLES
    op,       \* "down", "idle", or the step the lock holder is at
    committing, \* the transaction whose commit is under way, 0 if none
    opening,  \* the running checkpoint is part of Database::open
    log,      \* frames appended to the log
    flushed,  \* how many of them the operating system has
    synced,   \* how many of them an fsync covers
    meta,     \* Pager::meta: tree_ts and next_txn_id
    disk,     \* tree and meta of the flush that the file and its journal hold
    file,     \* the pages of the database file are all of that flush
              \* ("whole"), of two flushes with the journal still there
              \* ("half"), or of two flushes without it ("bare")
    next_auto_checkpoint, \* log length that triggers a checkpoint
    acked,    \* auxiliary: newest timestamp clients know to be committed
    stray,    \* auxiliary: the commits that failed and left frames in the
              \* log since its last reset, as <<transaction, timestamp>>
    crashes,  \* crashes so far
    setting   \* the member of Settings that holds throughout

logvars == <<log, flushed, synced>>
rest == <<acked, stray, crashes, setting>>
vars == <<vsvars, op, committing, opening, logvars, meta, disk, file,
          next_auto_checkpoint, rest>>

-----------------------------------------------------------------------------
(* Operations that only touch memory.                                      *)

InMemory(A) ==
    /\ op = "idle"
    /\ A
    /\ UNCHANGED <<op, committing, opening, logvars, meta, disk, file,
                   next_auto_checkpoint, rest>>

Begin == next_txn_id <= setting.txns /\ \E ro \in BOOLEAN : InMemory(begin(ro))
Insert(t) == \E k \in setting.keys, v \in Values : InMemory(insert(t, k, v))
Delete(t) == \E k \in Keys : InMemory(delete(t, k))
Rollback(t) == InMemory(rollback(t))

CommitEnds(t) == InMemory(CommitNothing(t) \/ CommitConflicts(t))

-----------------------------------------------------------------------------
(* Commit.                                                                 *)

Frames(t) == LogCommit(t, next_ts, active[t].writes)

StartCommit(t) ==
    /\ op = "idle"
    /\ MayCommit(t)
    /\ log' = log \o Frames(t)
    /\ op' = "commit"
    /\ committing' = t
    /\ UNCHANGED <<vsvars, opening, flushed, synced, meta, disk, file,
                   next_auto_checkpoint, rest>>

(* Wrong on purpose: never syncs.                                          *)
FinishUnsynced ==
    /\ op = "commit"
    /\ flushed' = Len(log)
    /\ Publish(committing)
    /\ acked' = next_ts
    /\ op' = IF Len(log) >= next_auto_checkpoint THEN "merge" ELSE "idle"
    /\ committing' = 0
    /\ UNCHANGED <<opening, log, synced, meta, disk, file, next_auto_checkpoint, stray,
                   crashes, setting>>

(* The log is on disk (or handed over): publish, then checkpoint if the    *)
(* log has grown long enough.                                              *)
FinishCommit ==
    /\ op = "commit"
    /\ flushed' = Len(log)
    /\ synced' = IF setting.sync_on_commit THEN Len(log) ELSE synced
    /\ Publish(committing)
    /\ acked' = next_ts
    /\ op' = IF Len(log) >= next_auto_checkpoint THEN "merge" ELSE "idle"
    /\ committing' = 0
    /\ UNCHANGED <<opening, log, meta, disk, file, next_auto_checkpoint, stray, crashes,
                   setting>>

(* An append fails: some frames are in the log, perhaps with a header that *)
(* its payload did not follow.  The transaction stays open.                *)
AppendFails(t) ==
    /\ "append" \in setting.faults /\ Len(log) < MaxLog
    /\ op = "idle"
    /\ MayCommit(t)
    /\ \E n \in 0 .. (Len(Frames(t)) - 1), tail \in {<<>>, <<Torn>>} :
            log' = log \o SubSeq(Frames(t), 1, n) \o tail
    /\ stray' = IF log' = log THEN stray ELSE stray \cup {<<t, next_ts>>}
    /\ UNCHANGED <<vsvars, op, committing, opening, flushed, synced, meta, disk, file,
                   next_auto_checkpoint, acked, crashes, setting>>

(* The flush or fsync fails: every frame was appended, and commit returns  *)
(* an error with the transaction still open.                               *)
SyncFails ==
    /\ "sync" \in setting.faults /\ Len(log) <= MaxLog
    /\ op = "commit"
    /\ op' = "idle"
    /\ committing' = 0
    /\ stray' = stray \cup {<<committing, next_ts>>}
    /\ UNCHANGED <<vsvars, opening, logvars, meta, disk, file, next_auto_checkpoint,
                   acked, crashes, setting>>

-----------------------------------------------------------------------------
(* Checkpoint, called by a client, by a commit or by open.                 *)

Image == [tree |-> tree, tree_ts |-> meta.tree_ts, next_txn_id |-> meta.next_txn_id]

StartCheckpoint ==
    /\ op = "idle"
    /\ WithinBound(merge_watermark)
    /\ op' = "merge"
    /\ UNCHANGED <<vsvars, committing, opening, logvars, meta, disk, file,
                   next_auto_checkpoint, rest>>

(* What retained_commits returns: the writes of each commit the tree lacks.*)
Retained(tree_ts) ==
    [ts \in RetainedTimestamps(tree_ts) |->
        [k \in Keys |-> IF \E i \in 1 .. Len(chains[k]) : chains[k][i].ts = ts
                        THEN AsOf(chains[k], None, ts)
                        ELSE Absent]]

(* The timestamp the merged tree is at.                                    *)
MergedTs == Max({meta.tree_ts, merge_watermark})

Merge ==
    /\ op = "merge"
    /\ merge_into_tree(merge_watermark)
    /\ retained_commits(MergedTs)
    /\ meta' = [tree_ts |-> MergedTs, next_txn_id |-> next_txn_id']
    /\ op' = "flush"
    /\ UNCHANGED <<next_ts, active, live_snapshots, history, committing, opening,
                   logvars, disk, file, next_auto_checkpoint, rest>>

(* A page cannot be read or allocated: the version store keeps everything  *)
(* and discard_dirty drops every staged page.                              *)
MergeFails ==
    /\ "merge" \in setting.faults
    /\ op = "merge" /\ ~opening
    /\ tree' = disk.tree
    /\ op' = "idle"
    /\ UNCHANGED <<chains, next_ts, next_txn_id, active, live_snapshots, history,
                   committing, opening, logvars, meta, disk, file,
                   next_auto_checkpoint, rest>>

Flush ==
    /\ op = "flush"
    /\ disk' = Image
    /\ file' = "whole"
    /\ op' = "reset"
    /\ UNCHANGED <<vsvars, committing, opening, logvars, meta,
                   next_auto_checkpoint, rest>>

(* Wrong on purpose: drops the staged pages, which the chains lack.        *)
FlushFailsDiscarding ==
    /\ "flush" \in setting.faults
    /\ op = "flush" /\ ~opening
    /\ tree' = disk.tree
    /\ op' = "idle"
    /\ UNCHANGED <<chains, next_ts, next_txn_id, active, live_snapshots, history,
                   committing, opening, logvars, meta, disk, file,
                   next_auto_checkpoint, rest>>

(* Pager::flush fails: the staged pages stay staged.  Either the new       *)
(* journal does not hold, but has taken the place of the one that a        *)
(* half-written file needs; or it does, with its pages in place or not.    *)
FlushEndsEarly ==
    \/ /\ disk' = disk
       /\ file' = IF file = "whole" THEN "whole" ELSE "bare"
    \/ /\ disk' = Image
       /\ file' \in {"whole", "half"}

FlushFails ==
    /\ "flush" \in setting.faults
    /\ op = "flush" /\ ~opening
    /\ FlushEndsEarly
    /\ op' = "idle"
    /\ UNCHANGED <<vsvars, committing, opening, logvars, meta,
                   next_auto_checkpoint, rest>>

FreshLog ==
    ResetLog(meta.tree_ts,
             next_txn_id - Cardinality(RetainedTimestamps(meta.tree_ts)),
             Retained(meta.tree_ts))

Reset ==
    /\ op = "reset"
    /\ log' = FreshLog
    /\ flushed' = Len(log')
    /\ synced' = Len(log')
    /\ next_auto_checkpoint' = Max({CheckpointFrames, 2 * Len(log')})
    /\ acked' = current_ts
    /\ stray' = {}
    /\ op' = "idle"
    /\ opening' = FALSE
    /\ UNCHANGED <<vsvars, committing, meta, disk, file, crashes, setting>>

(* The logs an interrupted reset may leave besides the old one: in place,  *)
(* an empty log and a log with its marker; by rename, the new log.         *)
PartialResets ==
    IF RetainedTimestamps(meta.tree_ts) = {} THEN {<<>>, FreshLog} ELSE {FreshLog}

(* A failed reset keeps the old log, or stops after emptying it.           *)
ResetFails ==
    /\ "reset" \in setting.faults
    /\ op = "reset" /\ ~opening
    /\ \/ /\ flushed' = Len(log)
          /\ UNCHANGED <<log, synced, stray>>
       \/ /\ RetainedTimestamps(meta.tree_ts) = {}
          /\ log' = <<>> /\ flushed' = 0 /\ synced' = 0
          /\ stray' = {}
    /\ op' = "idle"
    /\ UNCHANGED <<vsvars, committing, opening, meta, disk, file, next_auto_checkpoint,
                   acked, crashes, setting>>

(* Database::flush.  Pager::flush has nothing to do, and nothing to fail,  *)
(* unless an earlier flush failed and left its pages staged.               *)
SyncAll ==
    /\ op = "idle"
    /\ flushed' = Len(log)
    /\ synced' = Len(log)
    /\ \/ disk' = Image /\ file' = "whole"
       \/ /\ "flush" \in setting.faults
          /\ disk # Image \/ file # "whole"
          /\ FlushEndsEarly
    /\ UNCHANGED <<vsvars, op, committing, opening, log, meta,
                   next_auto_checkpoint, rest>>

-----------------------------------------------------------------------------
(* Crash and recovery.                                                     *)

(* The history of a key with the commit under way.                         *)
WithPending(k) == IF op = "commit" THEN AfterCommit(committing, k) ELSE history[k]

(* Everything committed, or being committed, up to ts.                     *)
SurvivingHistory(ts) ==
    [k \in Keys |-> SubSeq(WithPending(k), 1, LastAt(WithPending(k), ts))]

(* The process dies, alone or with the machine.  What it had handed to the *)
(* operating system, or only what was synced, is sure to be in the log; a  *)
(* flush or a reset under way has or has not happened.  A half-written     *)
(* file has its journal, unless a flush has just started anew (from        *)
(* "idle": Database::flush, whose end is a step of its own).  With remains *)
(* of failed commits in the log, nothing is known to survive.              *)
Die(machine) ==
    /\ op # "down"
    /\ crashes < setting.crashes
    /\ \/ \E n \in (IF machine THEN synced ELSE flushed) .. Len(log) :
            /\ log' = SubSeq(log, 1, n)
            /\ synced' = IF machine THEN n ELSE synced
       \/ /\ op = "reset"
          /\ log' \in PartialResets
          /\ synced' = Len(log')
    /\ \/ file # "bare" /\ disk' = disk /\ file' = "whole"
       \/ op = "flush" /\ disk' = Image /\ file' = "whole"
       \/ /\ file = "bare" \/ (file = "half" /\ op \in {"idle", "flush"})
          /\ disk' = disk /\ file' = "bare"
    /\ flushed' = Len(log')
    /\ history' = IF stray = {} THEN SurvivingHistory(NewestTs(disk', log'))
                  ELSE [k \in Keys |-> <<>>]
    /\ op' = "down"
    /\ committing' = 0
    /\ opening' = FALSE
    /\ crashes' = crashes + 1
    /\ chains' = [k \in Keys |-> <<>>]
    /\ next_ts' = 1
    /\ next_txn_id' = 1
    /\ active' = [t \in {} |-> 0]
    /\ live_snapshots' = [s \in {} |-> 0]
    /\ tree' = [k \in Keys |-> None]
    /\ meta' = [tree_ts |-> 0, next_txn_id |-> 1]
    /\ next_auto_checkpoint' = CheckpointFrames
    /\ UNCHANGED <<acked, stray, setting>>

ProcessCrash == Die(FALSE)
PowerLoss == Die(TRUE)

(* A file of two flushes without a journal, or remains of failed commits   *)
(* in the log: the files do not hold what recovery needs.                  *)
Unrecoverable == file = "bare" \/ stray # {}

(* What an open then finds is not modelled.                                *)
OutOfScope ==
    /\ op = "down" /\ Unrecoverable
    /\ UNCHANGED vars

Open ==
    /\ op = "down" /\ ~Unrecoverable
    /\ LET valid == ValidPrefix(log)
           newest == NewestTs(disk, log)
       IN  /\ \E rank \in Ranks(valid) :
                chains' = [k \in Keys |-> Replayed(valid, disk.tree_ts, rank, k)]
           /\ next_ts' = newest + 1
           /\ next_txn_id' = Max({disk.next_txn_id, MaxTxnIdIn(valid) + 1})
           /\ log' = valid
           /\ flushed' = Len(valid)
           /\ synced' = IF valid = log THEN synced ELSE Len(valid)
           /\ opening' = (newest > disk.tree_ts)
           /\ acked' = IF opening' THEN acked ELSE newest
    /\ op' = IF opening' THEN "merge" ELSE "idle"
    /\ tree' = disk.tree
    /\ meta' = [tree_ts |-> disk.tree_ts, next_txn_id |-> disk.next_txn_id]
    /\ UNCHANGED <<active, live_snapshots, history, committing, disk, file,
                   next_auto_checkpoint, stray, crashes, setting>>

-----------------------------------------------------------------------------
EngineInit ==
    /\ Init
    /\ op = "idle"
    /\ committing = 0
    /\ opening = FALSE
    /\ log = <<>> /\ flushed = 0 /\ synced = 0
    /\ meta = [tree_ts |-> 0, next_txn_id |-> 1]
    /\ disk = [tree |-> [k \in Keys |-> None], tree_ts |-> 0, next_txn_id |-> 1]
    /\ file = "whole"
    /\ next_auto_checkpoint = CheckpointFrames
    /\ acked = 0
    /\ stray = {}
    /\ crashes = 0
    /\ setting \in Settings

EngineNext ==
    \/ Begin
    \/ \E t \in DOMAIN active :
        \/ Insert(t) \/ Delete(t) \/ Rollback(t)
        \/ CommitEnds(t) \/ StartCommit(t) \/ AppendFails(t)
    \/ FinishCommit \/ SyncFails
    \/ StartCheckpoint \/ Merge \/ Flush \/ Reset \/ SyncAll
    \/ MergeFails \/ FlushFails \/ ResetFails
    \/ ProcessCrash \/ PowerLoss \/ Open \/ OutOfScope

EngineSpec == EngineInit /\ [][EngineNext]_vars

-----------------------------------------------------------------------------
(* Properties.                                                             *)

(* One type invariant: the fields of Inner (lib.rs:139-149) and the files. *)
EngineTypeOK ==
    /\ TypeOK
    /\ op \in {"down", "idle", "commit", "merge", "flush", "reset"}
    /\ (op = "commit") = (committing # 0)
    /\ committing \in DOMAIN active \cup {0}
    /\ opening => op \in {"merge", "flush", "reset"}
    /\ flushed \in 0 .. Len(log) /\ synced \in 0 .. flushed
    /\ meta \in [tree_ts : Nat, next_txn_id : Nat \ {0}]
    /\ disk \in [tree : [Keys -> Slot], tree_ts : Nat, next_txn_id : Nat \ {0}]
    /\ file \in {"whole", "half", "bare"}
    /\ next_auto_checkpoint \in Nat \ {0}

(* While the database is open, every read at the current timestamp returns *)
(* the last committed value, through crashes, recovery and checkpoints     *)
(* that end anywhere (lib.rs:186-269, 604-642).                            *)
CommittedReads == op # "down" => LatestReads

(* A crash takes back nothing that clients were told is committed: with    *)
(* sync_on_commit nothing at all, without it nothing unless the machine    *)
(* itself goes down (wal.rs:314-317).  Left out are the two crashes that   *)
(* can: inside the retry of a failed flush, and with the remains of a      *)
(* failed commit in the log; from the next checkpoint that ends well on,   *)
(* neither matters any more.                                               *)
CommitsSurvive ==
    [][~Unrecoverable' /\ (setting.sync_on_commit \/ ~PowerLoss) =>
        \A k \in Keys : LET n == LastAt(history[k], acked) IN
            /\ n <= Len(history'[k])
            /\ \A i \in 1 .. n : history'[k][i] = history[k][i]]_vars

(* The tree in the database file is the committed state as of the tree_ts  *)
(* stored beside it, which is what lets recovery skip every commit at or   *)
(* below it (lib.rs:213-217): no version above it has leaked in, none      *)
(* below it is missing.                                                    *)
TreeMatchesTreeTs ==
    ~(op = "down" /\ Unrecoverable) =>
        \A k \in Keys : disk.tree[k] = AsOf(history[k], None, disk.tree_ts)

(* At every step of commits, checkpoints and recovery, failing ones too,   *)
(* memory and file are in order: the newest reader and every live snapshot *)
(* see the committed state, and the tree in the file is what its tree_ts   *)
(* says.                                                                   *)
EngineIsSound == EngineTypeOK /\ CommittedReads /\ SnapshotReads /\ TreeMatchesTreeTs

(* Transaction ids in the log stay below the counter, so the records of a  *)
(* dead transaction that recovery keeps in the log can never be committed  *)
(* by a later transaction with its id (txn.rs:362-365, wal.rs:160-173).    *)
(* The records of a failed commit are those of a transaction still open.   *)
LoggedIdsAreSpent ==
    stray = {} /\ op = "idle" => \A t \in DOMAIN active \cup {next_txn_id} :
        \A i \in 1 .. Len(log) :
            log[i].type \in {"write", "commit"} => log[i].txn # t

(* Open for clients.                                                       *)
Ready == op # "down" /\ ~opening

(* A crash while no transaction is open leaves in the files no commit that *)
(* clients were not told of, except one whose commit() failed after it had *)
(* reached the log: that one may turn up, which Database::write_batch      *)
(* (lib.rs:564-565) and Wal::log_commit (wal.rs:319-320) rule out and the  *)
(* code does not.  No other commit appears, and no part of one.            *)
NoCommitOutOfNowhere ==
    [][(ProcessCrash \/ PowerLoss) /\ Ready /\ DOMAIN active = {} =>
        /\ disk'.tree_ts <= acked
        /\ \A i \in 1 .. Len(log') :
            log'[i].type = "commit" /\ log'[i].ts > acked
                => <<log'[i].txn, log'[i].ts>> \in stray]_vars

(* A crash takes back no acknowledged commit and makes none appear.        *)
CrashesKeepCommits == CommitsSurvive /\ NoCommitOutOfNowhere
=============================================================================
