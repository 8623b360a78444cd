--------------------------------- MODULE Lsm ---------------------------------
(***************************************************************************)
(* The LSM engine (lsm/engine.rs) over its manifest log (lsm/manifest.rs): *)
(* writes, MemTable rotation, flush, compaction, and recovery after a      *)
(* crash at any step.  The engine has one owner (&mut self), so its        *)
(* handlers do not interleave; a handler is split into steps where a crash *)
(* would find a different disk.                                            *)
(*                                                                         *)
(* The caller writes its own log first: `wal' is that log, the sequence of *)
(* writes with the sequence number as position.  After a restart the       *)
(* caller writes again what lies beyond the checkpoint.  The value of a    *)
(* write is its sequence number, so a read names the version it returns.   *)
(*                                                                         *)
(* An appended edit whose write or fsync failed stays in the BufWriter or  *)
(* the page cache (`unsynced'): the next append that succeeds makes it     *)
(* durable, and a crash keeps some prefix.                                 *)
(***************************************************************************)
EXTENDS LsmTables, TLC

CONSTANTS
    Keys,           \* numbers, in key order
    MemtableBytes,  \* LsmOptions::memtable_bytes, in entries
    CompactAfterEdits,
    Settings,       \* [faults, crashes, writes, configs]: what may fail, once each,
                    \* the bounds on crashes and on writes of the caller, and the
                    \* LevelConfig each open is given
    MaxTableId      \* bound: no table is begun past this id

VARIABLES
    status,         \* "up" or "down"
    step,           \* the handler under way and what it holds
    active, frozen, \* the MemTables, frozen ones oldest first
    levels,         \* LevelManifest::levels
    config,         \* the LevelConfig in force
    next_table_id,
    open_tables,    \* ids of the open tables; a table's file never changes
    checkpoint_seqno,
    edits_written,  \* edits appended through the open Manifest
    files,          \* the .sst files: table, and whether it is all on disk
    log,            \* the frames of MANIFEST that a crash keeps
    unsynced,       \* edits appended without a successful fsync
    wal, replayed,  \* the caller's log, and how much of it is in the engine
    floor,          \* oldest sequence number a live snapshot reads
    failed,         \* the faults that have happened
    crashes, setting

memory == <<active, frozen, levels, config, next_table_id, open_tables,
            checkpoint_seqno, edits_written>>
disk == <<files, log, unsynced>>
caller == <<wal, replayed, floor>>
lsmvars == <<status, step, memory, disk, caller, failed, crashes, setting>>

Idle == [op |-> "idle"]
Torn == [edit |-> "torn"]

AddTable(meta) == [edit |-> "add", meta |-> meta]
RemoveTable(l, id) == [edit |-> "remove", level |-> l, id |-> id]
FullSnapshot(tables, id) == [edit |-> "snapshot", tables |-> tables, next_table_id |-> id]
Checkpoint(n) == [edit |-> "checkpoint", seqno |-> n]
Batch(edits) == [edit |-> "batch", edits |-> edits]

-----------------------------------------------------------------------------
(* Manifest::recover.                                                      *)

EmptyState == [tables |-> <<>>, next_table_id |-> 1, checkpoint_seqno |-> 0]

(* One simple edit on the live set, which keeps the order of the log.      *)
ApplySimple(state, e) ==
    CASE e.edit = "add" ->
           [state EXCEPT !.next_table_id = Greatest({@, e.meta.id + 1}),
                         !.tables = Append(SelectSeq(@, LAMBDA t : t.id # e.meta.id), e.meta)]
      [] e.edit = "remove" ->
           [state EXCEPT !.tables =
               SelectSeq(@, LAMBDA t : ~(t.id = e.id /\ t.level = e.level))]
      [] e.edit = "snapshot" ->
           [state EXCEPT !.tables = e.tables,
                         !.next_table_id = Greatest({e.next_table_id, 1} \cup
                                                    {t.id + 1 : t \in ToSet(e.tables)})]
      [] e.edit = "checkpoint" ->
           [state EXCEPT !.checkpoint_seqno = Greatest({@, e.seqno})]

apply_edit(state, e) ==
    IF e.edit = "batch" THEN FoldLeft(ApplySimple, state, e.edits) ELSE ApplySimple(state, e)

Intact(frames) == SelectSeq(frames, LAMBDA f : f # Torn)

(* A torn frame is a crash artefact only at the end.                       *)
Recoverable(frames) == \A i \in DOMAIN frames : frames[i] = Torn => i = Len(frames)

recover(frames) == FoldLeft(apply_edit, EmptyState, Intact(frames))

(* Manifest::compact: the whole level set as one snapshot.                 *)
SnapshotLog(tables, id, seqno) ==
    <<FullSnapshot(tables, id)>> \o (IF seqno > 0 THEN <<Checkpoint(seqno)>> ELSE <<>>)

-----------------------------------------------------------------------------
(* Each kind of fault happens at most once.                                *)
MayFail(fault) ==
    /\ fault \in setting.faults \ failed
    /\ failed' = failed \cup {fault}

(* Appending to the log.                                                   *)

AppendOk(edit) ==
    /\ log' = log \o unsynced \o <<edit>>
    /\ unsynced' = <<>>
    /\ edits_written' = edits_written + 1

AppendFails(edit) ==
    /\ unsynced' = Append(unsynced, edit)
    /\ UNCHANGED <<log, edits_written>>

-----------------------------------------------------------------------------
(* Writes.                                                                 *)

Ready == status = "up" /\ step = Idle

(* put and delete: into the active table, which is frozen when full.       *)
Write(e) ==
    LET mem == put_slot(active, e)
    IN  IF size_bytes(mem) >= MemtableBytes
        THEN active' = {} /\ frozen' = Append(frozen, mem)
        ELSE active' = mem /\ UNCHANGED frozen

put(k, slot) ==
    /\ Ready /\ replayed = Len(wal) /\ Len(wal) < setting.writes
    /\ wal' = Append(wal, [key |-> k, slot |-> slot])
    /\ replayed' = Len(wal) + 1
    /\ Write(Entry(k, Len(wal) + 1, slot))
    /\ UNCHANGED <<status, step, levels, config, next_table_id, open_tables, checkpoint_seqno,
                   edits_written, disk, floor, failed, crashes, setting>>

(* The caller writes the next record of its log again.                     *)
Replay ==
    /\ Ready /\ replayed < Len(wal)
    /\ replayed' = replayed + 1
    /\ Write(Entry(wal[replayed + 1].key, replayed + 1, wal[replayed + 1].slot))
    /\ UNCHANGED <<status, step, levels, config, next_table_id, open_tables, checkpoint_seqno,
                   edits_written, disk, wal, floor, failed, crashes, setting>>

rotate ==
    /\ Ready /\ active # {}
    /\ frozen' = Append(frozen, active)
    /\ active' = {}
    /\ UNCHANGED <<status, step, levels, config, next_table_id, open_tables, checkpoint_seqno,
                   edits_written, disk, caller, failed, crashes, setting>>

-----------------------------------------------------------------------------
(* get: the active table, the frozen ones newest first, then the tables of *)
(* the levels; the first definitive answer, or Missing.                    *)
get(k, snapshot) ==
    LET mems == <<active>> \o Reverse(frozen)
        order == lookup_order(levels, k)
        resident == SelectSeq(order, LAMBDA t : t.id \in open_tables)
        tables == [i \in DOMAIN resident |->
                     sstable_get(files[resident[i].id].table, k, snapshot)]
        answers == [i \in DOMAIN mems |-> memtable_get(mems[i], k, snapshot)] \o tables
        definitive == SelectSeq(answers, LAMBDA a : a # Missing)
    IN  IF definitive = <<>> THEN Missing ELSE definitive[1]

-----------------------------------------------------------------------------
(* flush_one.                                                              *)

(* The table's file is being written; the MemTable stays frozen.           *)
FlushBegin ==
    /\ Ready /\ frozen # <<>> /\ next_table_id <= MaxTableId
    /\ LET table == WriteTable(iter(frozen[1]), next_table_id, 0)
       IN  /\ files' = files @@ (next_table_id :> [table |-> table, complete |-> FALSE])
           /\ step' = [op |-> "flush_write", id |-> next_table_id]
    /\ next_table_id' = next_table_id + 1
    /\ UNCHANGED <<status, active, frozen, levels, config, open_tables, checkpoint_seqno,
                   edits_written, log, unsynced, caller, failed, crashes, setting>>

(* finish has synced the file and it has been opened.                      *)
FlushSync ==
    /\ status = "up" /\ step.op = "flush_write"
    /\ files' = [files EXCEPT ![step.id].complete = TRUE]
    /\ step' = [step EXCEPT !.op = "flush_commit"]
    /\ UNCHANGED <<status, memory, log, unsynced, caller, failed, crashes, setting>>

FlushWriteFails ==
    /\ status = "up" /\ step.op = "flush_write" /\ MayFail("write")
    /\ files' = [id \in DOMAIN files \ {step.id} |-> files[id]]
    /\ step' = Idle
    /\ UNCHANGED <<status, memory, log, unsynced, caller, crashes, setting>>

FlushCommitFails ==
    /\ status = "up" /\ step.op = "flush_commit" /\ MayFail("append")
    /\ AppendFails(AddTable(files[step.id].table.meta))
    /\ step' = Idle
    /\ UNCHANGED <<status, active, frozen, levels, config, next_table_id, open_tables,
                   checkpoint_seqno, files, caller, crashes, setting>>

(* The commit point, and the memory that follows it.                       *)
FlushCommit ==
    /\ status = "up" /\ step.op = "flush_commit"
    /\ LET table == files[step.id].table
       IN  /\ AppendOk(AddTable(table.meta))
           /\ open_tables' = open_tables \cup {step.id}
           /\ levels' = add_table(levels, table.meta)
    /\ frozen' = Tail(frozen)
    /\ step' = [op |-> "set_checkpoint", seqno |-> max_seqno(frozen[1])]
    /\ UNCHANGED <<status, active, config, next_table_id, checkpoint_seqno, files, caller,
                   failed, crashes, setting>>

(* set_checkpoint, when it has something to record.                        *)
FlushCheckpoint ==
    /\ status = "up" /\ step.op = "set_checkpoint"
    /\ IF step.seqno > checkpoint_seqno
       THEN AppendOk(Checkpoint(step.seqno)) /\ checkpoint_seqno' = step.seqno
       ELSE UNCHANGED <<log, unsynced, edits_written, checkpoint_seqno>>
    /\ step' = Idle
    /\ UNCHANGED <<status, active, frozen, levels, config, next_table_id, open_tables, files,
                   caller, failed, crashes, setting>>

FlushCheckpointFails ==
    /\ status = "up" /\ step.op = "set_checkpoint" /\ step.seqno > checkpoint_seqno
    /\ MayFail("append")
    /\ AppendFails(Checkpoint(step.seqno))
    /\ step' = Idle
    /\ UNCHANGED <<status, active, frozen, levels, config, next_table_id, open_tables,
                   checkpoint_seqno, files, caller, crashes, setting>>

-----------------------------------------------------------------------------
(* compact_once.                                                           *)

(* The merged run of a job.  Tombstones go only where nothing below can    *)
(* hold an older version.                                                  *)
Merged(job, retain_floor) ==
    LET inputs == all_inputs(job)
        resident == SelectSeq(inputs, LAMBDA t : t.id \in open_tables)
        runs == [i \in DOMAIN resident |-> files[resident[i].id].table.data]
        drop == /\ is_bottom_most(job, config)
                /\ ~has_data_below(levels, job.target_level, MinKey(ToSet(inputs)),
                                   MaxKey(ToSet(inputs)))
    IN  merge_runs(runs, retain_floor, drop)

(* Plan, merge, and start writing the output, if there is any.  The caller *)
(* passes the oldest sequence number a live snapshot reads; only then does *)
(* it matter that this has moved.                                          *)
CompactBegin ==
    /\ Ready /\ Due(levels, config) /\ next_table_id <= MaxTableId
    /\ floor' \in floor .. Len(wal)
    /\ \E job \in {pick_compaction(levels, config)} : \E merged \in {Merged(job, floor')} :
         LET table == WriteTable(merged, next_table_id, job.target_level)
         IN  IF merged = <<>>
             THEN /\ step' = [op |-> "compact_commit", job |-> job, outputs |-> <<>>]
                  /\ UNCHANGED <<next_table_id, files>>
             ELSE /\ step' = [op |-> "compact_write", job |-> job, outputs |-> <<table.meta>>]
                  /\ files' = files @@ (next_table_id :> [table |-> table, complete |-> FALSE])
                  /\ next_table_id' = next_table_id + 1
    /\ UNCHANGED <<status, active, frozen, levels, config, open_tables, checkpoint_seqno,
                   edits_written, log, unsynced, wal, replayed, failed, crashes, setting>>

(* The output is synced and opened.                                        *)
CompactSync ==
    /\ status = "up" /\ step.op = "compact_write"
    /\ LET id == step.outputs[1].id
       IN  /\ files' = [files EXCEPT ![id].complete = TRUE]
           /\ open_tables' = open_tables \cup {id}
    /\ step' = [step EXCEPT !.op = "compact_commit"]
    /\ UNCHANGED <<status, active, frozen, levels, config, next_table_id, checkpoint_seqno,
                   edits_written, log, unsynced, caller, failed, crashes, setting>>

(* The half-written output is left behind.                                 *)
CompactWriteFails ==
    /\ status = "up" /\ step.op = "compact_write" /\ MayFail("write")
    /\ step' = Idle
    /\ UNCHANGED <<status, memory, disk, caller, crashes, setting>>

Swap(job, outputs) ==
    LET inputs == all_inputs(job)
    IN  Batch([i \in DOMAIN outputs |-> AddTable(outputs[i])] \o
              [i \in DOMAIN inputs |-> RemoveTable(inputs[i].level, inputs[i].id)])

(* The edit's append failed: the output is closed and its file removed.    *)
CompactCommitFails ==
    /\ status = "up" /\ step.op = "compact_commit" /\ MayFail("swap")
    /\ AppendFails(Swap(step.job, step.outputs))
    /\ LET gone == {t.id : t \in ToSet(step.outputs)}
       IN  /\ open_tables' = open_tables \ gone
           /\ files' = [id \in DOMAIN files \ gone |-> files[id]]
    /\ step' = Idle
    /\ UNCHANGED <<status, active, frozen, levels, config, next_table_id, checkpoint_seqno,
                   caller, crashes, setting>>

(* The whole swap is one edit; then the level set follows it.              *)
CompactCommit ==
    /\ status = "up" /\ step.op = "compact_commit"
    /\ AppendOk(Swap(step.job, step.outputs))
    /\ levels' = apply(levels, step.job, step.outputs)
    /\ LET gone == {t.id : t \in ToSet(all_inputs(step.job))}
       IN  open_tables' = open_tables \ gone
    /\ step' = [step EXCEPT !.op = "compact_unlink"]
    /\ UNCHANGED <<status, active, frozen, config, next_table_id, checkpoint_seqno, files,
                   caller, failed, crashes, setting>>

(* The inputs' files are removed; an unlink that fails leaves an orphan.   *)
CompactUnlink ==
    /\ status = "up" /\ step.op = "compact_unlink"
    /\ \E gone \in {{t.id : t \in ToSet(all_inputs(step.job))}, {}} :
         files' = [id \in DOMAIN files \ gone |-> files[id]]
    /\ step' = [op |-> IF edits_written < CompactAfterEdits THEN "idle" ELSE "compact_manifest"]
    /\ UNCHANGED <<status, memory, log, unsynced, caller, failed, crashes, setting>>

(* The log becomes one snapshot of every level; or the rewrite fails       *)
(* before its rename, and the old log stays in use.                        *)
maybe_compact_manifest ==
    /\ status = "up" /\ step.op = "compact_manifest"
    /\ \/ /\ log' = SnapshotLog(AllTables(levels), next_table_id, checkpoint_seqno)
          /\ unsynced' = <<>>
          /\ edits_written' = 0
          /\ UNCHANGED failed
       \/ /\ MayFail("rewrite")
          /\ UNCHANGED <<log, unsynced, edits_written>>
    /\ step' = Idle
    /\ UNCHANGED <<status, active, frozen, levels, config, next_table_id, open_tables,
                   checkpoint_seqno, files, caller, crashes, setting>>

-----------------------------------------------------------------------------
(* Crash and recovery.                                                     *)

EmptyMemory ==
    /\ active' = {}
    /\ frozen' = <<>>
    /\ levels' = <<>>
    /\ next_table_id' = 1
    /\ open_tables' = {}
    /\ checkpoint_seqno' = 0
    /\ edits_written' = 0

(* A frame is being written, or some lie unwritten in the buffer.          *)
Appending ==
    \/ step.op \in {"flush_commit", "set_checkpoint", "compact_commit"}
    \/ unsynced # <<>>

(* An append may be cut off anywhere: some unsynced edits survive, and     *)
(* half a frame may follow them.                                           *)
Crash ==
    /\ status = "up" /\ crashes < setting.crashes
    /\ \E n \in 0 .. Len(unsynced) :
       \E tail \in IF Appending THEN {<<>>, <<Torn>>} ELSE {<<>>} :
         log' = log \o SubSeq(unsynced, 1, n) \o tail
    /\ unsynced' = <<>>
    /\ EmptyMemory
    /\ status' = "down"
    /\ step' = Idle
    /\ replayed' = 0
    /\ crashes' = crashes + 1
    /\ UNCHANGED <<config, files, wal, floor, failed, setting>>

(* A table's file is there and whole.                                      *)
Readable(id) == id \in DOMAIN files /\ files[id].complete

(* What open demands of the disk; anything else is an error.               *)
Openable ==
    /\ Recoverable(log)
    /\ \A t \in ToSet(recover(log).tables) : Readable(t.id)

(* Wrong on purpose: the torn tail stays where the next edit goes.         *)
TruncatedTail(frames) == frames

open_truncated(frames) == Intact(frames)

Reinstall(cfg, tables) == FoldLeft(add_table, new_levels(cfg), tables)

(* open: replay the log, open its tables, remove every other file, cut the *)
(* torn tail, and rewrite a long log.                                      *)
open ==
    /\ status = "down" /\ Openable
    /\ LET state == recover(log)
           live == {t.id : t \in ToSet(state.tables)}
           ids == {state.next_table_id} \cup {id + 1 : id \in live}
       IN  /\ config' = setting.configs[crashes + 1]
           /\ levels' = Reinstall(config', state.tables)
           /\ open_tables' = live
           /\ next_table_id' = Greatest(ids)
           /\ checkpoint_seqno' = state.checkpoint_seqno
           /\ files' = [id \in live |-> files[id]]
           /\ log' = IF Len(Intact(log)) > CompactAfterEdits
                     THEN SnapshotLog(state.tables, Greatest(ids), state.checkpoint_seqno)
                     ELSE open_truncated(log)
           /\ replayed' = state.checkpoint_seqno
    /\ status' = "up"
    /\ UNCHANGED <<step, active, frozen, edits_written, unsynced, wal, floor, failed, crashes, setting>>

(* A crash inside open, after the orphans are gone.                        *)
CrashInOpen ==
    /\ status = "down" /\ Openable /\ crashes < setting.crashes
    /\ files' = [id \in {t.id : t \in ToSet(recover(log).tables)} |-> files[id]]
    /\ crashes' = crashes + 1
    /\ UNCHANGED <<status, step, memory, log, unsynced, caller, failed, setting>>

-----------------------------------------------------------------------------
LsmInit ==
    /\ setting \in Settings
    /\ status = "up" /\ step = Idle
    /\ active = {} /\ frozen = <<>>
    /\ config = setting.configs[1]
    /\ levels = new_levels(config)
    /\ next_table_id = 1 /\ open_tables = {}
    /\ checkpoint_seqno = 0 /\ edits_written = 0
    /\ files = <<>> /\ log = <<>> /\ unsynced = <<>>
    /\ wal = <<>> /\ replayed = 0 /\ floor = 0
    /\ failed = {} /\ crashes = 0

Flush ==
    \/ FlushBegin \/ FlushSync \/ FlushCommit \/ FlushCheckpoint
    \/ FlushWriteFails \/ FlushCommitFails \/ FlushCheckpointFails

Compact ==
    \/ CompactBegin \/ CompactSync \/ CompactCommit \/ CompactUnlink \/ maybe_compact_manifest
    \/ CompactWriteFails \/ CompactCommitFails

LsmNext ==
    \/ \E k \in Keys : put(k, Len(wal) + 1) \/ put(k, Tombstone)
    \/ Replay \/ rotate
    \/ Flush \/ Compact
    \/ Crash \/ open \/ CrashInOpen

LsmSpec == LsmInit /\ [][LsmNext]_lsmvars

-----------------------------------------------------------------------------
(* Properties.                                                             *)

LsmTypeOK ==
    /\ status \in {"up", "down"}
    /\ active \in SUBSET [key : Keys, seqno : 1 .. setting.writes, slot : 1 .. setting.writes \cup {Tombstone}]
    /\ next_table_id \in 1 .. MaxTableId + 1
    /\ open_tables \subseteq DOMAIN files /\ open_tables \subseteq 1 .. next_table_id - 1
    /\ checkpoint_seqno \in 0 .. Len(wal)
    /\ replayed \in 0 .. Len(wal)
    /\ crashes \in 0 .. setting.crashes

(* What the writes up to a snapshot make of a key; a deleted key and one   *)
(* never written read the same.                                            *)
WrittenAsOf(k, snapshot) ==
    LET ns == {n \in 1 .. snapshot : wal[n].key = k}
    IN  IF ns = {} \/ wal[Greatest(ns)].slot = Tombstone
        THEN Missing ELSE wal[Greatest(ns)].slot

(* Once the caller's log is back in, every key read at any live snapshot   *)
(* gives the newest write at or below it: neither rotation, flush,         *)
(* compaction nor recovery loses a version, shows an older one, or brings  *)
(* back what was deleted (engine.rs:265 over all levels).                  *)
LsmReadsTheWrites ==
    status = "up" /\ replayed = Len(wal) =>
        \A k \in Keys : \A s \in floor .. Len(wal) :
            LET found == get(k, s)
            IN  WrittenAsOf(k, s) = (IF found = Tombstone THEN Missing ELSE found)

(* Below L0 no two tables of a level share a key, which lookup_order and   *)
(* the choice of target tables rely on (compaction.rs:8-11).               *)
LevelsDoNotOverlap ==
    \A l \in 2 .. Len(levels) : \A i, j \in DOMAIN levels[l] :
        i < j => levels[l][i].max_key < levels[l][j].min_key

(* The parts of the engine are well formed and its levels are sorted runs. *)
LevelsAreSound == LsmTypeOK /\ LevelsDoNotOverlap

(* After a crash the manifest references no file that does not exist or is *)
(* not whole, and has nothing behind a torn frame, so open succeeds        *)
(* (manifest.rs:41, engine.rs:102).                                        *)
ManifestNamesWholeFiles == status = "down" => Openable
=============================================================================
