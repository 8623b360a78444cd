----------------------------- MODULE Durability -----------------------------
(***************************************************************************)
(* Engine as its clients see it, crashes included: the mapping under which *)
(* it implements SnapshotKV.                                               *)
(***************************************************************************)
EXTENDS Engine

(* With sync_on_commit the engine implements SnapshotKV: clients cannot    *)
(* tell it from a map under snapshot isolation that a crash leaves alone,  *)
(* also when checkpoints fail.  While the database is not open for clients *)
(* the map is one of those that the files could still turn out to hold.    *)
(* Where commits may fail half-way, or are not synced, nothing is promised *)
(* and the map stays as it was.                                            *)
PossibleTs == {NewestTs(disk, SubSeq(log, 1, n)) : n \in synced .. Len(log)}

StoreAt(ts) == [k \in Keys |-> AsOf(history[k], None, ts)]

Promised == setting.sync_on_commit /\ setting.faults \cap {"append", "sync"} = {}

Contract == INSTANCE SnapshotKV WITH
    TxnIds <- 1 .. MaxTxnId,
    store <- [k \in Keys |-> IF Promised /\ Ready THEN Visible(k, current_ts) ELSE None],
    limbo <- IF ~Promised \/ Ready THEN {} ELSE {StoreAt(ts) : ts \in PossibleTs},
    txns <- [t \in (IF Promised THEN DOMAIN active ELSE {}) |->
                [view |-> [k \in Keys |-> Visible(k, active[t].snapshot)],
                 read_only |-> active[t].read_only,
                 writes |-> active[t].writes,
                 stale |-> {k \in Keys : NewerThan(k, active[t].snapshot)}]]

DurableSnapshotIsolation == Contract!KVSpec
=============================================================================
