----------------------------- MODULE Isolation ------------------------------
(***************************************************************************)
(* VersionStore as its clients see it: the mapping under which it          *)
(* implements SnapshotKV.                                                  *)
(***************************************************************************)
EXTENDS VersionStore

(* What clients can see: the newest committed map, and for each live       *)
(* transaction its own and the keys committed since it began.              *)
Store == [k \in Keys |-> Visible(k, current_ts)]

Shown(txn) ==
    [view |-> [k \in Keys |-> Visible(k, txn.snapshot)],
     read_only |-> txn.read_only,
     writes |-> txn.writes,
     stale |-> {k \in Keys : NewerThan(k, txn.snapshot)}]

Txns == [t \in DOMAIN active |-> Shown(active[t])]

KV == INSTANCE SnapshotKV WITH
    TxnIds <- 1 .. MaxTxnId, store <- Store, limbo <- {}, txns <- Txns

(* The store implements snapshot isolation (SnapshotKV): each transaction  *)
(* sees the map as it was when it began plus its own writes, commits take  *)
(* effect at once and entirely, and a commit is refused exactly when a key *)
(* it wrote has been committed since (lib.rs:404-473).  Checkpoints change *)
(* nothing a client can see.                                               *)
SnapshotIsolation == KV!KVSpec
=============================================================================
