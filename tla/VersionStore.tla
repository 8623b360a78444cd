---------------------------- MODULE VersionStore ----------------------------
(***************************************************************************)
(* The multi-version store of rust/src/txn.rs together with the            *)
(* transaction operations of rust/src/lib.rs that drive it.  Every         *)
(* operation runs under the engine's write lock (Database::inner), so each *)
(* is one action.  The B+Tree below the store is the map `tree' from keys  *)
(* to what a lookup returns.                                               *)
(*                                                                         *)
(* `history' is an auxiliary variable: every version ever committed to a   *)
(* key, oldest first, with the snapshot its writer read from.  No action   *)
(* reads it; the properties compare the store with it.                     *)
(***************************************************************************)
EXTENDS Chains, FiniteSets

CONSTANTS
    MaxTxnId    \* bound: past it no transaction begins, and no checkpoint that
                \* would hand out ids is called for

ASSUME MaxTxnIdAssumption == MaxTxnId \in Nat

VARIABLES
    chains,         \* VersionStore::chains, newest last
    next_ts,        \* next commit timestamp
    next_txn_id,    \* next transaction id
    active,         \* live transactions by id
    live_snapshots, \* how many live transactions hold each snapshot
    tree,           \* the tree as this process reads it
    history         \* auxiliary: all committed versions of each key

vsvars == <<chains, next_ts, next_txn_id, active, live_snapshots, tree, history>>

Transaction == [snapshot : Nat, read_only : BOOLEAN, writes : [Keys -> Slot \cup {Absent}]]

(* One type invariant for the store: the shapes of txn.rs:42-121.          *)
TypeOK ==
    /\ chains \in [Keys -> Seq(Version)]
    /\ next_ts \in Nat \ {0}
    /\ next_txn_id \in Nat \ {0}
    /\ DOMAIN active \subseteq 1 .. (next_txn_id - 1)
    /\ active \in [DOMAIN active -> Transaction]
    /\ DOMAIN live_snapshots \subseteq 0 .. (next_ts - 1)
    /\ live_snapshots \in [DOMAIN live_snapshots -> Nat \ {0}]
    /\ tree \in [Keys -> Slot]
    /\ history \in [Keys -> Seq([ts : Nat, val : Slot, snap : Nat])]

-----------------------------------------------------------------------------
(* Reading.                                                                *)

current_ts == next_ts - 1

Visible(k, snapshot) == AsOf(chains[k], tree[k], snapshot)

Read(t, k) ==
    IF active[t].writes[k] # Absent
    THEN active[t].writes[k]
    ELSE Visible(k, active[t].snapshot)

Writes(t) == {k \in Keys : active[t].writes[k] # Absent}

(* Wrong on purpose: compares the oldest version of the chain.             *)
OldestNewerThan(k, snapshot) ==
    chains[k] # <<>> /\ chains[k][1].ts > snapshot

NewerThan(k, snapshot) ==
    chains[k] # <<>> /\ chains[k][Len(chains[k])].ts > snapshot

detect_conflict(t) == \E k \in Writes(t) : NewerThan(k, active[t].snapshot)

merge_watermark ==
    IF DOMAIN live_snapshots = {}
    THEN current_ts
    ELSE CHOOSE s \in DOMAIN live_snapshots :
            \A r \in DOMAIN live_snapshots : s <= r

-----------------------------------------------------------------------------
(* Transactions.                                                           *)

(* One more live transaction holds s.                                      *)
hold_snapshot(s) ==
    live_snapshots' = [r \in DOMAIN live_snapshots \cup {s} |->
                        IF r # s THEN live_snapshots[r]
                        ELSE IF s \in DOMAIN live_snapshots THEN live_snapshots[s] + 1
                        ELSE 1]

(* One fewer; the last one takes the entry with it.                        *)
release_snapshot(s) ==
    live_snapshots' =
        IF live_snapshots[s] = 1
        THEN [r \in DOMAIN live_snapshots \ {s} |-> live_snapshots[r]]
        ELSE [live_snapshots EXCEPT ![s] = @ - 1]

(* Wrong on purpose: the snapshot includes the commit yet to come.         *)
BeginAhead(read_only) ==
    /\ next_txn_id <= MaxTxnId
    /\ next_txn_id' = next_txn_id + 1
    /\ hold_snapshot(next_ts)
    /\ active' = [t \in DOMAIN active \cup {next_txn_id} |->
                    IF t = next_txn_id
                    THEN [snapshot |-> next_ts, read_only |-> read_only,
                          writes |-> [k \in Keys |-> Absent]]
                    ELSE active[t]]
    /\ UNCHANGED <<chains, next_ts, tree, history>>

begin(read_only) ==
    /\ next_txn_id <= MaxTxnId
    /\ next_txn_id' = next_txn_id + 1
    /\ hold_snapshot(current_ts)
    /\ active' = [t \in DOMAIN active \cup {next_txn_id} |->
                    IF t = next_txn_id
                    THEN [snapshot |-> current_ts, read_only |-> read_only,
                          writes |-> [k \in Keys |-> Absent]]
                    ELSE active[t]]
    /\ UNCHANGED <<chains, next_ts, tree, history>>

stage(t, k, write) ==
    /\ ~active[t].read_only
    /\ active' = [active EXCEPT ![t].writes[k] = write]
    /\ UNCHANGED <<chains, next_ts, next_txn_id, live_snapshots, tree, history>>

insert(t, k, v) == t \in DOMAIN active /\ stage(t, k, v)

(* A delete of a key the transaction cannot see is refused (NotFound).     *)
delete(t, k) ==
    /\ t \in DOMAIN active
    /\ Read(t, k) # None
    /\ stage(t, k, None)

(* Wrong on purpose: the snapshot stays held.                              *)
EndWithoutRelease(t) ==
    /\ active' = [u \in DOMAIN active \ {t} |-> active[u]]
    /\ UNCHANGED live_snapshots

(* active.remove and release_snapshot: the end of every transaction.       *)
EndTransaction(t) ==
    /\ active' = [u \in DOMAIN active \ {t} |-> active[u]]
    /\ release_snapshot(active[t].snapshot)

rollback(t) ==
    /\ t \in DOMAIN active
    /\ EndTransaction(t)
    /\ UNCHANGED <<chains, next_ts, next_txn_id, tree, history>>

(* Database::commit returns Ok without touching the store.                 *)
CommitNothing(t) ==
    /\ t \in DOMAIN active
    /\ active[t].read_only \/ Writes(t) = {}
    /\ rollback(t)

(* Database::commit returns Conflict and aborts the transaction.           *)
CommitConflicts(t) ==
    /\ t \in DOMAIN active
    /\ ~active[t].read_only
    /\ detect_conflict(t)
    /\ rollback(t)

MayCommit(t) ==
    /\ t \in DOMAIN active
    /\ ~active[t].read_only
    /\ Writes(t) # {}
    /\ ~detect_conflict(t)

(* The history of a key once transaction t has committed.                  *)
AfterCommit(t, k) ==
    IF k \in Writes(t)
    THEN Append(history[k], [ts |-> next_ts, val |-> active[t].writes[k],
                             snap |-> active[t].snapshot])
    ELSE history[k]

(* VersionStore::commit: the writes become versions at a fresh timestamp.  *)
Publish(t) ==
    /\ next_ts' = next_ts + 1
    /\ chains' = [k \in Keys |->
                    IF k \in Writes(t)
                    THEN Append(chains[k], [ts |-> next_ts, val |-> active[t].writes[k]])
                    ELSE chains[k]]
    /\ history' = [k \in Keys |-> AfterCommit(t, k)]
    /\ EndTransaction(t)
    /\ UNCHANGED <<next_txn_id, tree>>

commit(t) == CommitNothing(t) \/ CommitConflicts(t) \/ (MayCommit(t) /\ Publish(t))

-----------------------------------------------------------------------------
(* Checkpoints.                                                            *)

(* Both phases of merge_into_tree: the newest version at or below the      *)
(* watermark goes to the tree, it and everything older leaves the chain.   *)
merge_into_tree(watermark) ==
    /\ tree' = [k \in Keys |-> AsOf(chains[k], tree[k], watermark)]
    /\ chains' = [k \in Keys |->
                    SubSeq(chains[k], LastAt(chains[k], watermark) + 1, Len(chains[k]))]

(* The commits above the watermark, each re-logged under a fresh id.       *)
RetainedTimestamps(watermark) ==
    {ts \in (watermark + 1) .. current_ts :
        \E k \in Keys : \E i \in 1 .. Len(chains[k]) : chains[k][i].ts = ts}

retained_commits(watermark) ==
    next_txn_id' = next_txn_id + Cardinality(RetainedTimestamps(watermark))

WithinBound(watermark) ==
    RetainedTimestamps(watermark) = {} \/ next_txn_id <= MaxTxnId

checkpoint ==
    /\ WithinBound(merge_watermark)
    /\ merge_into_tree(merge_watermark)
    /\ retained_commits(merge_watermark)
    /\ UNCHANGED <<next_ts, active, live_snapshots, history>>

-----------------------------------------------------------------------------
Init ==
    /\ chains = [k \in Keys |-> <<>>]
    /\ next_ts = 1
    /\ next_txn_id = 1
    /\ active = [t \in {} |-> 0]
    /\ live_snapshots = [s \in {} |-> 0]
    /\ tree = [k \in Keys |-> None]
    /\ history = [k \in Keys |-> <<>>]

Next ==
    \/ \E ro \in BOOLEAN : begin(ro)
    \/ \E t \in DOMAIN active :
        \/ \E k \in Keys : \E v \in Values : insert(t, k, v)
        \/ \E k \in Keys : delete(t, k)
        \/ rollback(t)
        \/ commit(t)
    \/ checkpoint

Spec == Init /\ [][Next]_vsvars

-----------------------------------------------------------------------------
(* Properties.                                                             *)

(* A live transaction reads, for every key, the newest version committed   *)
(* no later than its snapshot, however many later commits and checkpoints  *)
(* have run: VersionStore::visible over the chains that merge_into_tree    *)
(* cut (txn.rs:221, 329) agrees with the full commit history.              *)
SnapshotReads ==
    \A t \in DOMAIN active, k \in Keys :
        Visible(k, active[t].snapshot) = AsOf(history[k], None, active[t].snapshot)

(* get_auto and a new transaction see every commit (lib.rs:378, txn.rs:161):*)
(* at the current timestamp each key shows its last committed version.     *)
LatestReads ==
    \A k \in Keys :
        Visible(k, current_ts) =
            IF history[k] = <<>> THEN None ELSE history[k][Len(history[k])].val

(* First committer wins (txn.rs:230-244): the writer of each version had   *)
(* the previous version of that key in its snapshot, so no update is lost, *)
(* even when a checkpoint has already dropped that version from the chain. *)
FirstCommitterWins ==
    \A k \in Keys : \A i \in 1 .. (Len(history[k]) - 1) :
        history[k][i].ts <= history[k][i + 1].snap

(* The snapshot reference counts (txn.rs:165, 294-301) name exactly the    *)
(* snapshots of live transactions, so the merge watermark neither passes   *)
(* a reader nor stays pinned by a transaction that ended in a commit, a    *)
(* rollback or a conflict.                                                 *)
SnapshotsCounted ==
    \A s \in 0 .. current_ts :
        Cardinality({t \in DOMAIN active : active[t].snapshot = s}) =
            IF s \in DOMAIN live_snapshots THEN live_snapshots[s] ELSE 0

-----------------------------------------------------------------------------
(* The inductive invariant of the proofs, and what steps do to the store.  *)

SuffixInv == \A k \in Keys : Represents(history[k], chains[k], tree[k])

CutInv ==
    \A k \in Keys, s \in DOMAIN live_snapshots : CutBelow(history[k], chains[k], s)

SortedInv == \A k \in Keys : Sorted(history[k], current_ts)

SnapshotInv == \A t \in DOMAIN active : active[t].snapshot <= current_ts

(* The inductive invariant.                                                *)
IInv ==
    /\ TypeOK
    /\ SnapshotInv
    /\ SnapshotsCounted
    /\ SuffixInv
    /\ SortedInv
    /\ CutInv
    /\ FirstCommitterWins

(* No chain is cut above ts and every chain is above it: the tree is at ts.*)
TreeAt(ts) ==
    \A k \in Keys : /\ CutBelow(history[k], chains[k], ts)
                    /\ \A i \in 1 .. Len(chains[k]) : chains[k][i].ts > ts

(* Nothing is committed and nothing merged.                                *)
Quiet ==
    /\ UNCHANGED chains /\ UNCHANGED next_ts /\ UNCHANGED tree /\ UNCHANGED history
    /\ next_txn_id <= next_txn_id'
    /\ DOMAIN active' \subseteq DOMAIN active \cup {next_txn_id}
    /\ DOMAIN live_snapshots' \subseteq DOMAIN live_snapshots \cup {current_ts}

(* A history a commit may leave: typed, in order of timestamps, and each   *)
(* version's writer had the one before it in its snapshot.                 *)
Proper(h, bound) ==
    /\ h \in Seq(Committed)
    /\ Sorted(h, bound)
    /\ \A i \in 1 .. (Len(h) - 1) : h[i].ts <= h[i + 1].snap
=============================================================================
