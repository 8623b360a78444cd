--------------------------------- MODULE Wal ---------------------------------
(***************************************************************************)
(* The write-ahead log, rust/src/wal.rs: its records, what a commit and a  *)
(* checkpoint write to it, and what recovery reads from it.  The log is a  *)
(* sequence of whole frames; a frame that fails its checksum is Torn.      *)
(***************************************************************************)
EXTENDS Chains, FiniteSetsExt, Ordered

(* Keys are byte strings of bounded length.                                *)
ASSUME KeysAssumption == IsFiniteSet(Keys)

-----------------------------------------------------------------------------
(* Log frames.                                                             *)

Write(txn, k, v) == [type |-> "write", txn |-> txn, key |-> k, val |-> v]
CommitRecord(txn, ts) == [type |-> "commit", txn |-> txn, ts |-> ts]
CheckpointRecord(ts) == [type |-> "checkpoint", ts |-> ts]
Torn == [type |-> "torn"]

(* log_commit: every write of the transaction, then its commit record.     *)
LogCommit(txn, ts, writes) ==
    LET keys == Listing({k \in Keys : writes[k] # Absent})
    IN  [i \in 1 .. Len(keys) |-> Write(txn, keys[i], writes[keys[i]])]
            \o <<CommitRecord(txn, ts)>>

(* Wrong on purpose: the commits a reader keeps out of the tree are gone.  *)
ResetToMarker(tree_ts, first_id, retained) == <<CheckpointRecord(tree_ts)>>

(* The log a checkpoint leaves: a marker and the commits the tree lacks,   *)
(* oldest first, under ids from first_id on.  retained gives the writes of *)
(* each by its timestamp.                                                  *)
ResetLog(tree_ts, first_id, retained) ==
    LET stamps == SortBy(DOMAIN retained, <)
    IN  <<CheckpointRecord(tree_ts)>> \o
            Joined([i \in 1 .. Len(stamps) |->
                LogCommit(first_id + i - 1, stamps[i], retained[stamps[i]])])

(* Wal::recover reads up to the first frame that fails its checksum.       *)
ValidPrefix(frames) ==
    LET torn == {i \in 1 .. Len(frames) : frames[i] = Torn}
    IN  IF torn = {} THEN frames
        ELSE SubSeq(frames, 1, (CHOOSE i \in torn : \A j \in torn : i <= j) - 1)

-----------------------------------------------------------------------------
(* Recovery.                                                               *)

CommitFrames(frames) == {i \in 1 .. Len(frames) : frames[i].type = "commit"}

(* Pass 1: the timestamp each transaction committed at, the last one if it *)
(* has several commit records.                                             *)
CommitTs(frames) ==
    [txn \in {frames[i].txn : i \in CommitFrames(frames)} |->
        frames[CHOOSE i \in CommitFrames(frames) :
                /\ frames[i].txn = txn
                /\ \A j \in CommitFrames(frames) : frames[j].txn = txn => j <= i].ts]

(* Wrong on purpose: overlooks transactions that did not commit.           *)
MaxCommittedTxnIdIn(frames) ==
    Max({0} \cup {frames[i].txn : i \in CommitFrames(frames)})

MaxTxnIdIn(frames) ==
    Max({0} \cup {frames[i].txn : i \in {j \in 1 .. Len(frames) :
                                            frames[j].type \in {"write", "commit"}}})

(* Pass 2: the writes to key k of the transactions that committed after    *)
(* tree_ts.                                                                *)
LiveWrites(frames, tree_ts, k) ==
    {i \in 1 .. Len(frames) :
        /\ frames[i].type = "write" /\ frames[i].key = k
        /\ frames[i].txn \in DOMAIN CommitTs(frames)
        /\ CommitTs(frames)[frames[i].txn] > tree_ts}

(* Replay: the versions of key k in the log and not in a tree at tree_ts,  *)
(* sorted by timestamp.  Transactions with one timestamp come in the order *)
(* in which a hash map yields them: rank.                                  *)
Replayed(frames, tree_ts, rank, k) ==
    LET commit_ts == CommitTs(frames)
        Before(i, j) ==
            LET t == frames[i].txn  u == frames[j].txn
            IN  \/ commit_ts[t] < commit_ts[u]
                \/ commit_ts[t] = commit_ts[u] /\ rank[t] < rank[u]
                \/ t = u /\ i < j
        order == SortBy(LiveWrites(frames, tree_ts, k), Before)
    IN  [n \in 1 .. Len(order) |->
            [ts |-> commit_ts[frames[order[n]].txn], val |-> frames[order[n]].val]]

(* Every order in which the transactions of the log may come, when two of  *)
(* them share a timestamp; otherwise the order makes no difference.        *)
Ranks(frames) ==
    LET commit_ts == CommitTs(frames)
        ids == DOMAIN commit_ts
    IN  IF IsInjective(commit_ts)
        THEN {commit_ts}
        ELSE {f \in [ids -> 1 .. Cardinality(ids)] : IsInjective(f)}

(* The newest commit timestamp recovery finds in a database file and a log.*)
NewestTs(file, frames) ==
    LET commit_ts == CommitTs(ValidPrefix(frames))
    IN  Max({file.tree_ts} \cup {commit_ts[t] : t \in DOMAIN commit_ts})

-----------------------------------------------------------------------------
(* What a log holds of the committed history, for the proofs.              *)

(* A frame that passes its checksum.                                       *)
Frame ==
    [type : {"write"}, txn : Nat, key : Keys, val : Slot]
        \cup [type : {"commit"}, txn : Nat, ts : Nat]
        \cup [type : {"checkpoint"}, ts : Nat]

WriteFrames(frames) == {i \in 1 .. Len(frames) : frames[i].type = "write"}

(* The versions in the histories of all keys.                              *)
CommittedVersion == [key : Keys, ts : Nat, val : Slot]

Versions(H) ==
    UNION {{[key |-> k, ts |-> H[k][i].ts, val |-> H[k][i].val] : i \in 1 .. Len(H[k])} :
                k \in Keys}

(* Commit records come in the order of their timestamps, one for each      *)
(* transaction, after its writes, of which there is one for each key.      *)
WellFormed(frames) ==
    /\ \A i, j \in CommitFrames(frames) : i < j => frames[i].ts < frames[j].ts
    /\ \A i, j \in CommitFrames(frames) : frames[i].txn = frames[j].txn => i = j
    /\ \A i, j \in WriteFrames(frames) :
            frames[i].txn = frames[j].txn /\ frames[i].key = frames[j].key => i = j
    /\ \A i \in WriteFrames(frames), j \in CommitFrames(frames) :
            frames[i].txn = frames[j].txn => i < j

(* The log has, of the versions V, exactly and entirely the commits above  *)
(* lo, and perhaps some below, and none above hi.                          *)
Holds(frames, V, lo, hi) ==
    /\ \A j \in CommitFrames(frames) : frames[j].ts <= hi
    /\ \A i \in WriteFrames(frames), j \in CommitFrames(frames) :
            frames[i].txn = frames[j].txn =>
                [key |-> frames[i].key, ts |-> frames[j].ts, val |-> frames[i].val] \in V
    /\ \A j \in CommitFrames(frames), x \in V :
            x.ts = frames[j].ts =>
                \E i \in WriteFrames(frames) : /\ frames[i].txn = frames[j].txn
                                               /\ frames[i].key = x.key
                                               /\ frames[i].val = x.val
    /\ \A x \in V : lo < x.ts /\ x.ts <= hi =>
            \E j \in CommitFrames(frames) : frames[j].ts = x.ts

(* No frame of the log is of transaction id.                               *)
Fresh(frames, id) ==
    \A i \in WriteFrames(frames) \cup CommitFrames(frames) : frames[i].txn # id

(* Over a tree as of lo, the log makes up the histories H, which reach hi. *)
Keeps(frames, H, lo, hi) ==
    /\ frames \in Seq(Frame)
    /\ H \in [Keys -> Seq(Committed)]
    /\ lo \in Nat /\ hi \in Nat /\ lo <= hi
    /\ \A k \in Keys : Sorted(H[k], hi)
    /\ WellFormed(frames)
    /\ Holds(frames, Versions(H), lo, hi)
=============================================================================
