---------------------------- MODULE EngineProofs ----------------------------
(***************************************************************************)
(* The engine keeps what it has promised, for any keys, values, options,   *)
(* number of crashes and length of the log.                                *)
(*                                                                         *)
(* EngineStepProofs and EngineCrashProofs show that the inductive          *)
(* invariant EInv survives each step, given what the step does to the      *)
(* version store and to the log (Supplied).  Here that is proved, step by  *)
(* step, from VersionStoreProofs and WalProofs, and the theorems follow.   *)
(***************************************************************************)
EXTENDS EngineCrashProofs, VersionStoreProofs, WalProofs

-----------------------------------------------------------------------------
(* What the steps of a commit do to the store and the log.                 *)

(* What a commit that meets no conflict adds to the histories.             *)
LEMMA CommitGrows ==
  ASSUME IInv, NEW t \in DOMAIN active, MayCommit(t)
  PROVE  /\ Grown([k \in Keys |-> AfterCommit(t, k)], history, next_ts, active[t].writes)
         /\ active[t].writes \in [Keys -> Slot \cup {Absent}]
<1> DEFINE G == [k \in Keys |-> AfterCommit(t, k)]
           w(k) == [ts |-> next_ts, val |-> active[t].writes[k], snap |-> active[t].snapshot]
<1>1. active[t].snapshot \in Nat /\ active[t].writes \in [Keys -> Slot \cup {Absent}]
  BY TransactionFields DEF IInv
<1>2. next_ts \in Nat
  BY DEF IInv, TypeOK
<1>3. ASSUME NEW k \in Keys
      PROVE  /\ G[k] \in Seq(Committed) /\ Sorted(G[k], next_ts)
             /\ active[t].writes[k] = Absent => G[k] = history[k]
             /\ active[t].writes[k] # Absent => w(k) \in Committed /\ G[k] = Append(history[k], w(k))
  <2>1. Proper(AfterCommit(t, k), next_ts)
    BY CommitExtends
  <2>2. active[t].writes[k] # Absent => w(k) \in Committed
    BY <1>1, <1>2, SMTT(20) DEF Committed
  <2> QED
    BY <2>1, <2>2, SMTT(20) DEF Proper, AfterCommit, Writes
<1>4. G \in [Keys -> Seq(Committed)]
  BY <1>3, ZenonT(30)
<1>5. \A k \in Keys : w(k).ts = next_ts /\ w(k).val = active[t].writes[k]
  OBVIOUS
<1> HIDE DEF G, w
<1>6. Grown(G, history, next_ts, active[t].writes)
  BY <1>3, <1>4, <1>5 DEF Grown
<1> QED
  BY <1>1, <1>6 DEF G

(* The frames log_commit appends (wal.rs:321-341).                         *)
LEMMA FramesAre ==
  ASSUME IInv, NEW t \in DOMAIN active, MayCommit(t)
  PROVE  t \in Nat /\ next_ts \in Nat /\ CommitBlock(Frames(t), t, next_ts, active[t].writes)
<1>1. t \in Nat /\ next_ts \in Nat
  BY DEF IInv, TypeOK
<1>2. active[t].writes \in [Keys -> Slot \cup {Absent}]
  BY CommitGrows, ZenonT(30)
<1>3. CommitBlock(LogCommit(t, next_ts, active[t].writes), t, next_ts, active[t].writes)
  BY <1>1, <1>2, LogCommitFrames
<1> QED
  BY <1>1, <1>3, SMTT(20) DEF Frames

(* Its last frame is its only commit record.                               *)
LEMMA BlockRecord ==
  ASSUME NEW b \in Seq(Frame), NEW id, NEW ts, NEW W, CommitBlock(b, id, ts, W)
  PROVE  /\ b[Len(b)] = CommitRecord(id, ts) /\ Len(b) \in Nat
         /\ \A j \in 1 .. (Len(b) - 1) : b[j].type # "commit"
  BY DEF CommitBlock

(* The log goes on keeping the histories, with the commit in them.         *)
LEMMA CommitAppended ==
  ASSUME EInv, NEW t \in DOMAIN active, StartCommit(t)
  PROVE  Appended(t)
<1> DEFINE W == active[t].writes
           G == [k \in Keys |-> AfterCommit(t, k)]
           b == Frames(t)
<1>1. op = "idle" /\ MayCommit(t) /\ log' = log \o b
  BY Zenon DEF StartCommit
<1>2. RunInv /\ LogInv
  BY DEF EInv
<1>3. IInv /\ TypeOK /\ next_ts = current_ts + 1
  BY <1>1, <1>2, OpenFacts
<1>4. t \in Nat /\ CommitBlock(b, t, next_ts, W)
  BY <1>1, <1>3, FramesAre
<1>5. Grown(G, history, next_ts, W) /\ W \in [Keys -> Slot \cup {Absent}]
  BY <1>1, <1>3, CommitGrows
<1>6. log \in Seq(Frame \cup {Torn}) /\ committing = 0
  BY <1>1, <1>2, RunTypes
<1> HIDE DEF W, G, b
<1>7. b \in Seq(Frame)
  BY <1>4 DEF CommitBlock
<1>8. /\ log' \in Seq(Frame \cup {Torn}) /\ Len(log) <= Len(log')
      /\ \A i \in 1 .. Len(log) : log'[i] = log[i]
  <2>1. b \in Seq(Frame \cup {Torn})
    BY <1>7
  <2> QED
    BY <1>1, <1>6, <2>1, SMTT(20)
<1>9. ASSUME Clean
      PROVE  /\ Keeps(log', G, disk.tree_ts, next_ts)
             /\ \A i \in WriteFrames(log') \cup CommitFrames(log') :
                    \/ log'[i].txn = t
                    \/ i \in WriteFrames(log) \cup CommitFrames(log) /\ log'[i] = log[i]
  <2>1. Keeps(log, history, disk.tree_ts, current_ts) /\ IdsSpent
    BY <1>1, <1>2, <1>3, <1>9, PendingIs, SMTT(20) DEF LogInv, PendingSays, Reach
  <2>2. Fresh(log, t)
    <3>1. 0 \notin DOMAIN active
      BY <1>3 DEF TypeOK
    <3> QED
      BY <1>6, <2>1, <3>1, SMTT(20) DEF IdsSpent, Fresh
  <2>3. Keeps(log \o b, G, disk.tree_ts, current_ts + 1)
    BY <1>3, <1>4, <1>5, <2>1, <2>2, CommitKept
  <2>4. log \in Seq(Frame) /\ next_ts \in Nat
    BY <1>3, <2>1, SMTT(20) DEF Keeps, TypeOK
  <2>5. Extended(log \o b, log, t, next_ts, W)
    BY <1>4, <1>5, <2>4, AppendedFrames
  <2>6. \A j \in WriteFrames(log) \cup CommitFrames(log) : j \in 1 .. Len(log)
    BY DEF WriteFrames, CommitFrames
  <2> QED
    BY <1>1, <1>3, <1>8, <2>3, <2>5, <2>6, ZenonT(30) DEF Extended
<1>10. \A i \in CommitFrames(log') :
          \/ i \in CommitFrames(log) /\ log'[i] = log[i]
          \/ log'[i].txn = t /\ log'[i].ts = next_ts
  <2>1. ASSUME NEW i \in 1 .. Len(log'), log'[i].type = "commit", i \notin 1 .. Len(log)
        PROVE  log'[i].txn = t /\ log'[i].ts = next_ts
    <3>1. /\ b[Len(b)] = CommitRecord(t, next_ts) /\ Len(b) \in Nat
          /\ \A j \in 1 .. (Len(b) - 1) : b[j].type # "commit"
      BY <1>4, <1>7, BlockRecord
    <3>2. PICK j \in 1 .. Len(b) : log'[i] = b[j]
      BY <1>1, <1>6, <1>7, <2>1
    <3>3. j = Len(b)
      BY <2>1, <3>1, <3>2
    <3> QED
      BY <3>1, <3>2, <3>3 DEF CommitRecord
  <2> QED
    BY <1>8, <2>1 DEF CommitFrames
<1> QED
  BY <1>8, <1>9, <1>10 DEF Appended, G

(* Publishing a commit moves no tree and changes no read below it.         *)
LEMMA CommitPublished ==
  ASSUME EInv, FinishCommit
  PROVE  Published
<1>1. op = "commit" /\ Publish(committing)
  BY Zenon DEF FinishCommit
<1>2. RunInv /\ TreeInv
  BY DEF EInv
<1>3. MayCommit(committing) /\ committing \in DOMAIN active
  BY <1>1, <1>2 DEF RunInv, MayCommit
<1>4. /\ IInv /\ next_ts = current_ts + 1 /\ current_ts \in Nat
      /\ meta.tree_ts \in Nat /\ disk.tree_ts \in Nat
  BY <1>1, <1>2, OpenFacts
<1>5. TreeAt(meta.tree_ts) /\ meta.tree_ts <= current_ts /\ disk.tree_ts <= meta.tree_ts
  BY <1>1, <1>2, SMTT(20) DEF TreeInv
<1>6. meta.tree_ts < next_ts /\ disk.tree_ts < next_ts
  BY <1>4, <1>5
<1>7. IInv'
  BY <1>1, <1>3, <1>4, PublishIInv
<1>8. \A k \in Keys : /\ CutBelow(history'[k], chains'[k], meta.tree_ts)
                      /\ \A i \in 1 .. Len(chains'[k]) : chains'[k][i].ts > meta.tree_ts
  BY <1>1, <1>3, <1>4, <1>5, <1>6, PublishTreeAt, SMTT(20)
<1>9. \A k \in Keys : AsOf(AfterCommit(committing, k), None, disk.tree_ts)
                        = AsOf(history[k], None, disk.tree_ts)
  BY <1>3, <1>4, <1>6, CommitReadsOld
<1> QED
  BY <1>7, <1>8, <1>9 DEF Published

(* A commit under way adds one version, newer than all others.             *)
LEMMA CommitUnderWay ==
  ASSUME RunInv
  PROVE  CommitAdds
<1> SUFFICES ASSUME op = "commit", NEW k \in Keys
             PROVE  LET h == AfterCommit(committing, k) IN
                    /\ Proper(h, next_ts)
                    /\ Len(history[k]) <= Len(h)
                    /\ \A i \in 1 .. Len(history[k]) : h[i] = history[k][i]
                    /\ \A i \in 1 .. Len(h) : i \in 1 .. Len(history[k]) \/ h[i].ts = next_ts
                    /\ \A ts \in Nat : ts <= current_ts => AsOf(h, None, ts) = AsOf(history[k], None, ts)
  BY Zenon DEF CommitAdds
<1> DEFINE t == committing
           h == AfterCommit(t, k)
           w == [ts |-> next_ts, val |-> active[t].writes[k], snap |-> active[t].snapshot]
<1>1. MayCommit(t) /\ t \in DOMAIN active
  BY DEF RunInv, MayCommit
<1>2. IInv /\ TypeOK /\ next_ts = current_ts + 1 /\ current_ts \in Nat
  BY OpenFacts
<1>3. /\ Proper(h, next_ts) /\ Len(history[k]) <= Len(h)
      /\ \A i \in 1 .. Len(history[k]) : h[i] = history[k][i]
  BY <1>1, <1>2, CommitExtends
<1>4. history[k] \in Seq(Committed)
  BY <1>2, KeyFacts, SMTT(20)
<1>5. h = Append(history[k], w) \/ h = history[k]
  BY DEF AfterCommit
<1>6. \A i \in 1 .. Len(h) : i \in 1 .. Len(history[k]) \/ h[i].ts = next_ts
  <2>1. w.ts = next_ts
    OBVIOUS
  <2> HIDE DEF h, w
  <2>2. CASE h = Append(history[k], w)
    BY <1>4, <2>1, <2>2
  <2> QED
    BY <1>5, <2>2
<1>7. ASSUME NEW ts \in Nat, ts <= current_ts
      PROVE  AsOf(h, None, ts) = AsOf(history[k], None, ts)
  <2>1. ts < next_ts
    BY <1>2, <1>7
  <2> QED
    BY <1>1, <1>2, <2>1, CommitReadsOld
<1> QED
  BY <1>3, <1>6, <1>7

-----------------------------------------------------------------------------
(* What the steps of a checkpoint do to the store and the log.             *)

(* The merge leaves the tree at the watermark, and the commits above it    *)
(* are as many as it took ids for, or fewer.                               *)
LEMMA MergeMerges ==
  ASSUME EInv, Merge
  PROVE  Merged
<1> DEFINE w == merge_watermark
           D == RetainedTimestamps(w)
           E == RetainedTimestamps(meta.tree_ts)'
<1>1. /\ op = "merge" /\ merge_into_tree(w) /\ retained_commits(MergedTs)
      /\ meta' = [tree_ts |-> MergedTs, next_txn_id |-> next_txn_id']
      /\ UNCHANGED <<next_ts, active, live_snapshots, history>>
  BY Zenon DEF Merge
<1>2. RunInv /\ TreeInv
  BY DEF EInv
<1>3. IInv /\ TypeOK /\ next_txn_id \in Nat \ {0} /\ meta.tree_ts \in Nat /\ current_ts \in Nat
  BY <1>1, <1>2, OpenFacts
<1>4. /\ TreeAt(meta.tree_ts) /\ meta.tree_ts <= current_ts
      /\ \A s \in DOMAIN live_snapshots : meta.tree_ts <= s
  BY <1>1, <1>2 DEF TreeInv
<1>5. /\ w \in Nat /\ w <= current_ts /\ \A s \in DOMAIN live_snapshots : w <= s
      /\ meta.tree_ts <= w
  BY <1>3, <1>4, WatermarkFacts
<1>6. MergedTs = w
  BY <1>3, <1>5, MaxOfTwo DEF MergedTs
<1>7. IsFiniteSet(D) /\ Cardinality(D) \in Nat
  BY <1>3, <1>5, RetainedFinite
<1>8. next_txn_id' = next_txn_id + Cardinality(D) /\ meta'.tree_ts = w
  BY <1>1, <1>6 DEF retained_commits
<1>9. IInv'
  <2>1. next_txn_id' \in Nat /\ next_txn_id <= next_txn_id'
    BY <1>3, <1>7, <1>8, SMTT(20)
  <2> QED
    BY <1>1, <1>3, <2>1, MergeIInv
<1>10. \A k \in Keys : /\ CutBelow(history[k], chains'[k], w)
                        /\ \A i \in 1 .. Len(chains'[k]) : chains'[k][i].ts > w
  BY <1>1, <1>3, <1>4, <1>5, MergeTreeAt, SMTT(20)
<1>11. E \subseteq D
  <2>1. ASSUME NEW ts \in E
        PROVE  ts \in D
    <3>1. /\ ts \in (w + 1) .. current_ts
          /\ \E k \in Keys : \E i \in 1 .. Len(chains'[k]) : chains'[k][i].ts = ts
      BY <1>1, <1>8, SMTT(20) DEF RetainedTimestamps, current_ts
    <3>2. UNCHANGED next_ts
      BY <1>1
    <3> QED
      BY <1>1, <1>3, <3>1, <3>2, MergeRetains
  <2> QED
    BY <2>1, SMTT(20)
<1> HIDE DEF D, E, w
<1>12. Cardinality(E) \in Nat /\ Cardinality(E) <= Cardinality(D)
  BY <1>7, <1>11, FS_Subset, FS_CardinalityType, SMTT(20)
<1> QED
  BY <1>5, <1>6, <1>7, <1>9, <1>10, <1>12, Zenon DEF Merged, D, E, w

(* The tree a flush writes is the state as of its timestamp, and the log   *)
(* has the rest.                                                           *)
LEMMA ImageIsKept ==
  ASSUME RunInv, TreeInv, LogInv, op \in {"idle", "flush"}
  PROVE  ImageKept
<1>1. /\ IInv /\ TypeOK /\ meta.tree_ts \in Nat /\ current_ts \in Nat
  BY OpenFacts, SMTT(20)
<1>2. TreeAt(meta.tree_ts) /\ meta.tree_ts <= current_ts /\ disk.tree_ts <= meta.tree_ts
  BY DEF TreeInv
<1>3. \A k \in Keys : tree[k] = AsOf(history[k], None, meta.tree_ts)
  BY <1>1, <1>2, TreeIsAsOf
<1>4. ASSUME Clean
      PROVE  Keeps(log, history, meta.tree_ts, current_ts)
  <2>1. Keeps(log, history, disk.tree_ts, current_ts)
    BY <1>1, <1>4, PendingIs, SMTT(20) DEF LogInv, PendingSays, Reach
  <2> QED
    BY <1>1, <1>2, <2>1, RaiseKept, SMTT(20)
<1> QED
  BY <1>3, <1>4 DEF ImageKept

(* The retained commits are those of the chains, above the tree and under  *)
(* ids the checkpoint reserved.                                            *)
LEMMA ResetReady ==
  ASSUME RunInv, TreeInv, Reserved, op = "reset"
  PROVE  LET lo == meta.tree_ts
             D == RetainedTimestamps(lo)
             first == next_txn_id - Cardinality(D)
         IN  /\ lo \in Nat /\ current_ts \in Nat /\ lo <= current_ts /\ first \in Nat
             /\ history \in [Keys -> Seq(Committed)] /\ chains \in [Keys -> Seq(Version)]
             /\ \A k \in Keys : Sorted(history[k], current_ts)
             /\ \A k \in Keys : Represents(history[k], chains[k], tree[k])
                                /\ CutBelow(history[k], chains[k], lo)
             /\ IsFiniteSet(D)
             /\ \A x \in D : x \in Nat /\ lo < x /\ x <= current_ts
             /\ \A k \in Keys : \A i \in 1 .. Len(chains[k]) : chains[k][i].ts \in D
             /\ \A n \in first .. (first + Cardinality(D) - 1) :
                    n < next_txn_id /\ n \notin DOMAIN active
<1> DEFINE lo == meta.tree_ts
           D == RetainedTimestamps(lo)
           first == next_txn_id - Cardinality(D)
<1>1. /\ IInv /\ TypeOK /\ lo \in Nat /\ current_ts \in Nat /\ next_txn_id \in Nat
  BY OpenFacts, SMTT(20)
<1>2. TreeAt(lo) /\ lo <= current_ts
  BY DEF TreeInv
<1>3. Cardinality(D) < next_txn_id /\ DOMAIN active \subseteq 1 .. (next_txn_id - 1 - Cardinality(D))
  BY DEF Reserved
<1>4. IsFiniteSet(D) /\ Cardinality(D) \in Nat
  BY <1>1, RetainedFinite, SMTT(20)
<1>5. history \in [Keys -> Seq(Committed)] /\ chains \in [Keys -> Seq(Version)]
  BY <1>1, ZenonT(30) DEF TypeOK, Committed
<1>6. \A k \in Keys : Sorted(history[k], current_ts)
  BY <1>1, Zenon DEF IInv, SortedInv
<1>7. \A k \in Keys : Represents(history[k], chains[k], tree[k]) /\ CutBelow(history[k], chains[k], lo)
  BY <1>1, <1>2, ZenonT(30) DEF IInv, SuffixInv, TreeAt
<1>8. /\ \A x \in D : x \in Nat /\ lo < x /\ x <= current_ts
      /\ \A k \in Keys : \A i \in 1 .. Len(chains[k]) : chains[k][i].ts \in D
  BY <1>1, <1>2, ChainsRetained
<1> HIDE DEF D
<1>9. first \in Nat
  BY <1>1, <1>3, <1>4
<1>10. \A n \in first .. (first + Cardinality(D) - 1) : n < next_txn_id /\ n \notin DOMAIN active
  BY <1>1, <1>3, <1>4
<1> QED
  BY <1>1, <1>2, <1>4, <1>5, <1>6, <1>7, <1>8, <1>9, <1>10, Zenon DEF D

(* Once the tree is in the file, the new log makes up the histories with   *)
(* it, under ids that no transaction has; so does an empty log, if there   *)
(* is nothing to retain (wal.rs:370-449).                                  *)
LEMMA FreshKept ==
  ASSUME RunInv, TreeInv, Reserved, op = "reset"
  PROVE  NewLogKept
<1> DEFINE lo == meta.tree_ts
           D == RetainedTimestamps(lo)
           first == next_txn_id - Cardinality(D)
<1>1. /\ lo \in Nat /\ current_ts \in Nat /\ lo <= current_ts /\ first \in Nat
      /\ history \in [Keys -> Seq(Committed)] /\ chains \in [Keys -> Seq(Version)]
      /\ \A k \in Keys : Sorted(history[k], current_ts)
      /\ IsFiniteSet(D)
  BY ResetReady
<1>2. \A k \in Keys : Represents(history[k], chains[k], tree[k]) /\ CutBelow(history[k], chains[k], lo)
  BY ResetReady, ZenonT(30)
<1>3. \A x \in D : x \in Nat /\ lo < x /\ x <= current_ts
  BY ResetReady
<1>4. \A k \in Keys : \A i \in 1 .. Len(chains[k]) : chains[k][i].ts \in D
  BY ResetReady
<1>5. \A n \in first .. (first + Cardinality(D) - 1) : n < next_txn_id /\ n \notin DOMAIN active
  BY ResetReady
<1>6. Retained(lo) = [ts \in D |-> WritesAt(chains, ts)]
  BY DEF Retained, WritesAt
<1>7. FreshLog = ResetLog(lo, first, Retained(lo))
  BY SMTT(20) DEF FreshLog
<1> HIDE DEF lo, D, first
<1>8. /\ Keeps(FreshLog, history, lo, current_ts)
      /\ \A i \in WriteFrames(FreshLog) \cup CommitFrames(FreshLog) :
             FreshLog[i].txn \in first .. (first + Cardinality(D) - 1)
  BY <1>1, <1>2, <1>3, <1>4, <1>6, <1>7, ResetKept, ZenonT(30)
<1>9. ASSUME D = {}
      PROVE  Keeps(<<>>, history, lo, current_ts)
  <2>1. ASSUME NEW k \in Keys, NEW i \in 1 .. Len(history[k])
        PROVE  history[k][i].ts <= lo
    <3>1. history[k] \in Seq(Committed) /\ chains[k] \in Seq(Version) /\ Sorted(history[k], current_ts)
      BY <1>1, SMTT(20)
    <3>2. history[k][i].ts > lo => \E j \in 1 .. Len(chains[k]) : chains[k][j].ts = history[k][i].ts
      BY <1>1, <1>2, <3>1, ChainIsAbove
    <3>3. history[k][i].ts \in Nat
      BY <3>1, HistoryEntries
    <3> QED
      BY <1>1, <1>4, <1>9, <3>2, <3>3
  <2> QED
    BY <1>1, <2>1, NothingKept, Zenon
<1>10. \A i \in WriteFrames(FreshLog) \cup CommitFrames(FreshLog) :
            FreshLog[i].txn < next_txn_id /\ FreshLog[i].txn \notin DOMAIN active
  BY <1>5, <1>8, Zenon
<1> QED
  BY <1>8, <1>9, <1>10 DEF NewLogKept, lo, D

-----------------------------------------------------------------------------
(* What a crash leaves, and what recovery reads.                           *)

(* Recovery will find the commits up to the newest one left in the files,  *)
(* and that is as far as history goes after a crash.                       *)
LEMMA DieCuts ==
  ASSUME EInv, Clean, NEW machine \in BOOLEAN, Die(machine)
  PROVE  /\ op = "flush" => ImageKept
         /\ op = "reset" => NewLogKept
         /\ CommitAdds
         /\ CutTo(NewestTs(disk', log'))
<1>1. RunInv /\ TreeInv /\ Reserved /\ LogInv
  BY DEF EInv
<1>2. op = "flush" => ImageKept
  BY <1>1, ImageIsKept
<1>3. op = "reset" => NewLogKept
  BY <1>1, FreshKept
<1>4. CommitAdds
  BY <1>1, CommitUnderWay
<1>5. PICK L : \E n \in 0 .. Len(L) :
                Keeps(L, Pending, disk'.tree_ts, Reach) /\ log' = SubSeq(L, 1, n)
  BY <1>2, <1>3, DieLog
<1>6. PICK n \in 0 .. Len(L) :
                Keeps(L, Pending, disk'.tree_ts, Reach) /\ log' = SubSeq(L, 1, n)
  BY <1>5, SMTT(20)
<1> DEFINE part == SubSeq(L, 1, n)
           newest == NewestTs(disk', part)
<1>7. /\ newest \in Nat /\ disk'.tree_ts <= newest /\ newest <= Reach
      /\ \A k \in Keys : CutAt(UpTo(Pending, newest)[k], Pending[k], newest)
      /\ \A j \in CommitFrames(part) : part[j].ts <= newest
      /\ Keeps(part, UpTo(Pending, newest), disk'.tree_ts, newest)
  BY <1>6, CutKept, ZenonT(30)
<1>8. part = log' /\ newest = NewestTs(disk', log')
  BY <1>6
<1>9. history' = UpTo(Pending, newest)
  <2>1. history' = SurvivingHistory(newest)
    BY <1>8, Zenon DEF Die, Clean
  <2>2. \A k \in Keys : Pending[k] = WithPending(k)
    BY DEF Pending
  <2> HIDE DEF newest
  <2> QED
    BY <2>1, <2>2, ZenonT(30) DEF SurvivingHistory, UpTo
<1> HIDE DEF newest, part
<1>10. CutTo(newest)
  BY <1>7, <1>8, <1>9 DEF CutTo
<1> QED
  BY <1>2, <1>3, <1>4, <1>8, <1>10

(* Recovery reads the log to its end and rebuilds the chains.              *)
LEMMA LogReadable ==
  ASSUME EInv, Open
  PROVE  Readable /\ Cardinality({}) = 0
<1>1. op = "down" /\ Clean
  BY Zenon DEF Open, Unrecoverable, Clean
<1>2. Keeps(log, history, disk.tree_ts, NewestTs(disk, log))
  BY <1>1, DownFacts DEF EInv
<1>3. log \in Seq(Frame)
  BY <1>2 DEF Keeps
<1>4. ValidPrefix(log) = log /\ Ranks(log) = {CommitTs(log)}
  BY <1>2, ReplayKept, SMTT(20)
<1>5. \A k \in Keys :
          Continues(history[k], Replayed(log, disk.tree_ts, CommitTs(log), k), disk.tree_ts)
  BY <1>2, ReplayKept, SMTT(20)
<1>6. /\ MaxTxnIdIn(log) \in Nat
      /\ \A i \in WriteFrames(log) \cup CommitFrames(log) : log[i].txn <= MaxTxnIdIn(log)
  BY <1>3, MaxTxnIdBounds, SMTT(20)
<1>7. Cardinality({}) = 0
  BY FS_EmptySet
<1> QED
  BY <1>4, <1>5, <1>6, <1>7 DEF Readable

-----------------------------------------------------------------------------
(* All steps together.                                                     *)

(* A new database is in order.                                             *)
LEMMA EngineInitEInv == EngineInit /\ FaultsTolerated => EInv
<1> SUFFICES ASSUME EngineInit, FaultsTolerated
             PROVE  EInv
  OBVIOUS
<1>1. IInv
  BY InitIInv, Zenon DEF EngineInit
<1>2. \A k \in Keys : tree[k] = AsOf(history[k], None, 0)
  BY <1>1, NewFacts, TreeIsAsOf, ZenonT(30)
<1>3. Keeps(<<>>, history, 0, 0)
  BY <1>1, NewFacts, NothingKept, SMTT(20)
<1> QED
  BY <1>1, <1>2, <1>3, NewEInv

(* What the steps do to the store and the log is what the invariant needs. *)
LEMMA AllSupplied ==
  ASSUME EInv
  PROVE  Supplied
<1>0. RunInv /\ TreeInv /\ Reserved /\ LogInv
  BY DEF EInv
<1>1. MemoryStep => IInv' /\ Quiet
  BY MemorySteps, QuietStep
<1>2. \A t \in DOMAIN active : StartCommit(t) => Appended(t)
  BY CommitAppended
<1>3. ASSUME NEW t \in DOMAIN active, AppendFails(t)
      PROVE  BlockTyped(t)
  <2>1. op = "idle" /\ MayCommit(t)
    BY <1>3, Zenon DEF AppendFails
  <2>2. IInv
    BY <1>0, <2>1, OpenFacts, SMTT(20)
  <2>3. CommitBlock(Frames(t), t, next_ts, active[t].writes)
    BY <2>1, <2>2, FramesAre
  <2>4. Frames(t) \in Seq(Frame)
    BY <2>3 DEF CommitBlock
  <2> QED
    BY <2>3, <2>4, BlockRecord DEF BlockTyped
<1>4. (FinishCommit => Published) /\ (Merge => Merged)
  BY CommitPublished, MergeMerges
<1>5. (op \in {"idle", "flush"} => ImageKept) /\ (op = "reset" => NewLogKept) /\ CommitAdds
  BY <1>0, ImageIsKept, FreshKept, CommitUnderWay
<1>6. \A machine \in BOOLEAN : Die(machine) /\ Clean => CutTo(NewestTs(disk', log'))
  BY DieCuts
<1>7. Open => Readable /\ Cardinality({}) = 0
  BY LogReadable
<1> QED
  BY <1>1, <1>2, <1>3, <1>4, <1>5, <1>6, <1>7, Zenon DEF Supplied

-----------------------------------------------------------------------------
(* Theorems.                                                               *)

(* The engine never leaves its inductive invariant: the tree in the file   *)
(* and the log together make up the whole history, at every step of        *)
(* commit, checkpoint, crash and recovery (lib.rs:186-269, 432-473,        *)
(* 604-642; wal.rs:321-449).                                               *)
THEOREM EngineInvariance == EngineSpec /\ FaultsTolerated => []EInv
<1>1. EngineInit /\ FaultsTolerated => EInv
  BY EngineInitEInv
<1>2. EInv /\ [EngineNext]_vars => EInv'
  BY AllSupplied, StepEInv
<1> QED
  BY <1>1, <1>2, PTL DEF EngineSpec

(* At every step, through checkpoints that fail and crashes, the newest    *)
(* reader sees the last committed value of each key, every live snapshot   *)
(* sees its own moment, and the tree in the file is the state as of the    *)
(* tree_ts beside it (lib.rs:186-269, 604-642).                            *)
THEOREM EngineSoundness == EngineSpec /\ FaultsTolerated => []EngineIsSound
<1>1. ASSUME EInv
      PROVE  EngineIsSound
  <2>1. EngineTypeOK /\ TreeMatchesTreeTs
    BY <1>1 DEF EInv, RunInv
  <2>2. CASE op = "down"
    <3>1. DOMAIN active = {}
      BY <1>1, <2>2 DEF EInv, RunInv
    <3> QED
      BY <2>1, <2>2, <3>1, SMTT(20) DEF EngineIsSound, CommittedReads, SnapshotReads
  <2>3. CASE op # "down"
    <3>1. IInv
      BY <1>1, <2>3, SMTT(20) DEF EInv, RunInv
    <3>2. LatestReads /\ SnapshotReads
      BY <3>1, LatestReadsFollow, SnapshotReadsFollow
    <3> QED
      BY <2>1, <3>2 DEF EngineIsSound, CommittedReads
  <2> QED
    BY <2>2, <2>3
<1> QED
  BY <1>1, EngineInvariance, PTL

(* No transaction, open or to come, has an id that is in the log, so none  *)
(* can commit the records of a dead one (txn.rs:362-365, wal.rs:160-173).  *)
THEOREM LoggedIdsStaySpent == EngineSpec /\ FaultsTolerated => []LoggedIdsAreSpent
<1>1. EInv => LoggedIdsAreSpent
  BY IdsAreSpent, SMTT(20)
<1> QED
  BY <1>1, EngineInvariance, PTL

(* A crash, at any step of anything, takes back no commit that clients     *)
(* were told of, if commits are synced or the machine stays up             *)
(* (wal.rs:314-317) and the crash is neither in a retried flush nor after  *)
(* a commit that failed; and while no transaction is open it makes no      *)
(* commit appear that they were not told of, but one whose commit() failed *)
(* (lib.rs:564-565, wal.rs:319-320).                                       *)
THEOREM CommitsAreKept == EngineSpec /\ FaultsTolerated => CrashesKeepCommits
<1>1. EInv /\ [EngineNext]_vars =>
        [~Unrecoverable' /\ (setting.sync_on_commit \/ ~PowerLoss) =>
            \A k \in Keys : LET n == LastAt(history[k], acked) IN
                /\ n <= Len(history'[k])
                /\ \A i \in 1 .. n : history'[k][i] = history[k][i]]_vars
  <2> SUFFICES ASSUME EInv, [EngineNext]_vars, ~Unrecoverable',
                      setting.sync_on_commit \/ ~PowerLoss, NEW k \in Keys
               PROVE  /\ LastAt(history[k], acked) <= Len(history'[k])
                      /\ \A i \in 1 .. LastAt(history[k], acked) : history'[k][i] = history[k][i]
    OBVIOUS
  <2>1. TypeOK /\ acked \in Nat
    BY DEF EInv, RunInv, EngineTypeOK
  <2>2. history[k] \in Seq(Committed) /\ \A i \in 1 .. Len(history[k]) : history[k][i].ts \in Nat
    BY <2>1, StampsTyped
  <2>3. LET n == LastAt(history[k], acked) IN
            n \in 0 .. Len(history[k]) /\ (n # 0 => history[k][n].ts <= acked)
    BY <2>1, <2>2, LastAtFinds, ZenonT(30)
  <2> QED
    BY <2>3, AllSupplied, AckedStay
<1>2. EInv /\ [EngineNext]_vars =>
        [(ProcessCrash \/ PowerLoss) /\ Ready /\ DOMAIN active = {} =>
            /\ disk'.tree_ts <= acked
            /\ \A i \in 1 .. Len(log') :
                log'[i].type = "commit" /\ log'[i].ts > acked
                    => <<log'[i].txn, log'[i].ts>> \in stray]_vars
  <2> SUFFICES ASSUME EInv, ProcessCrash \/ PowerLoss, Ready, DOMAIN active = {}
               PROVE  /\ disk'.tree_ts <= acked
                      /\ \A i \in 1 .. Len(log') :
                            log'[i].type = "commit" /\ log'[i].ts > acked
                                => <<log'[i].txn, log'[i].ts>> \in stray
    OBVIOUS
  <2> QED
    BY AllSupplied, NothingAppears
<1> QED
  BY <1>1, <1>2, EngineInvariance, PTL
     DEF EngineSpec, CrashesKeepCommits, CommitsSurvive, NoCommitOutOfNowhere
=============================================================================
