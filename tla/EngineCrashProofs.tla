------------------------- MODULE EngineCrashProofs -------------------------
(***************************************************************************)
(* The inductive invariant of the engine through a crash, at any step of   *)
(* anything, and through the recovery that follows; and then through any   *)
(* step, with what follows for the commits that clients know of.           *)
(*                                                                         *)
(* What the steps do to the version store and to the log are assumptions   *)
(* of the lemmas, as in EngineStepProofs, gathered in Supplied at the end; *)
(* EngineProofs discharges them.                                           *)
(***************************************************************************)
EXTENDS EngineStepProofs

-----------------------------------------------------------------------------
(* Crash and recovery.                                                     *)

(* The file a crash leaves is of a moment that the log still goes with.    *)
LEMMA DieDisk ==
  ASSUME EInv, NEW machine \in BOOLEAN, Die(machine), op = "flush" => ImageKept
  PROVE  /\ op # "down" /\ setting.crashes # 0 /\ file' \in {"whole", "bare"}
         /\ disk' \in [tree : [Keys -> Slot], tree_ts : Nat, next_txn_id : Nat \ {0}]
         /\ disk'.tree_ts \in Nat
         /\ disk.tree_ts <= disk'.tree_ts /\ disk'.tree_ts <= current_ts
         /\ op = "reset" => disk' = Image
         /\ \A k \in Keys : disk'.tree[k] = AsOf(history[k], None, disk'.tree_ts)
         /\ Clean => Keeps(log, Pending, disk'.tree_ts, Reach)
<1>1. RunInv /\ TreeInv /\ TreeMatchesTreeTs /\ LogInv
  BY DEF EInv
<1>2. op # "down" /\ crashes < setting.crashes
  BY Zenon DEF Die
<1>3. disk' = disk \/ (op = "flush" /\ disk' = Image)
  BY DEF Die
<1>4. setting.crashes # 0 /\ file' \in {"whole", "bare"}
  <2>1. crashes \in Nat /\ setting \in Settings
    BY <1>1, Zenon DEF RunInv
  <2>2. setting.crashes \in Nat
    BY <2>1, EngineAssumption
  <2>3. file' \in {"whole", "bare"}
    BY DEF Die
  <2> QED
    BY <1>2, <2>1, <2>2, <2>3
<1>5. /\ TypeOK /\ current_ts \in Nat /\ meta.tree_ts \in Nat /\ disk.tree_ts \in Nat
  BY <1>1, <1>2, OpenFacts
<1>6. /\ meta.tree_ts <= current_ts /\ disk.tree_ts <= meta.tree_ts
      /\ op = "reset" => disk = Image
  BY <1>1, <1>2, Zenon DEF TreeInv
<1>7. CASE disk' = disk
  <2>1. disk \in [tree : [Keys -> Slot], tree_ts : Nat, next_txn_id : Nat \ {0}]
    BY <1>1, RunTypes, Zenon
  <2>2. /\ \A k \in Keys : disk.tree[k] = AsOf(history[k], None, disk.tree_ts)
        /\ Clean => Keeps(log, Pending, disk.tree_ts, Reach)
    BY <1>1, <1>2, Zenon DEF TreeMatchesTreeTs, LogInv
  <2>3. disk.tree_ts <= disk.tree_ts /\ disk.tree_ts <= current_ts
    BY <1>5, <1>6
  <2> QED
    BY <1>2, <1>4, <1>5, <1>6, <1>7, <2>1, <2>2, <2>3, Zenon
<1>8. CASE op = "flush" /\ disk' = Image
  <2>1. disk'.tree_ts = meta.tree_ts /\ disk'.tree = tree
    BY <1>8 DEF Image
  <2>2. meta.next_txn_id \in Nat \ {0} /\ tree \in [Keys -> Slot]
    BY <1>1, <1>5, RunTypes DEF TypeOK
  <2>3. disk' \in [tree : [Keys -> Slot], tree_ts : Nat, next_txn_id : Nat \ {0}]
    BY <1>5, <1>8, <2>2 DEF Image
  <2>4. Pending = history /\ Reach = current_ts
    BY <1>5, <1>8, PendingIs DEF PendingSays, Reach
  <2>5. /\ \A k \in Keys : tree[k] = AsOf(history[k], None, meta.tree_ts)
        /\ Clean => Keeps(log, history, meta.tree_ts, current_ts)
    BY <1>8, Zenon DEF ImageKept
  <2> QED
    BY <1>2, <1>4, <1>5, <1>6, <1>8, <2>1, <2>3, <2>4, <2>5
<1> QED
  BY <1>3, <1>7, <1>8

(* Every commit clients know of is in the file or the first m frames that  *)
(* the crash leaves.                                                       *)
Spared(m) ==
    \A k \in Keys : \A i \in 1 .. Len(history[k]) :
        history[k][i].ts <= acked =>
            \/ history[k][i].ts <= disk'.tree_ts
            \/ \E j \in CommitFrames(log') : j <= m /\ history[k][i].ts <= log'[j].ts

(* A log cut short loses no commit record before the cut.                  *)
LEMMA CutSpares ==
  ASSUME RunInv, op # "down", log \in Seq(Frame), NEW n \in 0 .. Len(log), log' = SubSeq(log, 1, n),
         disk'.tree_ts \in Nat, disk.tree_ts <= disk'.tree_ts,
         NEW a \in Nat, NEW b \in Nat, a <= b, a <= n, Covered(a)
  PROVE  Spared(b)
<1>1. TypeOK /\ disk.tree_ts \in Nat /\ Len(log) \in Nat /\ n \in Nat
  BY OpenFacts
<1>2. Len(log') = n /\ \A i \in 1 .. n : log'[i] = log[i]
  BY <1>1
<1>3. \A j \in CommitFrames(log) : j \in Nat /\ (j <= n => j \in CommitFrames(log') /\ log'[j] = log[j])
  BY <1>1, <1>2 DEF CommitFrames
<1>4. SUFFICES ASSUME NEW k \in Keys, NEW i \in 1 .. Len(history[k]), history[k][i].ts <= acked
               PROVE  \/ history[k][i].ts <= disk'.tree_ts
                      \/ \E j \in CommitFrames(log') : j <= b /\ history[k][i].ts <= log'[j].ts
  BY Zenon DEF Spared
<1>5. history[k][i].ts \in Nat
  BY <1>1, StampsTyped
<1>6. \/ history[k][i].ts <= disk.tree_ts
      \/ \E j \in CommitFrames(log) : j <= a /\ history[k][i].ts <= log[j].ts
  BY <1>4, Zenon DEF Covered
<1>7. CASE history[k][i].ts <= disk.tree_ts
  BY <1>1, <1>5, <1>7
<1>8. CASE \E j \in CommitFrames(log) : j <= a /\ history[k][i].ts <= log[j].ts
  <2>1. PICK j \in CommitFrames(log) : j <= a /\ history[k][i].ts <= log[j].ts
    BY <1>8
  <2>2. j \in Nat
    BY <1>3
  <2>3. j <= n /\ j <= b
    BY <1>1, <2>1, <2>2
  <2>4. j \in CommitFrames(log') /\ log'[j] = log[j]
    BY <1>3, <2>3, Zenon
  <2> QED
    BY <2>1, <2>3, <2>4, Zenon
<1> QED
  BY <1>6, <1>7, <1>8, Zenon

(* The log a crash leaves is the beginning of one that keeps everything,   *)
(* and long enough for what was promised.                                  *)
LEMMA DieLog ==
  ASSUME EInv, Clean, NEW machine \in BOOLEAN, Die(machine),
         op = "flush" => ImageKept, op = "reset" => NewLogKept
  PROVE  /\ \E L : \E n \in 0 .. Len(L) :
                Keeps(L, Pending, disk'.tree_ts, Reach) /\ log' = SubSeq(L, 1, n)
         /\ synced' \in 0 .. Len(log')
         /\ setting.sync_on_commit => Spared(synced')
         /\ ~machine => Spared(Len(log'))
<1>1. RunInv /\ TypeOK /\ DurInv
  BY DEF EInv, RunInv, EngineTypeOK
<1>2. /\ op # "down" /\ disk'.tree_ts \in Nat /\ disk.tree_ts <= disk'.tree_ts
      /\ op = "reset" => disk' = Image
      /\ Keeps(log, Pending, disk'.tree_ts, Reach)
  BY DieDisk
<1>3. Len(log) \in Nat /\ flushed \in 0 .. Len(log) /\ synced \in 0 .. flushed
  BY <1>1, <1>2, OpenFacts
<1>4. CASE \E n \in (IF machine THEN synced ELSE flushed) .. Len(log) :
                log' = SubSeq(log, 1, n) /\ synced' = IF machine THEN n ELSE synced
  <2>1. PICK n \in (IF machine THEN synced ELSE flushed) .. Len(log) :
                log' = SubSeq(log, 1, n) /\ synced' = IF machine THEN n ELSE synced
    BY <1>4
  <2>2. /\ n \in 0 .. Len(log) /\ n \in Nat /\ synced <= n /\ synced <= synced'
        /\ synced' \in 0 .. n /\ (~machine => flushed <= n)
    BY <1>3, <2>1
  <2>3. log \in Seq(Frame) /\ log' = SubSeq(log, 1, n)
    BY <1>2, <2>1, Zenon DEF Keeps
  <2>4. Len(log') = n
    BY <2>2, <2>3
  <2>5. Covered(flushed) /\ (setting.sync_on_commit => Covered(synced))
    BY <1>1, <1>2, Zenon DEF DurInv
  <2>6. synced \in Nat /\ synced' \in Nat /\ flushed \in Nat
    BY <1>3, <2>2
  <2>7. setting.sync_on_commit => Spared(synced')
    BY <1>1, <1>2, <2>2, <2>3, <2>5, <2>6, CutSpares
  <2>8. ~machine => Spared(n)
    BY <1>1, <1>2, <2>2, <2>3, <2>5, <2>6, CutSpares
  <2> QED
    BY <1>2, <2>2, <2>3, <2>4, <2>7, <2>8
<1>5. CASE op = "reset" /\ log' \in PartialResets /\ synced' = Len(log')
  <2>1. disk'.tree_ts = meta.tree_ts
    BY <1>2, <1>5 DEF Image
  <2>2. Keeps(log', history, disk'.tree_ts, current_ts)
    BY <1>5, <2>1 DEF NewLogKept, PartialResets
  <2>3. Pending = history /\ Reach = current_ts
    BY <1>1, <1>5, PendingIs DEF PendingSays, Reach
  <2>4. log' \in Seq(Frame)
    BY <2>2, Zenon DEF Keeps
  <2>5. Len(log') \in Nat /\ SubSeq(log', 1, Len(log')) = log'
    BY <2>4
  <2>6. \A j \in CommitFrames(log') : j \in 1 .. Len(log') /\ log'[j].ts \in Nat
    <3>1. \A i \in 1 .. Len(log') : log'[i] \in Frame
      BY <2>4
    <3>2. \A f \in Frame : f.type = "commit" => f.ts \in Nat
      BY DEF Frame
    <3> QED
      BY <3>1, <3>2 DEF CommitFrames
  <2>7. Spared(Len(log'))
    <3>1. ASSUME NEW k \in Keys, NEW i \in 1 .. Len(history[k])
          PROVE  \/ history[k][i].ts <= disk'.tree_ts
                 \/ \E j \in CommitFrames(log') : j <= Len(log') /\ history[k][i].ts <= log'[j].ts
      <4>1. history[k][i].ts <= disk'.tree_ts
            \/ \E j \in CommitFrames(log') : history[k][i].ts = log'[j].ts
        BY <2>2, CommitsCovered
      <4> QED
        BY <2>5, <2>6, <4>1
    <3> QED
      BY <3>1, Zenon DEF Spared
  <2>8. Len(log') \in 0 .. Len(log')
    BY <2>5
  <2> QED
    BY <1>5, <2>2, <2>3, <2>5, <2>7, <2>8, Zenon
<1> QED
  BY <1>4, <1>5 DEF Die

(* What a commit under way adds to a history.                              *)
CommitAdds ==
    op = "commit" =>
        \A k \in Keys : LET h == AfterCommit(committing, k) IN
            /\ Proper(h, next_ts)
            /\ Len(history[k]) <= Len(h)
            /\ \A i \in 1 .. Len(history[k]) : h[i] = history[k][i]
            /\ \A i \in 1 .. Len(h) : i \in 1 .. Len(history[k]) \/ h[i].ts = next_ts
            /\ \A ts \in Nat : ts <= current_ts => AsOf(h, None, ts) = AsOf(history[k], None, ts)

(* A history with the commit under way: the committed part, then at most   *)
(* one version, newer than anything clients know of.                       *)
LEMMA PendingEntries ==
  ASSUME RunInv, op # "down", CommitAdds, NEW k \in Keys
  PROVE  /\ Pending[k] \in Seq(Committed)
         /\ Len(Pending[k]) \in Nat
         /\ Len(history[k]) <= Len(Pending[k])
         /\ \A i \in 1 .. Len(history[k]) : Pending[k][i] = history[k][i]
         /\ \A i \in 1 .. Len(Pending[k]) :
                i \in 1 .. Len(history[k]) \/ (op = "commit" /\ Pending[k][i].ts = next_ts)
         /\ \A i \in 1 .. (Len(Pending[k]) - 1) : Pending[k][i].ts <= Pending[k][i + 1].snap
         /\ \A ts \in Nat : ts <= current_ts => AsOf(Pending[k], None, ts) = AsOf(history[k], None, ts)
<1>1. TypeOK /\ FirstCommitterWins
  BY OpenFacts DEF RunInv
<1>2. history[k] \in Seq(Committed) /\ Len(history[k]) \in Nat
  BY <1>1, StampsTyped
<1>3. CASE op # "commit"
  <2>1. Pending[k] = history[k]
    BY <1>1, <1>3, PendingIs DEF PendingSays
  <2>2. \A i \in 1 .. (Len(history[k]) - 1) : history[k][i].ts <= history[k][i + 1].snap
    BY <1>1, Zenon DEF FirstCommitterWins
  <2>3. Len(history[k]) <= Len(history[k])
    BY <1>2
  <2> QED
    BY <1>2, <2>1, <2>2, <2>3, Zenon
<1>4. CASE op = "commit"
  <2> DEFINE h == AfterCommit(committing, k)
  <2>1. Pending[k] = h
    BY <1>1, <1>4, PendingIs DEF PendingSays
  <2>2. /\ Proper(h, next_ts) /\ Len(history[k]) <= Len(h)
        /\ \A i \in 1 .. Len(history[k]) : h[i] = history[k][i]
        /\ \A i \in 1 .. Len(h) : i \in 1 .. Len(history[k]) \/ h[i].ts = next_ts
        /\ \A ts \in Nat : ts <= current_ts => AsOf(h, None, ts) = AsOf(history[k], None, ts)
    BY <1>4, Zenon DEF CommitAdds
  <2> HIDE DEF h
  <2>3. h \in Seq(Committed) /\ \A i \in 1 .. (Len(h) - 1) : h[i].ts <= h[i + 1].snap
    BY <2>2, Zenon DEF Proper
  <2>4. Len(h) \in Nat
    BY <2>3
  <2> QED
    BY <1>4, <2>1, <2>2, <2>3, <2>4, Zenon
<1> QED
  BY <1>3, <1>4, Zenon

(* Recovery will find the commits up to the newest one left in the files,  *)
(* and that is as far as history goes after a crash.                       *)
CutTo(newest) ==
    /\ newest \in Nat /\ disk'.tree_ts <= newest /\ newest <= Reach
    /\ \A k \in Keys : CutAt(history'[k], Pending[k], newest)
    /\ \A j \in CommitFrames(log') : log'[j].ts <= newest
    /\ Keeps(log', history', disk'.tree_ts, newest)

(* The memory of a process that is gone.                                   *)
LEMMA DieTypeOK ==
  ASSUME NEW machine \in BOOLEAN, Die(machine), history' \in [Keys -> Seq(Committed)]
  PROVE  TypeOK'
<1>1. /\ chains' = [k \in Keys |-> <<>>] /\ next_ts' = 1 /\ next_txn_id' = 1
      /\ active' = [t \in {} |-> 0] /\ live_snapshots' = [s \in {} |-> 0]
      /\ tree' = [k \in Keys |-> None]
  BY Zenon DEF Die
<1>2. history' \in [Keys -> Seq([ts : Nat, val : Slot, snap : Nat])]
  BY Zenon DEF Committed
<1>3. chains' \in [Keys -> Seq(Version)]
  BY <1>1
<1>4. active' \in [DOMAIN active' -> Transaction] /\ DOMAIN active' = {}
  BY <1>1
<1>5. live_snapshots' \in [DOMAIN live_snapshots' -> Nat \ {0}] /\ DOMAIN live_snapshots' = {}
  BY <1>1
<1>6. tree' \in [Keys -> Slot]
  BY <1>1 DEF Slot
<1>7. /\ next_ts' \in Nat \ {0} /\ next_txn_id' \in Nat \ {0}
      /\ DOMAIN active' \subseteq 1 .. (next_txn_id' - 1)
      /\ DOMAIN live_snapshots' \subseteq 0 .. (next_ts' - 1)
  BY <1>1, <1>4, <1>5
<1> QED
  BY <1>2, <1>3, <1>4, <1>5, <1>6, <1>7, Zenon DEF TypeOK

(* A commit that clients know of is one of those before the commit under   *)
(* way.                                                                    *)
LEMMA KnownIsOld ==
  ASSUME RunInv, DurInv, op # "down", CommitAdds, NEW k \in Keys,
         NEW i \in 1 .. Len(Pending[k]), Pending[k][i].ts <= acked
  PROVE  i \in 1 .. Len(history[k])
<1>1. op = "commit" => acked = current_ts
  BY RunTypes DEF DurInv, Ready
<1>2. i \in 1 .. Len(history[k]) \/ (op = "commit" /\ Pending[k][i].ts = next_ts)
  BY PendingEntries
<1>3. current_ts \in Nat /\ next_ts = current_ts + 1
  BY OpenFacts
<1> QED
  BY <1>1, <1>2, <1>3

(* A crash at any step of anything (lib.rs:186-269 is what comes next).    *)
LEMMA DieEInv ==
  ASSUME EInv, Clean, NEW machine \in BOOLEAN, Die(machine),
         op = "flush" => ImageKept, op = "reset" => NewLogKept, CommitAdds,
         CutTo(NewestTs(disk', log'))
  PROVE  EInv'
<1> DEFINE newest == NewestTs(disk', log')
           lo == disk'.tree_ts
<1>1. RunInv /\ TypeOK /\ DurInv
  BY DEF EInv, RunInv, EngineTypeOK
<1>2. /\ op # "down" /\ setting.crashes # 0 /\ lo \in Nat /\ file' \in {"whole", "bare"}
      /\ disk' \in [tree : [Keys -> Slot], tree_ts : Nat, next_txn_id : Nat \ {0}]
      /\ lo <= current_ts
      /\ \A k \in Keys : disk'.tree[k] = AsOf(history[k], None, lo)
  BY DieDisk
<1>3. synced' \in 0 .. Len(log') /\ (setting.sync_on_commit => Spared(synced'))
  BY DieLog
<1>4. /\ newest \in Nat /\ lo <= newest
      /\ \A k \in Keys : CutAt(history'[k], Pending[k], newest)
      /\ Keeps(log', history', lo, newest)
  BY Zenon DEF CutTo
<1>5. /\ flushed' = Len(log') /\ op' = "down" /\ committing' = 0 /\ opening' = FALSE
      /\ crashes' = crashes + 1 /\ acked' = acked /\ stray' = stray /\ setting' = setting
      /\ meta' = [tree_ts |-> 0, next_txn_id |-> 1]
      /\ next_auto_checkpoint' = CheckpointFrames
      /\ active' = [t \in {} |-> 0] /\ live_snapshots' = [s \in {} |-> 0]
  BY Zenon DEF Die
<1>6. DOMAIN active' = {} /\ DOMAIN live_snapshots' = {}
  BY <1>5
<1>7. log' \in Seq(Frame) /\ history' \in [Keys -> Seq(Committed)]
  BY <1>4, Zenon DEF Keeps
<1>8. log' \in Seq(Frame \cup {Torn}) /\ Len(log') \in Nat
  BY <1>7
<1>9. TypeOK'
  BY <1>7, DieTypeOK
<1>10. ASSUME NEW k \in Keys
       PROVE  /\ history'[k] \in Seq(Committed) /\ Len(history'[k]) <= Len(Pending[k])
              /\ Len(history'[k]) \in Nat /\ Len(Pending[k]) \in Nat
              /\ \A i \in 1 .. Len(history'[k]) : history'[k][i] = Pending[k][i]
  <2>1. Len(Pending[k]) \in Nat
    BY <1>1, <1>2, PendingEntries
  <2>2. /\ history'[k] \in Seq(Committed) /\ Len(history'[k]) <= Len(Pending[k])
        /\ \A i \in 1 .. Len(history'[k]) : history'[k][i] = Pending[k][i]
    BY <1>4, Zenon DEF CutAt
  <2> QED
    BY <2>1, <2>2
<1>11. FirstCommitterWins'
  <2>1. ASSUME NEW k \in Keys, NEW i \in 1 .. (Len(history'[k]) - 1)
        PROVE  history'[k][i].ts <= history'[k][i + 1].snap
    <3>1. /\ i \in 1 .. (Len(Pending[k]) - 1)
          /\ i \in 1 .. Len(history'[k]) /\ i + 1 \in 1 .. Len(history'[k])
      BY <1>10
    <3>2. Pending[k][i].ts <= Pending[k][i + 1].snap
      BY <1>1, <1>2, <3>1, PendingEntries
    <3>3. history'[k][i] = Pending[k][i] /\ history'[k][i + 1] = Pending[k][i + 1]
      BY <1>10, <3>1
    <3> QED
      BY <3>2, <3>3
  <2> QED
    BY <2>1 DEF FirstCommitterWins
<1>12. RunInv'
  <2>1. acked \in Nat /\ crashes \in Nat /\ setting \in Settings /\ FaultsTolerated
    BY <1>1, Zenon DEF RunInv
  <2>2. acked' \in Nat /\ crashes' \in Nat /\ setting' \in Settings /\ FaultsTolerated'
    BY <1>5, <2>1 DEF FaultsTolerated
  <2>3. next_auto_checkpoint' \in Nat \ {0} /\ meta' \in [tree_ts : Nat, next_txn_id : Nat \ {0}]
    BY <1>5, EngineAssumption
  <2>4. flushed' \in 0 .. Len(log') /\ synced' \in 0 .. flushed'
    BY <1>3, <1>5, <1>8
  <2>5. EngineTypeOK'
    BY <1>2, <1>5, <1>9, <2>3, <2>4 DEF EngineTypeOK
  <2> QED
    BY <1>2, <1>5, <1>6, <1>8, <1>11, <2>2, <2>5 DEF RunInv
<1>13. TreeMatchesTreeTs'
  <2>1. ASSUME NEW k \in Keys
        PROVE  disk'.tree[k] = AsOf(history'[k], None, lo)
    <3>1. AsOf(Pending[k], None, lo) = AsOf(history[k], None, lo)
      BY <1>1, <1>2, PendingEntries
    <3>2. AsOf(history'[k], None, lo) = AsOf(Pending[k], None, lo)
      BY <1>2, <1>4, Zenon DEF CutAt
    <3> QED
      BY <1>2, <3>1, <3>2
  <2> QED
    BY <2>1, Zenon DEF TreeMatchesTreeTs
<1>14. LogInv'
  <2>1. PendingSays'
    BY <1>9, PendingIs, PTL
  <2>2. Pending' = history' /\ Reach' = newest
    BY <1>5, <2>1 DEF PendingSays, Reach
  <2>3. Keeps(log, Pending, disk.tree_ts, Reach)'
    BY <1>4, <2>2, Zenon
  <2> QED
    BY <1>5, <2>3 DEF LogInv
<1>15. DurInv'
  <2>1. HistoryKept'
    BY <1>4, Zenon DEF HistoryKept
  <2>2. AllCovered'
    BY <2>1, KeptCovers, PTL
  <2>3. Covered(flushed)'
    BY <1>5, <2>2, Zenon DEF AllCovered
  <2>4. ASSUME setting.sync_on_commit
        PROVE  Covered(synced)'
    <3>1. ASSUME NEW k \in Keys, NEW i \in 1 .. Len(history'[k]), history'[k][i].ts <= acked
          PROVE  \/ history'[k][i].ts <= disk'.tree_ts
                 \/ \E j \in CommitFrames(log') : j <= synced' /\ history'[k][i].ts <= log'[j].ts
      <4>1. i \in 1 .. Len(Pending[k]) /\ history'[k][i] = Pending[k][i]
        BY <1>10
      <4>2. i \in 1 .. Len(history[k])
        BY <1>1, <1>2, <3>1, <4>1, KnownIsOld
      <4>3. history'[k][i] = history[k][i]
        BY <1>1, <1>2, <4>1, <4>2, PendingEntries
      <4>4. history[k][i].ts <= acked
        BY <3>1, <4>3
      <4> QED
        BY <1>3, <2>4, <4>2, <4>3, <4>4 DEF Spared
    <3> QED
      BY <1>5, <3>1, Zenon DEF Covered
  <2>5. ~Ready'
    BY <1>5 DEF Ready
  <2> QED
    BY <1>5, <2>3, <2>4, <2>5 DEF DurInv
<1> QED
  BY <1>5, <1>12, <1>13, <1>14, <1>15 DEF EInv, TreeInv, Reserved, StrayInv

(* A crash with the remains of a failed commit in the log.                 *)
LEMMA DieLost ==
  ASSUME EInv, ~Clean, NEW machine \in BOOLEAN, Die(machine),
         op = "flush" => ImageKept, op = "reset" => NewLogKept
  PROVE  EInv'
<1>1. RunInv
  BY DEF EInv
<1>2. /\ op # "down" /\ setting.crashes # 0 /\ file' \in {"whole", "bare"}
      /\ disk' \in [tree : [Keys -> Slot], tree_ts : Nat, next_txn_id : Nat \ {0}]
  BY DieDisk
<1>3. /\ flushed' = Len(log') /\ op' = "down" /\ committing' = 0 /\ opening' = FALSE
      /\ crashes' = crashes + 1 /\ acked' = acked /\ stray' = stray /\ setting' = setting
      /\ meta' = [tree_ts |-> 0, next_txn_id |-> 1]
      /\ next_auto_checkpoint' = CheckpointFrames
      /\ active' = [t \in {} |-> 0] /\ live_snapshots' = [s \in {} |-> 0]
  BY Zenon DEF Die
<1>4. history' = [k \in Keys |-> <<>>]
  BY Zenon DEF Die, Clean
<1>5. DOMAIN active' = {} /\ DOMAIN live_snapshots' = {}
  BY <1>3
<1>6. history' \in [Keys -> Seq(Committed)] /\ \A k \in Keys : Len(history'[k]) = 0
  BY <1>4
<1>7. TypeOK'
  BY <1>6, DieTypeOK
<1>8. FirstCommitterWins'
  BY <1>6 DEF FirstCommitterWins
<1>9. log' \in Seq(Frame \cup {Torn}) /\ synced' \in 0 .. Len(log') /\ Len(log') \in Nat
  <2>1. /\ log \in Seq(Frame \cup {Torn}) /\ Len(log) \in Nat
        /\ flushed \in 0 .. Len(log) /\ synced \in 0 .. flushed
    BY <1>1, RunTypes
  <2>2. CASE \E n \in (IF machine THEN synced ELSE flushed) .. Len(log) :
                log' = SubSeq(log, 1, n) /\ synced' = IF machine THEN n ELSE synced
    <3>1. PICK n \in (IF machine THEN synced ELSE flushed) .. Len(log) :
                log' = SubSeq(log, 1, n) /\ synced' = IF machine THEN n ELSE synced
      BY <2>2
    <3>2. n \in 0 .. Len(log) /\ n \in Nat /\ synced' \in 0 .. n
      BY <2>1, <3>1
    <3> QED
      BY <2>1, <3>1, <3>2
  <2>3. CASE op = "reset" /\ log' \in PartialResets /\ synced' = Len(log')
    <3>1. log' \in Seq(Frame)
      BY <2>3 DEF NewLogKept, PartialResets, Keeps
    <3> QED
      BY <2>3, <3>1
  <2> QED
    BY <2>2, <2>3 DEF Die
<1>10. RunInv'
  <2>1. acked \in Nat /\ crashes \in Nat /\ setting \in Settings /\ FaultsTolerated
    BY <1>1, Zenon DEF RunInv
  <2>2. acked' \in Nat /\ crashes' \in Nat /\ setting' \in Settings /\ FaultsTolerated'
    BY <1>3, <2>1 DEF FaultsTolerated
  <2>3. next_auto_checkpoint' \in Nat \ {0} /\ meta' \in [tree_ts : Nat, next_txn_id : Nat \ {0}]
    BY <1>3, EngineAssumption
  <2>4. flushed' \in 0 .. Len(log') /\ synced' \in 0 .. flushed'
    BY <1>3, <1>9
  <2>5. EngineTypeOK'
    BY <1>2, <1>3, <1>7, <2>3, <2>4 DEF EngineTypeOK
  <2> QED
    BY <1>2, <1>3, <1>5, <1>8, <1>9, <2>2, <2>5 DEF RunInv
<1>11. Unrecoverable' /\ ~Clean'
  BY <1>3 DEF Unrecoverable, Clean
<1>12. TreeMatchesTreeTs'
  BY <1>3, <1>11 DEF TreeMatchesTreeTs
<1>13. LogInv' /\ DurInv' /\ StrayInv'
  BY <1>3, <1>11 DEF LogInv, DurInv, StrayInv, Ready
<1> QED
  BY <1>3, <1>10, <1>12, <1>13 DEF EInv, TreeInv, Reserved

(* A commit that clients know of is still there after the crash: always if *)
(* it was synced, and otherwise if the machine stays up.                   *)
LEMMA DieSpares ==
  ASSUME EInv, Clean, NEW machine \in BOOLEAN, Die(machine), setting.sync_on_commit \/ ~machine,
         op = "flush" => ImageKept, op = "reset" => NewLogKept, CommitAdds,
         CutTo(NewestTs(disk', log')),
         NEW k \in Keys, NEW i \in 1 .. Len(history[k]), history[k][i].ts <= acked
  PROVE  i <= Len(history'[k]) /\ history'[k][i] = history[k][i]
<1> DEFINE newest == NewestTs(disk', log')
<1>1. RunInv /\ TypeOK
  BY DEF EInv, RunInv, EngineTypeOK
<1>2. op # "down" /\ disk'.tree_ts \in Nat
  BY DieDisk
<1>3. /\ newest \in Nat /\ disk'.tree_ts <= newest
      /\ CutAt(history'[k], Pending[k], newest)
      /\ \A j \in CommitFrames(log') : log'[j].ts <= newest
      /\ log' \in Seq(Frame)
  BY Zenon DEF CutTo, Keeps
<1> HIDE DEF newest
<1>4. /\ Len(history[k]) <= Len(Pending[k]) /\ Len(Pending[k]) \in Nat
      /\ Pending[k][i] = history[k][i]
  BY <1>1, <1>2, PendingEntries
<1>5. history[k][i].ts \in Nat /\ Len(history[k]) \in Nat
  BY <1>1, StampsTyped
<1>6. \A j \in CommitFrames(log') : log'[j].ts \in Nat
  <2>1. \A j \in 1 .. Len(log') : log'[j] \in Frame
    BY <1>3
  <2>2. \A f \in Frame : f.type = "commit" => f.ts \in Nat
    BY DEF Frame
  <2> QED
    BY <2>1, <2>2 DEF CommitFrames
<1>7. history[k][i].ts <= newest
  <2>1. \/ history[k][i].ts <= disk'.tree_ts
        \/ \E j \in CommitFrames(log') : history[k][i].ts <= log'[j].ts
    BY DieLog DEF Spared
  <2> QED
    BY <1>2, <1>3, <1>5, <1>6, <2>1
<1>8. i \in 1 .. Len(Pending[k])
  BY <1>4, <1>5
<1>9. i <= Len(history'[k]) /\ history'[k] \in Seq(Committed)
  BY <1>3, <1>4, <1>7, <1>8 DEF CutAt
<1>10. i \in 1 .. Len(history'[k])
  BY <1>9
<1> QED
  BY <1>3, <1>4, <1>9, <1>10, Zenon DEF CutAt

(* What reading a log back finds in it.                                    *)
Readable ==
    LET c == CommitTs(log)  m == MaxTxnIdIn(log) IN
    /\ ValidPrefix(log) = log /\ Ranks(log) = {c}
    /\ \A k \in Keys : Continues(history[k], Replayed(log, disk.tree_ts, c, k), disk.tree_ts)
    /\ m \in Nat /\ \A i \in WriteFrames(log) \cup CommitFrames(log) : log[i].txn <= m

(* What recovery makes of the files (lib.rs:186-257).                      *)
Recovered(newest) ==
    /\ newest \in Nat /\ disk.tree_ts <= newest
    /\ \A k \in Keys : Continues(history[k], chains'[k], disk.tree_ts) /\ Sorted(history[k], newest)
    /\ chains' \in [Keys -> Seq(Version)]
    /\ next_ts' = newest + 1 /\ current_ts' = newest
    /\ next_txn_id' \in Nat \ {0}
    /\ UNCHANGED log /\ flushed' = Len(log) /\ UNCHANGED synced
    /\ opening' = (newest > disk.tree_ts)
    /\ acked' = IF opening' THEN acked ELSE newest

LEMMA DownFacts ==
  ASSUME RunInv, LogInv, Clean, op = "down"
  PROVE  /\ setting.crashes # 0 /\ TypeOK
         /\ DOMAIN active = {} /\ DOMAIN live_snapshots = {}
         /\ Keeps(log, history, disk.tree_ts, NewestTs(disk, log))
<1>1. /\ setting.crashes # 0 /\ DOMAIN active = {} /\ DOMAIN live_snapshots = {}
  BY Zenon DEF RunInv
<1>2. TypeOK
  BY Zenon DEF RunInv, EngineTypeOK
<1>3. Pending = history /\ Reach = NewestTs(disk, log)
  BY <1>2, PendingIs DEF PendingSays, Reach
<1>4. Keeps(log, Pending, disk.tree_ts, Reach)
  BY <1>1, Zenon DEF LogInv
<1> QED
  BY <1>1, <1>2, <1>3, <1>4, Zenon

LEMMA OpenRecovers ==
  ASSUME RunInv, LogInv, Open, Readable
  PROVE  /\ Recovered(NewestTs(disk, log))
         /\ \A i \in WriteFrames(log) \cup CommitFrames(log) : log[i].txn < next_txn_id'
<1> DEFINE newest == NewestTs(disk, log)
           lo == disk.tree_ts
           m == MaxTxnIdIn(log)
           c == CommitTs(log)
<1>1. op = "down" /\ Clean
  BY Zenon DEF Open, Unrecoverable, Clean
<1>2. Keeps(log, history, lo, newest)
  BY <1>1, DownFacts
<1>3. /\ newest \in Nat /\ lo <= newest /\ log \in Seq(Frame)
      /\ \A k \in Keys : Sorted(history[k], newest)
  BY <1>2, Zenon DEF Keeps
<1>4. /\ ValidPrefix(log) = log /\ Ranks(log) = {c}
      /\ \A k \in Keys : Continues(history[k], Replayed(log, lo, c, k), lo)
      /\ m \in Nat /\ \A i \in WriteFrames(log) \cup CommitFrames(log) : log[i].txn <= m
  BY Zenon DEF Readable
<1>5. /\ \E rank \in {c} : chains' = [k \in Keys |-> Replayed(log, lo, rank, k)]
      /\ next_ts' = newest + 1
      /\ next_txn_id' = Max({disk.next_txn_id, m + 1})
      /\ log' = log /\ flushed' = Len(log) /\ synced' = synced
      /\ opening' = (newest > lo)
      /\ acked' = IF opening' THEN acked ELSE newest
  BY <1>4 DEF Open
<1> HIDE DEF newest, lo, m, c
<1>6. chains' = [k \in Keys |-> Replayed(log, lo, c, k)]
  BY <1>5
<1>7. \A k \in Keys : Continues(history[k], chains'[k], lo)
  BY <1>4, <1>6
<1>8. chains' \in [Keys -> Seq(Version)]
  <2>1. \A k \in Keys : Replayed(log, lo, c, k) \in Seq(Version)
    BY <1>4, Zenon DEF Continues
  <2> QED
    BY <1>6, <2>1
<1>9. \A i \in WriteFrames(log) \cup CommitFrames(log) : log[i].txn \in Nat
  BY <1>3, LogEntries
<1>10. disk.next_txn_id \in Nat \ {0}
  BY RunTypes
<1>11. next_txn_id' \in Nat \ {0} /\ m < next_txn_id'
  <2> DEFINE n == m + 1
  <2>1. n \in Nat /\ m < n
    BY <1>4
  <2>2. next_txn_id' = Max({disk.next_txn_id, n})
    BY <1>5
  <2> HIDE DEF n
  <2>3. Max({disk.next_txn_id, n}) \in Nat /\ n <= Max({disk.next_txn_id, n})
    BY <1>10, <2>1, MaxOfTwo
  <2> QED
    BY <1>4, <2>1, <2>2, <2>3
<1>12. \A i \in WriteFrames(log) \cup CommitFrames(log) : log[i].txn < next_txn_id'
  BY <1>4, <1>9, <1>11
<1>13. current_ts' = newest
  BY <1>3, <1>5 DEF current_ts
<1>14. Recovered(newest)
  BY <1>3, <1>5, <1>7, <1>8, <1>11, <1>13, Zenon DEF Recovered, lo
<1> QED
  BY <1>12, <1>14, Zenon DEF newest

(* So an open database is in order, from its first moment.                 *)
LEMMA OpenEInv ==
  ASSUME EInv, Open, Readable, Cardinality({}) = 0
  PROVE  EInv'
<1> DEFINE newest == NewestTs(disk, log)
           lo == disk.tree_ts
<1>1. RunInv /\ TreeMatchesTreeTs /\ LogInv /\ DurInv
  BY DEF EInv
<1>2. op = "down" /\ Clean /\ ~Unrecoverable
  BY Zenon DEF Open, Unrecoverable, Clean
<1>3. /\ setting.crashes # 0 /\ TypeOK
      /\ DOMAIN active = {} /\ DOMAIN live_snapshots = {}
      /\ Keeps(log, history, lo, newest)
  BY <1>1, <1>2, DownFacts
<1>4. /\ Recovered(newest)
      /\ \A i \in WriteFrames(log) \cup CommitFrames(log) : log[i].txn < next_txn_id'
  BY <1>1, OpenRecovers
<1>5. /\ newest \in Nat /\ lo <= newest /\ next_ts' = newest + 1 /\ current_ts' = newest
      /\ next_txn_id' \in Nat \ {0}
      /\ log' = log /\ flushed' = Len(log) /\ synced' = synced
      /\ opening' = (newest > lo)
      /\ acked' = IF opening' THEN acked ELSE newest
  BY <1>4, Zenon DEF Recovered
<1>6. /\ \A k \in Keys : Continues(history[k], chains'[k], lo) /\ Sorted(history[k], newest)
      /\ chains' \in [Keys -> Seq(Version)]
  BY <1>4, Zenon DEF Recovered
<1>7. /\ op' = (IF opening' THEN "merge" ELSE "idle") /\ tree' = disk.tree
      /\ meta' = [tree_ts |-> lo, next_txn_id |-> disk.next_txn_id]
      /\ active' = active /\ live_snapshots' = live_snapshots /\ history' = history
      /\ committing' = committing /\ disk' = disk /\ next_auto_checkpoint' = next_auto_checkpoint
      /\ file' = file /\ stray' = stray /\ crashes' = crashes /\ setting' = setting
  BY Zenon DEF Open
<1>8. /\ disk \in [tree : [Keys -> Slot], tree_ts : Nat, next_txn_id : Nat \ {0}]
      /\ committing = 0 /\ Len(log) \in Nat /\ synced \in 0 .. Len(log)
      /\ log \in Seq(Frame \cup {Torn}) /\ acked \in Nat /\ next_auto_checkpoint \in Nat \ {0}
      /\ file \in {"whole", "half", "bare"}
  BY <1>1, <1>2, RunTypes
<1>9. lo \in Nat /\ disk.next_txn_id \in Nat \ {0} /\ disk.tree \in [Keys -> Slot]
  BY <1>8
<1> HIDE DEF newest, lo
<1>10. op' \in {"merge", "idle"} /\ opening' \in BOOLEAN
  BY <1>5, <1>7
<1>11. TypeOK'
  <2>1. /\ history \in [Keys -> Seq([ts : Nat, val : Slot, snap : Nat])]
        /\ active \in [DOMAIN active -> Transaction]
        /\ live_snapshots \in [DOMAIN live_snapshots -> Nat \ {0}]
    BY <1>3, Zenon DEF TypeOK
  <2>2. /\ next_ts' \in Nat \ {0} /\ DOMAIN active \subseteq 1 .. (next_txn_id' - 1)
        /\ DOMAIN live_snapshots \subseteq 0 .. (next_ts' - 1)
    BY <1>3, <1>5
  <2> QED
    BY <1>5, <1>6, <1>7, <1>9, <2>1, <2>2, Zenon DEF TypeOK
<1>12. IInv'
  <2>1. SnapshotsCounted'
    <3>1. \A s : {t \in DOMAIN active : active[t].snapshot = s} = {}
      BY <1>3
    <3>2. \A s : Cardinality({t \in DOMAIN active : active[t].snapshot = s}) = 0
      BY <3>1
    <3> QED
      BY <1>3, <1>7, <3>2 DEF SnapshotsCounted
  <2>2. SnapshotInv' /\ CutInv'
    BY <1>3, <1>7 DEF SnapshotInv, CutInv
  <2>3. SuffixInv'
    <3>1. \A k \in Keys : disk.tree[k] = AsOf(history[k], None, lo)
      BY <1>1, <1>2, Zenon DEF TreeMatchesTreeTs, lo
    <3>2. \A k \in Keys : Represents(history[k], chains'[k], AsOf(history[k], None, lo))
      BY <1>6, Zenon DEF Continues
    <3> QED
      BY <1>7, <3>1, <3>2 DEF SuffixInv
  <2>4. SortedInv'
    BY <1>5, <1>6, <1>7, Zenon DEF SortedInv
  <2>5. FirstCommitterWins'
    BY <1>1, <1>7, Zenon DEF RunInv, FirstCommitterWins
  <2> QED
    BY <1>11, <2>1, <2>2, <2>3, <2>4, <2>5, Zenon DEF IInv
<1>13. RunInv'
  <2>1. acked \in Nat /\ crashes \in Nat /\ setting \in Settings /\ FaultsTolerated
    BY <1>1, Zenon DEF RunInv
  <2>2. acked' \in Nat /\ crashes' \in Nat /\ setting' \in Settings /\ FaultsTolerated'
    BY <1>5, <1>7, <2>1 DEF FaultsTolerated
  <2>3. meta' \in [tree_ts : Nat, next_txn_id : Nat \ {0}]
    BY <1>7, <1>9
  <2>4. flushed' \in 0 .. Len(log') /\ synced' \in 0 .. flushed'
    BY <1>5, <1>8
  <2>5. EngineTypeOK'
    BY <1>5, <1>7, <1>8, <1>10, <1>11, <2>3, <2>4 DEF EngineTypeOK
  <2>6. FirstCommitterWins'
    BY <1>12, Zenon DEF IInv
  <2> QED
    BY <1>5, <1>7, <1>8, <1>10, <1>12, <2>2, <2>5, <2>6 DEF RunInv
<1>14. TreeInv'
  <2>1. TreeAt(lo)'
    <3>1. lo' = lo
      BY <1>7 DEF lo
    <3> QED
      BY <1>6, <1>7, <3>1, Zenon DEF TreeAt, Continues
  <2>2. meta'.tree_ts = lo /\ disk'.tree_ts = lo /\ lo' = lo
    BY <1>7 DEF lo
  <2>3. disk' = Image'
    BY <1>7, <1>8 DEF Image, lo
  <2>4. TreeAt(meta.tree_ts)'
    BY <2>1, <2>2, Zenon
  <2> QED
    BY <1>3, <1>5, <1>7, <1>9, <2>2, <2>3, <2>4 DEF TreeInv
<1>15. TreeMatchesTreeTs'
  BY <1>1, <1>2, <1>7, Zenon DEF TreeMatchesTreeTs
<1>16. LogInv'
  <2>1. PendingSays'
    BY <1>11, PendingIs, PTL
  <2>2. Pending' = history /\ Reach' = newest
    BY <1>5, <1>7, <1>10, <2>1 DEF PendingSays, Reach
  <2>3. Keeps(log, Pending, disk.tree_ts, Reach)'
    BY <1>3, <1>5, <1>7, <2>2, Zenon DEF lo
  <2>4. IdsSpent'
    BY <1>3, <1>4, <1>5, <1>7 DEF IdsSpent
  <2> QED
    BY <2>3, <2>4, Zenon DEF LogInv
<1>17. DurInv'
  <2>1. HistoryKept'
    BY <1>3, <1>5, <1>7, Zenon DEF HistoryKept, lo
  <2>2. AllCovered'
    BY <2>1, KeptCovers, PTL
  <2>3. Covered(flushed)'
    BY <1>5, <2>2, Zenon DEF AllCovered
  <2>4. ASSUME setting.sync_on_commit
        PROVE  Covered(synced)'
    <3>1. Covered(synced)
      BY <1>1, <1>2, <2>4, Zenon DEF DurInv
    <3>2. CASE opening'
      BY <1>5, <1>7, <3>1, <3>2, SMTT(20) DEF Covered
    <3>3. CASE ~opening'
      <4>0. ~(newest > lo)
        BY <1>5, <3>3, Zenon
      <4>1. newest = lo
        BY <1>5, <1>9, <4>0
      <4>2. \A k \in Keys : \A i \in 1 .. Len(history[k]) : history[k][i].ts <= lo
        BY <1>6, <4>1, Zenon DEF Sorted
      <4> QED
        BY <1>7, <4>2 DEF Covered, lo
    <3> QED
      BY <3>2, <3>3
  <2>5. Ready' => acked' = current_ts'
    BY <1>5 DEF Ready
  <2> QED
    BY <1>7, <2>3, <2>4, <2>5 DEF DurInv
<1>18. StrayInv'
  BY <1>3, <1>5, Zenon DEF StrayInv, Keeps, Holds
<1> QED
  BY <1>10, <1>13, <1>14, <1>15, <1>16, <1>17, <1>18 DEF EInv, Reserved

(* A step that changes nothing.                                            *)
LEMMA StutterEInv ==
  ASSUME EInv, UNCHANGED vars
  PROVE  EInv'
<1>1. RunInv /\ TreeInv /\ TreeMatchesTreeTs /\ Reserved /\ LogInv /\ DurInv /\ StrayInv
  BY DEF EInv
<1>2. /\ vsvars' = vsvars /\ op' = op /\ committing' = committing /\ opening' = opening
      /\ log' = log /\ flushed' = flushed /\ synced' = synced /\ meta' = meta /\ disk' = disk
      /\ file' = file /\ next_auto_checkpoint' = next_auto_checkpoint
      /\ acked' = acked /\ stray' = stray /\ crashes' = crashes /\ setting' = setting
  BY Zenon DEF vars, logvars, rest
<1>3. /\ chains' = chains /\ next_ts' = next_ts /\ next_txn_id' = next_txn_id /\ active' = active
      /\ live_snapshots' = live_snapshots /\ tree' = tree /\ history' = history
  BY <1>2, Zenon DEF vsvars
<1>4. current_ts' = current_ts /\ Image' = Image
  BY <1>2, <1>3, Zenon DEF current_ts, Image
<1>5. RunInv'
  <2>1. op' # "down" => IInv'
    BY <1>1, <1>2, SameStore DEF RunInv
  <2>2. TypeOK'
    BY <1>1, <1>3, Zenon DEF RunInv, EngineTypeOK, TypeOK
  <2>3. EngineTypeOK
    BY <1>1, Zenon DEF RunInv
  <2>4. EngineTypeOK'
    BY <1>2, <1>3, <2>2, <2>3, Zenon DEF EngineTypeOK
  <2>5. FirstCommitterWins' /\ FaultsTolerated'
    BY <1>1, <1>2, <1>3, Zenon DEF RunInv, FirstCommitterWins, FaultsTolerated
  <2>6. MayCommit(committing)' = MayCommit(committing)
    BY <1>2, <1>3, Zenon DEF MayCommit, detect_conflict, Writes, NewerThan
  <2> QED
    BY <1>1, <1>2, <1>3, <2>1, <2>4, <2>5, <2>6, Zenon DEF RunInv
<1>6. TreeInv' /\ TreeMatchesTreeTs'
  BY <1>1, <1>2, <1>3, <1>4, Zenon DEF TreeInv, TreeAt, TreeMatchesTreeTs, Unrecoverable
<1>7. Reserved'
  BY <1>1, <1>2, <1>3, <1>4, Zenon DEF Reserved, RetainedTimestamps
<1>8. LogInv'
  <2>1. Pending' = Pending /\ Reach' = Reach
    BY <1>2, <1>3, <1>4, Zenon DEF Pending, WithPending, AfterCommit, Writes, Reach
  <2> QED
    BY <1>1, <1>2, <1>3, <2>1, Zenon DEF LogInv, IdsSpent, Clean
<1>9. DurInv'
  BY <1>1, <1>2, <1>3, <1>4, Zenon DEF DurInv, Covered, Ready, Clean
<1>10. StrayInv'
  BY <1>1, <1>2, <1>3, <1>4, Zenon DEF StrayInv
<1> QED
  BY <1>5, <1>6, <1>7, <1>8, <1>9, <1>10, Zenon DEF EInv

-----------------------------------------------------------------------------
(* All steps together, given what each does to the store and the log.      *)

(* A failed append leaves some of the frames, the last perhaps torn, and   *)
(* no commit record.                                                       *)
LEMMA AppendTyped ==
  ASSUME EInv, NEW t \in DOMAIN active, AppendFails(t), Frames(t) \in Seq(Frame),
         \A i \in 1 .. (Len(Frames(t)) - 1) : Frames(t)[i].type # "commit"
  PROVE  /\ log' \in Seq(Frame \cup {Torn}) /\ Len(log) <= Len(log')
         /\ \A i \in CommitFrames(log') : i \in CommitFrames(log) /\ log'[i] = log[i]
<1> DEFINE b == Frames(t)
           S == Frame \cup {Torn}
<1>1. /\ op = "idle" /\ MayCommit(t)
      /\ \E n \in 0 .. (Len(b) - 1), tail \in {<<>>, <<Torn>>} :
            log' = log \o SubSeq(b, 1, n) \o tail
  BY Zenon DEF AppendFails
<1>2. RunInv
  BY DEF EInv
<1>3. b \in Seq(Frame) /\ \A i \in 1 .. (Len(b) - 1) : b[i].type # "commit"
  OBVIOUS
<1>4. log \in Seq(S) /\ Torn \in S
  BY <1>1, <1>2, RunTypes
<1> HIDE DEF b
<1>5. b \in Seq(S)
  BY <1>3
<1>6. PICK n \in 0 .. (Len(b) - 1), tail \in {<<>>, <<Torn>>} : log' = log \o SubSeq(b, 1, n) \o tail
  BY <1>1, Zenon
<1> HIDE DEF S
<1>7. tail \in Seq(S) /\ Len(tail) \in Nat
  <2>1. <<>> \in Seq(S) /\ <<Torn>> \in Seq(S)
    BY <1>4
  <2>2. tail \in Seq(S)
    BY <1>6, <2>1, Zenon
  <2> QED
    BY <2>2
<1>8. SubSeq(b, 1, n) \in Seq(S) /\ Len(SubSeq(b, 1, n)) \in Nat
  BY <1>5, <1>6
<1>9. log' \in Seq(S) /\ Len(log) <= Len(log')
  BY <1>4, <1>6, <1>7, <1>8
<1>10. ASSUME NEW i \in 1 .. Len(log'), log'[i].type = "commit"
       PROVE  i \in 1 .. Len(log) /\ log'[i] = log[i]
  <2>1. \A j \in 1 .. Len(SubSeq(b, 1, n)) : SubSeq(b, 1, n)[j].type # "commit"
    BY <1>3, <1>6
  <2>2. \A j \in 1 .. Len(tail) : tail[j].type # "commit"
    BY <1>6 DEF Torn
  <2> DEFINE a == SubSeq(b, 1, n)
  <2>3. /\ a \in Seq(S) /\ Len(a) \in Nat /\ log' = log \o a \o tail
        /\ \A j \in 1 .. Len(a) : a[j].type # "commit"
    BY <1>6, <1>8, <2>1
  <2> HIDE DEF a
  <2>4. \/ i \in 1 .. Len(log) /\ log'[i] = log[i]
        \/ \E j \in 1 .. Len(a) : log'[i] = a[j]
        \/ \E j \in 1 .. Len(tail) : log'[i] = tail[j]
    <3> DEFINE m == log \o a
    <3>1. /\ m \in Seq(S) /\ Len(m) = Len(log) + Len(a) /\ Len(log) \in Nat
          /\ \A j \in 1 .. Len(log) : m[j] = log[j]
          /\ \A j \in 1 .. Len(m) : j \in 1 .. Len(log) \/ j - Len(log) \in 1 .. Len(a)
          /\ \A j \in 1 .. Len(m) : j \in 1 .. Len(log) \/ m[j] = a[j - Len(log)]
      BY <1>4, <2>3
    <3>2. log' = m \o tail
      BY <2>3
    <3> HIDE DEF m
    <3>3. \/ i \in 1 .. Len(m) /\ log'[i] = m[i]
          \/ \E j \in 1 .. Len(tail) : log'[i] = tail[j]
      <4>1. CASE i \in 1 .. Len(m)
        BY <1>7, <3>1, <3>2, <4>1
      <4>2. CASE i \notin 1 .. Len(m)
        <5>1. i - Len(m) \in 1 .. Len(tail) /\ log'[i] = tail[i - Len(m)]
          BY <1>7, <1>10, <3>1, <3>2, <4>2
        <5> QED
          BY <5>1
      <4> QED
        BY <4>1, <4>2
    <3> QED
      BY <3>1, <3>3
  <2> QED
    BY <1>10, <2>2, <2>3, <2>4
<1> QED
  BY <1>9, <1>10 DEF S, CommitFrames

(* A new database has no versions, and its tree is that of timestamp 0.    *)
LEMMA NewFacts ==
  ASSUME EngineInit, IInv
  PROVE  /\ TreeAt(0) /\ history \in [Keys -> Seq(Committed)]
         /\ \A k \in Keys : /\ Sorted(history[k], 0)
                            /\ \A i \in 1 .. Len(history[k]) : history[k][i].ts <= 0
<1>1. \A k \in Keys : chains[k] = <<>> /\ history[k] = <<>>
  BY Zenon DEF EngineInit, Init
<1>2. \A k \in Keys : 1 .. Len(chains[k]) = {} /\ 1 .. Len(history[k]) = {}
  <2>1. 1 .. Len(<<>>) = {}
    OBVIOUS
  <2> QED
    BY <1>1, <2>1, Zenon
<1>3. TreeAt(0)
  <2>1. ASSUME NEW k \in Keys
        PROVE  CutBelow(history[k], chains[k], 0)
    BY <1>1 DEF CutBelow
  <2> QED
    BY <1>2, <2>1, Zenon DEF TreeAt
<1>4. history \in [Keys -> Seq(Committed)]
  BY Zenon DEF IInv, TypeOK, Committed
<1>5. \A k \in Keys : Sorted(history[k], 0) /\ \A i \in 1 .. Len(history[k]) : history[k][i].ts <= 0
  BY <1>2, ZenonT(30) DEF Sorted
<1> QED
  BY <1>3, <1>4, <1>5

(* A new database is in order.                                             *)
LEMMA NewEInv ==
  ASSUME EngineInit, FaultsTolerated, IInv, Keeps(<<>>, history, 0, 0),
         \A k \in Keys : tree[k] = AsOf(history[k], None, 0)
  PROVE  EInv
<1>1. /\ Init /\ op = "idle" /\ committing = 0 /\ opening = FALSE
      /\ log = <<>> /\ flushed = 0 /\ synced = 0
      /\ meta = [tree_ts |-> 0, next_txn_id |-> 1]
      /\ disk = [tree |-> [k \in Keys |-> None], tree_ts |-> 0, next_txn_id |-> 1]
      /\ file = "whole" /\ next_auto_checkpoint = CheckpointFrames
      /\ acked = 0 /\ crashes = 0 /\ setting \in Settings
  BY Zenon DEF EngineInit
<1>2. disk.tree_ts = 0 /\ meta.tree_ts = 0
  BY <1>1
<1>4. TypeOK /\ FirstCommitterWins
  BY DEF IInv
<1>5. /\ current_ts = 0 /\ tree = [k \in Keys |-> None]
      /\ DOMAIN live_snapshots = {} /\ DOMAIN active = {}
  BY <1>1 DEF Init, current_ts
<1>6. disk = Image
  BY <1>1, <1>5 DEF Image
<1>7. \A k \in Keys : chains[k] = <<>> /\ history[k] = <<>>
  BY <1>1, Zenon DEF Init
<1>8. \A k \in Keys : 1 .. Len(chains[k]) = {} /\ 1 .. Len(history[k]) = {}
  <2>1. 1 .. Len(<<>>) = {}
    OBVIOUS
  <2> QED
    BY <1>7, <2>1, Zenon
<1>9. RunInv
  <2>1. log \in Seq(Frame \cup {Torn}) /\ flushed \in 0 .. Len(log) /\ synced \in 0 .. flushed
    BY <1>1
  <2>2. disk \in [tree : [Keys -> Slot], tree_ts : Nat, next_txn_id : Nat \ {0}]
    BY <1>1 DEF Slot
  <2>3. meta \in [tree_ts : Nat, next_txn_id : Nat \ {0}] /\ next_auto_checkpoint \in Nat \ {0}
    BY <1>1, EngineAssumption
  <2>4. EngineTypeOK
    BY <1>1, <1>4, <2>1, <2>2, <2>3 DEF EngineTypeOK
  <2> QED
    BY <1>1, <1>4, <2>1, <2>4, SMTT(20) DEF RunInv
<1>10. TreeAt(0)
  BY NewFacts
<1>11. TreeInv
  BY <1>1, <1>2, <1>5, <1>6, <1>10 DEF TreeInv
<1>12. TreeMatchesTreeTs
  <2>2. disk.tree = tree
    BY <1>6, SMTT(20) DEF Image
  <2> QED
    BY <1>2, <2>2, ZenonT(30) DEF TreeMatchesTreeTs
<1>13. LogInv
  <2>1. Pending = history /\ Reach = 0
    BY <1>1, <1>4, <1>5, PendingIs, SMTT(20) DEF PendingSays, Reach
  <2>5. WriteFrames(log) = {} /\ CommitFrames(log) = {}
    BY <1>1, SMTT(20) DEF WriteFrames, CommitFrames
  <2> QED
    BY <1>1, <1>2, <2>1, <2>5, SMTT(20) DEF LogInv, IdsSpent
<1>14. DurInv
  BY <1>1, <1>5, <1>8 DEF DurInv, Covered
<1>15. StrayInv
  <2>1. CommitFrames(log) = {}
    BY <1>1, SMTT(20) DEF CommitFrames
  <2> QED
    BY <2>1, Zenon DEF StrayInv
<1> QED
  BY <1>1, <1>9, <1>11, <1>12, <1>13, <1>14, <1>15 DEF EInv, Reserved

(* Begin, write, roll back, and commits that have nothing to do or meet a  *)
(* conflict.                                                               *)
MemoryStep ==
    \/ Begin
    \/ \E t \in DOMAIN active : Insert(t) \/ Delete(t) \/ Rollback(t) \/ CommitEnds(t)

LEMMA MemorySteps ==
  ASSUME EInv, MemoryStep
  PROVE  /\ op = "idle" /\ IInv
         /\ UNCHANGED <<op, committing, opening, logvars, meta, disk, file, next_auto_checkpoint, rest>>
         /\ \/ \E ro \in BOOLEAN : begin(ro)
            \/ \E t \in DOMAIN active :
                  \/ \E k \in Keys : \E v \in Slot : stage(t, k, v)
                  \/ rollback(t)
<1>1. /\ op = "idle"
      /\ UNCHANGED <<op, committing, opening, logvars, meta, disk, file, next_auto_checkpoint, rest>>
  BY Zenon DEF MemoryStep, Begin, Insert, Delete, Rollback, CommitEnds, InMemory
<1>2. IInv
  BY <1>1 DEF EInv, RunInv
<1>3. setting.keys \subseteq Keys
  BY EngineAssumption DEF EInv, RunInv
<1>4. \/ \E ro \in BOOLEAN : begin(ro)
      \/ \E t \in DOMAIN active :
            \/ \E k \in Keys : \E v \in Slot : stage(t, k, v)
            \/ rollback(t)
  <2>1. ASSUME NEW t \in DOMAIN active, Insert(t)
        PROVE  \E k \in Keys : \E v \in Slot : stage(t, k, v)
    BY <1>3, <2>1 DEF Insert, InMemory, insert, Slot
  <2>2. ASSUME NEW t \in DOMAIN active, Delete(t)
        PROVE  \E k \in Keys : \E v \in Slot : stage(t, k, v)
    BY <2>2 DEF Delete, InMemory, delete, Slot
  <2>3. ASSUME NEW t \in DOMAIN active, Rollback(t) \/ CommitEnds(t)
        PROVE  rollback(t)
    BY <2>3 DEF Rollback, CommitEnds, InMemory, CommitNothing, CommitConflicts
  <2>4. ASSUME Begin
        PROVE  \E ro \in BOOLEAN : begin(ro)
    BY <2>4 DEF Begin, InMemory
  <2> QED
    BY <2>1, <2>2, <2>3, <2>4, Zenon DEF MemoryStep
<1> QED
  BY <1>1, <1>2, <1>4, Zenon

(* Only the last frame of a commit is a commit record.                     *)
BlockTyped(t) ==
    /\ Frames(t) \in Seq(Frame)
    /\ \A i \in 1 .. (Len(Frames(t)) - 1) : Frames(t)[i].type # "commit"

(* What the steps of the engine do to the store and to the log.            *)
Supplied ==
    /\ MemoryStep => IInv' /\ Quiet
    /\ \A t \in DOMAIN active : /\ StartCommit(t) => Appended(t)
                                /\ AppendFails(t) => BlockTyped(t)
    /\ FinishCommit => Published
    /\ Merge => Merged
    /\ op \in {"idle", "flush"} => ImageKept
    /\ op = "reset" => NewLogKept
    /\ CommitAdds
    /\ \A machine \in BOOLEAN : Die(machine) /\ Clean => CutTo(NewestTs(disk', log'))
    /\ Open => Readable /\ Cardinality({}) = 0

(* Every step of the engine preserves the invariant.                       *)
LEMMA StepEInv ==
  ASSUME EInv, [EngineNext]_vars, Supplied
  PROVE  EInv'
<1>1. CASE MemoryStep
  <2>1. IInv' /\ Quiet
    BY <1>1 DEF Supplied
  <2> QED
    BY <1>1, <2>1, MemorySteps, MemoryEInv
<1>2. ASSUME NEW t \in DOMAIN active, StartCommit(t) \/ AppendFails(t)
      PROVE  EInv'
  <2>1. CASE StartCommit(t)
    BY <2>1, StartCommitEInv DEF Supplied
  <2>2. CASE AppendFails(t)
    <3>1. /\ Frames(t) \in Seq(Frame)
          /\ \A i \in 1 .. (Len(Frames(t)) - 1) : Frames(t)[i].type # "commit"
      BY <2>2 DEF Supplied, BlockTyped
    <3> QED
      BY <2>2, <3>1, AppendTyped, AppendFailsEInv
  <2> QED
    BY <1>2, <2>1, <2>2
<1>3. CASE FinishCommit
  BY <1>3, FinishCommitEInv DEF Supplied
<1>4. CASE SyncFails \/ StartCheckpoint \/ MergeFails
  BY <1>4, SyncFailsEInv, StartCheckpointEInv, MergeFailsEInv
<1>5. CASE Merge
  BY <1>5, MergeEInv DEF Supplied
<1>6. CASE Flush \/ FlushFails \/ SyncAll
  <2>1. op \in {"idle", "flush"}
    BY <1>6, Zenon DEF Flush, FlushFails, SyncAll
  <2>2. ImageKept
    BY <2>1 DEF Supplied
  <2> QED
    BY <1>6, <2>2, FlushEInv, FlushFailsEInv, SyncAllEInv
<1>7. CASE Reset \/ ResetFails
  <2>1. op = "reset"
    BY <1>7, Zenon DEF Reset, ResetFails
  <2>2. NewLogKept
    BY <2>1 DEF Supplied
  <2> QED
    BY <1>7, <2>2, ResetEInv, ResetFailsEInv
<1>8. CASE ProcessCrash \/ PowerLoss
  <2>1. PICK machine \in BOOLEAN : Die(machine)
    BY <1>8, ZenonT(30) DEF ProcessCrash, PowerLoss
  <2>2. (op = "flush" => ImageKept) /\ (op = "reset" => NewLogKept) /\ CommitAdds
    BY DEF Supplied
  <2>3. Clean => CutTo(NewestTs(disk', log'))
    BY <2>1 DEF Supplied
  <2> QED
    BY <2>1, <2>2, <2>3, DieEInv, DieLost
<1>9. CASE Open
  BY <1>9, OpenEInv DEF Supplied
<1>10. CASE OutOfScope \/ UNCHANGED vars
  <2>1. UNCHANGED vars
    BY <1>10, Zenon DEF OutOfScope
  <2> QED
    BY <2>1, StutterEInv
<1> QED
  BY <1>1, <1>2, <1>3, <1>4, <1>5, <1>6, <1>7, <1>8, <1>9, <1>10, Zenon DEF EngineNext, MemoryStep

(* Only commits, one at a time, and crashes change histories.              *)
LEMMA HistoryStep ==
  ASSUME EInv, [EngineNext]_vars, Supplied, ~ProcessCrash, ~PowerLoss, NEW k \in Keys
  PROVE  /\ Len(history[k]) <= Len(history'[k])
         /\ \A i \in 1 .. Len(history[k]) : history'[k][i] = history[k][i]
<1>1. Len(history[k]) \in Nat
  BY StampsTyped, SMTT(20) DEF EInv, RunInv, EngineTypeOK
<1>2. CASE FinishCommit
  <2>1. op = "commit" /\ Publish(committing)
    BY <1>2, Zenon DEF FinishCommit
  <2>2. history' = [x \in Keys |-> AfterCommit(committing, x)]
    BY <2>1, Zenon DEF Publish
  <2> QED
    BY <2>1, <2>2, Zenon DEF Supplied, CommitAdds
<1>3. ASSUME UNCHANGED history
      PROVE  /\ Len(history[k]) <= Len(history'[k])
             /\ \A i \in 1 .. Len(history[k]) : history'[k][i] = history[k][i]
  BY <1>1, <1>3, SMTT(20)
<1>4. MemoryStep => UNCHANGED history
  BY ZenonT(30) DEF Supplied, Quiet
<1>5. ASSUME NEW t \in DOMAIN active, StartCommit(t) \/ AppendFails(t)
      PROVE  UNCHANGED history
  BY <1>5, ZenonT(30) DEF StartCommit, AppendFails, vsvars
<1>6. SyncFails \/ StartCheckpoint \/ Merge \/ Flush \/ Reset \/ SyncAll => UNCHANGED history
  BY ZenonT(30) DEF SyncFails, StartCheckpoint, Merge, Flush, Reset, SyncAll, vsvars
<1>7. MergeFails \/ FlushFails \/ ResetFails \/ Open \/ OutOfScope \/ UNCHANGED vars
        => UNCHANGED history
  BY Zenon DEF MergeFails, FlushFails, ResetFails, Open, OutOfScope, vars, vsvars
<1> QED
  BY <1>2, <1>3, <1>4, <1>5, <1>6, <1>7, Zenon DEF EngineNext, MemoryStep

(* No step takes back a commit that clients were told of, if commits are   *)
(* synced or the machine stays up, and the files can be recovered from.    *)
LEMMA KnownStay ==
  ASSUME EInv, [EngineNext]_vars, Supplied, ~Unrecoverable', setting.sync_on_commit \/ ~PowerLoss, NEW k \in Keys,
         NEW i \in 1 .. Len(history[k]), history[k][i].ts <= acked
  PROVE  i <= Len(history'[k]) /\ history'[k][i] = history[k][i]
<1>1. CASE ~ProcessCrash /\ ~PowerLoss
  <2>1. /\ Len(history[k]) <= Len(history'[k])
        /\ \A j \in 1 .. Len(history[k]) : history'[k][j] = history[k][j]
    BY <1>1, HistoryStep, SMTT(20)
  <2>2. TypeOK /\ TypeOK'
    BY StepEInv, Zenon DEF EInv, RunInv, EngineTypeOK
  <2>3. /\ history[k] \in Seq([ts : Nat, val : Slot, snap : Nat])
        /\ history'[k] \in Seq([ts : Nat, val : Slot, snap : Nat])
    BY <2>2, Zenon DEF TypeOK
  <2>4. Len(history[k]) \in Nat /\ Len(history'[k]) \in Nat
    BY <2>3
  <2> QED
    BY <2>1, <2>4
<1>2. CASE ProcessCrash \/ PowerLoss
  <2>1. PICK machine \in BOOLEAN : Die(machine) /\ (setting.sync_on_commit \/ ~machine)
    BY <1>2, ZenonT(30) DEF ProcessCrash, PowerLoss
  <2>2. Clean
    BY <2>1, Zenon DEF Die, Unrecoverable, Clean
  <2>3. /\ (op = "flush" => ImageKept) /\ (op = "reset" => NewLogKept) /\ CommitAdds
        /\ CutTo(NewestTs(disk', log'))
    BY <2>1, <2>2 DEF Supplied
  <2> QED
    BY <2>1, <2>2, <2>3, DieSpares
<1> QED
  BY <1>1, <1>2

(* A database that is down can only be opened.                             *)
LEMMA DownOnlyOpens ==
  ASSUME EInv, [EngineNext]_vars, op = "down"
  PROVE  Open \/ UNCHANGED vars
<1>1. DOMAIN active = {}
  BY DEF EInv, RunInv
<1>2. ~(Begin \/ FinishCommit \/ SyncFails \/ StartCheckpoint \/ Merge \/ Flush \/ Reset)
  BY DEF Begin, InMemory, FinishCommit, SyncFails, StartCheckpoint, Merge, Flush, Reset
<1>3. ~(SyncAll \/ MergeFails \/ FlushFails \/ ResetFails \/ ProcessCrash \/ PowerLoss)
  BY DEF SyncAll, MergeFails, FlushFails, ResetFails, ProcessCrash, PowerLoss, Die
<1> QED
  BY <1>1, <1>2, <1>3, Zenon DEF EngineNext, OutOfScope

(* So the versions of a key up to the last one clients know of stay.       *)
LEMMA AckedStay ==
  ASSUME EInv, [EngineNext]_vars, Supplied, ~Unrecoverable', setting.sync_on_commit \/ ~PowerLoss, NEW k \in Keys,
         LET n == LastAt(history[k], acked) IN
             n \in 0 .. Len(history[k]) /\ (n # 0 => history[k][n].ts <= acked)
  PROVE  /\ LastAt(history[k], acked) <= Len(history'[k])
         /\ \A i \in 1 .. LastAt(history[k], acked) : history'[k][i] = history[k][i]
<1> DEFINE n == LastAt(history[k], acked)
<1>1. TypeOK /\ TypeOK' /\ acked \in Nat
  BY StepEInv, Zenon DEF EInv, RunInv, EngineTypeOK
<1>2. Len(history[k]) \in Nat /\ Len(history'[k]) \in Nat
  <2>1. /\ history[k] \in Seq([ts : Nat, val : Slot, snap : Nat])
        /\ history'[k] \in Seq([ts : Nat, val : Slot, snap : Nat])
    BY <1>1, Zenon DEF TypeOK
  <2> QED
    BY <2>1
<1>3. \A i \in 1 .. Len(history[k]) : history[k][i].ts \in Nat
  BY <1>1, StampsTyped
<1>4. n \in 0 .. Len(history[k]) /\ (n # 0 => history[k][n].ts <= acked)
  OBVIOUS
<1> HIDE DEF n
<1>5. ASSUME NEW i \in 1 .. n
      PROVE  i \in 1 .. Len(history[k]) /\ n \in 1 .. Len(history[k]) /\ (i < n \/ i = n) /\ n # 0
  BY <1>2, <1>4
<1>6. PICK hi : Sorted(history[k], hi)
  <2>1. CASE op # "down"
    BY <2>1, SMTT(20) DEF EInv, RunInv, IInv, SortedInv
  <2>2. CASE op = "down"
    <3>1. Clean
      <4>1. Open \/ UNCHANGED vars
        BY <2>2, DownOnlyOpens
      <4> QED
        BY <4>1, Zenon DEF Open, Unrecoverable, Clean, vars, rest
    <3> QED
      BY <2>2, <3>1, DownFacts, ZenonT(30) DEF EInv, Keeps
  <2> QED
    BY <2>1, <2>2, SMTT(20)
<1>7. ASSUME NEW i \in 1 .. n
      PROVE  history[k][i].ts <= acked
  <2>1. /\ i \in 1 .. Len(history[k]) /\ n \in 1 .. Len(history[k]) /\ (i < n \/ i = n)
        /\ history[k][n].ts <= acked
    BY <1>4, <1>5
  <2>2. i < n => history[k][i].ts < history[k][n].ts
    BY <1>6, <2>1 DEF Sorted
  <2>3. history[k][i].ts \in Nat /\ history[k][n].ts \in Nat
    BY <1>3, <2>1
  <2> QED
    BY <1>1, <2>1, <2>2, <2>3
<1>8. ASSUME NEW i \in 1 .. n
      PROVE  i <= Len(history'[k]) /\ history'[k][i] = history[k][i]
  BY <1>5, <1>7, KnownStay
<1>9. n <= Len(history'[k])
  <2>1. n # 0 => n \in 1 .. n
    BY <1>2, <1>4
  <2> QED
    BY <1>2, <1>8, <2>1
<1> QED
  BY <1>8, <1>9 DEF n

(* While no transaction is open, the files hold no commit that clients     *)
(* were not told of, but for those that failed.                            *)
LEMMA NothingAppears ==
  ASSUME EInv, Supplied, ProcessCrash \/ PowerLoss, Ready, DOMAIN active = {}
  PROVE  /\ disk'.tree_ts <= acked
         /\ \A i \in 1 .. Len(log') :
                log'[i].type = "commit" /\ log'[i].ts > acked
                    => <<log'[i].txn, log'[i].ts>> \in stray
<1>1. PICK machine \in BOOLEAN : Die(machine)
  BY ZenonT(30) DEF ProcessCrash, PowerLoss
<1>2. op # "down" /\ disk'.tree_ts <= current_ts
  BY <1>1, DieDisk DEF Supplied
<1>3. RunInv /\ StrayInv /\ acked = current_ts
  BY DEF EInv, DurInv
<1>4. op # "commit"
  BY <1>3 DEF RunInv, MayCommit
<1>5. current_ts \in Nat
  BY <1>2, <1>3, OpenFacts
<1>6. SUFFICES ASSUME NEW i \in 1 .. Len(log'), log'[i].type = "commit",
                      ~(<<log'[i].txn, log'[i].ts>> \in stray)
               PROVE  log'[i].ts \in Nat /\ log'[i].ts <= current_ts
  BY <1>2, <1>3, <1>5
<1>7. CASE \E n \in (IF machine THEN synced ELSE flushed) .. Len(log) : log' = SubSeq(log, 1, n)
  <2>1. /\ log \in Seq(Frame \cup {Torn}) /\ Len(log) \in Nat
        /\ flushed \in 0 .. Len(log) /\ synced \in 0 .. flushed
    BY <1>3, RunTypes
  <2>2. PICK n \in (IF machine THEN synced ELSE flushed) .. Len(log) : log' = SubSeq(log, 1, n)
    BY <1>7
  <2>3. n \in 0 .. Len(log)
    BY <2>1, <2>2
  <2>4. i \in 1 .. Len(log) /\ log'[i] = log[i]
    BY <1>6, <2>1, <2>2, <2>3
  <2>5. i \in CommitFrames(log)
    BY <1>6, <2>4 DEF CommitFrames
  <2>6. log[i].ts <= current_ts
    BY <1>2, <1>3, <1>4, <1>6, <2>4, <2>5 DEF StrayInv
  <2>7. log[i].ts \in Nat
    BY <2>1, <2>5, AnyEntries
  <2> QED
    BY <2>4, <2>6, <2>7
<1>8. CASE op = "reset" /\ log' \in PartialResets
  <2>1. Keeps(log', history, meta.tree_ts, current_ts)
    BY <1>8 DEF Supplied, NewLogKept, PartialResets
  <2>2. log' \in Seq(Frame) /\ \A j \in CommitFrames(log') : log'[j].ts <= current_ts
    BY <2>1, Zenon DEF Keeps, Holds
  <2>3. log'[i] \in Frame
    BY <1>6, <2>2
  <2>4. \A f \in Frame : f.type = "commit" => f.ts \in Nat
    BY DEF Frame
  <2>5. i \in CommitFrames(log')
    BY <1>6 DEF CommitFrames
  <2> QED
    BY <1>6, <2>2, <2>3, <2>4, <2>5
<1> QED
  BY <1>1, <1>7, <1>8 DEF Die

(* No id in the log is that of a transaction, open or to come.             *)
LEMMA IdsAreSpent == EInv => LoggedIdsAreSpent
<1> SUFFICES ASSUME EInv, Clean, op = "idle",
                    NEW t \in DOMAIN active \cup {next_txn_id}, NEW i \in 1 .. Len(log),
                    log[i].type \in {"write", "commit"}
             PROVE  log[i].txn # t
  BY SMTT(20) DEF LoggedIdsAreSpent, Clean
<1>1. IdsSpent /\ committing = 0 /\ TypeOK /\ log \in Seq(Frame)
  BY OpenFacts, RunTypes DEF EInv, LogInv, Keeps
<1>2. i \in WriteFrames(log) \cup CommitFrames(log)
  BY DEF WriteFrames, CommitFrames
<1>3. log[i].txn \in Nat
  BY <1>1, <1>2, LogEntries
<1>4. log[i].txn < next_txn_id /\ (log[i].txn \in DOMAIN active => log[i].txn = 0)
  BY <1>1, <1>2 DEF IdsSpent
<1>5. next_txn_id \in Nat /\ 0 \notin DOMAIN active
  BY <1>1 DEF TypeOK
<1> QED
  BY <1>3, <1>4, <1>5
=============================================================================
