-------------------------- MODULE EngineStepProofs --------------------------
(***************************************************************************)
(* The inductive invariant of the engine, for any keys, values, options,   *)
(* number of crashes and length of the log, and the proofs that the steps  *)
(* of the engine keep it.                                                  *)
(*                                                                         *)
(* The argument: the tree in the database file is the committed state as   *)
(* of the tree_ts stored beside it, and the log holds every commit above   *)
(* that (Keeps, in Wal), so that recovery finds the whole history.  A      *)
(* checkpoint may only rewrite the log after the tree has reached the      *)
(* disk; what it then leaves out is in that tree.                          *)
(*                                                                         *)
(* What a step does to the version store and to the contents of the log is *)
(* an assumption of its lemma here.  EngineProofs discharges each of them  *)
(* from the lemmas of VersionStoreProofs and WalProofs.                    *)
(***************************************************************************)
EXTENDS Engine, TLAPS

(* Errors after which the engine keeps its promises: a merge that fails    *)
(* after a flush that failed drops pages which the chains lack.            *)
FaultsTolerated == ~({"merge", "flush"} \subseteq setting.faults)

(* No remains of a failed commit are in the log.                           *)
Clean == stray = {}

-----------------------------------------------------------------------------
(* The inductive invariant.                                                *)

(* The histories with the commit under way, and how far they reach.        *)
Pending == [k \in Keys |-> WithPending(k)]

Reach == IF op = "down" THEN NewestTs(disk, log)
         ELSE IF op = "commit" THEN next_ts
         ELSE current_ts

RunInv ==
    /\ EngineTypeOK
    /\ log \in Seq(Frame \cup {Torn}) /\ acked \in Nat /\ crashes \in Nat
    /\ setting \in Settings /\ FaultsTolerated
    /\ op = "down" => /\ setting.crashes # 0
                      /\ DOMAIN active = {} /\ DOMAIN live_snapshots = {}
    /\ op # "down" => IInv
    /\ FirstCommitterWins
    /\ op = "commit" => MayCommit(committing)

(* The tree is at meta.tree_ts, which no live snapshot is below, and the   *)
(* file has the tree unless a flush is due or has failed.                  *)
TreeInv ==
    op # "down" =>
        /\ meta.tree_ts <= current_ts
        /\ \A s \in DOMAIN live_snapshots : meta.tree_ts <= s
        /\ TreeAt(meta.tree_ts)
        /\ disk.tree_ts <= meta.tree_ts
        /\ op = "reset" => disk = Image
        /\ "flush" \notin setting.faults /\ op # "flush" => disk = Image

(* No id in the log is that of an open transaction, or of one to come.     *)
IdsSpent ==
    \A i \in WriteFrames(log) \cup CommitFrames(log) :
        /\ log[i].txn < next_txn_id
        /\ log[i].txn \in DOMAIN active => log[i].txn = committing

(* The checkpoint has reserved the ids the new log will use.               *)
Reserved ==
    op \in {"flush", "reset"} =>
        LET n == Cardinality(RetainedTimestamps(meta.tree_ts))
        IN  n < next_txn_id /\ DOMAIN active \subseteq 1 .. (next_txn_id - 1 - n)

LogInv ==
    Clean => /\ Keeps(log, Pending, disk.tree_ts, Reach)
             /\ op # "down" => IdsSpent

(* Every commit clients know of is in the file or in the first n frames.   *)
Covered(n) ==
    \A k \in Keys : \A i \in 1 .. Len(history[k]) :
        history[k][i].ts <= acked =>
            \/ history[k][i].ts <= disk.tree_ts
            \/ \E j \in CommitFrames(log) : j <= n /\ history[k][i].ts <= log[j].ts

DurInv ==
    /\ Ready => acked = current_ts
    /\ Clean => /\ Covered(flushed)
                /\ setting.sync_on_commit => Covered(synced)

(* A commit record newer than what is committed is that of the commit      *)
(* under way, or of one that failed.                                       *)
StrayInv ==
    op # "down" =>
        \A i \in CommitFrames(log) :
            \/ log[i].ts <= current_ts
            \/ op = "commit" /\ log[i].txn = committing /\ log[i].ts = next_ts
            \/ <<log[i].txn, log[i].ts>> \in stray

EInv == RunInv /\ TreeInv /\ TreeMatchesTreeTs /\ Reserved /\ LogInv /\ DurInv /\ StrayInv

-----------------------------------------------------------------------------
(* Facts of the invariant, and what steps have in common.                  *)

(* Numbers of an open database.                                            *)
LEMMA OpenFacts ==
  ASSUME RunInv, op # "down"
  PROVE  /\ IInv /\ TypeOK
         /\ current_ts \in Nat /\ next_ts = current_ts + 1 /\ next_ts \in Nat
         /\ next_txn_id \in Nat \ {0}
         /\ meta.tree_ts \in Nat /\ disk.tree_ts \in Nat
         /\ Len(log) \in Nat
         /\ flushed \in 0 .. Len(log) /\ synced \in 0 .. flushed
<1>1. IInv /\ EngineTypeOK /\ log \in Seq(Frame \cup {Torn})
  BY DEF RunInv
<1>2. TypeOK
  BY <1>1 DEF IInv
<1>3. current_ts \in Nat /\ next_ts = current_ts + 1 /\ next_ts \in Nat
      /\ next_txn_id \in Nat \ {0}
  BY <1>2 DEF TypeOK, current_ts
<1>4. meta.tree_ts \in Nat /\ disk.tree_ts \in Nat
      /\ flushed \in 0 .. Len(log) /\ synced \in 0 .. flushed
  BY <1>1 DEF EngineTypeOK
<1>5. Len(log) \in Nat
  BY <1>1
<1> QED
  BY <1>1, <1>2, <1>3, <1>4, <1>5

(* No commit is under way except at "commit".                              *)
PendingSays ==
    /\ op # "commit" => Pending = history
    /\ op = "commit" => Pending = [k \in Keys |-> AfterCommit(committing, k)]

LEMMA PendingIs == TypeOK => PendingSays
<1>1. TypeOK => history = [k \in Keys |-> history[k]]
  BY DEF TypeOK
<1> QED
  BY <1>1 DEF PendingSays, Pending, WithPending

(* The store is left alone.                                                *)
LEMMA SameStore ==
  ASSUME IInv, UNCHANGED vsvars
  PROVE  IInv'
<1> /\ UNCHANGED chains /\ UNCHANGED next_ts /\ UNCHANGED next_txn_id /\ UNCHANGED active
    /\ UNCHANGED live_snapshots /\ UNCHANGED tree /\ UNCHANGED history /\ UNCHANGED current_ts
  BY DEF vsvars, current_ts
<1> TypeOK' /\ SnapshotInv' /\ SnapshotsCounted'
  BY Zenon DEF IInv, TypeOK, SnapshotInv, SnapshotsCounted
<1> SuffixInv' /\ SortedInv' /\ CutInv' /\ FirstCommitterWins'
  BY DEF IInv, SuffixInv, SortedInv, CutInv, FirstCommitterWins
<1> QED
  BY DEF IInv

(* What every step of an open database that ends no commit and is not a    *)
(* crash does.                                                             *)
LEMMA RunStep ==
  ASSUME RunInv, IInv', op # "down", op' \in {"idle", "merge", "flush", "reset"},
         committing' = 0, opening' => op' \in {"merge", "flush", "reset"},
         log' \in Seq(Frame \cup {Torn}),
         flushed' \in 0 .. Len(log'), synced' \in 0 .. flushed',
         meta' \in [tree_ts : Nat, next_txn_id : Nat \ {0}],
         disk' \in [tree : [Keys -> Slot], tree_ts : Nat, next_txn_id : Nat \ {0}],
         file' \in {"whole", "half", "bare"},
         next_auto_checkpoint' \in Nat \ {0}, acked' \in Nat,
         UNCHANGED crashes, UNCHANGED setting
  PROVE  RunInv'
<1>1. TypeOK' /\ FirstCommitterWins'
  BY DEF IInv
<1>2. EngineTypeOK'
  BY <1>1 DEF EngineTypeOK
<1>3. crashes' \in Nat /\ setting' \in Settings /\ FaultsTolerated'
  BY DEF RunInv, FaultsTolerated
<1> QED
  BY <1>1, <1>2, <1>3 DEF RunInv

(* The types of what a step leaves alone.                                  *)
LEMMA RunTypes ==
  ASSUME RunInv
  PROVE  /\ log \in Seq(Frame \cup {Torn}) /\ Len(log) \in Nat
         /\ flushed \in 0 .. Len(log) /\ synced \in 0 .. flushed
         /\ meta \in [tree_ts : Nat, next_txn_id : Nat \ {0}]
         /\ disk \in [tree : [Keys -> Slot], tree_ts : Nat, next_txn_id : Nat \ {0}]
         /\ file \in {"whole", "half", "bare"}
         /\ next_auto_checkpoint \in Nat \ {0} /\ acked \in Nat
         /\ (op = "commit") = (committing # 0)
         /\ opening => op \in {"merge", "flush", "reset"}
  BY DEF RunInv, EngineTypeOK

(* Neither tree, file nor chains change, and no flush comes due.           *)
LEMMA SameTree ==
  ASSUME RunInv, TreeInv, TreeMatchesTreeTs, op # "down", op' # "down",
         UNCHANGED chains, UNCHANGED history, UNCHANGED tree, UNCHANGED next_ts,
         UNCHANGED meta, UNCHANGED disk, UNCHANGED setting,
         DOMAIN live_snapshots' \subseteq DOMAIN live_snapshots \cup {current_ts},
         op' # "reset",
         op # "flush" \/ op' = "flush" \/ "flush" \in setting.faults
  PROVE  TreeInv' /\ TreeMatchesTreeTs'
<1>1. Image' = Image /\ current_ts' = current_ts
  BY DEF Image, current_ts
<1>2. TreeAt(meta.tree_ts)' <=> TreeAt(meta.tree_ts)
  BY DEF TreeAt
<1>3. \A s \in DOMAIN live_snapshots' : meta.tree_ts <= s
  BY DEF TreeInv
<1>4. TreeInv'
  BY <1>1, <1>2, <1>3 DEF TreeInv
<1>5. TreeMatchesTreeTs'
  BY DEF TreeMatchesTreeTs
<1> QED
  BY <1>4, <1>5

(* The fields of frames, and of versions, have their types.                *)
LEMMA LogEntries ==
  ASSUME log \in Seq(Frame)
  PROVE  /\ Len(log) \in Nat
         /\ \A i \in WriteFrames(log) \cup CommitFrames(log) :
                i \in 1 .. Len(log) /\ log[i].txn \in Nat
         /\ \A j \in CommitFrames(log) : log[j].ts \in Nat
<1>1. \A i \in 1 .. Len(log) : log[i] \in Frame
  OBVIOUS
<1>2. \A f \in Frame : f.type \in {"write", "commit"} => f.txn \in Nat
  BY DEF Frame
<1>3. \A f \in Frame : f.type = "commit" => f.ts \in Nat
  BY DEF Frame
<1> QED
  BY <1>1, <1>2, <1>3 DEF WriteFrames, CommitFrames

LEMMA AnyEntries ==
  ASSUME log \in Seq(Frame \cup {Torn})
  PROVE  \A j \in CommitFrames(log) : log[j].ts \in Nat
<1>1. \A i \in 1 .. Len(log) : log[i] \in Frame \/ log[i] = Torn
  OBVIOUS
<1>2. \A f \in Frame : f.type = "commit" => f.ts \in Nat
  BY DEF Frame
<1>3. Torn.type # "commit"
  BY DEF Torn
<1> QED
  BY <1>1, <1>2, <1>3 DEF CommitFrames

LEMMA StampsTyped ==
  ASSUME TypeOK, NEW k \in Keys
  PROVE  /\ history[k] \in Seq(Committed) /\ Len(history[k]) \in Nat
         /\ \A i \in 1 .. Len(history[k]) : history[k][i].ts \in Nat
<1>1. history[k] \in Seq(Committed)
  BY Zenon DEF TypeOK, Committed
<1>2. Len(history[k]) \in Nat /\ \A i \in 1 .. Len(history[k]) : history[k][i] \in Committed
  BY <1>1
<1>3. \A c \in Committed : c.ts \in Nat
  BY DEF Committed
<1> QED
  BY <1>1, <1>2, <1>3, Zenon

(* The log still keeps the histories, and ids of transactions that begin   *)
(* are new.                                                                *)
LEMMA SameLog ==
  ASSUME RunInv, LogInv, IInv', op \notin {"down", "commit"}, op' \notin {"down", "commit"},
         UNCHANGED log, UNCHANGED history, UNCHANGED next_ts, UNCHANGED disk,
         UNCHANGED stray, committing' = committing,
         next_txn_id <= next_txn_id',
         DOMAIN active' \subseteq DOMAIN active \cup {next_txn_id}
  PROVE  LogInv'
<1>1. SUFFICES ASSUME Clean
               PROVE  Keeps(log, Pending, disk.tree_ts, Reach)' /\ IdsSpent'
  BY DEF LogInv, Clean
<1>2. Keeps(log, Pending, disk.tree_ts, Reach) /\ IdsSpent
  BY <1>1 DEF LogInv
<1>3. TypeOK /\ TypeOK' /\ next_txn_id \in Nat
  BY OpenFacts DEF IInv
<1>4. Pending = history /\ Pending' = history'
  <2>1. PendingSays /\ PendingSays'
    BY <1>3, PendingIs, PTL
  <2> QED
    BY <2>1 DEF PendingSays
<1>5. Reach' = Reach
  BY DEF Reach, current_ts
<1>6. Keeps(log, Pending, disk.tree_ts, Reach)'
  BY <1>2, <1>4, <1>5
<1>7. log \in Seq(Frame)
  BY <1>2 DEF Keeps
<1>8. \A i \in WriteFrames(log) \cup CommitFrames(log) : log[i].txn \in Nat
  BY <1>7, LogEntries
<1>9. next_txn_id' \in Nat
  BY <1>3 DEF TypeOK
<1>10. IdsSpent'
  BY <1>2, <1>3, <1>8, <1>9 DEF IdsSpent
<1> QED
  BY <1>6, <1>10

(* What was in the file or the log stays there.                            *)
LEMMA SameCover ==
  ASSUME RunInv, DurInv, op # "down", op' # "down", disk'.tree_ts \in Nat,
         UNCHANGED history, UNCHANGED next_ts, UNCHANGED acked, UNCHANGED setting,
         UNCHANGED stray, UNCHANGED opening, IInv,
         disk.tree_ts <= disk'.tree_ts,
         \A j \in CommitFrames(log) : j \in CommitFrames(log') /\ log'[j] = log[j],
         flushed' \in Nat, flushed <= flushed', synced' \in Nat, synced <= synced'
  PROVE  DurInv'
<1>1. disk.tree_ts \in Nat /\ flushed \in Nat /\ synced \in Nat
      /\ \A j \in CommitFrames(log) : j \in Nat
  BY OpenFacts DEF CommitFrames
<1>2. \A k \in Keys : \A i \in 1 .. Len(history[k]) : history[k][i].ts \in Nat
  BY StampsTyped DEF IInv
<1>3. ASSUME NEW m \in Nat, NEW n \in Nat, m <= n, Covered(m),
             NEW k \in Keys, NEW i \in 1 .. Len(history[k]), history[k][i].ts <= acked
      PROVE  \/ history[k][i].ts <= disk'.tree_ts
             \/ \E j \in CommitFrames(log') : j <= n /\ history[k][i].ts <= log'[j].ts
  <2>1. CASE history[k][i].ts <= disk.tree_ts
    BY <1>1, <1>2, <2>1
  <2>2. CASE \E j \in CommitFrames(log) : j <= m /\ history[k][i].ts <= log[j].ts
    BY <1>1, <1>3, <2>2, SMTT(20)
  <2> QED
    BY <1>3, <2>1, <2>2 DEF Covered
<1>4. ASSUME Covered(flushed)
      PROVE  Covered(flushed)'
  <2>1. SUFFICES ASSUME NEW k \in Keys, NEW i \in 1 .. Len(history[k]), history[k][i].ts <= acked
                 PROVE  \/ history[k][i].ts <= disk'.tree_ts
                        \/ \E j \in CommitFrames(log') : j <= flushed' /\ history[k][i].ts <= log'[j].ts
    BY DEF Covered
  <2> QED
    BY <1>1, <1>3, <1>4, <2>1
<1>5. ASSUME Covered(synced)
      PROVE  Covered(synced)'
  <2>1. SUFFICES ASSUME NEW k \in Keys, NEW i \in 1 .. Len(history[k]), history[k][i].ts <= acked
                 PROVE  \/ history[k][i].ts <= disk'.tree_ts
                        \/ \E j \in CommitFrames(log') : j <= synced' /\ history[k][i].ts <= log'[j].ts
    BY DEF Covered
  <2> QED
    BY <1>1, <1>3, <1>5, <2>1
<1> QED
  BY <1>4, <1>5 DEF DurInv, Clean, Ready, current_ts

(* No commit record appears, no commit under way begins or ends.           *)
LEMMA SameStray ==
  ASSUME StrayInv, op \notin {"down", "commit"}, op' \notin {"down", "commit"},
         UNCHANGED log, UNCHANGED next_ts, UNCHANGED stray
  PROVE  StrayInv'
  BY DEF StrayInv, current_ts

-----------------------------------------------------------------------------
(* Transactions.                                                           *)

(* Operations that only touch memory (lib.rs:275-376, 404-430).            *)
LEMMA MemoryEInv ==
  ASSUME EInv, op = "idle", IInv', Quiet,
         UNCHANGED <<op, committing, opening, logvars, meta, disk, file,
                     next_auto_checkpoint, rest>>
  PROVE  EInv'
<1> USE DEF EInv
<1> /\ UNCHANGED op /\ UNCHANGED committing /\ UNCHANGED opening /\ UNCHANGED log
    /\ UNCHANGED flushed /\ UNCHANGED synced /\ UNCHANGED meta /\ UNCHANGED disk
    /\ UNCHANGED next_auto_checkpoint
    /\ UNCHANGED file /\ UNCHANGED acked /\ UNCHANGED stray /\ UNCHANGED crashes
    /\ UNCHANGED setting
  BY DEF logvars, rest
<1> RunInv'
  BY RunTypes, RunStep
<1> TreeInv' /\ TreeMatchesTreeTs'
  BY SameTree DEF Quiet
<1> LogInv'
  BY SameLog DEF Quiet
<1> DurInv'
  BY OpenFacts, SameCover DEF Quiet
<1> StrayInv'
  BY SameStray DEF Quiet
<1> QED
  BY DEF Reserved

(* The log has the commit of t behind what it had.                         *)
Appended(t) ==
    /\ log' \in Seq(Frame \cup {Torn}) /\ Len(log) <= Len(log')
    /\ \A i \in 1 .. Len(log) : log'[i] = log[i]
    /\ \A i \in CommitFrames(log') :
            i \in CommitFrames(log) \/ (log'[i].txn = t /\ log'[i].ts = next_ts)
    /\ Clean =>
        /\ Keeps(log', [k \in Keys |-> AfterCommit(t, k)], disk.tree_ts, next_ts)
        /\ \A i \in WriteFrames(log') \cup CommitFrames(log') :
                log'[i].txn = t \/ (i \in WriteFrames(log) \cup CommitFrames(log) /\ log'[i] = log[i])

(* The commit is appended to the log (wal.rs:321-341).                     *)
LEMMA StartCommitEInv ==
  ASSUME EInv, NEW t \in DOMAIN active, StartCommit(t), Appended(t)
  PROVE  EInv'
<1>1. RunInv /\ TreeInv /\ TreeMatchesTreeTs /\ Reserved /\ LogInv /\ DurInv /\ StrayInv
  BY DEF EInv
<1>2. op = "idle" /\ MayCommit(t) /\ op' = "commit" /\ committing' = t /\ UNCHANGED vsvars
  BY Zenon DEF StartCommit
<1>3. /\ UNCHANGED opening /\ UNCHANGED flushed /\ UNCHANGED synced /\ UNCHANGED meta
      /\ UNCHANGED disk /\ UNCHANGED next_auto_checkpoint
      /\ UNCHANGED file /\ UNCHANGED acked /\ UNCHANGED stray /\ UNCHANGED crashes
      /\ UNCHANGED setting
  BY Zenon DEF StartCommit, rest
<1>4. /\ UNCHANGED chains /\ UNCHANGED next_ts /\ UNCHANGED next_txn_id /\ UNCHANGED active
      /\ UNCHANGED live_snapshots /\ UNCHANGED tree /\ UNCHANGED history
  BY <1>2, Zenon DEF vsvars
<1>5. /\ IInv /\ TypeOK /\ next_ts \in Nat /\ Len(log) \in Nat
      /\ flushed \in 0 .. Len(log) /\ synced \in 0 .. flushed /\ disk.tree_ts \in Nat
  BY <1>1, <1>2, OpenFacts
<1>6. t \in Nat /\ t # 0 /\ t < next_txn_id /\ 0 \notin DOMAIN active
  BY <1>5 DEF TypeOK
<1>7. IInv'
  BY <1>2, <1>5, SameStore
<1>8. /\ log' \in Seq(Frame \cup {Torn}) /\ Len(log) <= Len(log')
      /\ \A i \in 1 .. Len(log) : log'[i] = log[i]
  BY Zenon DEF Appended
<1>9. flushed' \in 0 .. Len(log') /\ synced' \in 0 .. flushed' /\ Len(log') \in Nat
  BY <1>3, <1>5, <1>8
<1>10. RunInv'
  <2>1. MayCommit(committing)'
    <3>1. MayCommit(t)'
      BY <1>2, <1>4, Zenon DEF MayCommit, detect_conflict, Writes, NewerThan
    <3> QED
      BY <1>2, <3>1, Zenon
  <2>2. TypeOK' /\ FirstCommitterWins'
    BY <1>7 DEF IInv
  <2>3. /\ meta \in [tree_ts : Nat, next_txn_id : Nat \ {0}]
        /\ disk \in [tree : [Keys -> Slot], tree_ts : Nat, next_txn_id : Nat \ {0}]
        /\ file \in {"whole", "half", "bare"}
        /\ next_auto_checkpoint \in Nat \ {0} /\ acked \in Nat
        /\ opening => op \in {"merge", "flush", "reset"}
    BY <1>1, RunTypes, Zenon
  <2>4. ~opening
    BY <1>2, <2>3
  <2>5. EngineTypeOK'
    BY <1>2, <1>3, <1>4, <1>6, <1>9, <2>2, <2>3, <2>4 DEF EngineTypeOK
  <2>6. FaultsTolerated' /\ crashes' \in Nat /\ setting' \in Settings
    BY <1>1, <1>3, Zenon DEF RunInv, FaultsTolerated
  <2> QED
    BY <1>2, <1>3, <1>7, <1>8, <2>1, <2>2, <2>3, <2>5, <2>6, Zenon DEF RunInv
<1>11. TreeInv' /\ TreeMatchesTreeTs'
  BY <1>1, <1>2, <1>3, <1>4, SameTree
<1>12. LogInv'
  <2> SUFFICES ASSUME Clean
               PROVE  Keeps(log, Pending, disk.tree_ts, Reach)' /\ IdsSpent'
    BY <1>3, Zenon DEF LogInv, Clean
  <2>1. IdsSpent /\ committing = 0
    BY <1>1, <1>2, RunTypes, SMTT(20) DEF LogInv
  <2>2. IdsSpent'
    BY <1>2, <1>4, <1>6, <2>1 DEF IdsSpent, Appended
  <2>3. Pending' = [k \in Keys |-> AfterCommit(t, k)] /\ Reach' = next_ts
    BY <1>2, <1>4, Zenon DEF Pending, WithPending, AfterCommit, Writes, Reach
  <2> QED
    BY <1>3, <2>2, <2>3, Zenon DEF Appended
<1>13. DurInv'
  <2>1. ASSUME NEW j \in CommitFrames(log)
        PROVE  j \in CommitFrames(log') /\ log'[j] = log[j]
    BY <1>5, <1>8, <1>9 DEF CommitFrames
  <2>2. flushed' \in Nat /\ flushed <= flushed' /\ synced' \in Nat /\ synced <= synced'
    BY <1>3, <1>5
  <2> QED
    BY <1>1, <1>2, <1>3, <1>4, <1>5, <2>1, <2>2, SameCover, SMTT(20)
<1>14. StrayInv'
  <2>1. \A i \in CommitFrames(log) : log'[i] = log[i]
    BY <1>8 DEF CommitFrames
  <2>2. /\ \A i \in CommitFrames(log) :
                log[i].ts <= current_ts \/ <<log[i].txn, log[i].ts>> \in stray
        /\ current_ts' = current_ts
    BY <1>1, <1>2, <1>4 DEF StrayInv, current_ts
  <2>3. \A i \in CommitFrames(log') :
            i \in CommitFrames(log) \/ (log'[i].txn = t /\ log'[i].ts = next_ts)
    BY Zenon DEF Appended
  <2> QED
    BY <1>2, <1>3, <1>4, <2>1, <2>2, <2>3, Zenon DEF StrayInv
<1> QED
  BY <1>2, <1>10, <1>11, <1>12, <1>13, <1>14 DEF EInv, Reserved

(* A commit that is kept is in the tree or has its record in the log.      *)
LEMMA CommitsCovered ==
  ASSUME NEW frames, NEW H, NEW lo, NEW hi, Keeps(frames, H, lo, hi),
         NEW k \in Keys, NEW i \in 1 .. Len(H[k])
  PROVE  H[k][i].ts <= lo \/ \E j \in CommitFrames(frames) : H[k][i].ts = frames[j].ts
<1>1. /\ H[k] \in Seq(Committed) /\ lo \in Nat /\ hi \in Nat
      /\ Holds(frames, Versions(H), lo, hi)
      /\ Sorted(H[k], hi)
  BY DEF Keeps
<1> DEFINE x == [key |-> k, ts |-> H[k][i].ts, val |-> H[k][i].val]
           Of(l) == {[key |-> l, ts |-> H[l][n].ts, val |-> H[l][n].val] : n \in 1 .. Len(H[l])}
<1>2. x \in Versions(H)
  <2>1. x \in Of(k)
    OBVIOUS
  <2>2. Versions(H) = UNION {Of(l) : l \in Keys}
    BY DEF Versions
  <2> HIDE DEF x, Of
  <2> QED
    BY <2>1, <2>2, Zenon
<1>3. H[k][i].ts \in Nat /\ H[k][i].ts <= hi /\ x.ts = H[k][i].ts
  <2>1. H[k][i] \in Committed
    BY <1>1
  <2> QED
    BY <1>1, <2>1, SMTT(20) DEF Sorted, Committed
<1> HIDE DEF x
<1>4. lo < x.ts /\ x.ts <= hi => \E j \in CommitFrames(frames) : frames[j].ts = x.ts
  BY <1>1, <1>2 DEF Holds
<1> QED
  BY <1>1, <1>3, <1>4

(* A log that keeps the histories covers all they have.                    *)
HistoryKept == \E hi \in Nat : Keeps(log, history, disk.tree_ts, hi)

AllCovered ==
    /\ flushed = Len(log) => Covered(flushed)
    /\ synced = Len(log) => Covered(synced)

LEMMA KeptCovers == HistoryKept => AllCovered
<1> SUFFICES ASSUME NEW hi \in Nat, Keeps(log, history, disk.tree_ts, hi)
             PROVE  AllCovered
  BY DEF HistoryKept
<1>1. ASSUME NEW k \in Keys, NEW i \in 1 .. Len(history[k])
      PROVE  \/ history[k][i].ts <= disk.tree_ts
             \/ \E j \in CommitFrames(log) : j <= Len(log) /\ history[k][i].ts <= log[j].ts
  <2>1. \A j \in CommitFrames(log) : j \in 1 .. Len(log) /\ log[j].ts \in Nat /\ Len(log) \in Nat
    BY LogEntries DEF Keeps
  <2>2. history[k][i].ts <= disk.tree_ts \/ \E j \in CommitFrames(log) : history[k][i].ts = log[j].ts
    BY CommitsCovered
  <2> QED
    BY <2>1, <2>2
<1> QED
  BY <1>1 DEF AllCovered, Covered

(* The store has the commit, the tree is where it was.                     *)
Published ==
    /\ IInv'
    /\ \A k \in Keys :
        /\ CutBelow(history'[k], chains'[k], meta.tree_ts)
        /\ \A i \in 1 .. Len(chains'[k]) : chains'[k][i].ts > meta.tree_ts
        /\ AsOf(AfterCommit(committing, k), None, disk.tree_ts) = AsOf(history[k], None, disk.tree_ts)

(* The commit is on disk and published (lib.rs:439-473).                   *)
LEMMA FinishCommitEInv ==
  ASSUME EInv, FinishCommit, Published
  PROVE  EInv'
<1>1. RunInv /\ TreeInv /\ TreeMatchesTreeTs /\ Reserved /\ LogInv /\ DurInv /\ StrayInv
  BY DEF EInv
<1>2. /\ op = "commit" /\ flushed' = Len(log)
      /\ synced' = IF setting.sync_on_commit THEN Len(log) ELSE synced
      /\ Publish(committing) /\ acked' = next_ts /\ committing' = 0
      /\ op' = IF Len(log) >= next_auto_checkpoint THEN "merge" ELSE "idle"
  BY Zenon DEF FinishCommit
<1>3. /\ UNCHANGED opening /\ UNCHANGED log /\ UNCHANGED meta /\ UNCHANGED disk
      /\ UNCHANGED file /\ UNCHANGED stray
      /\ UNCHANGED next_auto_checkpoint /\ UNCHANGED crashes /\ UNCHANGED setting
  BY Zenon DEF FinishCommit
<1>4. op' \in {"merge", "idle"}
  BY <1>2
<1>5. /\ IInv /\ TypeOK /\ next_ts = current_ts + 1 /\ current_ts \in Nat /\ next_ts \in Nat
      /\ Len(log) \in Nat /\ flushed \in 0 .. Len(log) /\ synced \in 0 .. flushed
      /\ meta.tree_ts \in Nat
  BY <1>1, <1>2, OpenFacts
<1>6. IInv'
  BY DEF Published
<1>7. /\ next_ts' = next_ts + 1 /\ UNCHANGED tree
      /\ history' = [k \in Keys |-> AfterCommit(committing, k)]
      /\ EndTransaction(committing)
  BY <1>2, Zenon DEF Publish
<1>8. current_ts' = next_ts
  BY <1>5, <1>7 DEF current_ts
<1>9. DOMAIN active' \subseteq DOMAIN active
  BY <1>7 DEF EndTransaction
<1>10. DOMAIN live_snapshots' \subseteq DOMAIN live_snapshots
  BY <1>7 DEF EndTransaction, release_snapshot
<1>11. RunInv'
  <2>1. flushed' \in 0 .. Len(log') /\ synced' \in 0 .. flushed' /\ acked' \in Nat
    BY <1>2, <1>3, <1>5
  <2>2. ~opening
    BY <1>1, <1>2, RunTypes
  <2> QED
    BY <1>1, <1>2, <1>3, <1>4, <1>6, <2>1, <2>2, RunTypes, RunStep
<1>12. /\ meta.tree_ts <= current_ts /\ disk.tree_ts <= meta.tree_ts
       /\ \A s \in DOMAIN live_snapshots : meta.tree_ts <= s
       /\ "flush" \notin setting.faults => disk = Image
  BY <1>1, <1>2 DEF TreeInv
<1>13. TreeInv'
  <2>1. TreeAt(meta.tree_ts)'
    BY <1>3, Zenon DEF Published, TreeAt
  <2>2. Image' = Image
    BY <1>3, <1>7, Zenon DEF Image
  <2>3. meta'.tree_ts <= current_ts'
    BY <1>3, <1>5, <1>8, <1>12
  <2>4. \A s \in DOMAIN live_snapshots' : meta'.tree_ts <= s
    BY <1>3, <1>10, <1>12
  <2> QED
    BY <1>3, <1>4, <1>12, <2>1, <2>2, <2>3, <2>4 DEF TreeInv
<1>14. TreeMatchesTreeTs'
  <2>1. \A k \in Keys : history'[k] = AfterCommit(committing, k)
    BY <1>7
  <2>2. \A k \in Keys : disk.tree[k] = AsOf(history[k], None, disk.tree_ts)
    BY <1>1, <1>2 DEF TreeMatchesTreeTs
  <2> QED
    BY <1>3, <2>1, <2>2, Zenon DEF Published, TreeMatchesTreeTs
<1>15. PendingSays /\ PendingSays'
  BY <1>5, <1>6, PendingIs, PTL DEF IInv
<1>16. ASSUME Clean
       PROVE  Keeps(log, history, disk.tree_ts, current_ts)' /\ IdsSpent'
  <2>1. Keeps(log, Pending, disk.tree_ts, Reach) /\ IdsSpent
    BY <1>1, <1>2, <1>16 DEF LogInv
  <2>2. Pending = history' /\ Reach = current_ts'
    BY <1>2, <1>7, <1>8, <1>15 DEF PendingSays, Reach
  <2>3. Keeps(log, history, disk.tree_ts, current_ts)'
    BY <1>3, <2>1, <2>2, Zenon
  <2>4. \A i \in WriteFrames(log) \cup CommitFrames(log) :
            log[i].txn < next_txn_id' /\ log[i].txn \notin DOMAIN active'
    BY <1>2, <1>7, <2>1 DEF IdsSpent, Publish, EndTransaction
  <2> QED
    BY <1>3, <2>3, <2>4, Zenon DEF IdsSpent
<1>17. LogInv'
  <2>1. Pending' = history' /\ Reach' = current_ts'
    BY <1>4, <1>15 DEF PendingSays, Reach
  <2> QED
    BY <1>3, <1>16, <2>1, Zenon DEF LogInv, Clean
<1>18. DurInv'
  <2>1. ASSUME Clean
        PROVE  AllCovered'
    <3>1. HistoryKept'
      <4>1. current_ts' \in Nat
        BY <1>5, <1>8
      <4> QED
        BY <1>16, <2>1, <4>1, Zenon DEF HistoryKept
    <3> QED
      BY <3>1, KeptCovers, PTL
  <2>2. ASSUME Clean
        PROVE  Covered(flushed)' /\ (setting'.sync_on_commit => Covered(synced)')
    BY <1>2, <1>3, <2>1, <2>2, Zenon DEF AllCovered
  <2> QED
    BY <1>2, <1>3, <1>8, <2>2, Zenon DEF DurInv, Clean
<1>19. StrayInv'
  <2>1. \A i \in CommitFrames(log) : log[i].ts \in Nat
    BY <1>1, AnyEntries DEF RunInv
  <2>2. ASSUME NEW i \in CommitFrames(log)
        PROVE  log[i].ts <= next_ts \/ <<log[i].txn, log[i].ts>> \in stray
    <3>1. \/ log[i].ts <= current_ts \/ log[i].ts = next_ts
          \/ <<log[i].txn, log[i].ts>> \in stray
      BY <1>1, <1>2, <2>2 DEF StrayInv
    <3>2. log[i].ts \in Nat
      BY <2>1, <2>2
    <3> QED
      BY <1>5, <3>1, <3>2
  <2> QED
    BY <1>3, <1>8, <2>2, Zenon DEF StrayInv
<1> QED
  BY <1>4, <1>11, <1>13, <1>14, <1>17, <1>18, <1>19 DEF EInv, Reserved

(* A failed append (lib.rs:446-452).                                       *)
LEMMA AppendFailsEInv ==
  ASSUME EInv, NEW t \in DOMAIN active, AppendFails(t),
         log' \in Seq(Frame \cup {Torn}), Len(log) <= Len(log'),
         \A i \in CommitFrames(log') : i \in CommitFrames(log) /\ log'[i] = log[i]
  PROVE  EInv'
<1>1. RunInv /\ TreeInv /\ TreeMatchesTreeTs /\ Reserved /\ LogInv /\ DurInv /\ StrayInv
  BY DEF EInv
<1>2. "append" \in setting.faults /\ op = "idle" /\ UNCHANGED vsvars
  BY Zenon DEF AppendFails
<1>3. /\ UNCHANGED op /\ UNCHANGED committing /\ UNCHANGED opening
      /\ UNCHANGED flushed /\ UNCHANGED synced /\ UNCHANGED meta /\ UNCHANGED disk
      /\ UNCHANGED next_auto_checkpoint
      /\ UNCHANGED file /\ UNCHANGED acked /\ UNCHANGED crashes /\ UNCHANGED setting
      /\ stray' = IF log' = log THEN stray ELSE stray \cup {<<t, next_ts>>}
  BY Zenon DEF AppendFails
<1>4. /\ UNCHANGED chains /\ UNCHANGED next_ts /\ UNCHANGED next_txn_id /\ UNCHANGED active
      /\ UNCHANGED live_snapshots /\ UNCHANGED tree /\ UNCHANGED history
  BY <1>2, Zenon DEF vsvars
<1>5. /\ IInv /\ Len(log) \in Nat /\ flushed \in 0 .. Len(log) /\ synced \in 0 .. flushed
      /\ next_txn_id \in Nat /\ disk.tree_ts \in Nat
  BY <1>1, <1>2, OpenFacts
<1>6. IInv'
  BY <1>2, <1>5, SameStore
<1>7. RunInv'
  <2>1. flushed' \in 0 .. Len(log') /\ synced' \in 0 .. flushed'
    BY <1>3, <1>5
  <2>2. committing = 0
    BY <1>1, <1>2, RunTypes
  <2> QED
    BY <1>1, <1>2, <1>3, <1>6, <2>1, <2>2, RunTypes, RunStep
<1>8. TreeInv' /\ TreeMatchesTreeTs'
  BY <1>1, <1>2, <1>3, <1>4, SameTree
<1>9. CASE log' = log
  <2>1. UNCHANGED stray
    BY <1>3, <1>9
  <2>2. flushed \in Nat /\ synced \in Nat
    BY <1>5
  <2>3. LogInv'
    BY <1>1, <1>2, <1>3, <1>4, <1>5, <1>6, <1>9, <2>1, SameLog
  <2>4. DurInv'
    BY <1>1, <1>2, <1>3, <1>4, <1>5, <1>9, <2>1, <2>2, SameCover
  <2>5. StrayInv'
    BY <1>1, <1>2, <1>3, <1>4, <1>9, <2>1, SameStray
  <2> QED
    BY <1>2, <1>3, <1>7, <1>8, <2>3, <2>4, <2>5 DEF EInv, Reserved
<1>10. CASE log' # log
  <2>1. stray' = stray \cup {<<t, next_ts>>}
    BY <1>3, <1>10
  <2>2. ~Clean'
    BY <2>1 DEF Clean
  <2>3. StrayInv'
    BY <1>1, <1>2, <1>3, <1>4, <2>1 DEF StrayInv, current_ts
  <2>4. LogInv' /\ DurInv'
    BY <1>1, <1>3, <1>4, <2>2 DEF LogInv, DurInv, Ready, current_ts
  <2> QED
    BY <1>2, <1>3, <1>7, <1>8, <2>3, <2>4 DEF EInv, Reserved
<1> QED
  BY <1>9, <1>10

(* A failed flush or sync of the log (lib.rs:446-452).                     *)
LEMMA SyncFailsEInv ==
  ASSUME EInv, SyncFails
  PROVE  EInv'
<1>1. RunInv /\ TreeInv /\ TreeMatchesTreeTs /\ Reserved /\ LogInv /\ DurInv /\ StrayInv
  BY DEF EInv
<1>2. /\ "sync" \in setting.faults /\ op = "commit" /\ op' = "idle" /\ committing' = 0
      /\ UNCHANGED vsvars
  BY Zenon DEF SyncFails
<1>3. /\ UNCHANGED opening /\ UNCHANGED log /\ UNCHANGED flushed /\ UNCHANGED synced
      /\ UNCHANGED meta /\ UNCHANGED disk /\ UNCHANGED next_auto_checkpoint
      /\ UNCHANGED file /\ UNCHANGED acked /\ UNCHANGED crashes /\ UNCHANGED setting
      /\ stray' = stray \cup {<<committing, next_ts>>}
  BY Zenon DEF SyncFails, logvars
<1>4. /\ UNCHANGED chains /\ UNCHANGED next_ts /\ UNCHANGED live_snapshots
      /\ UNCHANGED tree /\ UNCHANGED history
  BY <1>2, Zenon DEF vsvars
<1>5. IInv'
  BY <1>1, <1>2, OpenFacts, SameStore
<1>6. RunInv'
  BY <1>1, <1>2, <1>3, <1>5, RunTypes, RunStep
<1>7. TreeInv' /\ TreeMatchesTreeTs'
  BY <1>1, <1>2, <1>3, <1>4, SameTree
<1>8. LogInv' /\ DurInv'
  <2>1. ~Clean'
    BY <1>3 DEF Clean
  <2>2. ~opening
    BY <1>1, <1>2, RunTypes
  <2> QED
    BY <1>1, <1>2, <1>3, <1>4, <2>1, <2>2 DEF LogInv, DurInv, Ready, current_ts
<1>9. StrayInv'
  BY <1>1, <1>2, <1>3, <1>4 DEF StrayInv, current_ts
<1> QED
  BY <1>2, <1>6, <1>7, <1>8, <1>9 DEF EInv, Reserved

-----------------------------------------------------------------------------
(* Checkpoints.                                                            *)

(* The greater of two numbers.                                             *)
LEMMA MaxOfTwo ==
  ASSUME NEW a \in Nat, NEW b \in Nat
  PROVE  /\ Max({a, b}) \in Nat /\ a <= Max({a, b}) /\ b <= Max({a, b})
         /\ Max({a, b}) \in {a, b}
<1>1. \E x \in {a, b} : \A y \in {a, b} : x >= y
  OBVIOUS
<1>2. Max({a, b}) \in {a, b} /\ \A y \in {a, b} : Max({a, b}) >= y
  BY <1>1, Zenon DEF Max
<1> QED
  BY <1>2

(* A checkpoint begins (lib.rs:596-606).                                   *)
LEMMA StartCheckpointEInv ==
  ASSUME EInv, StartCheckpoint
  PROVE  EInv'
<1>1. RunInv /\ TreeInv /\ TreeMatchesTreeTs /\ Reserved /\ LogInv /\ DurInv /\ StrayInv
  BY DEF EInv
<1>2. op = "idle" /\ op' = "merge" /\ UNCHANGED vsvars
  BY Zenon DEF StartCheckpoint
<1>3. /\ UNCHANGED committing /\ UNCHANGED opening /\ UNCHANGED log
      /\ UNCHANGED flushed /\ UNCHANGED synced /\ UNCHANGED meta /\ UNCHANGED disk
      /\ UNCHANGED next_auto_checkpoint
      /\ UNCHANGED file /\ UNCHANGED acked /\ UNCHANGED stray /\ UNCHANGED crashes
      /\ UNCHANGED setting
  BY Zenon DEF StartCheckpoint, logvars, rest
<1>4. /\ UNCHANGED chains /\ UNCHANGED next_ts /\ UNCHANGED next_txn_id /\ UNCHANGED active
      /\ UNCHANGED live_snapshots /\ UNCHANGED tree /\ UNCHANGED history
  BY <1>2, Zenon DEF vsvars
<1>5. IInv /\ next_txn_id \in Nat /\ disk.tree_ts \in Nat /\ flushed \in Nat /\ synced \in Nat
  BY <1>1, <1>2, OpenFacts
<1>6. IInv'
  BY <1>2, <1>5, SameStore
<1>7. committing = 0
  BY <1>1, <1>2, RunTypes
<1>8. RunInv'
  BY <1>1, <1>2, <1>3, <1>6, <1>7, RunTypes, RunStep
<1>9. TreeInv' /\ TreeMatchesTreeTs'
  BY <1>1, <1>2, <1>3, <1>4, SameTree
<1>10. LogInv'
  BY <1>1, <1>2, <1>3, <1>4, <1>5, <1>6, SameLog
<1>11. DurInv'
  BY <1>1, <1>2, <1>3, <1>4, <1>5, SameCover
<1>12. StrayInv'
  BY <1>1, <1>2, <1>3, <1>4, SameStray
<1> QED
  BY <1>2, <1>8, <1>9, <1>10, <1>11, <1>12 DEF EInv, Reserved

(* The tree has moved to the watermark, which no snapshot is below, and    *)
(* there are ids for the commits above it.                                 *)
Merged ==
    LET w == merge_watermark
        n == Cardinality(RetainedTimestamps(w))
    IN  /\ w \in Nat /\ w <= current_ts /\ \A s \in DOMAIN live_snapshots : w <= s
        /\ MergedTs = w /\ meta.tree_ts <= w
        /\ n \in Nat
        /\ IInv'
        /\ \A k \in Keys : /\ CutBelow(history[k], chains'[k], w)
                            /\ \A i \in 1 .. Len(chains'[k]) : chains'[k][i].ts > w
        /\ LET m == Cardinality(RetainedTimestamps(meta.tree_ts)') IN m \in Nat /\ m <= n

(* The merge moves versions up to the watermark into the tree and takes    *)
(* ids for the commits above it (lib.rs:606-629).                          *)
LEMMA MergeEInv ==
  ASSUME EInv, Merge, Merged
  PROVE  EInv'
<1> DEFINE w == merge_watermark
           n == Cardinality(RetainedTimestamps(w))
           m == Cardinality(RetainedTimestamps(meta.tree_ts)')
<1>1. RunInv /\ TreeInv /\ TreeMatchesTreeTs /\ Reserved /\ LogInv /\ DurInv /\ StrayInv
  BY DEF EInv
<1>2. /\ op = "merge" /\ op' = "flush" /\ retained_commits(MergedTs)
      /\ meta' = [tree_ts |-> MergedTs, next_txn_id |-> next_txn_id']
  BY Zenon DEF Merge
<1>3. /\ UNCHANGED next_ts /\ UNCHANGED active /\ UNCHANGED live_snapshots /\ UNCHANGED history
      /\ UNCHANGED committing /\ UNCHANGED opening /\ UNCHANGED log
      /\ UNCHANGED flushed /\ UNCHANGED synced /\ UNCHANGED disk
      /\ UNCHANGED next_auto_checkpoint
      /\ UNCHANGED file /\ UNCHANGED acked /\ UNCHANGED stray /\ UNCHANGED crashes
      /\ UNCHANGED setting
  BY Zenon DEF Merge, logvars, rest
<1>4. /\ IInv /\ TypeOK /\ next_txn_id \in Nat \ {0} /\ disk.tree_ts \in Nat
      /\ meta.tree_ts \in Nat /\ flushed \in Nat /\ synced \in Nat
  BY <1>1, <1>2, OpenFacts
<1>5. disk.tree_ts <= meta.tree_ts
  BY <1>1, <1>2 DEF TreeInv
<1>6. /\ w \in Nat /\ w <= current_ts /\ (\A s \in DOMAIN live_snapshots : w <= s)
      /\ MergedTs = w /\ meta.tree_ts <= w /\ n \in Nat /\ IInv'
  BY Zenon DEF Merged
<1>7. \A k \in Keys : /\ CutBelow(history[k], chains'[k], w)
                      /\ \A i \in 1 .. Len(chains'[k]) : chains'[k][i].ts > w
  BY Zenon DEF Merged
<1>8. m \in Nat /\ m <= n
  BY Zenon DEF Merged
<1>9. next_txn_id' = next_txn_id + n /\ meta' = [tree_ts |-> w, next_txn_id |-> next_txn_id']
  BY <1>2, <1>6, Zenon DEF retained_commits
<1>10. DOMAIN active \subseteq 1 .. (next_txn_id - 1)
  BY <1>4 DEF TypeOK
<1> HIDE DEF w, n, m
<1>11. /\ next_txn_id' \in Nat \ {0} /\ next_txn_id <= next_txn_id' /\ meta'.tree_ts = w
       /\ meta' \in [tree_ts : Nat, next_txn_id : Nat \ {0}]
  BY <1>4, <1>6, <1>9
<1>12. current_ts' = current_ts
  BY <1>3 DEF current_ts
<1>13. committing = 0
  BY <1>1, <1>2, RunTypes
<1>14. RunInv'
  BY <1>1, <1>2, <1>3, <1>6, <1>11, <1>13, RunTypes, RunStep
<1>15. TreeInv'
  <2>1. TreeAt(meta.tree_ts)'
    BY <1>3, <1>7, <1>11, Zenon DEF TreeAt
  <2>2. disk'.tree_ts <= meta'.tree_ts
    BY <1>3, <1>4, <1>5, <1>6, <1>11
  <2> QED
    BY <1>2, <1>3, <1>6, <1>11, <1>12, <2>1, <2>2 DEF TreeInv
<1>16. TreeMatchesTreeTs'
  BY <1>1, <1>2, <1>3 DEF TreeMatchesTreeTs
<1>17. Reserved'
  <2>1. m < next_txn_id' /\ DOMAIN active' \subseteq 1 .. (next_txn_id' - 1 - m)
    BY <1>3, <1>4, <1>6, <1>8, <1>9, <1>10
  <2> QED
    BY <2>1 DEF Reserved, m
<1>18. LogInv'
  BY <1>1, <1>2, <1>3, <1>6, <1>11, SameLog, SMTT(20)
<1>19. DurInv'
  BY <1>1, <1>2, <1>3, <1>4, SameCover
<1>20. StrayInv'
  BY <1>1, <1>2, <1>3, SameStray
<1> QED
  BY <1>14, <1>15, <1>16, <1>17, <1>18, <1>19, <1>20 DEF EInv

(* A merge that fails drops the staged pages; there are none to lose when  *)
(* every flush before it worked (lib.rs:615-620).                          *)
LEMMA MergeFailsEInv ==
  ASSUME EInv, MergeFails
  PROVE  EInv'
<1>1. RunInv /\ TreeInv /\ TreeMatchesTreeTs /\ Reserved /\ LogInv /\ DurInv /\ StrayInv
  BY DEF EInv
<1>2. op = "merge" /\ op' = "idle" /\ "merge" \in setting.faults /\ ~opening /\ tree' = disk.tree
  BY Zenon DEF MergeFails
<1>3. /\ UNCHANGED chains /\ UNCHANGED next_ts /\ UNCHANGED next_txn_id /\ UNCHANGED active
      /\ UNCHANGED live_snapshots /\ UNCHANGED history
      /\ UNCHANGED committing /\ UNCHANGED opening /\ UNCHANGED log
      /\ UNCHANGED flushed /\ UNCHANGED synced /\ UNCHANGED meta /\ UNCHANGED disk
      /\ UNCHANGED next_auto_checkpoint
      /\ UNCHANGED file /\ UNCHANGED acked /\ UNCHANGED stray /\ UNCHANGED crashes
      /\ UNCHANGED setting
  BY Zenon DEF MergeFails, logvars, rest
<1>4. IInv /\ next_txn_id \in Nat /\ disk.tree_ts \in Nat /\ flushed \in Nat /\ synced \in Nat
  BY <1>1, <1>2, OpenFacts
<1>5. UNCHANGED tree
  <2>1. "flush" \notin setting.faults
    BY <1>1, <1>2 DEF RunInv, FaultsTolerated
  <2>2. disk = Image
    BY <1>1, <1>2, <2>1 DEF TreeInv
  <2> QED
    BY <1>2, <2>2 DEF Image
<1>6. IInv'
  BY <1>3, <1>4, <1>5, SameStore DEF vsvars
<1>7. committing = 0
  BY <1>1, <1>2, RunTypes
<1>8. RunInv'
  BY <1>1, <1>2, <1>3, <1>6, <1>7, RunTypes, RunStep
<1>9. TreeInv' /\ TreeMatchesTreeTs'
  BY <1>1, <1>2, <1>3, <1>5, SameTree
<1>10. LogInv'
  BY <1>1, <1>2, <1>3, <1>4, <1>6, SameLog
<1>11. DurInv'
  BY <1>1, <1>2, <1>3, <1>4, SameCover
<1>12. StrayInv'
  BY <1>1, <1>2, <1>3, SameStray
<1> QED
  BY <1>2, <1>8, <1>9, <1>10, <1>11, <1>12 DEF EInv, Reserved

(* The tree is the committed state as of its timestamp, and the log keeps  *)
(* what is above that.                                                     *)
ImageKept ==
    /\ \A k \in Keys : tree[k] = AsOf(history[k], None, meta.tree_ts)
    /\ Clean => Keeps(log, history, meta.tree_ts, current_ts)

(* The tree and its timestamp reach the file together.                     *)
LEMMA ImageWritten ==
  ASSUME RunInv, TreeInv, LogInv, ImageKept, op \in {"idle", "flush"}, op' \in {"idle", "reset"},
         disk' = Image, UNCHANGED vsvars,
         UNCHANGED meta, UNCHANGED log, UNCHANGED committing, UNCHANGED setting, UNCHANGED stray
  PROVE  /\ disk' \in [tree : [Keys -> Slot], tree_ts : Nat, next_txn_id : Nat \ {0}]
         /\ disk'.tree_ts \in Nat /\ disk.tree_ts <= disk'.tree_ts
         /\ IInv' /\ TreeInv' /\ TreeMatchesTreeTs' /\ LogInv'
<1>1. /\ UNCHANGED chains /\ UNCHANGED next_ts /\ UNCHANGED next_txn_id /\ UNCHANGED active
      /\ UNCHANGED live_snapshots /\ UNCHANGED tree /\ UNCHANGED history
  BY Zenon DEF vsvars
<1>2. op # "down" /\ op # "commit" /\ op' # "down" /\ op' # "commit"
  OBVIOUS
<1>3. IInv /\ TypeOK /\ meta.tree_ts \in Nat
  BY <1>2, OpenFacts
<1>4. IInv'
  BY <1>3, SameStore
<1>5. /\ TreeAt(meta.tree_ts) /\ meta.tree_ts <= current_ts /\ disk.tree_ts <= meta.tree_ts
      /\ \A s \in DOMAIN live_snapshots : meta.tree_ts <= s
  BY <1>2, Zenon DEF TreeInv
<1>6. disk'.tree_ts = meta.tree_ts /\ disk'.tree = tree
  BY DEF Image
<1>7. Image' = Image /\ current_ts' = current_ts
  BY <1>1, Zenon DEF Image, current_ts
<1>8. disk' \in [tree : [Keys -> Slot], tree_ts : Nat, next_txn_id : Nat \ {0}]
  <2>1. meta.next_txn_id \in Nat \ {0}
    BY RunTypes
  <2>2. tree \in [Keys -> Slot]
    BY <1>3, Zenon DEF TypeOK
  <2> QED
    BY <1>3, <2>1, <2>2 DEF Image
<1>9. TreeInv'
  <2>1. TreeAt(meta.tree_ts)'
    BY <1>1, <1>5, Zenon DEF TreeAt
  <2>2. disk'.tree_ts <= meta'.tree_ts
    BY <1>3, <1>6
  <2> QED
    BY <1>1, <1>5, <1>7, <2>1, <2>2, Zenon DEF TreeInv
<1>10. TreeMatchesTreeTs'
  BY <1>1, <1>6, Zenon DEF ImageKept, TreeMatchesTreeTs
<1>11. LogInv'
  <2> SUFFICES ASSUME Clean
               PROVE  Keeps(log, Pending, disk.tree_ts, Reach)' /\ IdsSpent'
    BY Zenon DEF LogInv, Clean
  <2>1. Keeps(log, history, meta.tree_ts, current_ts) /\ IdsSpent
    BY <1>2, Zenon DEF LogInv, ImageKept
  <2>2. PendingSays'
    BY <1>4, PendingIs, PTL DEF IInv
  <2>3. Pending' = history /\ Reach' = current_ts
    BY <1>1, <1>2, <1>7, <2>2, Zenon DEF PendingSays, Reach
  <2>4. IdsSpent'
    BY <1>1, <2>1, Zenon DEF IdsSpent
  <2> QED
    BY <1>6, <2>1, <2>3, <2>4, Zenon
<1> QED
  BY <1>3, <1>4, <1>5, <1>6, <1>8, <1>9, <1>10, <1>11, Zenon

(* The flush of a checkpoint (lib.rs:632).                                 *)
LEMMA FlushEInv ==
  ASSUME EInv, Flush, ImageKept
  PROVE  EInv'
<1>1. RunInv /\ TreeInv /\ TreeMatchesTreeTs /\ Reserved /\ LogInv /\ DurInv /\ StrayInv
  BY DEF EInv
<1>2. op = "flush" /\ op' = "reset" /\ disk' = Image /\ UNCHANGED vsvars
  BY Zenon DEF Flush
<1>3. /\ UNCHANGED committing /\ UNCHANGED opening /\ UNCHANGED log
      /\ UNCHANGED flushed /\ UNCHANGED synced /\ UNCHANGED meta
      /\ UNCHANGED next_auto_checkpoint /\ file' = "whole"
      /\ UNCHANGED acked /\ UNCHANGED stray /\ UNCHANGED crashes /\ UNCHANGED setting
  BY Zenon DEF Flush, logvars, rest
<1>4. /\ UNCHANGED chains /\ UNCHANGED next_ts /\ UNCHANGED next_txn_id /\ UNCHANGED active
      /\ UNCHANGED history
  BY <1>2, Zenon DEF vsvars
<1>5. IInv /\ flushed \in Nat /\ synced \in Nat
  BY <1>1, <1>2, OpenFacts
<1>6. /\ disk' \in [tree : [Keys -> Slot], tree_ts : Nat, next_txn_id : Nat \ {0}]
      /\ disk'.tree_ts \in Nat /\ disk.tree_ts <= disk'.tree_ts
      /\ IInv' /\ TreeInv' /\ TreeMatchesTreeTs' /\ LogInv'
  BY <1>1, <1>2, <1>3, ImageWritten
<1>7. committing = 0
  BY <1>1, <1>2, RunTypes
<1>8. RunInv'
  BY <1>1, <1>2, <1>3, <1>6, <1>7, RunTypes, RunStep
<1>9. DurInv'
  BY <1>1, <1>2, <1>3, <1>4, <1>5, <1>6, SameCover
<1>10. Reserved'
  <2>1. RetainedTimestamps(meta.tree_ts)' = RetainedTimestamps(meta.tree_ts)
    BY <1>3, <1>4, Zenon DEF RetainedTimestamps, current_ts
  <2> QED
    BY <1>1, <1>2, <1>4, <2>1 DEF Reserved
<1>11. StrayInv'
  BY <1>1, <1>2, <1>3, <1>4, SameStray
<1> QED
  BY <1>6, <1>8, <1>9, <1>10, <1>11 DEF EInv

(* A flush that fails has, or has not, written the file (lib.rs:630-632).  *)
LEMMA FlushFailsEInv ==
  ASSUME EInv, FlushFails, ImageKept
  PROVE  EInv'
<1>1. RunInv /\ TreeInv /\ TreeMatchesTreeTs /\ Reserved /\ LogInv /\ DurInv /\ StrayInv
  BY DEF EInv
<1>2. op = "flush" /\ op' = "idle" /\ "flush" \in setting.faults /\ ~opening /\ UNCHANGED vsvars
  BY Zenon DEF FlushFails
<1>3. (disk' = disk \/ disk' = Image) /\ file' \in {"whole", "half", "bare"}
  BY DEF FlushFails, FlushEndsEarly
<1>4. /\ UNCHANGED committing /\ UNCHANGED opening /\ UNCHANGED log
      /\ UNCHANGED flushed /\ UNCHANGED synced /\ UNCHANGED meta
      /\ UNCHANGED next_auto_checkpoint
      /\ UNCHANGED acked /\ UNCHANGED stray /\ UNCHANGED crashes /\ UNCHANGED setting
  BY Zenon DEF FlushFails, logvars, rest
<1>5. /\ UNCHANGED chains /\ UNCHANGED next_ts /\ UNCHANGED next_txn_id /\ UNCHANGED active
      /\ UNCHANGED live_snapshots /\ UNCHANGED tree /\ UNCHANGED history
  BY <1>2, Zenon DEF vsvars
<1>6. IInv /\ flushed \in Nat /\ synced \in Nat /\ disk.tree_ts \in Nat /\ next_txn_id \in Nat
  BY <1>1, <1>2, OpenFacts
<1>7. IInv'
  BY <1>2, <1>6, SameStore
<1>8. /\ disk' \in [tree : [Keys -> Slot], tree_ts : Nat, next_txn_id : Nat \ {0}]
      /\ disk'.tree_ts \in Nat /\ disk.tree_ts <= disk'.tree_ts
      /\ TreeInv' /\ TreeMatchesTreeTs' /\ LogInv'
  <2>1. CASE disk' = Image
    BY <1>1, <1>2, <1>4, <2>1, ImageWritten
  <2>2. CASE disk' = disk
    <3>1. TreeInv' /\ TreeMatchesTreeTs'
      BY <1>1, <1>2, <1>4, <1>5, <2>2, SameTree, SMTT(20)
    <3>2. LogInv'
      BY <1>1, <1>2, <1>4, <1>5, <1>6, <1>7, <2>2, SameLog
    <3>3. disk \in [tree : [Keys -> Slot], tree_ts : Nat, next_txn_id : Nat \ {0}]
      BY <1>1, RunTypes, Zenon
    <3> QED
      BY <1>6, <2>2, <3>1, <3>2, <3>3
  <2> QED
    BY <1>3, <2>1, <2>2, SMTT(20)
<1>9. committing = 0
  BY <1>1, <1>2, RunTypes, SMTT(20)
<1>10. RunInv'
  BY <1>1, <1>2, <1>3, <1>4, <1>7, <1>8, <1>9, RunTypes, RunStep, SMTT(20)
<1>11. DurInv'
  BY <1>1, <1>2, <1>4, <1>5, <1>6, <1>8, SameCover
<1>12. StrayInv'
  BY <1>1, <1>2, <1>4, <1>5, SameStray
<1> QED
  BY <1>2, <1>8, <1>10, <1>11, <1>12 DEF EInv, Reserved

(* Database::flush, also when it fails (lib.rs:645-649).                   *)
LEMMA SyncAllEInv ==
  ASSUME EInv, SyncAll, ImageKept
  PROVE  EInv'
<1>1. RunInv /\ TreeInv /\ TreeMatchesTreeTs /\ Reserved /\ LogInv /\ DurInv /\ StrayInv
  BY DEF EInv
<1>2. /\ op = "idle" /\ op' = "idle" /\ UNCHANGED vsvars
      /\ flushed' = Len(log) /\ synced' = Len(log)
  BY Zenon DEF SyncAll
<1>3. (disk' = disk \/ disk' = Image) /\ file' \in {"whole", "half", "bare"}
  BY DEF SyncAll, FlushEndsEarly
<1>4. /\ UNCHANGED committing /\ UNCHANGED opening /\ UNCHANGED log /\ UNCHANGED meta
      /\ UNCHANGED next_auto_checkpoint
      /\ UNCHANGED acked /\ UNCHANGED stray /\ UNCHANGED crashes /\ UNCHANGED setting
  BY Zenon DEF SyncAll, rest
<1>5. /\ UNCHANGED chains /\ UNCHANGED next_ts /\ UNCHANGED next_txn_id /\ UNCHANGED active
      /\ UNCHANGED live_snapshots /\ UNCHANGED tree /\ UNCHANGED history
  BY <1>2, Zenon DEF vsvars
<1>6. /\ IInv /\ Len(log) \in Nat /\ flushed \in 0 .. Len(log) /\ synced \in 0 .. flushed
      /\ disk.tree_ts \in Nat /\ next_txn_id \in Nat
  BY <1>1, <1>2, OpenFacts
<1>7. /\ flushed' \in 0 .. Len(log') /\ synced' \in 0 .. flushed'
      /\ flushed' \in Nat /\ flushed <= flushed' /\ synced' \in Nat /\ synced <= synced'
  BY <1>2, <1>4, <1>6
<1>8. IInv'
  BY <1>2, <1>6, SameStore
<1>9. /\ disk' \in [tree : [Keys -> Slot], tree_ts : Nat, next_txn_id : Nat \ {0}]
      /\ disk'.tree_ts \in Nat /\ disk.tree_ts <= disk'.tree_ts
      /\ TreeInv' /\ TreeMatchesTreeTs' /\ LogInv'
  <2>1. CASE disk' = Image
    BY <1>1, <1>2, <1>4, <2>1, ImageWritten
  <2>2. CASE disk' = disk
    <3>1. TreeInv' /\ TreeMatchesTreeTs'
      <4>1. /\ DOMAIN live_snapshots' \subseteq DOMAIN live_snapshots \cup {current_ts}
            /\ op # "down" /\ op' # "down" /\ op' # "reset" /\ op # "flush"
        BY <1>2, <1>5
      <4> QED
        BY <1>1, <1>4, <1>5, <2>2, <4>1, SameTree
    <3>2. LogInv'
      BY <1>1, <1>2, <1>4, <1>5, <1>6, <1>8, <2>2, SameLog
    <3>3. disk \in [tree : [Keys -> Slot], tree_ts : Nat, next_txn_id : Nat \ {0}]
      BY <1>1, RunTypes, Zenon
    <3> QED
      BY <1>6, <2>2, <3>1, <3>2, <3>3
  <2> QED
    BY <1>3, <2>1, <2>2, SMTT(20)
<1>10. committing = 0
  BY <1>1, <1>2, RunTypes, SMTT(20)
<1>11. RunInv'
  BY <1>1, <1>2, <1>3, <1>4, <1>7, <1>8, <1>9, <1>10, RunTypes, RunStep, SMTT(20)
<1>12. DurInv'
  BY <1>1, <1>2, <1>4, <1>5, <1>6, <1>7, <1>9, SameCover
<1>13. StrayInv'
  BY <1>1, <1>2, <1>4, <1>5, SameStray
<1> QED
  BY <1>2, <1>9, <1>11, <1>12, <1>13 DEF EInv, Reserved

(* The new log makes up the histories with the tree, under ids that no     *)
(* transaction has; so does an empty log, if there is nothing to retain.   *)
NewLogKept ==
    /\ Keeps(FreshLog, history, meta.tree_ts, current_ts)
    /\ \A i \in WriteFrames(FreshLog) \cup CommitFrames(FreshLog) :
            FreshLog[i].txn < next_txn_id /\ FreshLog[i].txn \notin DOMAIN active
    /\ RetainedTimestamps(meta.tree_ts) = {} =>
            Keeps(<<>>, history, meta.tree_ts, current_ts)

(* The log is rewritten (lib.rs:633-641).                                  *)
LEMMA ResetEInv ==
  ASSUME EInv, Reset, NewLogKept
  PROVE  EInv'
<1>1. RunInv /\ TreeInv /\ TreeMatchesTreeTs /\ Reserved /\ LogInv /\ DurInv /\ StrayInv
  BY DEF EInv
<1>2. /\ op = "reset" /\ op' = "idle" /\ log' = FreshLog /\ flushed' = Len(log')
      /\ synced' = Len(log') /\ acked' = current_ts /\ opening' = FALSE
      /\ next_auto_checkpoint' = Max({CheckpointFrames, 2 * Len(log')})
      /\ UNCHANGED vsvars
  BY Zenon DEF Reset
<1>3. /\ UNCHANGED committing /\ UNCHANGED meta /\ UNCHANGED disk /\ UNCHANGED file
      /\ UNCHANGED crashes /\ UNCHANGED setting
  BY Zenon DEF Reset
<1>4. /\ UNCHANGED chains /\ UNCHANGED next_ts /\ UNCHANGED next_txn_id /\ UNCHANGED active
      /\ UNCHANGED live_snapshots /\ UNCHANGED tree /\ UNCHANGED history
  BY <1>2, Zenon DEF vsvars
<1>5. IInv /\ current_ts \in Nat
  BY <1>1, <1>2, OpenFacts
<1>6. IInv' /\ current_ts' = current_ts
  BY <1>2, <1>4, <1>5, SameStore, SMTT(20) DEF current_ts
<1>7. disk.tree_ts = meta.tree_ts
  BY <1>1, <1>2 DEF TreeInv, Image
<1>8. Keeps(log', history, disk.tree_ts, current_ts)
  BY <1>2, <1>7, Zenon DEF NewLogKept
<1>9. committing = 0
  BY <1>1, <1>2, RunTypes
<1>10. log' \in Seq(Frame)
  BY <1>8, Zenon DEF Keeps
<1>11. log' \in Seq(Frame \cup {Torn}) /\ Len(log') \in Nat
  BY <1>10
<1>12. RunInv'
  <2>1. flushed' \in 0 .. Len(log') /\ synced' \in 0 .. flushed'
    BY <1>2, <1>11
  <2>2. CheckpointFrames \in Nat \ {0}
    BY EngineAssumption
  <2> DEFINE n == 2 * Len(log')
  <2>3. n \in Nat
    BY <1>11
  <2> HIDE DEF n
  <2>4. Max({CheckpointFrames, n}) \in Nat \ {0}
    BY <2>2, <2>3, MaxOfTwo
  <2>5. next_auto_checkpoint' \in Nat \ {0}
    BY <1>2, <2>4 DEF n
  <2> QED
    BY <1>1, <1>2, <1>3, <1>5, <1>6, <1>9, <1>11, <2>1, <2>5, RunTypes, RunStep
<1>13. TreeInv' /\ TreeMatchesTreeTs'
  BY <1>1, <1>2, <1>3, <1>4, SameTree
<1>14. LogInv'
  <2>1. PendingSays'
    BY <1>6, PendingIs, PTL DEF IInv
  <2>2. Pending' = history /\ Reach' = current_ts
    BY <1>2, <1>4, <1>6, <2>1 DEF PendingSays, Reach
  <2>3. Keeps(log, Pending, disk.tree_ts, Reach)'
    BY <1>3, <1>8, <2>2, Zenon
  <2>4. IdsSpent'
    BY <1>2, <1>4, Zenon DEF NewLogKept, IdsSpent
  <2> QED
    BY <2>3, <2>4 DEF LogInv
<1>15. DurInv'
  <2>1. HistoryKept'
    BY <1>3, <1>4, <1>5, <1>8, Zenon DEF HistoryKept
  <2>2. AllCovered'
    BY <2>1, KeptCovers, PTL
  <2> QED
    BY <1>2, <1>6, <2>2, Zenon DEF AllCovered, DurInv
<1>16. StrayInv'
  BY <1>6, <1>8, Zenon DEF StrayInv, Keeps, Holds
<1> QED
  BY <1>2, <1>12, <1>13, <1>14, <1>15, <1>16 DEF EInv, Reserved

(* A reset that fails keeps the old log or leaves it empty (wal.rs:370-449).*)
LEMMA ResetFailsEInv ==
  ASSUME EInv, ResetFails, NewLogKept
  PROVE  EInv'
<1>1. RunInv /\ TreeInv /\ TreeMatchesTreeTs /\ Reserved /\ LogInv /\ DurInv /\ StrayInv
  BY DEF EInv
<1>2. op = "reset" /\ op' = "idle" /\ ~opening /\ UNCHANGED vsvars
  BY Zenon DEF ResetFails
<1>3. \/ log' = log /\ flushed' = Len(log) /\ synced' = synced /\ stray' = stray
      \/ RetainedTimestamps(meta.tree_ts) = {} /\ log' = <<>> /\ flushed' = 0 /\ synced' = 0
  BY DEF ResetFails
<1>4. /\ UNCHANGED committing /\ UNCHANGED opening
      /\ UNCHANGED meta /\ UNCHANGED disk /\ UNCHANGED next_auto_checkpoint
      /\ UNCHANGED file /\ UNCHANGED acked /\ UNCHANGED crashes /\ UNCHANGED setting
  BY Zenon DEF ResetFails
<1>5. /\ UNCHANGED chains /\ UNCHANGED next_ts /\ UNCHANGED next_txn_id /\ UNCHANGED active
      /\ UNCHANGED live_snapshots /\ UNCHANGED tree /\ UNCHANGED history
  BY <1>2, Zenon DEF vsvars
<1>6. /\ IInv /\ current_ts \in Nat /\ Len(log) \in Nat /\ next_txn_id \in Nat
      /\ flushed \in 0 .. Len(log) /\ synced \in 0 .. flushed /\ disk.tree_ts \in Nat
  BY <1>1, <1>2, OpenFacts
<1>7. IInv' /\ current_ts' = current_ts
  BY <1>2, <1>5, <1>6, SameStore DEF current_ts
<1>8. committing = 0
  BY <1>1, <1>2, RunTypes
<1>9. TreeInv' /\ TreeMatchesTreeTs'
  BY <1>1, <1>2, <1>4, <1>5, SameTree
<1>10. CASE log' = log /\ flushed' = Len(log) /\ synced' = synced /\ stray' = stray
  <2>1. /\ flushed' \in 0 .. Len(log') /\ synced' \in 0 .. flushed'
        /\ flushed' \in Nat /\ flushed <= flushed' /\ synced' \in Nat /\ synced <= synced'
    BY <1>6, <1>10
  <2>2. RunInv'
    BY <1>1, <1>2, <1>4, <1>7, <1>8, <1>10, <2>1, RunTypes, RunStep, SMTT(20)
  <2>3. LogInv'
    BY <1>1, <1>2, <1>4, <1>5, <1>6, <1>7, <1>10, SameLog, SMTT(20)
  <2>4. DurInv'
    BY <1>1, <1>2, <1>4, <1>5, <1>6, <1>10, <2>1, SameCover
  <2>5. StrayInv'
    BY <1>1, <1>2, <1>5, <1>10, SameStray
  <2> QED
    BY <1>2, <1>9, <2>2, <2>3, <2>4, <2>5 DEF EInv, Reserved
<1>11. CASE RetainedTimestamps(meta.tree_ts) = {} /\ log' = <<>> /\ flushed' = 0 /\ synced' = 0
  <2>1. disk.tree_ts = meta.tree_ts
    BY <1>1, <1>2 DEF TreeInv, Image
  <2>2. Keeps(log', history, disk.tree_ts, current_ts)
    BY <1>11, <2>1, Zenon DEF NewLogKept
  <2>3. log' \in Seq(Frame \cup {Torn}) /\ Len(log') = 0
    BY <1>11
  <2>4. RunInv'
    <3>1. flushed' \in 0 .. Len(log') /\ synced' \in 0 .. flushed'
      BY <1>11, <2>3, SMTT(20)
    <3> QED
      BY <1>1, <1>2, <1>4, <1>7, <1>8, <2>3, <3>1, RunTypes, RunStep
  <2>5. LogInv'
    <3>1. PendingSays'
      BY <1>7, PendingIs, PTL DEF IInv
    <3>2. Pending' = history /\ Reach' = current_ts
      BY <1>2, <1>5, <1>7, <3>1 DEF PendingSays, Reach
    <3>3. Keeps(log, Pending, disk.tree_ts, Reach)'
      BY <1>4, <2>2, <3>2, Zenon
    <3>4. IdsSpent'
      BY <2>3 DEF IdsSpent, WriteFrames, CommitFrames
    <3> QED
      BY <3>3, <3>4 DEF LogInv
  <2>6. DurInv'
    <3>1. HistoryKept'
      BY <1>4, <1>5, <1>6, <2>2, Zenon DEF HistoryKept
    <3>2. AllCovered'
      BY <3>1, KeptCovers, PTL
    <3>3. Covered(flushed)' /\ Covered(synced)'
      BY <1>11, <2>3, <3>2, Zenon DEF AllCovered
    <3>4. Ready' => acked' = current_ts'
      BY <1>1, <1>2, <1>4, <1>7 DEF DurInv, Ready
    <3> QED
      BY <3>3, <3>4, Zenon DEF DurInv
  <2>7. StrayInv'
    BY <2>3 DEF StrayInv, CommitFrames
  <2> QED
    BY <1>2, <1>9, <2>4, <2>5, <2>6, <2>7 DEF EInv, Reserved
<1> QED
  BY <1>3, <1>10, <1>11

=============================================================================
