------------------------- MODULE VersionStoreProofs -------------------------
(***************************************************************************)
(* Proofs, for any keys and values and any number of transactions, of the  *)
(* properties of VersionStore.                                             *)
(*                                                                         *)
(* The argument: a checkpoint cuts each key's commit history in two.  What *)
(* is newer than the cut is the chain, the version at the cut is in the    *)
(* tree, and no live snapshot is older than the cut (IInv below).          *)
(***************************************************************************)
EXTENDS VersionStore, HistoryProofs, FiniteSetTheorems

-----------------------------------------------------------------------------
(* Counting snapshots.                                                     *)

Holders(s) == {t \in DOMAIN active : active[t].snapshot = s}

(* SnapshotsCounted without its bound.                                     *)
Counted ==
    \A s \in Nat : Cardinality(Holders(s)) =
        IF s \in DOMAIN live_snapshots THEN live_snapshots[s] ELSE 0

(* The fields of a live transaction have their types.                      *)
LEMMA TransactionFields ==
  ASSUME TypeOK, NEW t \in DOMAIN active
  PROVE  /\ active[t] \in Transaction
         /\ active[t].snapshot \in Nat
         /\ active[t].read_only \in BOOLEAN
         /\ active[t].writes \in [Keys -> Slot \cup {Absent}]
<1>1. active[t] \in Transaction
  BY DEF TypeOK
<1> QED
  BY <1>1 DEF Transaction

(* Finitely many transactions hold a snapshot.                             *)
LEMMA HoldersFinite ==
  ASSUME TypeOK
  PROVE  \A s : IsFiniteSet(Holders(s)) /\ Cardinality(Holders(s)) \in Nat
<1>0. 1 \in Int /\ next_txn_id - 1 \in Int
  BY DEF TypeOK
<1>1. IsFiniteSet(1 .. (next_txn_id - 1))
  BY <1>0, FS_Interval
<1>2. \A s : Holders(s) \in SUBSET (1 .. (next_txn_id - 1))
  BY DEF TypeOK, Holders
<1> QED
  BY <1>1, <1>2, FS_Subset, FS_CardinalityType, Zenon

(* No transaction holds a snapshot after the current timestamp, so the     *)
(* bound of SnapshotsCounted loses nothing.                                *)
LEMMA CountedEverywhere ==
  ASSUME TypeOK, SnapshotInv, SnapshotsCounted
  PROVE  Counted
<1>1. SUFFICES ASSUME NEW s \in Nat
               PROVE  Cardinality(Holders(s)) =
                        IF s \in DOMAIN live_snapshots THEN live_snapshots[s] ELSE 0
  BY DEF Counted
<1>2. CASE s <= current_ts
  <2>1. s \in 0 .. current_ts
    BY <1>2 DEF TypeOK, current_ts
  <2> QED
    BY <2>1 DEF SnapshotsCounted, Holders
<1>3. CASE ~(s <= current_ts)
  <2>1. Holders(s) = {}
    BY <1>3 DEF SnapshotInv, Holders
  <2>2. s \notin DOMAIN live_snapshots
    BY <1>3 DEF TypeOK, current_ts
  <2> QED
    BY <2>1, <2>2, FS_EmptySet
<1> QED
  BY <1>2, <1>3

(* And back.                                                               *)
LEMMA CountedImplies == TypeOK /\ Counted => SnapshotsCounted
<1> SUFFICES ASSUME TypeOK, Counted
             PROVE  SnapshotsCounted
  OBVIOUS
<1>1. \A s \in 0 .. current_ts : s \in Nat
  BY DEF TypeOK, current_ts
<1> QED
  BY <1>1 DEF Counted, Holders, SnapshotsCounted

(* A live transaction's snapshot is one that the watermark respects.       *)
LEMMA LiveSnapshot ==
  ASSUME TypeOK, SnapshotInv, SnapshotsCounted, NEW t \in DOMAIN active
  PROVE  active[t].snapshot \in DOMAIN live_snapshots
<1> DEFINE s == active[t].snapshot
<1>1. s \in Nat
  BY TransactionFields
<1>2. IsFiniteSet(Holders(s)) /\ t \in Holders(s)
  BY HoldersFinite, Zenon DEF Holders
<1>3. Cardinality(Holders(s)) # 0
  BY <1>2, FS_EmptySet
<1>4. Counted
  BY CountedEverywhere
<1> QED
  BY <1>1, <1>3, <1>4 DEF Counted

(* begin counts the new transaction's snapshot.                            *)
LEMMA BeginCounts ==
  ASSUME TypeOK, Counted, NEW ro \in BOOLEAN, begin(ro)
  PROVE  Counted'
<1>1. SUFFICES ASSUME NEW s \in Nat
               PROVE  Cardinality(Holders(s)') =
                        IF s \in DOMAIN live_snapshots' THEN live_snapshots'[s] ELSE 0
  BY DEF Counted
<1>2. current_ts \in Nat /\ next_txn_id \notin DOMAIN active
  BY DEF TypeOK, current_ts
<1>3. hold_snapshot(current_ts)
  BY DEF begin
<1>4. /\ DOMAIN active' = DOMAIN active \cup {next_txn_id}
      /\ active'[next_txn_id].snapshot = current_ts
      /\ \A u \in DOMAIN active : active'[u] = active[u]
  BY <1>2 DEF begin
<1>5. IsFiniteSet(Holders(s)) /\ Cardinality(Holders(s)) \in Nat
  BY HoldersFinite
<1>6. Cardinality(Holders(s)) = IF s \in DOMAIN live_snapshots THEN live_snapshots[s] ELSE 0
  BY DEF Counted
<1>7. CASE s = current_ts
  <2>1. Holders(s)' = Holders(s) \cup {next_txn_id}
    BY <1>2, <1>4, <1>7 DEF Holders
  <2>2. Cardinality(Holders(s)') = Cardinality(Holders(s)) + 1
    BY <1>2, <1>5, <2>1, FS_AddElement, ZenonT(30) DEF Holders
  <2>3. /\ s \in DOMAIN live_snapshots'
        /\ live_snapshots'[s] = IF s \in DOMAIN live_snapshots THEN live_snapshots[s] + 1 ELSE 1
    BY <1>3, <1>7 DEF hold_snapshot
  <2> QED
    BY <1>5, <1>6, <2>2, <2>3
<1>8. CASE s # current_ts
  <2>1. Holders(s)' = Holders(s)
    BY <1>2, <1>4, <1>8 DEF Holders
  <2>2. /\ s \in DOMAIN live_snapshots' <=> s \in DOMAIN live_snapshots
        /\ s \in DOMAIN live_snapshots => live_snapshots'[s] = live_snapshots[s]
    BY <1>3, <1>8 DEF hold_snapshot
  <2> QED
    BY <1>6, <2>1, <2>2
<1> QED
  BY <1>7, <1>8

(* The end of a transaction releases its snapshot, once.                   *)
LEMMA EndCounts ==
  ASSUME TypeOK, Counted, NEW t \in DOMAIN active, EndTransaction(t)
  PROVE  Counted'
<1>1. SUFFICES ASSUME NEW s \in Nat
               PROVE  Cardinality(Holders(s)') =
                        IF s \in DOMAIN live_snapshots' THEN live_snapshots'[s] ELSE 0
  BY DEF Counted
<1> DEFINE r == active[t].snapshot
<1>2. r \in Nat
  BY TransactionFields
<1>3. release_snapshot(r)
  BY DEF EndTransaction
<1>4. /\ DOMAIN active' = DOMAIN active \ {t}
      /\ \A u \in DOMAIN active' : active'[u] = active[u]
  BY DEF EndTransaction
<1>5. IsFiniteSet(Holders(s)) /\ Cardinality(Holders(s)) \in Nat
  BY HoldersFinite
<1>6. Cardinality(Holders(s)) = IF s \in DOMAIN live_snapshots THEN live_snapshots[s] ELSE 0
  BY DEF Counted
<1>7. CASE s = r
  <2>1. Holders(s)' = Holders(s) \ {t} /\ t \in Holders(s)
    BY <1>4, <1>7 DEF Holders
  <2>2. Cardinality(Holders(s)') = Cardinality(Holders(s)) - 1
    BY <1>5, <2>1, FS_RemoveElement
  <2>3. Cardinality(Holders(s)) # 0
    BY <1>5, <2>1, FS_EmptySet
  <2>4. s \in DOMAIN live_snapshots /\ live_snapshots[s] = Cardinality(Holders(s))
    BY <1>6, <2>3
  <2>5. CASE live_snapshots[s] = 1
    <3>1. s \notin DOMAIN live_snapshots'
      BY <1>3, <1>7, <2>4, <2>5 DEF release_snapshot
    <3> QED
      BY <2>2, <2>4, <2>5, <3>1
  <2>6. CASE live_snapshots[s] # 1
    <3>1. s \in DOMAIN live_snapshots' /\ live_snapshots'[s] = live_snapshots[s] - 1
      BY <1>3, <1>7, <2>4, <2>6 DEF release_snapshot
    <3> QED
      BY <2>2, <2>4, <3>1
  <2> QED
    BY <2>5, <2>6
<1>8. CASE s # r
  <2>1. Holders(s)' = Holders(s)
    BY <1>4, <1>8 DEF Holders
  <2>2. /\ s \in DOMAIN live_snapshots' <=> s \in DOMAIN live_snapshots
        /\ s \in DOMAIN live_snapshots => live_snapshots'[s] = live_snapshots[s]
    BY <1>3, <1>8 DEF release_snapshot
  <2> QED
    BY <1>6, <2>1, <2>2
<1> QED
  BY <1>7, <1>8

-----------------------------------------------------------------------------
(* IInv is inductive.                                                      *)

(* The chain, history and tree entry of a key have their types.            *)
LEMMA KeyFacts ==
  ASSUME TypeOK, NEW k \in Keys
  PROVE  /\ chains[k] \in Seq(Version) /\ history[k] \in Seq(Committed)
         /\ Len(chains[k]) \in Nat /\ Len(history[k]) \in Nat
<1>1. chains[k] \in Seq(Version) /\ history[k] \in Seq(Committed)
  BY Zenon DEF TypeOK, Committed
<1> QED
  BY <1>1, ChainEntries, HistoryEntries

(* A new store (VersionStore::new) satisfies the invariant.                *)
LEMMA InitIInv == Init => IInv
<1> SUFFICES ASSUME Init
             PROVE  IInv
  OBVIOUS
<1> USE DEF Init
<1>1. TypeOK
  BY DEF TypeOK, Slot
<1>2. SnapshotInv
  BY DEF SnapshotInv
<1>3. SnapshotsCounted
  <2>1. \A s : {t \in DOMAIN active : active[t].snapshot = s} = {}
    OBVIOUS
  <2> QED
    BY <2>1, FS_EmptySet DEF SnapshotsCounted
<1>4. \A k \in Keys : Len(chains[k]) = 0 /\ Len(history[k]) = 0
  BY Zenon
<1>5. SuffixInv /\ SortedInv /\ CutInv /\ FirstCommitterWins
  BY <1>4 DEF SuffixInv, Represents, SortedInv, Sorted, CutInv, CutBelow, FirstCommitterWins
<1> QED
  BY <1>1, <1>2, <1>3, <1>5 DEF IInv

(* begin: the new snapshot is the newest timestamp, so no cut is above it. *)
LEMMA BeginIInv ==
  ASSUME IInv, NEW ro \in BOOLEAN, begin(ro)
  PROVE  IInv'
<1> USE DEF IInv
<1>1. /\ UNCHANGED <<chains, next_ts, tree, history>>
      /\ next_txn_id' = next_txn_id + 1
      /\ hold_snapshot(current_ts)
  BY DEF begin
<1>2. current_ts' = current_ts /\ current_ts \in Nat /\ next_txn_id \notin DOMAIN active
  BY <1>1 DEF current_ts, TypeOK
<1>3. DOMAIN live_snapshots' = DOMAIN live_snapshots \cup {current_ts}
  BY <1>1 DEF hold_snapshot
<1>4. /\ DOMAIN active' = DOMAIN active \cup {next_txn_id}
      /\ active'[next_txn_id] = [snapshot |-> current_ts, read_only |-> ro,
                                 writes |-> [k \in Keys |-> Absent]]
      /\ \A u \in DOMAIN active : active'[u] = active[u]
      /\ active' = [u \in DOMAIN active' |-> active'[u]]
  BY <1>2 DEF begin
<1>5. TypeOK'
  <2>1. \A u \in DOMAIN active' : active'[u] \in Transaction
    BY <1>2, <1>4, TransactionFields DEF Transaction
  <2>2. active' \in [DOMAIN active' -> Transaction]
    BY <1>4, <2>1
  <2>3. DOMAIN active' \subseteq 1 .. (next_txn_id' - 1)
    BY <1>1, <1>4 DEF TypeOK
  <2>4. live_snapshots' \in [DOMAIN live_snapshots' -> Nat \ {0}]
    BY <1>1, <1>3 DEF TypeOK, hold_snapshot
  <2>5. DOMAIN live_snapshots' \subseteq 0 .. (next_ts' - 1)
    BY <1>1, <1>3 DEF TypeOK, current_ts
  <2>6. next_txn_id' \in Nat \ {0}
    BY <1>1 DEF TypeOK
  <2>7. UNCHANGED chains /\ UNCHANGED next_ts /\ UNCHANGED tree /\ UNCHANGED history
    BY <1>1
  <2> QED
    BY <2>2, <2>3, <2>4, <2>5, <2>6, <2>7, ZenonT(30) DEF TypeOK
<1>6. SnapshotInv'
  BY <1>2, <1>4 DEF SnapshotInv
<1>7. SnapshotsCounted'
  <2>1. Counted'
    BY CountedEverywhere, BeginCounts
  <2> QED
    BY <1>5, <2>1, CountedImplies, PTL
<1>8. CutInv'
  <2>1. SUFFICES ASSUME NEW k \in Keys, NEW s \in DOMAIN live_snapshots'
                 PROVE  CutBelow(history[k], chains[k], s)
    BY <1>1 DEF CutInv
  <2>2. CASE s = current_ts
    <3>1. Len(history[k]) \in Nat /\ Len(chains[k]) \in Nat
      BY KeyFacts
    <3> QED
      BY <2>2, <3>1 DEF CutBelow, SortedInv, Sorted
  <2> QED
    BY <1>3, <2>2 DEF CutInv
<1> QED
  BY <1>1, <1>2, <1>5, <1>6, <1>7, <1>8
     DEF SuffixInv, SortedInv, FirstCommitterWins

(* stage touches only the write set of one transaction.                    *)
LEMMA StageIInv ==
  ASSUME IInv, NEW t \in DOMAIN active, NEW k \in Keys, NEW write \in Slot,
         stage(t, k, write)
  PROVE  IInv'
<1> USE DEF IInv
<1>1. /\ UNCHANGED <<chains, next_ts, next_txn_id, live_snapshots, tree, history>>
      /\ active' = [active EXCEPT ![t].writes[k] = write]
  BY DEF stage
<1>2. /\ DOMAIN active' = DOMAIN active
      /\ \A u \in DOMAIN active : active'[u].snapshot = active[u].snapshot
      /\ \A u \in DOMAIN active : active'[u] \in Transaction
  BY <1>1, TransactionFields, Zenon DEF Transaction
<1>3. TypeOK'
  BY <1>1, <1>2, Zenon DEF TypeOK
<1>4. SnapshotInv' /\ current_ts' = current_ts
  BY <1>1, <1>2 DEF SnapshotInv, current_ts
<1>5. SnapshotsCounted'
  <2>1. \A s : Holders(s)' = Holders(s)
    BY <1>2 DEF Holders
  <2>2. Counted'
    BY <1>1, <2>1, CountedEverywhere DEF Counted
  <2> QED
    BY <1>3, <2>2, CountedImplies, PTL
<1> QED
  BY <1>1, <1>3, <1>4, <1>5 DEF SuffixInv, SortedInv, CutInv, FirstCommitterWins

(* What the end of a transaction leaves, whatever else the action does.    *)
LEMMA EndFacts ==
  ASSUME IInv, NEW t \in DOMAIN active, EndTransaction(t)
  PROVE  /\ Counted'
         /\ DOMAIN active' = DOMAIN active \ {t}
         /\ active' \in [DOMAIN active' -> Transaction]
         /\ \A u \in DOMAIN active' : active'[u] = active[u]
         /\ DOMAIN live_snapshots' \subseteq DOMAIN live_snapshots
         /\ live_snapshots' \in [DOMAIN live_snapshots' -> Nat \ {0}]
<1> USE DEF IInv
<1>1. Counted'
  BY CountedEverywhere, EndCounts
<1>2. /\ DOMAIN active' = DOMAIN active \ {t}
      /\ active' \in [DOMAIN active' -> Transaction]
      /\ \A u \in DOMAIN active' : active'[u] = active[u]
  BY DEF EndTransaction, TypeOK
<1>3. active[t].snapshot \in DOMAIN live_snapshots
  BY LiveSnapshot
<1>4. /\ DOMAIN live_snapshots' \subseteq DOMAIN live_snapshots
      /\ live_snapshots' \in [DOMAIN live_snapshots' -> Nat \ {0}]
  BY <1>3 DEF EndTransaction, release_snapshot, TypeOK
<1> QED
  BY <1>1, <1>2, <1>4

(* VersionStore::rollback preserves the invariant.                         *)
LEMMA RollbackIInv ==
  ASSUME IInv, NEW t \in DOMAIN active, rollback(t)
  PROVE  IInv'
<1> USE DEF IInv
<1>1. UNCHANGED <<chains, next_ts, next_txn_id, tree, history>> /\ EndTransaction(t)
  BY DEF rollback
<1>2. /\ Counted'
      /\ DOMAIN active' = DOMAIN active \ {t}
      /\ active' \in [DOMAIN active' -> Transaction]
      /\ \A u \in DOMAIN active' : active'[u] = active[u]
      /\ DOMAIN live_snapshots' \subseteq DOMAIN live_snapshots
      /\ live_snapshots' \in [DOMAIN live_snapshots' -> Nat \ {0}]
  BY <1>1, EndFacts
<1>3. TypeOK'
  BY <1>1, <1>2, Zenon DEF TypeOK
<1>4. SnapshotInv' /\ current_ts' = current_ts
  BY <1>1, <1>2 DEF SnapshotInv, current_ts
<1>5. SnapshotsCounted'
  BY <1>2, <1>3, CountedImplies, PTL
<1> QED
  BY <1>1, <1>2, <1>3, <1>4, <1>5 DEF SuffixInv, SortedInv, CutInv, FirstCommitterWins

(* detect_conflict finds out from the chain alone whether a key has a      *)
(* version the transaction has not seen.                                   *)
LEMMA ConflictIsNewer ==
  ASSUME IInv, NEW k \in Keys, NEW s \in DOMAIN live_snapshots
  PROVE  NewerThan(k, s) <=> Len(history[k]) # 0 /\ history[k][Len(history[k])].ts > s
<1> USE DEF IInv
<1>1. /\ chains[k] \in Seq(Version) /\ history[k] \in Seq(Committed)
      /\ Len(chains[k]) \in Nat /\ Len(history[k]) \in Nat
  BY KeyFacts
<1>2. Represents(history[k], chains[k], tree[k]) /\ CutBelow(history[k], chains[k], s)
  BY DEF SuffixInv, CutInv
<1>3. s \in Nat
  BY DEF TypeOK
<1>4. CASE Len(chains[k]) = 0
  <2>1. chains[k] = <<>>
    BY <1>1, <1>4
  <2>2. Len(history[k]) # 0 => history[k][Len(history[k])].ts <= s
    BY <1>1, <1>2, <1>4 DEF CutBelow
  <2>3. Len(history[k]) # 0 => history[k][Len(history[k])].ts \in Nat
    BY <1>1, HistoryEntries
  <2> QED
    BY <1>3, <2>1, <2>2, <2>3 DEF NewerThan
<1>5. CASE Len(chains[k]) # 0
  <2>1. chains[k] # <<>>
    BY <1>5
  <2>2. Len(history[k]) # 0 /\ chains[k][Len(chains[k])].ts = history[k][Len(history[k])].ts
    <3>1. /\ Len(chains[k]) \in 1 .. Len(chains[k])
          /\ (Len(history[k]) - Len(chains[k])) + Len(chains[k]) = Len(history[k])
          /\ Len(history[k]) - Len(chains[k]) >= 0
      BY <1>1, <1>2, <1>5 DEF Represents
    <3>2. \A i \in 1 .. Len(chains[k]) :
            chains[k][i].ts = history[k][(Len(history[k]) - Len(chains[k])) + i].ts
      BY <1>2, Zenon DEF Represents
    <3>3. chains[k][Len(chains[k])].ts = history[k][Len(history[k])].ts
      BY <3>1, <3>2, ZenonT(30)
    <3>4. Len(history[k]) # 0
      BY <1>1, <3>1
    <3> QED
      BY <3>3, <3>4
  <2> QED
    BY <2>1, <2>2 DEF NewerThan
<1> QED
  BY <1>4, <1>5

(* What a commit that meets no conflict makes of the history of a key.     *)
LEMMA CommitExtends ==
  ASSUME IInv, NEW t \in DOMAIN active, MayCommit(t), NEW k \in Keys
  PROVE  /\ Proper(AfterCommit(t, k), next_ts)
         /\ Len(history[k]) <= Len(AfterCommit(t, k))
         /\ \A i \in 1 .. Len(history[k]) : AfterCommit(t, k)[i] = history[k][i]
<1> USE DEF IInv
<1> DEFINE h == history[k]
           w == [ts |-> next_ts, val |-> active[t].writes[k], snap |-> active[t].snapshot]
<1>1. h \in Seq(Committed) /\ Len(h) \in Nat /\ \A i \in 1 .. Len(h) : h[i].ts \in Nat
  BY KeyFacts, HistoryEntries
<1>2. next_ts - 1 \in Nat /\ next_ts \in Nat /\ (next_ts - 1) + 1 = next_ts
      /\ Sorted(h, next_ts - 1)
  BY SMTT(20) DEF TypeOK, SortedInv, current_ts
<1>3. \A i \in 1 .. (Len(h) - 1) : h[i].ts <= h[i + 1].snap
  BY DEF FirstCommitterWins
<1>4. CASE k \notin Writes(t)
  <2>1. AfterCommit(t, k) = h
    BY <1>4 DEF AfterCommit
  <2>2. Sorted(h, next_ts)
    BY <1>1, <1>2 DEF Sorted
  <2> HIDE DEF h
  <2>3. Proper(h, next_ts)
    BY <1>1, <1>3, <2>2 DEF Proper
  <2> QED
    BY <1>1, <2>1, <2>3 DEF h
<1>5. CASE k \in Writes(t)
  <2>1. active[t].snapshot \in Nat /\ active[t].writes[k] \in Slot
    BY <1>5, TransactionFields DEF Writes
  <2>2. w \in Committed /\ w.ts = next_ts /\ w.snap = active[t].snapshot
    BY <1>2, <2>1 DEF Committed
  <2>3. Len(h) # 0 => h[Len(h)].ts <= w.snap
    <3>1. ~NewerThan(k, active[t].snapshot)
      BY <1>5 DEF MayCommit, detect_conflict
    <3>2. ~(Len(h) # 0 /\ h[Len(h)].ts > active[t].snapshot)
      BY <3>1, LiveSnapshot, ConflictIsNewer
    <3> QED
      BY <1>1, <2>1, <2>2, <3>2
  <2>4. AfterCommit(t, k) = Append(h, w)
    BY <1>5 DEF AfterCommit
  <2> HIDE DEF h, w
  <2>5. /\ Append(h, w) \in Seq(Committed) /\ Len(Append(h, w)) = Len(h) + 1
        /\ \A i \in 1 .. Len(h) : Append(h, w)[i] = h[i]
        /\ Append(h, w)[Len(h) + 1] = w
    BY <1>1, <2>2
  <2>6. Sorted(Append(h, w), next_ts)
    BY <1>1, <1>2, <2>2, SortedAppend
  <2>7. ASSUME NEW i \in 1 .. Len(h)
        PROVE  Append(h, w)[i].ts <= Append(h, w)[i + 1].snap
    <3>1. CASE i = Len(h)
      BY <2>3, <2>5, <3>1
    <3>2. CASE i # Len(h)
      <4>1. i \in 1 .. (Len(h) - 1) /\ i + 1 \in 1 .. Len(h)
        BY <1>1, <3>2
      <4> QED
        BY <1>3, <2>5, <4>1
    <3> QED
      BY <3>1, <3>2
  <2>8. Proper(Append(h, w), next_ts)
    <3>1. Len(Append(h, w)) - 1 = Len(h)
      BY <1>1, <2>5
    <3> QED
      BY <2>5, <2>6, <2>7, <3>1 DEF Proper
  <2> QED
    BY <1>1, <2>4, <2>5, <2>8 DEF h
<1> QED
  BY <1>4, <1>5

(* commit: the versions go to the end of the history and of the chains.    *)
LEMMA PublishIInv ==
  ASSUME IInv, NEW t \in DOMAIN active, MayCommit(t), Publish(t)
  PROVE  IInv'
<1> USE DEF IInv
<1> DEFINE W == Writes(t)
           v(k) == [ts |-> next_ts, val |-> active[t].writes[k]]
           w(k) == [ts |-> next_ts, val |-> active[t].writes[k],
                    snap |-> active[t].snapshot]
<1>1. /\ next_ts' = next_ts + 1
      /\ \A k \in Keys : chains'[k] = IF k \in W THEN Append(chains[k], v(k)) ELSE chains[k]
      /\ \A k \in Keys : history'[k] = AfterCommit(t, k)
      /\ EndTransaction(t)
      /\ UNCHANGED next_txn_id /\ UNCHANGED tree
  BY DEF Publish
<1>2. \A k \in Keys : AfterCommit(t, k) = IF k \in W THEN Append(history[k], w(k)) ELSE history[k]
  BY DEF AfterCommit
<1>3. current_ts' = next_ts /\ current_ts = next_ts - 1 /\ next_ts \in Nat \ {0}
  BY <1>1 DEF current_ts, TypeOK
<1>4. \A k \in W : v(k) \in Version /\ w(k) \in Committed
  <2>1. active[t].snapshot \in Nat /\ active[t].writes \in [Keys -> Slot \cup {Absent}]
    BY TransactionFields
  <2>2. \A k \in W : active[t].writes[k] \in Slot
    BY <2>1 DEF Writes
  <2> QED
    BY <1>3, <2>1, <2>2 DEF Version, Committed
<1>5. \A k \in W : v(k).ts = w(k).ts /\ v(k).val = w(k).val
  OBVIOUS
<1>6. /\ Counted'
      /\ DOMAIN active' = DOMAIN active \ {t}
      /\ active' \in [DOMAIN active' -> Transaction]
      /\ \A u \in DOMAIN active' : active'[u] = active[u]
      /\ DOMAIN live_snapshots' \subseteq DOMAIN live_snapshots
      /\ live_snapshots' \in [DOMAIN live_snapshots' -> Nat \ {0}]
  BY <1>1, EndFacts, Zenon
<1> HIDE DEF W, v, w
<1>7. \A k \in Keys : Proper(history'[k], next_ts)
  BY <1>1, CommitExtends
<1>8. ASSUME NEW k \in Keys
      PROVE  chains'[k] \in Seq(Version)
  <2>1. chains[k] \in Seq(Version)
    BY KeyFacts
  <2>2. k \in W => Append(chains[k], v(k)) \in Seq(Version)
    BY <1>4, <2>1
  <2> QED
    BY <1>1, <2>1, <2>2, ZenonT(30)
<1>9. TypeOK'
  <2>1. chains' \in [Keys -> Seq(Version)] /\ history' \in [Keys -> Seq(Committed)]
    BY <1>7, <1>8 DEF Publish, Proper
  <2>2. DOMAIN live_snapshots' \subseteq 0 .. (next_ts' - 1)
    BY <1>1, <1>6 DEF TypeOK
  <2>3. next_ts' \in Nat \ {0}
    BY <1>1, <1>3
  <2>4. DOMAIN active' \subseteq 1 .. (next_txn_id' - 1)
    BY <1>1, <1>6 DEF TypeOK
  <2>5. UNCHANGED next_txn_id /\ UNCHANGED tree
    BY <1>1
  <2> QED
    BY <1>6, <2>1, <2>2, <2>3, <2>4, <2>5, ZenonT(30) DEF TypeOK, Committed
<1>10. SnapshotInv'
  <2>1. \A u \in DOMAIN active : active[u].snapshot \in Nat
    BY TransactionFields
  <2> QED
    BY <1>3, <1>6, <2>1 DEF SnapshotInv
<1>11. SnapshotsCounted'
  BY <1>6, <1>9, CountedImplies, PTL
<1>12. SuffixInv' /\ CutInv'
  <2>1. ASSUME NEW k \in Keys
        PROVE  /\ Represents(history'[k], chains'[k], tree'[k])
               /\ \A s \in DOMAIN live_snapshots : CutBelow(history'[k], chains'[k], s)
    <3>1. Represents(history[k], chains[k], tree[k]) /\ tree'[k] = tree[k]
      BY <1>1 DEF SuffixInv
    <3>2. \A s \in DOMAIN live_snapshots : s \in Nat /\ CutBelow(history[k], chains[k], s)
      BY DEF CutInv, TypeOK
    <3>3. CASE k \in W
      <4>1. /\ Represents(Append(history[k], w(k)), Append(chains[k], v(k)), tree[k])
            /\ \A s \in Nat : CutBelow(history[k], chains[k], s)
                    => CutBelow(Append(history[k], w(k)), Append(chains[k], v(k)), s)
        BY <1>4, <1>5, <3>1, <3>3, KeyFacts, RepresentsAppend
      <4>2. history'[k] = Append(history[k], w(k)) /\ chains'[k] = Append(chains[k], v(k))
        BY <1>1, <1>2, <3>3, ZenonT(30)
      <4> QED
        BY <3>1, <3>2, <4>1, <4>2
    <3>4. CASE k \notin W
      <4>1. history'[k] = history[k] /\ chains'[k] = chains[k]
        BY <1>1, <1>2, <3>4, SMTT(20)
      <4> QED
        BY <3>1, <3>2, <4>1
    <3> QED
      BY <3>3, <3>4
  <2> QED
    BY <1>6, <2>1 DEF SuffixInv, CutInv
<1>13. SortedInv' /\ FirstCommitterWins'
  BY <1>3, <1>7 DEF SortedInv, FirstCommitterWins, Proper
<1> QED
  BY <1>9, <1>10, <1>11, <1>12, <1>13

(* The watermark is a timestamp no live snapshot is below.                 *)
LEMMA WatermarkFacts ==
  ASSUME TypeOK
  PROVE  /\ merge_watermark \in Nat /\ merge_watermark <= current_ts
         /\ \A s \in DOMAIN live_snapshots : s \in Nat /\ merge_watermark <= s
         /\ DOMAIN live_snapshots = {} => merge_watermark = current_ts
         /\ DOMAIN live_snapshots # {} => merge_watermark \in DOMAIN live_snapshots
<1>1. current_ts \in Nat /\ DOMAIN live_snapshots \subseteq 0 .. current_ts
  BY DEF TypeOK, current_ts
<1>2. CASE DOMAIN live_snapshots = {}
  BY <1>1, <1>2 DEF merge_watermark
<1>3. CASE DOMAIN live_snapshots # {}
  <2>1. \E m \in DOMAIN live_snapshots : \A n \in DOMAIN live_snapshots : m <= n
    BY <1>1, <1>3, NatMin
  <2>2. /\ merge_watermark \in DOMAIN live_snapshots
        /\ \A r \in DOMAIN live_snapshots : merge_watermark <= r
    BY <1>3, <2>1 DEF merge_watermark
  <2> QED
    BY <1>1, <1>3, <2>2
<1> QED
  BY <1>2, <1>3, SMTT(20)

(* Such a tree is the committed state as of ts (lib.rs:213-217).           *)
LEMMA TreeIsAsOf ==
  ASSUME IInv, NEW ts \in Nat, TreeAt(ts), NEW k \in Keys
  PROVE  tree[k] = AsOf(history[k], None, ts)
<1>1. chains[k] \in Seq(Version) /\ history[k] \in Seq(Committed) /\ Len(chains[k]) \in Nat
  BY KeyFacts DEF IInv
<1>2. Represents(history[k], chains[k], tree[k])
  BY DEF IInv, SuffixInv
<1>3. AsOf(chains[k], tree[k], ts) = AsOf(history[k], None, ts)
  BY <1>1, <1>2, RepresentsReads DEF TreeAt
<1>4. LastAt(chains[k], ts) = 0
  <2>1. \A i \in 1 .. Len(chains[k]) : chains[k][i].ts \in Nat /\ chains[k][i].ts > ts
    BY <1>1, ChainEntries DEF TreeAt
  <2> QED
    BY <1>1, <2>1, LastAtIs
<1> QED
  BY <1>3, <1>4 DEF AsOf

(* merge_into_tree moves every cut to the watermark (txn.rs:329-360).      *)
LEMMA MergeCuts ==
  ASSUME IInv, merge_into_tree(merge_watermark), NEW k \in Keys
  PROVE  /\ chains'[k] \in Seq(Version) /\ tree'[k] \in Slot
         /\ Represents(history[k], chains'[k], tree'[k])
         /\ \A s \in Nat : merge_watermark <= s /\ CutBelow(history[k], chains[k], s)
                => CutBelow(history[k], chains'[k], s)
         /\ \A i \in 1 .. Len(chains'[k]) :
                /\ chains'[k][i].ts > merge_watermark
                /\ \E j \in 1 .. Len(chains[k]) : chains'[k][i] = chains[k][j]
<1> USE DEF IInv
<1> DEFINE wm == merge_watermark
           c == chains[k]
           cut == LastAt(c, wm)
<1>1. wm \in Nat
  BY WatermarkFacts
<1>2. chains'[k] = SubSeq(c, cut + 1, Len(c)) /\ tree'[k] = AsOf(c, tree[k], wm)
  BY Zenon DEF merge_into_tree
<1>3. c \in Seq(Version) /\ history[k] \in Seq(Committed) /\ Len(c) \in Nat /\ tree[k] \in Slot
  BY KeyFacts, Zenon DEF TypeOK
<1>4. \A i \in 1 .. Len(c) : c[i].ts \in Nat /\ c[i].val \in Slot
  BY <1>3, ChainEntries
<1> HIDE DEF wm
<1>5. cut \in 0 .. Len(c) /\ \A j \in (cut + 1) .. Len(c) : c[j].ts > wm
  BY <1>1, <1>3, <1>4, LastAtFinds, ZenonT(30)
<1>6. Represents(history[k], c, tree[k])
  BY DEF SuffixInv
<1> HIDE DEF c
<1>7. /\ chains'[k] \in Seq(Version) /\ Represents(history[k], chains'[k], tree'[k])
      /\ \A s \in Nat : wm <= s /\ CutBelow(history[k], c, s)
             => CutBelow(history[k], chains'[k], s)
  BY <1>1, <1>2, <1>3, <1>6, RepresentsMerge
<1>8. tree'[k] \in Slot
  BY <1>2, <1>3, <1>4, <1>5 DEF AsOf
<1> HIDE DEF cut
<1>9. ASSUME NEW i \in 1 .. Len(chains'[k])
      PROVE  chains'[k][i].ts > wm /\ \E j \in 1 .. Len(c) : chains'[k][i] = c[j]
  <2>1. cut + i \in (cut + 1) .. Len(c) /\ cut + i \in 1 .. Len(c) /\ chains'[k][i] = c[cut + i]
    BY <1>2, <1>3, <1>5
  <2> QED
    BY <1>5, <2>1
<1> QED
  BY <1>7, <1>8, <1>9 DEF wm, c

(* A checkpoint at the watermark moves every cut, never past a snapshot.   *)
LEMMA MergeIInv ==
  ASSUME IInv, merge_into_tree(merge_watermark),
         next_txn_id' \in Nat, next_txn_id <= next_txn_id',
         UNCHANGED <<next_ts, active, live_snapshots, history>>
  PROVE  IInv'
<1> USE DEF IInv
<1>1. /\ UNCHANGED next_ts /\ UNCHANGED active
      /\ UNCHANGED live_snapshots /\ UNCHANGED history /\ current_ts' = current_ts
  BY DEF current_ts
<1>2. \A s \in DOMAIN live_snapshots : s \in Nat /\ merge_watermark <= s
  BY WatermarkFacts
<1>3. TypeOK'
  <2>1. chains' \in [Keys -> Seq(Version)] /\ tree' \in [Keys -> Slot]
    BY MergeCuts DEF merge_into_tree
  <2>2. next_txn_id' \in Nat \ {0} /\ DOMAIN active' \subseteq 1 .. (next_txn_id' - 1)
    BY <1>1 DEF TypeOK
  <2> QED
    BY <1>1, <2>1, <2>2, ZenonT(30) DEF TypeOK
<1>4. SuffixInv' /\ CutInv'
  BY <1>1, <1>2, MergeCuts DEF SuffixInv, CutInv
<1> QED
  BY <1>1, <1>3, <1>4 DEF SnapshotInv, SnapshotsCounted, SortedInv, FirstCommitterWins

(* There are finitely many commits to keep in the log.                     *)
LEMMA RetainedFinite ==
  ASSUME TypeOK, NEW ts \in Nat
  PROVE  /\ IsFiniteSet(RetainedTimestamps(ts))
         /\ Cardinality(RetainedTimestamps(ts)) \in Nat
<1>1. ts + 1 \in Int /\ current_ts \in Int
  BY DEF TypeOK, current_ts
<1>2. IsFiniteSet((ts + 1) .. current_ts)
  BY <1>1, FS_Interval
<1>3. RetainedTimestamps(ts) \in SUBSET ((ts + 1) .. current_ts)
  BY DEF RetainedTimestamps
<1> QED
  BY <1>2, <1>3, FS_Subset, FS_CardinalityType, ZenonT(30)

(* So a checkpoint preserves the invariant.                                *)
LEMMA CheckpointIInv ==
  ASSUME IInv, checkpoint
  PROVE  IInv'
<1>1. TypeOK /\ merge_watermark \in Nat
  BY WatermarkFacts DEF IInv
<1>2. Cardinality(RetainedTimestamps(merge_watermark)) \in Nat /\ next_txn_id \in Nat
  BY <1>1, RetainedFinite, Zenon DEF TypeOK
<1>3. next_txn_id' \in Nat /\ next_txn_id <= next_txn_id'
  BY <1>2 DEF checkpoint, retained_commits
<1> QED
  BY <1>3, MergeIInv DEF checkpoint

(* Every operation preserves the invariant.                                *)
LEMMA NextIInv == IInv /\ [Next]_vsvars => IInv'
<1> SUFFICES ASSUME IInv, [Next]_vsvars
             PROVE  IInv'
  OBVIOUS
<1>1. ASSUME NEW ro \in BOOLEAN, begin(ro)
      PROVE  IInv'
  BY <1>1, BeginIInv
<1>2. ASSUME NEW t \in DOMAIN active, NEW k \in Keys, NEW v \in Values, insert(t, k, v)
      PROVE  IInv'
  BY <1>2, StageIInv DEF insert, Slot
<1>3. ASSUME NEW t \in DOMAIN active, NEW k \in Keys, delete(t, k)
      PROVE  IInv'
  BY <1>3, StageIInv DEF delete, Slot
<1>4. ASSUME NEW t \in DOMAIN active, rollback(t)
      PROVE  IInv'
  BY <1>4, RollbackIInv
<1>5. ASSUME NEW t \in DOMAIN active, commit(t)
      PROVE  IInv'
  <2>1. CASE MayCommit(t) /\ Publish(t)
    BY <2>1, PublishIInv
  <2> QED
    BY <1>4, <1>5, <2>1 DEF commit, CommitNothing, CommitConflicts
<1>6. CASE checkpoint
  BY <1>6, CheckpointIInv
<1>7. CASE UNCHANGED vsvars
  <2>1. /\ UNCHANGED chains /\ UNCHANGED next_ts /\ UNCHANGED next_txn_id
        /\ UNCHANGED active /\ UNCHANGED live_snapshots
        /\ UNCHANGED tree /\ UNCHANGED history
    BY <1>7 DEF vsvars
  <2> QED
    BY <2>1, ZenonT(30) DEF IInv, TypeOK, SnapshotInv, SnapshotsCounted, SuffixInv, SortedInv, CutInv,
                FirstCommitterWins, current_ts
<1> QED
  BY <1>1, <1>2, <1>3, <1>4, <1>5, <1>6, <1>7 DEF Next

(* The invariant relates what readers see to the history.                  *)
LEMMA SnapshotReadsFollow == IInv => SnapshotReads
<1>1. SUFFICES ASSUME IInv, NEW t \in DOMAIN active, NEW k \in Keys
               PROVE  Visible(k, active[t].snapshot) =
                          AsOf(history[k], None, active[t].snapshot)
  BY DEF SnapshotReads
<1>2. active[t].snapshot \in DOMAIN live_snapshots /\ active[t].snapshot \in Nat
  BY <1>1, LiveSnapshot, TransactionFields DEF IInv
<1>3. /\ Represents(history[k], chains[k], tree[k])
      /\ CutBelow(history[k], chains[k], active[t].snapshot)
  BY <1>1, <1>2 DEF IInv, SuffixInv, CutInv
<1>4. chains[k] \in Seq(Version) /\ history[k] \in Seq(Committed)
  BY <1>1, KeyFacts DEF IInv
<1> QED
  BY <1>2, <1>3, <1>4, RepresentsReads DEF Visible

(* The newest reader sees the last version of every key.                   *)
LEMMA LatestReadsFollow == IInv => LatestReads
<1>1. SUFFICES ASSUME IInv, NEW k \in Keys
               PROVE  Visible(k, current_ts) =
                  IF history[k] = <<>> THEN None ELSE history[k][Len(history[k])].val
  BY Zenon DEF LatestReads
<1>2. /\ chains[k] \in Seq(Version) /\ history[k] \in Seq(Committed)
      /\ Len(chains[k]) \in Nat /\ Len(history[k]) \in Nat
  BY <1>1, KeyFacts DEF IInv
<1>3. Sorted(history[k], current_ts) /\ current_ts \in Nat
  BY <1>1 DEF IInv, SortedInv, TypeOK, current_ts
<1>4. /\ Represents(history[k], chains[k], tree[k])
      /\ CutBelow(history[k], chains[k], current_ts)
  <2>1. Represents(history[k], chains[k], tree[k])
    BY <1>1 DEF IInv, SuffixInv
  <2>2. CutBelow(history[k], chains[k], current_ts)
    BY <1>2, <1>3 DEF CutBelow, Sorted
  <2> QED
    BY <2>1, <2>2
<1>5. Visible(k, current_ts) = AsOf(history[k], None, current_ts)
  BY <1>2, <1>3, <1>4, RepresentsReads DEF Visible
<1>6. LastAt(history[k], current_ts) = Len(history[k])
  <2>1. \A i \in 1 .. Len(history[k]) :
          history[k][i].ts \in Nat /\ history[k][i].ts <= current_ts
    BY <1>2, <1>3, HistoryEntries DEF Sorted
  <2>2. /\ Len(history[k]) \in 0 .. Len(history[k])
        /\ Len(history[k]) # 0 => history[k][Len(history[k])].ts <= current_ts
        /\ \A j \in (Len(history[k]) + 1) .. Len(history[k]) : history[k][j].ts > current_ts
    BY <1>2, <2>1
  <2> QED
    BY <1>2, <1>3, <2>1, <2>2, LastAtIs
<1>7. Len(history[k]) = 0 <=> history[k] = <<>>
  BY <1>2
<1> QED
  BY <1>5, <1>6, <1>7 DEF AsOf

-----------------------------------------------------------------------------
(* What the engine's steps do to the store, for the proofs about it.       *)

(* Beginning, staging a write and ending without a commit are quiet.       *)
LEMMA QuietStep ==
  ASSUME IInv,
         \/ \E ro \in BOOLEAN : begin(ro)
         \/ \E t \in DOMAIN active :
                \/ \E k \in Keys : \E v \in Slot : stage(t, k, v)
                \/ rollback(t)
  PROVE  IInv' /\ Quiet
<1>0. next_txn_id \in Nat
  BY DEF IInv, TypeOK
<1>1. ASSUME NEW ro \in BOOLEAN, begin(ro)
      PROVE  IInv' /\ Quiet
  <2>1. IInv'
    BY <1>1, BeginIInv, SMTT(20)
  <2>2. DOMAIN active' = DOMAIN active \cup {next_txn_id}
    BY <1>1, SMTT(20) DEF begin
  <2>3. DOMAIN live_snapshots' = DOMAIN live_snapshots \cup {current_ts}
    BY <1>1 DEF begin, hold_snapshot
  <2> QED
    BY <1>0, <1>1, <2>1, <2>2, <2>3 DEF begin, Quiet
<1>2. ASSUME NEW t \in DOMAIN active, NEW k \in Keys, NEW v \in Slot, stage(t, k, v)
      PROVE  IInv' /\ Quiet
  <2>1. IInv'
    BY <1>2, StageIInv
  <2>2. DOMAIN active' = DOMAIN active
    BY <1>2 DEF stage
  <2> QED
    BY <1>0, <1>2, <2>1, <2>2 DEF stage, Quiet
<1>3. ASSUME NEW t \in DOMAIN active, rollback(t)
      PROVE  IInv' /\ Quiet
  <2>1. IInv'
    BY <1>3, RollbackIInv
  <2>2. DOMAIN active' \subseteq DOMAIN active
    BY <1>3 DEF rollback, EndTransaction
  <2>3. DOMAIN live_snapshots' \subseteq DOMAIN live_snapshots
    BY <1>3 DEF rollback, EndTransaction, release_snapshot
  <2> QED
    BY <1>0, <1>3, <2>1, <2>2, <2>3 DEF rollback, Quiet
<1> QED
  BY <1>1, <1>2, <1>3

(* A commit changes no read at an earlier timestamp.                       *)
LEMMA CommitReadsOld ==
  ASSUME IInv, NEW t \in DOMAIN active, NEW k \in Keys, NEW s \in Nat, s < next_ts
  PROVE  AsOf(AfterCommit(t, k), None, s) = AsOf(history[k], None, s)
<1> DEFINE w == [ts |-> next_ts, val |-> active[t].writes[k], snap |-> active[t].snapshot]
<1>1. history[k] \in Seq(Committed) /\ next_ts \in Nat
  BY KeyFacts, Zenon DEF IInv, TypeOK
<1>2. CASE k \in Writes(t)
  <2>1. active[t].snapshot \in Nat /\ active[t].writes[k] \in Slot
    BY <1>2, TransactionFields DEF IInv, Writes
  <2>2. w \in Committed /\ w.ts = next_ts
    BY <1>1, <2>1 DEF Committed
  <2>3. AfterCommit(t, k) = Append(history[k], w)
    BY <1>2, SMTT(20) DEF AfterCommit
  <2> HIDE DEF w
  <2> QED
    BY <1>1, <2>2, <2>3, AsOfAppend
<1> QED
  BY <1>2 DEF AfterCommit

(* Nor where the tree stands.                                              *)
LEMMA PublishTreeAt ==
  ASSUME IInv, NEW t \in DOMAIN active, Publish(t), NEW ts \in Nat, ts < next_ts, TreeAt(ts),
         NEW k \in Keys
  PROVE  /\ CutBelow(history'[k], chains'[k], ts)
         /\ \A i \in 1 .. Len(chains'[k]) : chains'[k][i].ts > ts
<1> DEFINE v == [ts |-> next_ts, val |-> active[t].writes[k]]
           w == [ts |-> next_ts, val |-> active[t].writes[k], snap |-> active[t].snapshot]
<1>1. /\ chains'[k] = IF k \in Writes(t) THEN Append(chains[k], v) ELSE chains[k]
      /\ history'[k] = IF k \in Writes(t) THEN Append(history[k], w) ELSE history[k]
  BY DEF Publish, AfterCommit
<1>2. /\ CutBelow(history[k], chains[k], ts)
      /\ \A i \in 1 .. Len(chains[k]) : chains[k][i].ts > ts
  BY DEF TreeAt
<1>3. CASE k \in Writes(t)
  <2>0. next_ts \in Nat
    BY DEF IInv, TypeOK
  <2>1. active[t].snapshot \in Nat /\ active[t].writes[k] \in Slot /\ next_ts \in Nat
    BY <1>3, <2>0, TransactionFields DEF IInv, Writes
  <2>2. v \in Version /\ w \in Committed /\ v.ts = w.ts /\ v.val = w.val /\ v.ts = next_ts
    BY <2>1 DEF Version, Committed
  <2>3. /\ chains[k] \in Seq(Version) /\ history[k] \in Seq(Committed) /\ Len(chains[k]) \in Nat
        /\ Represents(history[k], chains[k], tree[k])
    BY KeyFacts DEF IInv, SuffixInv
  <2> HIDE DEF v, w
  <2>4. CutBelow(Append(history[k], w), Append(chains[k], v), ts)
    BY <1>2, <2>2, <2>3, RepresentsAppend, ZenonT(30)
  <2>5. /\ Len(Append(chains[k], v)) = Len(chains[k]) + 1
        /\ Append(chains[k], v)[Len(chains[k]) + 1] = v
        /\ \A i \in 1 .. Len(chains[k]) : Append(chains[k], v)[i] = chains[k][i]
    BY <2>2, <2>3
  <2>6. \A i \in 1 .. (Len(chains[k]) + 1) : i \in 1 .. Len(chains[k]) \/ i = Len(chains[k]) + 1
    BY <2>3
  <2>7. v.ts > ts
    BY <2>1, <2>2
  <2>8. \A i \in 1 .. Len(Append(chains[k], v)) : Append(chains[k], v)[i].ts > ts
    BY <1>2, <2>5, <2>6, <2>7
  <2> QED
    BY <1>1, <1>3, <2>4, <2>8
<1> QED
  BY <1>1, <1>2, <1>3, SMTT(20)

(* A merge leaves the tree at the watermark.                               *)
LEMMA MergeTreeAt ==
  ASSUME IInv, merge_into_tree(merge_watermark), NEW ts \in Nat, TreeAt(ts),
         ts <= merge_watermark, NEW k \in Keys
  PROVE  /\ CutBelow(history[k], chains'[k], merge_watermark)
         /\ \A i \in 1 .. Len(chains'[k]) : chains'[k][i].ts > merge_watermark
<1>1. merge_watermark \in Nat
  BY WatermarkFacts DEF IInv
<1>2. history[k] \in Seq(Committed) /\ chains[k] \in Seq(Version)
  BY KeyFacts DEF IInv
<1>3. CutBelow(history[k], chains[k], merge_watermark)
  BY <1>1, <1>2, CutBelowHigher DEF TreeAt
<1> QED
  BY <1>1, <1>3, MergeCuts

(* The commits a merge keeps above the watermark were there before it.     *)
LEMMA MergeRetains ==
  ASSUME IInv, merge_into_tree(merge_watermark), UNCHANGED next_ts, NEW k \in Keys,
         NEW i \in 1 .. Len(chains'[k]), NEW ts, chains'[k][i].ts = ts,
         ts \in (merge_watermark + 1) .. current_ts
  PROVE  ts \in RetainedTimestamps(merge_watermark)
<1>1. PICK j \in 1 .. Len(chains[k]) : chains'[k][i] = chains[k][j]
  BY MergeCuts
<1> QED
  BY <1>1 DEF RetainedTimestamps

(* The commits to keep in the log are those of all the chains.             *)
LEMMA ChainsRetained ==
  ASSUME IInv, NEW ts \in Nat, TreeAt(ts)
  PROVE  /\ \A k \in Keys : \A i \in 1 .. Len(chains[k]) : chains[k][i].ts \in RetainedTimestamps(ts)
         /\ \A x \in RetainedTimestamps(ts) : x \in Nat /\ ts < x /\ x <= current_ts
<1>1. ASSUME NEW k \in Keys, NEW i \in 1 .. Len(chains[k])
      PROVE  chains[k][i].ts \in RetainedTimestamps(ts)
  <2>1. /\ chains[k] \in Seq(Version) /\ history[k] \in Seq(Committed)
        /\ Represents(history[k], chains[k], tree[k])
    BY KeyFacts DEF IInv, SuffixInv
  <2>2. current_ts \in Nat /\ Sorted(history[k], current_ts)
    BY DEF IInv, SortedInv, TypeOK, current_ts
  <2>3. CutBelow(history[k], chains[k], ts)
    BY DEF TreeAt
  <2>4. chains[k][i].ts \in Nat /\ chains[k][i].ts > ts
    BY <2>1, ChainEntries DEF TreeAt
  <2>5. chains[k][i].ts <= current_ts
    <3>1. PICK j \in 1 .. Len(history[k]) : history[k][j].ts = chains[k][i].ts
      BY <2>1, <2>2, <2>3, ChainIsAbove, ZenonT(30)
    <3> QED
      BY <2>2, <3>1 DEF Sorted
  <2>6. chains[k][i].ts \in (ts + 1) .. current_ts
    BY <2>2, <2>4, <2>5
  <2> QED
    BY <2>6 DEF RetainedTimestamps
<1>2. current_ts \in Int
  BY DEF IInv, TypeOK, current_ts
<1> QED
  BY <1>1, <1>2 DEF RetainedTimestamps

-----------------------------------------------------------------------------
(* Theorems.                                                               *)

(* The invariant holds in every reachable state of the store.              *)
THEOREM Invariance == Spec => []IInv
  BY InitIInv, NextIInv, PTL DEF Spec

(* The fields of VersionStore keep their types (txn.rs:42-121).            *)
THEOREM TypeCorrect == Spec => []TypeOK
  BY Invariance, PTL DEF IInv

(* However far checkpoints have cut the chains, a live transaction reads   *)
(* the newest version at or below its snapshot (txn.rs:221-228, 329-360).  *)
THEOREM SnapshotReadsCorrect == Spec => []SnapshotReads
  BY Invariance, SnapshotReadsFollow, PTL

(* At the current timestamp every key shows its last committed version     *)
(* (lib.rs:378-389).                                                       *)
THEOREM LatestReadsCorrect == Spec => []LatestReads
  BY Invariance, LatestReadsFollow, PTL

(* First committer wins, also after a checkpoint has dropped the version   *)
(* that detect_conflict would compare with (txn.rs:230-244).               *)
THEOREM NoLostUpdates == Spec => []FirstCommitterWins
  BY Invariance, PTL DEF IInv

(* Every end of a transaction releases exactly one hold on its snapshot    *)
(* (txn.rs:165, 294-301).                                                  *)
THEOREM SnapshotsCountedCorrect == Spec => []SnapshotsCounted
  BY Invariance, PTL DEF IInv
=============================================================================
