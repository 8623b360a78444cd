-------------------------- MODULE IsolationProofs ---------------------------
(***************************************************************************)
(* The store implements snapshot isolation: every step of VersionStore is  *)
(* a step of SnapshotKV on what its readers see, or changes none of it.  A *)
(* checkpoint is the hard one: what readers see is told through the        *)
(* history, which a checkpoint leaves alone.                               *)
(***************************************************************************)
EXTENDS Isolation, VersionStoreProofs

(* What a reader sees, told by the history alone.                          *)
Seen(k, s) == AsOf(history[k], None, s)
Overwritten(k, s) == Len(history[k]) # 0 /\ history[k][Len(history[k])].ts > s

(* The snapshots a reader may have: held ones, and the present.            *)
Snapshots == DOMAIN live_snapshots \cup {current_ts}

-----------------------------------------------------------------------------
(* No chain is cut above a snapshot, and no version is of the future.      *)
LEMMA SnapshotFacts ==
  ASSUME IInv, NEW k \in Keys, NEW s \in Snapshots
  PROVE  /\ s \in Nat /\ s <= current_ts
         /\ CutBelow(history[k], chains[k], s)
<1> USE DEF IInv
<1>1. /\ chains[k] \in Seq(Version) /\ history[k] \in Seq(Committed)
      /\ Len(chains[k]) \in Nat /\ Len(history[k]) \in Nat
  BY KeyFacts
<1>2. current_ts \in Nat /\ DOMAIN live_snapshots \subseteq 0 .. current_ts
  BY DEF TypeOK, current_ts
<1>3. s \in Nat /\ s <= current_ts
  BY <1>2 DEF Snapshots
<1>4. CASE s \in DOMAIN live_snapshots
  BY <1>3, <1>4 DEF CutInv
<1>5. CASE s = current_ts
  <2>1. Sorted(history[k], current_ts) /\ Represents(history[k], chains[k], tree[k])
    BY DEF SortedInv, SuffixInv
  <2> QED
    BY <1>1, <1>3, <1>5, <2>1 DEF Sorted, CutBelow, Represents
<1> QED
  BY <1>3, <1>4, <1>5 DEF Snapshots

(* What is seen at a snapshot depends on the history only.                 *)
LEMMA SeenInHistory ==
  ASSUME IInv, NEW k \in Keys, NEW s \in Snapshots
  PROVE  Visible(k, s) = Seen(k, s)
<1>1. /\ chains[k] \in Seq(Version) /\ history[k] \in Seq(Committed)
  BY KeyFacts DEF IInv
<1>2. s \in Nat /\ CutBelow(history[k], chains[k], s)
  BY SnapshotFacts
<1>3. Represents(history[k], chains[k], tree[k])
  BY DEF IInv, SuffixInv
<1> QED
  BY <1>1, <1>2, <1>3, RepresentsReads DEF Visible, Seen

(* So does whether a key was overwritten since.                            *)
LEMMA OverwrittenInHistory ==
  ASSUME IInv, NEW k \in Keys, NEW s \in Snapshots
  PROVE  NewerThan(k, s) <=> Overwritten(k, s)
<1>1. CASE s \in DOMAIN live_snapshots
  BY <1>1, ConflictIsNewer DEF Overwritten
<1>2. CASE s = current_ts
  <2>1. /\ chains[k] \in Seq(Version) /\ history[k] \in Seq(Committed)
        /\ Len(chains[k]) \in Nat /\ Len(history[k]) \in Nat
    BY KeyFacts DEF IInv
  <2>2. \A i \in 1 .. Len(history[k]) : history[k][i].ts \in Nat /\ history[k][i].ts <= current_ts
    BY <2>1, HistoryEntries DEF IInv, SortedInv, Sorted
  <2>3. current_ts \in Nat
    BY SnapshotFacts DEF Snapshots
  <2>6. ~Overwritten(k, s)
    BY <1>2, <2>1, <2>2, <2>3 DEF Overwritten
  <2>4. ASSUME chains[k] # <<>>
        PROVE  chains[k][Len(chains[k])].ts <= current_ts
    <3>1. Len(chains[k]) \in 1 .. Len(chains[k])
      BY <2>1, <2>4
    <3>2. /\ Len(history[k]) - Len(chains[k]) >= 0
          /\ \A i \in 1 .. Len(chains[k]) :
                chains[k][i].ts = history[k][Len(history[k]) - Len(chains[k]) + i].ts
      BY Zenon DEF IInv, SuffixInv, Represents
    <3>3. /\ Len(history[k]) - Len(chains[k]) + Len(chains[k]) = Len(history[k])
          /\ Len(history[k]) \in 1 .. Len(history[k])
      BY <2>1, <3>1, <3>2
    <3>4. chains[k][Len(chains[k])].ts = history[k][Len(history[k])].ts
      BY <3>1, <3>2, <3>3, Zenon
    <3> QED
      BY <2>2, <3>3, <3>4
  <2>5. chains[k] # <<>> => chains[k][Len(chains[k])].ts \in Nat
    BY <2>1, ChainEntries
  <2> QED
    BY <1>2, <2>3, <2>4, <2>5, <2>6 DEF NewerThan
<1> QED
  BY <1>1, <1>2 DEF Snapshots

(* A live transaction's snapshot is one of the snapshots.                  *)
LEMMA HeldSnapshot ==
  ASSUME IInv, NEW t \in DOMAIN active
  PROVE  active[t].snapshot \in Snapshots
  BY LiveSnapshot DEF IInv, Snapshots

(* The same as Store and Txns, read off the history.                       *)
HistStore == [k \in Keys |-> Seen(k, current_ts)]

HistShown(txn) ==
    [view |-> [k \in Keys |-> Seen(k, txn.snapshot)],
     read_only |-> txn.read_only,
     writes |-> txn.writes,
     stale |-> {k \in Keys : Overwritten(k, txn.snapshot)}]

HistTxns == [t \in DOMAIN active |-> HistShown(active[t])]

(* So the refinement mapping is a function of the history.                 *)
LEMMA MappingByHistory == IInv => Store = HistStore /\ Txns = HistTxns
<1> SUFFICES ASSUME IInv
             PROVE  Store = HistStore /\ Txns = HistTxns
  OBVIOUS
<1>1. \A k \in Keys : Visible(k, current_ts) = Seen(k, current_ts)
  BY SeenInHistory, Zenon DEF Snapshots
<1>2. \A t \in DOMAIN active, k \in Keys :
        /\ Visible(k, active[t].snapshot) = Seen(k, active[t].snapshot)
        /\ NewerThan(k, active[t].snapshot) <=> Overwritten(k, active[t].snapshot)
  BY HeldSnapshot, SeenInHistory, OverwrittenInHistory, ZenonT(30)
<1>3. Store = HistStore
  BY <1>1 DEF Store, HistStore
<1>4. \A t \in DOMAIN active :
        /\ [k \in Keys |-> Visible(k, active[t].snapshot)] =
              [k \in Keys |-> Seen(k, active[t].snapshot)]
        /\ {k \in Keys : NewerThan(k, active[t].snapshot)} =
              {k \in Keys : Overwritten(k, active[t].snapshot)}
  BY <1>2
<1>5. Txns = HistTxns
  BY <1>4, Zenon DEF Txns, HistTxns, Shown, HistShown
<1> QED
  BY <1>3, <1>5

(* A checkpoint moves versions from the chains to the tree, and leaves     *)
(* the history alone.                                                      *)
LEMMA CheckpointShowsNothing ==
  ASSUME IInv, IInv', checkpoint
  PROVE  UNCHANGED <<Store, Txns>>
<1>1. Store = HistStore /\ Txns = HistTxns
  BY MappingByHistory
<1>2. (IInv => Store = HistStore /\ Txns = HistTxns)'
  BY MappingByHistory, PTL
<1>3. HistStore' = HistStore /\ HistTxns' = HistTxns
  BY DEF checkpoint, HistStore, HistTxns, HistShown, Seen, Overwritten, current_ts
<1> QED
  BY <1>1, <1>2, <1>3

-----------------------------------------------------------------------------
(* While chains and tree stay, only active changes what is shown.          *)
LEMMA SameVersions ==
  ASSUME UNCHANGED <<chains, next_ts, tree>>
  PROVE  /\ Store' = Store
         /\ Txns' = [t \in DOMAIN active' |-> Shown(active'[t])]
  BY DEF Store, Txns, Shown, Visible, NewerThan, current_ts

(* A transaction begins with the present map, of which nothing is stale.   *)
LEMMA BeginImplements ==
  ASSUME IInv, NEW ro \in BOOLEAN, begin(ro)
  PROVE  next_txn_id \in 1 .. MaxTxnId /\ KV!Begin(next_txn_id, ro)
<1> DEFINE new == [snapshot |-> current_ts, read_only |-> ro,
                   writes |-> [k \in Keys |-> Absent]]
<1>1. /\ UNCHANGED <<chains, next_ts, tree, history>>
      /\ active' = [t \in DOMAIN active \cup {next_txn_id} |->
                    IF t = next_txn_id THEN new ELSE active[t]]
  BY DEF begin
<1>2. next_txn_id \in 1 .. MaxTxnId /\ next_txn_id \notin DOMAIN active
  BY MaxTxnIdAssumption DEF IInv, TypeOK, begin
<1>3. \A k \in Keys : ~NewerThan(k, current_ts)
  <2>1. SUFFICES ASSUME NEW k \in Keys
                 PROVE  ~Overwritten(k, current_ts)
    BY OverwrittenInHistory, Zenon DEF Snapshots
  <2>2. /\ history[k] \in Seq(Committed) /\ Len(history[k]) \in Nat
        /\ Sorted(history[k], current_ts) /\ current_ts \in Nat
    BY KeyFacts, SnapshotFacts DEF IInv, SortedInv, Snapshots
  <2>3. \A i \in 1 .. Len(history[k]) : history[k][i].ts \in Nat /\ history[k][i].ts <= current_ts
    BY <2>2, HistoryEntries DEF Sorted
  <2> QED
    BY <2>2, <2>3 DEF Overwritten
<1>4. Shown(new) = [view |-> Store, read_only |-> ro,
                    writes |-> [k \in Keys |-> Absent], stale |-> {}]
  BY <1>3 DEF Shown, Store
<1>5. /\ Store' = Store
      /\ Txns' = [t \in DOMAIN active' |-> Shown(active'[t])]
  BY <1>1, SameVersions
<1>6. DOMAIN Txns = DOMAIN active /\ \A t \in DOMAIN active : Txns[t] = Shown(active[t])
  BY DEF Txns
<1> HIDE DEF new
<1>7. Txns' = [u \in DOMAIN Txns \cup {next_txn_id} |->
                 IF u = next_txn_id THEN Shown(new) ELSE Txns[u]]
  BY <1>1, <1>5, <1>6
<1> QED
  BY <1>2, <1>4, <1>5, <1>6, <1>7 DEF KV!Begin

(* A staged write is private.                                              *)
LEMMA StageImplements ==
  ASSUME IInv, NEW t \in DOMAIN active, NEW k \in Keys, NEW write, stage(t, k, write)
  PROVE  t \in DOMAIN Txns /\ KV!Stage(t, k, write)
<1> DEFINE new == [active[t] EXCEPT !.writes[k] = write]
<1>1. /\ UNCHANGED <<chains, next_ts, tree>>
      /\ ~active[t].read_only
      /\ active' = [active EXCEPT ![t] = new]
  BY DEF stage
<1>2. active[t] \in Transaction
  BY TransactionFields DEF IInv
<1>3. /\ new.snapshot = active[t].snapshot /\ new.read_only = active[t].read_only
      /\ new.writes = [active[t].writes EXCEPT ![k] = write]
  BY <1>2 DEF Transaction
<1> HIDE DEF new
<1>4. Shown(new) = [Shown(active[t]) EXCEPT !.writes[k] = write]
  <2> DEFINE V == [j \in Keys |-> Visible(j, active[t].snapshot)]
             S == {j \in Keys : NewerThan(j, active[t].snapshot)}
             r == active[t].read_only
             w == active[t].writes
  <2>1. Shown(active[t]) = [view |-> V, read_only |-> r, writes |-> w, stale |-> S]
    BY DEF Shown
  <2>2. Shown(new) = [view |-> V, read_only |-> r, writes |-> [w EXCEPT ![k] = write],
                      stale |-> S]
    BY <1>3 DEF Shown
  <2> HIDE DEF V, S, r, w
  <2> QED
    BY <2>1, <2>2
<1>5. /\ Store' = Store
      /\ Txns' = [u \in DOMAIN active' |-> Shown(active'[u])]
  BY <1>1, SameVersions
<1>6. DOMAIN Txns = DOMAIN active /\ \A u \in DOMAIN active : Txns[u] = Shown(active[u])
  BY DEF Txns
<1>7. Txns' = [Txns EXCEPT ![t] = Shown(new)]
  BY <1>1, <1>5, <1>6, Zenon DEF Txns
<1>8. Txns' = [Txns EXCEPT ![t].writes[k] = write]
  BY <1>4, <1>6, <1>7, ZenonT(30)
<1>9. ~Txns[t].read_only
  BY <1>1, <1>6 DEF Shown
<1> QED
  BY <1>5, <1>6, <1>8, <1>9, Zenon DEF KV!Stage

(* A delete is refused for the keys that the map would refuse it for.      *)
LEMMA DeleteImplements ==
  ASSUME IInv, NEW t \in DOMAIN active, NEW k \in Keys, delete(t, k)
  PROVE  t \in DOMAIN Txns /\ KV!Delete(t, k)
<1>1. stage(t, k, None) /\ Read(t, k) # None
  BY DEF delete
<1>2. t \in DOMAIN Txns /\ KV!Stage(t, k, None)
  BY <1>1, StageImplements
<1>3. Txns[t].writes = active[t].writes /\ Txns[t].view[k] = Visible(k, active[t].snapshot)
  BY DEF Txns, Shown
<1> QED
  BY <1>1, <1>2, <1>3 DEF KV!Delete, KV!Written, Read

(* A rollback, and a commit of nothing or with a conflict, leaves no       *)
(* trace.                                                                  *)
LEMMA RollbackImplements ==
  ASSUME IInv, NEW t \in DOMAIN active, rollback(t)
  PROVE  t \in DOMAIN Txns /\ KV!End(t)
<1>1. /\ UNCHANGED <<chains, next_ts, tree>>
      /\ active' = [u \in DOMAIN active \ {t} |-> active[u]]
  BY DEF rollback, EndTransaction
<1>2. /\ Store' = Store
      /\ Txns' = [u \in DOMAIN active' |-> Shown(active'[u])]
  BY <1>1, SameVersions
<1>3. DOMAIN Txns = DOMAIN active /\ \A u \in DOMAIN active : Txns[u] = Shown(active[u])
  BY DEF Txns
<1>4. Txns' = [u \in DOMAIN Txns \ {t} |-> Txns[u]]
  BY <1>1, <1>2, <1>3
<1> QED
  BY <1>2, <1>3, <1>4 DEF KV!End, KV!Without

(* A commit shows its writes to those who begin later, makes its keys      *)
(* stale for the others and leaves what they see.                          *)
LEMMA PublishImplements ==
  ASSUME IInv, IInv', NEW t \in DOMAIN active, MayCommit(t), Publish(t)
  PROVE  t \in DOMAIN Txns /\ KV!Commit(t)
<1> DEFINE W == Writes(t)
           v(k) == [ts |-> next_ts, val |-> active[t].writes[k], snap |-> active[t].snapshot]
<1>1. /\ next_ts' = next_ts + 1
      /\ history' = [k \in Keys |-> IF k \in W THEN Append(history[k], v(k)) ELSE history[k]]
      /\ active' = [u \in DOMAIN active \ {t} |-> active[u]]
  BY DEF Publish, EndTransaction, AfterCommit
<1>2. /\ ~active[t].read_only /\ W # {}
      /\ \A k \in W : k \in Keys /\ ~NewerThan(k, active[t].snapshot)
  BY DEF MayCommit, detect_conflict, Writes
<1>3. Store = HistStore /\ Txns = HistTxns
  BY MappingByHistory
<1>4. (IInv => Store = HistStore /\ Txns = HistTxns)'
  BY MappingByHistory, PTL
<1>5. /\ current_ts \in Nat /\ next_ts = current_ts + 1 /\ current_ts' = current_ts + 1
      /\ next_ts \in Nat
  <2>1. next_ts \in Nat \ {0}
    BY DEF IInv, TypeOK
  <2> QED
    BY <1>1, <2>1 DEF current_ts
<1>6. \A k \in Keys : /\ history[k] \in Seq(Committed) /\ Sorted(history[k], current_ts)
                      /\ Len(history[k]) \in Nat
                      /\ \A i \in 1 .. Len(history[k]) : history[k][i].ts \in Nat
  BY KeyFacts, HistoryEntries DEF IInv, SortedInv
<1>7. /\ \A k \in W : v(k) \in Committed /\ v(k).ts = current_ts + 1
                       /\ v(k).val = active[t].writes[k]
  <2>1. active[t].snapshot \in Nat /\ active[t].writes \in [Keys -> Slot \cup {Absent}]
    BY TransactionFields DEF IInv
  <2> QED
    BY <1>5, <2>1 DEF Writes, Committed
<1> HIDE DEF W, v
<1>8. ASSUME NEW k \in Keys
      PROVE  Seen(k, current_ts)' = IF k \in W THEN active[t].writes[k] ELSE Seen(k, current_ts)
  <2>1. CASE k \in W
    <3>1. AsOf(Append(history[k], v(k)), None, current_ts + 1) = active[t].writes[k]
      <4>1. history[k] \in Seq(Committed) /\ v(k) \in Committed
        BY <1>6, <1>7, <2>1
      <4>2. v(k).ts = current_ts + 1 /\ v(k).val = active[t].writes[k]
        BY <1>7, <2>1
      <4>3. current_ts + 1 \in Nat /\ v(k).ts <= current_ts + 1
        BY <1>5, <4>2
      <4> QED
        BY <4>1, <4>2, <4>3, AsOfAppend
    <3> QED
      BY <1>1, <1>5, <2>1, <3>1 DEF Seen
  <2>2. CASE k \notin W
    <3>1. AsOf(history[k], None, current_ts + 1) = AsOf(history[k], None, current_ts)
      BY <1>5, <1>6, AsOfPast
    <3> QED
      BY <1>1, <1>5, <2>2, <3>1, SMTT(20) DEF Seen
  <2> QED
    BY <2>1, <2>2
<1>9. ASSUME NEW k \in Keys, NEW s \in Nat, s <= current_ts
      PROVE  /\ AsOf(history'[k], None, s) = AsOf(history[k], None, s)
             /\ (Len(history'[k]) # 0 /\ history'[k][Len(history'[k])].ts > s)
                  <=> (k \in W \/ Overwritten(k, s))
  <2>1. CASE k \in W
    <3>1. AsOf(Append(history[k], v(k)), None, s) = AsOf(history[k], None, s)
      BY <1>5, <1>6, <1>7, <1>9, <2>1, AsOfAppend
    <3>2. /\ Len(Append(history[k], v(k))) = Len(history[k]) + 1
          /\ Append(history[k], v(k))[Len(history[k]) + 1] = v(k)
      BY <1>6, <1>7, <2>1
    <3>3. history'[k] = Append(history[k], v(k))
      BY <1>1, <2>1
    <3>4. Len(history'[k]) # 0 /\ history'[k][Len(history'[k])] = v(k)
      BY <1>6, <3>2, <3>3
    <3>5. v(k).ts > s
      BY <1>5, <1>7, <1>9, <2>1
    <3> QED
      BY <2>1, <3>1, <3>3, <3>4, <3>5, SMTT(20)
  <2>2. CASE k \notin W
    BY <1>1, <2>2 DEF Overwritten
  <2> QED
    BY <2>1, <2>2
<1>10. Store' = [k \in Keys |-> IF k \in W THEN active[t].writes[k] ELSE Store[k]]
  <2>1. HistStore' = [k \in Keys |-> IF k \in W THEN active[t].writes[k] ELSE Seen(k, current_ts)]
    BY <1>8 DEF HistStore
  <2> QED
    BY <1>3, <1>4, <2>1 DEF HistStore
<1>11. /\ DOMAIN Txns = DOMAIN active
       /\ Txns[t].writes = active[t].writes /\ Txns[t].read_only = active[t].read_only
       /\ Txns[t].stale = {k \in Keys : NewerThan(k, active[t].snapshot)}
  BY DEF Txns, Shown
<1>12. KV!Written(t) = W
  BY <1>11 DEF KV!Written, Writes, W
<1> DEFINE V(u) == [k \in Keys |-> Seen(k, active[u].snapshot)]
           S(u) == {k \in Keys : Overwritten(k, active[u].snapshot)}
<1>13. ASSUME NEW u \in DOMAIN active \ {t}
       PROVE  /\ [k \in Keys |-> AsOf(history'[k], None, active[u].snapshot)] = V(u)
              /\ {k \in Keys : /\ Len(history'[k]) # 0
                              /\ history'[k][Len(history'[k])].ts > active[u].snapshot}
                   = S(u) \cup W
  <2>1. active[u].snapshot \in Nat /\ active[u].snapshot <= current_ts
    BY TransactionFields DEF IInv, SnapshotInv
  <2>2. \A k \in Keys : AsOf(history'[k], None, active[u].snapshot) = Seen(k, active[u].snapshot)
    BY <1>9, <2>1 DEF Seen
  <2>3. \A k \in Keys : (/\ Len(history'[k]) # 0
                         /\ history'[k][Len(history'[k])].ts > active[u].snapshot)
                        <=> (k \in W \/ Overwritten(k, active[u].snapshot))
    BY <1>9, <2>1
  <2> QED
    BY <1>2, <2>2, <2>3
<1>14. Txns' = [u \in DOMAIN active \ {t} |->
                  [view |-> V(u), read_only |-> active[u].read_only,
                   writes |-> active[u].writes, stale |-> S(u) \cup W]]
  <2> DEFINE V2(a) == [k \in Keys |-> AsOf(history'[k], None, a.snapshot)]
             S2(a) == {k \in Keys : /\ Len(history'[k]) # 0
                                   /\ history'[k][Len(history'[k])].ts > a.snapshot}
  <2>1. HistTxns' = [u \in DOMAIN active' |->
                      [view |-> V2(active'[u]), read_only |-> active'[u].read_only,
                       writes |-> active'[u].writes, stale |-> S2(active'[u])]]
    BY DEF HistTxns, HistShown, Seen, Overwritten
  <2>2. /\ DOMAIN active' = DOMAIN active \ {t}
        /\ \A u \in DOMAIN active \ {t} : active'[u] = active[u]
    BY <1>1
  <2>3. \A u \in DOMAIN active \ {t} : V2(active[u]) = V(u) /\ S2(active[u]) = S(u) \cup W
    BY <1>13
  <2>4. Txns' = HistTxns'
    BY <1>4
  <2> HIDE DEF V, S, V2, S2
  <2> QED
    BY <2>1, <2>2, <2>3, <2>4, ZenonT(30)
<1>15. ASSUME NEW u \in DOMAIN active
       PROVE  [Txns[u] EXCEPT !.stale = @ \cup W] =
                [view |-> V(u), read_only |-> active[u].read_only,
                 writes |-> active[u].writes, stale |-> S(u) \cup W]
  <2>1. Txns[u] = [view |-> V(u), read_only |-> active[u].read_only,
                   writes |-> active[u].writes, stale |-> S(u)]
    BY <1>3 DEF HistTxns, HistShown
  <2> DEFINE shown == Txns[u]
             view == V(u)
             stale == S(u)
             read_only == active[u].read_only
             writes == active[u].writes
  <2>2. shown = [view |-> view, read_only |-> read_only, writes |-> writes, stale |-> stale]
    BY <2>1
  <2> HIDE DEF V, S, shown, view, stale, read_only, writes
  <2>3. [shown EXCEPT !.stale = @ \cup W] =
          [view |-> view, read_only |-> read_only, writes |-> writes, stale |-> stale \cup W]
    BY <2>2
  <2> QED
    BY <2>3 DEF shown, view, stale, read_only, writes
<1> HIDE DEF V, S
<1>16. Txns' = [u \in DOMAIN Txns \ {t} |-> [Txns[u] EXCEPT !.stale = @ \cup W]]
  BY <1>11, <1>14, <1>15
<1>17. KV!MayCommit(t)
  BY <1>2, <1>11, <1>12, SMTT(20) DEF KV!MayCommit
<1>18. Store' = KV!Overlay(t)
  BY <1>10, <1>11, <1>12 DEF KV!Overlay
<1> QED
  BY <1>11, <1>12, <1>16, <1>17, <1>18 DEF KV!Commit

-----------------------------------------------------------------------------
(* An empty store is an empty map.                                         *)
LEMMA InitImplements == Init => KV!KVInit
<1> SUFFICES ASSUME Init
             PROVE  KV!KVInit
  OBVIOUS
<1>1. \A k \in Keys : chains[k] = <<>> /\ tree[k] = None
  BY Zenon DEF Init
<1>6. Len(<<>>) = 0 /\ 1 .. 0 = {}
  OBVIOUS
<1>2. \A k \in Keys : LastAt(chains[k], current_ts) = 0
  BY <1>1, <1>6, ZenonT(30) DEF LastAt
<1>5. \A k \in Keys : Visible(k, current_ts) = None
  BY <1>1, <1>2, ZenonT(30) DEF Visible, AsOf
<1>3. Store = [k \in Keys |-> None]
  BY <1>5 DEF Store
<1>4. Txns = [t \in {} |-> 0]
  BY DEF Init, Txns
<1> QED
  BY <1>3, <1>4 DEF KV!KVInit

(* Every step of the store is one of the map, or none that a client sees.  *)
LEMMA NextImplements == IInv /\ IInv' /\ [Next]_vsvars => [KV!KVNext]_(KV!kvvars)
<1> SUFFICES ASSUME IInv, IInv', [Next]_vsvars
             PROVE  [KV!KVNext]_(KV!kvvars)
  OBVIOUS
<1> USE DEF KV!Up
<1>1. ASSUME NEW ro \in BOOLEAN, begin(ro)
      PROVE  KV!KVNext
  BY <1>1, BeginImplements DEF KV!KVNext
<1>2. ASSUME NEW t \in DOMAIN active, NEW k \in Keys, NEW v \in Values, insert(t, k, v)
      PROVE  KV!KVNext
  <2>1. t \in DOMAIN Txns /\ KV!Put(t, k, v)
    BY <1>2, StageImplements DEF insert, KV!Put
  <2> QED
    BY <2>1 DEF KV!KVNext
<1>3. ASSUME NEW t \in DOMAIN active, NEW k \in Keys, delete(t, k)
      PROVE  KV!KVNext
  <2>1. t \in DOMAIN Txns /\ KV!Delete(t, k)
    BY <1>3, DeleteImplements
  <2> QED
    BY <2>1 DEF KV!KVNext
<1>4. ASSUME NEW t \in DOMAIN active, rollback(t)
      PROVE  KV!KVNext
  <2>1. t \in DOMAIN Txns /\ KV!End(t)
    BY <1>4, RollbackImplements
  <2> QED
    BY <2>1 DEF KV!KVNext
<1>5. ASSUME NEW t \in DOMAIN active, commit(t)
      PROVE  KV!KVNext
  <2>1. CASE rollback(t)
    BY <1>4, <2>1
  <2>2. CASE MayCommit(t) /\ Publish(t)
    <3>1. t \in DOMAIN Txns /\ KV!Commit(t)
      BY <2>2, PublishImplements
    <3> QED
      BY <3>1 DEF KV!KVNext
  <2> QED
    BY <1>5, <2>1, <2>2 DEF commit, CommitNothing, CommitConflicts
<1>6. CASE checkpoint
  BY <1>6, CheckpointShowsNothing DEF KV!kvvars
<1>7. CASE UNCHANGED vsvars
  <2>1. UNCHANGED <<Store, Txns>>
    BY <1>7 DEF vsvars, Store, Txns, Shown, Visible, NewerThan, current_ts
  <2> QED
    BY <2>1 DEF KV!kvvars
<1> QED
  BY <1>1, <1>2, <1>3, <1>4, <1>5, <1>6, <1>7 DEF Next

(* Clients cannot tell the store, with its chains, snapshot counts and     *)
(* checkpoints, from a map under snapshot isolation (lib.rs:404-473,       *)
(* txn.rs:130-301).                                                        *)
THEOREM IsolationImplemented == Spec => SnapshotIsolation
  BY Invariance, InitImplements, NextImplements, PTL DEF Spec, SnapshotIsolation, KV!KVSpec
=============================================================================
