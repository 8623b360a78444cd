# PhoenixDB: TLA+ models and proofs

TLA+ specifications of PhoenixDB (`rust/src`, and the isolates of `lib/src`),
model-checked with TLC on small instances; the transaction store, the durability
of the engine with its log, checkpoints, crashes and recovery, the pager's flush,
the wake-ups of change notifications and the sharing of engines are also proved
with TLAPS for every instance.

## 1. Inventory

| Component | State | Operations | What makes it hard |
|---|---|---|---|
| Transaction store (`txn.rs`) | version chains, timestamps, live transactions, snapshot counts | begin, stage, read, commit, rollback, merge, retained commits | checkpoints under live snapshots, conflict checks against cut chains |
| Engine (`lib.rs`) | the store, tree, log and pager under one lock | open, transactions, checkpoint, flush, backup, restore, compact, scans | crashes between any two disk writes, failed steps followed by retries |
| Write-ahead log (`wal.rs`) | frames, buffer, synced length | append, sync, reset, recover | torn frames, rewriting the log, ids of dead transactions |
| Pager (`pager.rs`, `page_cache.rs`, `page_pool.rs`, `mmap.rs`) | file, journal, staged pages, meta page, free list, cache | stage, flush, discard, replay, allocate, free, overflow chains | atomic flush over in-place writes |
| B+Tree (`btree.rs`, `page.rs`) | pages | insert, delete, split, iterate | structure under splits |
| Change notifications (`watch.rs`, `ffi/watch_ffi.rs`) | registry, queues, condition variables | subscribe, publish, poll, wake, close | publication outside the engine lock, lost wake-ups, full queues |
| LSM (`lsm/`) | memtables, tables by level, manifest | put, rotate, flush, compact, recover | manifest against files, tombstones |
| Vectors (`vector/`) | record file, tombstones, graph, snapshot | insert, remove, save, compact, open | a snapshot beside a store that changes |
| Collections (`collection/`) | documents, index entries, counters, vectors | upsert, delete, reconcile | two stores without a common commit |
| SQL (`sql/`) | catalog, rows, row-id counters | execute with retries | conflicts and retries |
| Salvage (`repair.rs`) | damaged file | replay leaves by sequence number | order of copies of a key |
| C interface (`ffi/`) | registry of engines, handles | open, close | open racing close |
| Security (`security/`) | roles, audit log, keys | grant, log, encrypt | chain of audit records |
| Dart client (`lib/src`) | pending calls, isolates | call, close | worker death with calls in flight |
| SQL lexer, observability, file helpers, command line tools | counters, none | | not worth a model |

The properties worth stating are, per component: snapshot isolation and exact
snapshot counts (store); durability, atomicity and no reuse of ids (engine and
log); one complete flush (pager); no silent loss, order and wake-ups (watch); a
map (B+Tree, LSM); agreement of two stores (vectors, collections); answers equal
to a definition that uses no index (filters, scans, SQL); every call is answered
(Dart, FFI). `PROJECT.json` lists the hazards with their lines, and maps every
definition to the code it models.

## 2. Modules

```
Ordered               sorting, listing and extremes of finite sets
Chains                versions of one key: LastAt, AsOf
  VersionStore          txn.rs + the transaction operations of lib.rs
  Wal                   wal.rs: frames, log_commit, reset, recover
    Engine                both: commits, checkpoints, crashes, recovery
SnapshotKV            the contract: a map under snapshot isolation that survives crashes
  Isolation             VersionStore implements it: the mapping
  Durability            Engine implements it: the mapping
Pager                 the journaled flush of pager.rs, write by write
PageStore             page.rs, to the byte; staging, cache, free list, overflow chains of pager.rs
  BTree                 btree.rs
    TreeFile              checkpoint, reopen, backup, restore, compact, salvage (lib.rs, repair.rs)
Watch                 watch.rs and the part of commit and restore that feeds it
LsmTables             memtable.rs, bloom.rs, sstable.rs, compaction.rs
  Lsm                   engine.rs and manifest.rs, crashes, recovery
Hnsw                  vector/hnsw.rs
  Vectors               vector/mod.rs and store.rs, crashes, recovery
Collections           collection/mod.rs: writes, recovery, backup
Filters               filter.rs
  Ranking               text.rs; paging, BM25, fusion, MMR, search (collection/mod.rs)
    Queries               distance.rs; all of these, and scans of lib.rs, as questions with answers
SqlParser             parser.rs, from tokens
  SqlTables             catalog.rs, conditions, statements over a key/value map
    SqlMeaning            references: the text of a statement; what a SELECT means
      Sql                   executor.rs: SELECT, autocommit with retries, the caller's transactions
Handles               ffi/mod.rs: the registry of shared engines
  Isolates              worker.dart, watch_isolate.dart, isolate_worker.dart
*Proofs               theorems and proofs
MC*                   TLC instances
```

**VersionStore.** One action per operation, because `Database::inner` is a write
lock held for each of them. `chains`, `next_ts`, `next_txn_id`, `active` and
`live_snapshots` are the fields of `VersionStore`; `tree` is what a B+Tree lookup
returns. `history` is auxiliary: all versions ever committed, with the snapshot
of their writer.

**Wal, Engine.** Engine extends VersionStore and Wal. The lock holder's commit or checkpoint is cut
into steps where a crash could tell the difference (`op`): append, sync and
publish, merge, flush, reset. `log` is a sequence of frames, of which the
operating system has `flushed` and an fsync covers `synced`. A crash keeps any
prefix between the sure part and everything; `Open` is `Database::open` with
`Wal::recover`, and recovery's own checkpoint is crashed into like any other.
I/O errors in append, sync, merge, flush and reset are switched on by the
behaviour's setting. A frame torn by a crash counts as missing (its CRC fails);
one torn by a failed append can have frames behind it and is explicit. The pager
is its contract: `disk` is the flush an open would show, `file` whether the pages
in the database file are all of that flush ("whole"), of two with the journal there
to repair them ("half", a flush that failed after its journal was written), or of two
without it ("bare", a retry that truncated the journal of the attempt before). A
failed flush or reset is retried by the next checkpoint, the flush also by
`Database::flush`, and each retry may fail again. `stray` is auxiliary: the commits
that failed and left frames in the log since its last reset. A crash into a "bare"
file, or with a commit astray, is a step of the model, and what survives it is
stated (NoCommitOutOfNowhere); what `open` then makes of the files is not modelled
(`OutOfScope`). Page numbers, LSNs and metrics are left out.

**SnapshotKV.** Transactions on private copies of a map. A crash ends all
transactions and keeps the map, except that one commit that was under way may
have taken effect; `limbo` holds the maps recovery may still come up with.

**Pager.** Every write of `Pager::flush` is a step: truncate, write and sync the
journal, pages in ascending order, sync the file, clear and sync the journal.
`file`/`journal` are what the operating system shows, `safe`/`jsafe` what is on
the disk. A power loss leaves each unsynced page old, new or torn. The auxiliary
`states` holds the file contents a reopen may show. Page 0 is the meta page, kept
in memory as in the code. Content is abstract, so the CRC is `Torn`.

**PageStore, BTree, TreeFile.** A page is its slots, its cells with
their encoded lengths and the end of its heap, so splits and compactions fall
where the code's byte counts put them. The pager is a record that operators take
and return, as `&mut Pager` is in the code. The cache never evicts:
dropping a clean page changes nothing as long as CacheIsCurrent holds. TreeFile has
one action per caller: an insert or delete of a merge, a flush, a failed merge
with `discard_dirty`, a crash and reopen, backup, restore, compact. `kv` and
`durable` are auxiliary maps the tree is compared with. Salvage is an operator on
the file with some pages damaged; its property damages any one of them or none.
A setting may start from a tree that `copy_into_new_database` has filled.

**Watch.** Writers, one consumer thread per watcher, the engine lock, the
registry lock (held while `publisher` is set) and the condition variable.
Changes are numbered by commit order (`nth`) because a restore resets the
timestamps. `got`, `told` and `owed` are auxiliary.

**LsmTables, Lsm.** A table is its sequence of versions with a sparse
index and a set of filter bits; every entry counts one unit where the code counts
bytes. `step` is the handler under way, cut where a crash would find a different
disk: table written, manifest edit appended, checkpoint recorded, inputs
unlinked, manifest rewritten and renamed (in one step, so a rewrite fails before its
rename or not at all). `wal` is the caller's own log, replayed
from `checkpoint_seqno`, as the engine's documentation asks. A reopen may bring
another `LevelConfig`.

**Hnsw, Vectors.** Vectors are numbers and distance is their difference, so every
comparison the graph makes is made. A node's height is drawn by the code and
chosen here. `os` and `disk` are the record file as written and as synced. A
power loss leaves each unsynced slot old, new, torn or with either tombstone
flag. A failing append is one that fails before its record counts; a failing
write of the header behind it is left out. `may` and `since` are auxiliary: the
vectors an id may have now, and those it had since the last sync.

**Collections.** `kv` is the committed key/value store with documents, index
entries, postings and counters; `older` what a power loss may go back to; `vec`
and `had` the same for vectors. What a crash leaves of the two is what Engine and
Vectors show. An operation is a `job` in steps, since the vectors are no part of
the transaction: read, write vectors, commit, remove or undo vectors. Writes,
compactions and backups take turns (`Turn`, the mutex of `serialize_writes`); a flush
does not. A backup copies the documents in one step and the vectors in another.
Opening reconciles in two passes, each of which may be crashed into or fail. `astray`
is auxiliary: for each id the vectors an upsert cut by a crash may have left, and
those left by an error the code drops: an undo, a removal after the commit, or a
reconciliation that failed. StoresAgree makes an exception for these and for nothing
else, and they are cleared when the id is written again.

**Filters, Ranking, Queries.** Pure code as operators. Queries
asks one question per behaviour and stores the code's answer, so that TLC
enumerates inputs as states. Strings, index keys and field names are sequences of
bytes, because the order and the prefixes of encoded keys are the point. A letter is
a model of one `char`: its lower case is a sequence of letters, its length in bytes is
given beside it. Scores are fractions, so comparisons are exact and ties are those of exact arithmetic.

**Sql\*.** The parser is modelled rule by rule on tokens. A statement maps a view
(what a transaction sees) to an outcome: the writes it staged, in order, also
when it fails. A float is a multiple of `1 / UNIT`, and -0.0 is a value of its own,
equal to 0.0 and to 0 everywhere but in `total_cmp` (ORDER BY, MIN, MAX). Sql runs clients over the
store SnapshotKV promises: autocommit with its turn, its attempts and its
conflicts, and statements in the caller's transaction.

**Handles, Isolates.** `open_shared` and close are cut where the registry's mutex
is not held: lookup, upgrade of the weak reference, open, registration, drop of
the last reference, release of the file lock. Isolates puts the worker protocol
above: ports, messages in order per pair of isolates, death of the worker, close
with calls in flight, a subscription with an isolate and a handle of its own.

Operators commented "Wrong on purpose" are faulty variants of the definition
below them. No specification uses them; substituting one for its definition must
make the named property fail, which shows that the property has teeth. The pairs
are under `mutants` in `PROJECT.json`.

## 3. Runs

Most models choose a member of `Settings` at the start of each behaviour, so one
run covers several combinations of options, errors and crashes.

| Run | Instance | Shows |
|---|---|---|
| version_store | 2 keys, 2 values, 3 ids | FirstCommitterWins, SnapshotsCounted; SnapshotIsolation: implements SnapshotKV |
| engine | 5 settings, up to 2 keys, 3 ids, 2 crashes | DurableSnapshotIsolation: implements SnapshotKV across crashes; CrashesKeepCommits: commits survive, none comes out of nowhere but one that failed; LoggedIdsAreSpent; EngineIsSound: committed reads with failing checkpoints, their retries, and failing commits |
| pager | 3 pages, 2 contents, 2 crashes | FileIsOneFlush: file and journal are worth one complete flush; OpenReturnsOneFlush: open ends, with one |
| tree_file | 5 settings, up to 10 keys of 300 or 1024 bytes, 7 operations | TreeHoldsTheWrites; TreeIsSound: `BTree::check` passes and every page is used once; CacheIsCurrent; SalvageRecoversIntactPairs |
| watch | 3 settings, up to 2 writers, 2 watchers, queue of 1 or 2 | NothingLostSilently; CommitsArriveWhole: contiguous, with values for those who asked; SleepersHaveNothing: no lost wake-up; NobodyWaitsForever: polls and commits return |
| watch_order | 2 writers, queue of 2 | *violated*: see below |
| lsm | 4 settings, 2 keys, up to 5 tables, 2 crashes, 3 level configurations | LsmReadsTheWrites at every snapshot; LevelsAreSound: no overlap below L0; ManifestNamesWholeFiles |
| vectors | 6 settings, 3 ids, 4 records, 1 crash | EngineHoldsTheVectors; IndexIsSound: one live record per id, links within budget; SearchesAnswer with what is there, nearest first |
| collections | 6 settings, 2 ids, 5 batches, 2 crashes | IndexMatchesDocuments: index, postings and counters; StoresAgree: vectors are those the documents were written with, a backup is one moment; BackToIdle: operations end |
| queries | all questions over small documents, rankings, texts and vectors | FiltersAgree: index and memory; ListingsAreWhole: pages and scans; SearchIsHonest: search, fusion and MMR; TextIsSearchable; KernelsAddEachOnce |
| sql | 8 settings, up to 3 clients; 680 queries | RunsWhatIsWritten; TablesStaySound under races, also as seen by sessions; SelectsMeanTheirClauses; AllOrNothing: commits are current, failing statements change no row and no schema; StatementsReturn |
| isolates | 7 settings, 2 clients, 2 calls | OneEngine per file; HandlesAreSound: no open meets itself, requests meet an open handle; EveryCallReturns; NothingIsLeftOpen after close and cancel |

Several properties are conjunctions of parts with names and comments of their
own. The type invariant of a model is one of the parts; those of VersionStore are
proved instead (section 4), with SnapshotReads and LatestReads.

Bounds. Two keys show atomicity of a commit. Three ids allow a pinned reader and
two conflicting writers. Two crashes include one during recovery.
`CheckpointFrames` is 3, so that a commit of both keys starts a checkpoint;
`MaxLog` stops repeated failing appends from growing the log for ever. Three
pages are the meta page and two that can be torn apart; two flushes include one
after a replay. Keys of 1024 bytes fill a leaf or an inner node with three: six split
leaves and the root, and deletes empty them again. The setting that starts with five
such keys in half-filled leaves has three levels; three operations are enough to split
an inner node, to empty one, and to go back to two levels. The key of 300 bytes makes
splits uneven, the value of 4057 bytes needs an overflow chain. Two LSM keys share
filter bits; a memtable of two units and five tables reach two levels and a
compaction into a level that an earlier configuration filled. Four vector records
and links of one and two overrun the budgets. Batches of documents repeat an id,
replace one and drop a vector. `MAX_CONFLICT_RETRIES` is 2, `MAX_KEY_TEXT` 2,
`MAX_DEPTH` 8, `MAX_TOKEN_CHARS` 6 and `MAX_K` 4, so that these limits are met and
exceeded. Candidates of one and more than `k` make the fetch limit of a search cut.

Symmetry is used over keys and values in VersionStore, over values in Engine
(keys are logged in one order), over ids in Vectors, and never in runs with
liveness properties. Deadlock is checked except where the system really stops:
the database closed and nobody left, or all bounded operations done.

Fairness. Pager: weak fairness of the steps of a flush or an open, straight-line
code with no wait. Watch: weak fairness of each writer inside commit, and of a
consumer that was notified; timeouts and polls are not assumed to happen.
Collections: weak fairness of the steps of an operation that has begun. Sql: weak
fairness, per client, of taking the turn, of an attempt and of its commit or
conflict; nothing is assumed about new statements. Isolates: weak fairness of
running isolates, of message delivery, of timers and of native calls, which is
what the Dart event loop and the operating system's threads give; deaths, closes
and cancellations are never forced.

### Divergences

`watch_order` states a doc comment the code does not keep: two commits reach a
watcher in the opposite order, because they publish after the engine lock is
released. `findings` in `PROJECT.json` quotes it.

The following were met while modelling. They have no run of their own. Either the
settings above leave the combination out, so the properties are shown without it, or
the properties name it as an exception; each entry says which.

- (a) A commit whose fsync failed is rolled back, and recovered after the next crash (`lib.rs:578`, against 564-565). (b) A frame torn by a failed append hides later commits from recovery (`wal.rs:272`, against 29-31). Both are met by the setting with failing commits and a crash: NoCommitOutOfNowhere says that only commits that failed may turn up, CommitsSurvive leaves out such a crash, and the open after it is not modelled. The next checkpoint that ends well rewrites the log; crashes after it are covered like any other. DurableSnapshotIsolation promises nothing where commits may fail (`Promised`).
- (c) A failed merge discards pages an earlier failed flush left staged (`lib.rs:618`, against 616-617). No setting has both errors.
- (d) Retrying a failed flush truncates the journal that covers the half-written file (`pager.rs:378`, against 338-340). Engine has the retries, failing ones too; a crash inside one, with the file "bare", is left out by CommitsSurvive. Pager has one failing flush, so FileIsOneFlush says nothing about retries. Also: a journal never synced is replayed after a process crash, and the replay cut short by a power loss; the settings of Pager have one kind of crash each.
- (f) A watcher with values that subscribes between the collection and the publication of a commit gets puts without values (`watch.rs:68-69`). ValuesForTheOwed, a part of CommitsArriveWhole, is stated for those who were there when the commit began.
- (g) An LSM swap whose sync fails deletes its output although the edit may be durable (`lsm/engine.rs:430`, against `manifest.rs:41`); a retried AddTable after a failed append is recorded twice (`lsm/engine.rs:332`). Failing writes are combined with no crash. A manifest rewrite that fails after its rename, in re-opening the log (`manifest.rs:444`), leaves the engine appending to the replaced file; it is not modelled.
- (h) A vector snapshot older than a compaction is accepted when the rebuilt file is long enough (`vector/mod.rs:297-303`, 846). CrashInCompact comes with no earlier snapshot. (i) With a lost tombstone behind a snapshot, two records of an id are live (`vector/mod.rs:236`): callers of the Losing setting sync between two writes of an id. (k) When all vectors are removed, new nodes get no links and the beam finds only the entry; searches fall back to the scan when filtered, not otherwise (against `vector/mod.rs:478`). SearchesAnswer states what is kept.
- (p) A crash inside the vector batch of a replacement may leave a committed document without its vector, or with the new one (`collection/mod.rs:1220`, against 22-23 and 1204-1205). An undo or a removal that fails is dropped, and a clean close then deletes the marker, so no open reconciles it (1248, 1331, against 1258-1259). A reconciliation that fails drops the collection, and its drop deletes the marker too (654, 1684). All of these are in the settings; StoresAgree names them as its exceptions, per id. Without `sync_on_write` a power loss may take the open marker with it; the settings leave that out.
- (q) A statement in the caller's transaction that fails may have staged writes (`sql/executor.rs:22-24`, 143-145): on a table from before the index, INSERT and UPDATE build the index of the old rows before they validate the new ones (435). OldSessions has this, and AllOrNothing says that rows and schemas are unchanged. And one whose write the store refuses has staged those before it; the session settings have no text too long for a key. (r) DROP of a table from before the index races UPDATE or DELETE.
- (u) `total_cmp` is no order on integer 0, 0.0 and -0.0 (`sql/catalog.rs:169`, against 154-156): -0.0 is below 0.0, and 0 equal to both, so a sort of the three depends on their place. A column has two of them in the settings, never three.
- (v) The tokenizer keeps a capital I with a dot above, whose lower case is an i and a combining dot, inside its word, and splits the same word typed in lower case at the dot (`collection/text.rs:101-104`). TextIsSearchable makes an exception for letters whose lower case ends a word.
- (s) `WatchSession.stop` before its isolate is ready leaves the isolate and its handle (`watch_isolate.dart:226`). (t) The second of two concurrent `WorkerClient.close` may fail with "closed while a call was in flight" (`worker.dart:195`: "Idempotent").

## 4. Proofs

### The transaction store

`VersionStoreProofs` proves for all `Keys`, `Values` and `MaxTxnId`:
`TypeCorrect`, `SnapshotReadsCorrect`, `LatestReadsCorrect`, `NoLostUpdates` and
`SnapshotsCountedCorrect`, and `IsolationProofs` proves `IsolationImplemented`, all
from one inductive invariant `IInv`. The assumptions are that `None` and `Absent`
are not values and the bound is a natural number.

None of the properties is inductive alone. That readers see the history needs a
relation between what is left of a chain and the whole history: `SuffixInv` says
that a chain is the part of the history above a cut and the tree is the history
at that cut, `CutInv` that no live snapshot is below the cut, `SortedInv` that
timestamps ascend. First-committer-wins then needs that a conflict check
against a cut chain is as good as one against the history: what was cut is at or
below every live snapshot. The counts (`Counted`) tie `live_snapshots` to the
transactions and give the watermark its meaning. `HistoryProofs` has the lemmas on
chains: what LastAt returns, and how appending and merging preserve the relation.

`IsolationImplemented` is the refinement: `Spec => SnapshotIsolation`. The mapping
(`Store`, `Txns`) is defined from chains and tree, which a checkpoint rewrites.
Under `IInv` it is a function of the history (`MappingByHistory`): what a snapshot
sees is the history as of it, and a key is stale when the history has a later
version. So a checkpoint maps to a stutter, and a commit, which appends to the
history, maps to the commit of the abstract map: the views of the others do not
change, and the keys written become stale for each of them.

### The engine

`EngineProofs` proves, for all finite sets of keys, all values, bounds and settings
and any number of crashes, `EngineSoundness` (EngineIsSound), `LoggedIdsStaySpent`
(LoggedIdsAreSpent) and `CommitsAreKept` (CrashesKeepCommits), from an inductive
invariant `EInv` (`EngineInvariance`). The theorems have one hypothesis,
`FaultsTolerated`: merges and flushes do not both fail. Without it the properties are
false: divergence (c). Commits, resets, and merges or flushes may fail, in any number
and order, with crashes among them. The exceptions for divergences (a), (b) and (d)
are part of the properties, and so of the theorems: `EInv` is stated of a database
that is not down with `Unrecoverable` files, and such a database is never opened.

The argument is that two things always add up to the whole history: the tree in
the database file, which is the history as of the `tree_ts` stored beside it
(`TreeInv`), and the log, which holds every commit above that timestamp (`LogInv`).
`Keeps(frames, H, lo, hi)` in `Wal` says the second: commit records ascend,
there is one for each transaction, behind its writes, one for each key
(`WellFormed`), and the commits above `lo` are the versions in `H` above `lo`, none
missing, none in part and none invented (`Holds`). The lemmas of `HistoryProofs` (the
first two) and `WalProofs` follow `Keeps` through everything that touches the log:

- `CommitKept`: appending a commit extends it by that commit;
- `RaiseKept`: a flush that raises `tree_ts` leaves it true, so nothing has to be atomic with the flush;
- `ResetKept`: the log a checkpoint writes keeps what the chains hold above the tree, so the commits a pinned reader keeps out of the tree survive;
- `CutKept`: a crash that cuts the log after some frame leaves a history that ends at an earlier commit, and the records of an unfinished transaction adopt nothing;
- `ReplayKept`: recovery rebuilds, for every key, exactly the versions above `tree_ts`, in the order of their timestamps.

`DurInv` adds which commits are covered by the synced part of the log, so that a
power loss, which keeps at least that part, takes no acknowledged commit; `Reserved`
that a checkpoint sets aside the ids its new log uses before the log is written;
`RunInv` the invariant `IInv` of the store, which holds except while the database
is down. The hard steps are the crash (`DieEInv`: history and log are cut at the same
commit) and recovery (`OpenEInv`: chains, timestamps and ids come from `Wal::recover`
alone, and satisfy `IInv` again).

The proof is in three modules. `EngineStepProofs` (commit, checkpoint, their
failures) and `EngineCrashProofs` (crash, recovery, then all steps together) show
that each step keeps `EInv`, given what the step does to the store and to the log;
the lemmas name that as assumptions (`Appended`, `Published`, `Merged`, `ImageKept`,
`NewLogKept`, `CutTo`, `Readable`; together, `Supplied`). `EngineProofs` proves
`EInv => Supplied` (`AllSupplied`), that is every one of them, from the lemmas of
`VersionStoreProofs` and `WalProofs`, and has the theorems. So the long case analysis
is done without the lemmas on chains and frames in scope, and those are only used
where a fact about chains or frames is at stake: the prover carries all that is in
scope to each step, and takes hours otherwise.

`WalProofs` also has what sorting a finite set, listing it and joining sequences
yield, for `LogCommit`, `ResetLog` and `Replayed`. For the same reason Wal uses
`Listing` and `Joined` of Ordered for this, and Watch only the module Functions, not
the many operators of SequencesExt.

### The others

`PeripheryProofs` has the proofs about Pager, Watch and Handles, which share no state.

Pager: `FlushIsAtomic` and `FlushReturnsWhole` hold for all pages,
contents, bounds and settings that satisfy `OneKind`: no I/O errors and crashes of
one kind, process or power (both conditions are needed: divergence (d)). `FileInv`
says for each place in a flush or a replay what file and journal are worth
together; `SafeInv` says the same of what is on the disk, for the power losses.

Watch: `NoLostWakeup` holds for any number of writers and watchers: the
invariant is the property with the shape of the state it speaks about, inductive
because a push, a wake and a close notify under the mutex a poll checks under.

Handles: `SharedEngine` and `OpenNeverMeetsItself` hold for any number of
isolates. The invariant says who holds the mutex at each place of open and close
(`LockHeld`), which engines have references (`PointersTaken`), that a referenced
engine is registered unless its opener is between open and registration
(`Registered`, `Between`), and that the file lock belongs to an engine whose last
reference is not yet dropped (`LockHasOwner`).

### Only model-checked

The refinement of SnapshotKV by the Engine (DurableSnapshotIsolation), whose parts
about single states and single crashes are proved, and the properties of the
components without a Proofs module. Liveness is outside the prover's reach. The
trees, graphs, parsers and tables are recursive definitions, which the prover cannot
reason about by induction.

## 5. Not modelled

- `sql/lexer.rs`, JSON and formatting: characters to tokens and back, no state.
- Floating-point rounding in distances, BM25 and fusion: scores are exact here.
- `security/`: ciphers and hashes are out of reach; the engine uses only length
  limits and handle tags of it, its roles and audit log are used by nothing else.
- `page_pool.rs`, `mmap.rs`, `fsutil.rs`: allocator and operating system services.
- Crashes between the steps of restore and compact of the key/value file.
- An open of files with the remains of a failed commit or of a cut retry of a flush:
  (a), (b) and (d).
- Paths that cannot be canonicalized (`ffi/mod.rs:110-112`): such an open is not shared.
- `observability/`, the command line tools, `ffi/` beyond the registry, and the
  Dart API around single calls: conversions of arguments and results.
- `lib/src/ai/`: clients of remote services.
- In the isolates: a session started after close was called, a kill by the VM, and the
  end of a subscription's queue (`isFinished`), which the handle its isolate holds on
  the engine rules out.
