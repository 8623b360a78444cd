------------------------------ MODULE LsmTables ------------------------------
(***************************************************************************)
(* The sorted runs of the LSM tree: the MemTable (lsm/memtable.rs), the    *)
(* Bloom filter (lsm/bloom.rs) and the SSTable with its sparse index       *)
(* (lsm/sstable.rs).  A version is a record [key, seqno, slot]; keys are   *)
(* numbers in the order of the byte strings they stand for, and every      *)
(* entry is charged one unit where the code counts bytes.  A position in   *)
(* the data section is the number of the entry that starts there.          *)
(***************************************************************************)
EXTENDS Ordered, Integers, Sequences, SequencesExt

CONSTANTS
    Tombstone,          \* a slot of None
    Missing,            \* Lookup::Absent: no version here
    RestartInterval,    \* distinct keys per entry of the sparse index
    BloomBits,          \* bits of a filter
    NumHashes,          \* probes per key
    Hash1, Hash2        \* the two hashes of a key (hash_pair)

(* InternalKey::cmp: key ascending, then newest first.                     *)
IKeyLess(a, b) ==
    \/ a.key < b.key
    \/ a.key = b.key /\ a.seqno > b.seqno

SameIKey(a, b) == a.key = b.key /\ a.seqno = b.seqno

(* One version, as encode_entry lays it out and decode_entry reads it.     *)
Entry(k, n, s) == [key |-> k, seqno |-> n, slot |-> s]

-----------------------------------------------------------------------------
(* MemTable: a set of versions with one slot per (key, seqno).             *)

put_slot(mem, e) == {x \in mem : ~SameIKey(x, e)} \cup {e}

size_bytes(mem) == Cardinality(mem)

max_seqno(mem) == IF mem = {} THEN 0 ELSE Greatest({e.seqno : e \in mem})

iter(mem) == SortBy(mem, IKeyLess)

memtable_get(mem, k, snapshot) ==
    LET visible == {e \in mem : e.key = k /\ e.seqno <= snapshot}
    IN  IF visible = {}
        THEN Missing
        ELSE (CHOOSE e \in visible : \A x \in visible : x.seqno <= e.seqno).slot

-----------------------------------------------------------------------------
(* BloomFilter: the set of its one bits.                                   *)

Probes(k) == {(Hash1[k] + i * Hash2[k]) % BloomBits : i \in 0 .. NumHashes - 1}

bloom_insert(bits, k) == bits \cup Probes(k)

bloom_contains(bits, k) == Probes(k) \subseteq bits

-----------------------------------------------------------------------------
(* SSTableWriter: entries arrive one by one.                               *)

create == [data |-> <<>>, index |-> <<>>, bits |-> {}, distinct_keys |-> 0, sorted |-> TRUE]

(* An entry out of key order is refused, which ends the table: `sorted'    *)
(* records that none was.                                                  *)
append(w, e) ==
    LET isNew == w.data = <<>> \/ Last(w.data).key # e.key
    IN  [data |-> Append(w.data, e),
         index |-> IF isNew /\ w.distinct_keys % RestartInterval = 0
                   THEN Append(w.index, [key |-> e.key, offset |-> Len(w.data) + 1])
                   ELSE w.index,
         bits |-> IF isNew THEN bloom_insert(w.bits, e.key) ELSE w.bits,
         distinct_keys |-> w.distinct_keys + (IF isNew THEN 1 ELSE 0),
         sorted |-> w.sorted /\ (w.data # <<>> => Last(w.data).key <= e.key)]

(* finish: the file's sections and the summary the manifest keeps.         *)
finish(w, id, level) ==
    LET meta == [id |-> id, level |-> level,
                 min_key |-> w.data[1].key, max_key |-> Last(w.data).key,
                 file_bytes |-> Len(w.data)]
    IN  [meta |-> meta, data |-> w.data, bits |-> w.bits, index |-> w.index]

WriteTable(entries, id, level) == finish(FoldLeft(append, create, entries), id, level)

overlaps(meta, from, to) == meta.min_key <= to /\ from <= meta.max_key

may_contain(meta, k) == meta.min_key <= k /\ k <= meta.max_key

-----------------------------------------------------------------------------
(* SSTable: a lookup skips by key range and filter, starts at the last     *)
(* restart point not past the key, and scans to the first entry that       *)
(* answers it or lies beyond the key.                                      *)

(* The key range of an open table is read off its data.                    *)
scan_key_bounds(data) == [min_key |-> data[1].key, max_key |-> Last(data).key]

seek_offset(t, k) ==
    LET before == {i \in DOMAIN t.index : t.index[i].key <= k}
    IN  IF before = {} THEN 1 ELSE t.index[Greatest(before)].offset

sstable_get(t, k, snapshot) ==
    LET stops == {i \in seek_offset(t, k) .. Len(t.data) :
                    \/ t.data[i].key > k
                    \/ t.data[i].key = k /\ t.data[i].seqno <= snapshot}
    IN  IF \/ ~may_contain(scan_key_bounds(t.data), k)
           \/ ~bloom_contains(t.bits, k)
           \/ stops = {}
        THEN Missing
        ELSE LET e == t.data[Least(stops)]
             IN  IF e.key = k THEN e.slot ELSE Missing

-----------------------------------------------------------------------------
(* The level set and leveled compaction (lsm/compaction.rs).  `levels' is  *)
(* the sequence of levels, L0 first; a level is the sequence of the        *)
(* summaries of its tables, L0 oldest first and the others by key range.   *)
(* `cfg' is a LevelConfig.                                                 *)

level(levels, l) == IF l < Len(levels) THEN levels[l + 1] ELSE <<>>

AllTables(levels) == FlattenSeq(levels)

new_levels(cfg) == [i \in 1 .. cfg.max_levels |-> <<>>]

level_budget(cfg, l) == cfg.base_level_bytes * cfg.size_multiplier ^ (l - 1)

(* Wrong on purpose: the bottom by configuration is taken for the bottom.  *)
NothingBelow(levels, l, from, to) == FALSE

(* Some table below level l shares keys with [from, to].                   *)
has_data_below(levels, l, from, to) ==
    \E d \in l + 1 .. Len(levels) - 1 :
        \E t \in ToSet(level(levels, d)) : t.min_key <= to /\ t.max_key >= from

(* add_table: L0 grows at its end, a deeper level stays in key order, and  *)
(* a level that does not exist is created.                                 *)
add_table(levels, meta) ==
    LET all == [i \in 1 .. Greatest({Len(levels), meta.level + 1}) |-> level(levels, i - 1)]
        here == all[meta.level + 1]
        pos == Cardinality({i \in DOMAIN here : here[i].min_key < meta.min_key})
    IN  [all EXCEPT ![meta.level + 1] =
            IF meta.level = 0 THEN Append(here, meta) ELSE InsertAt(here, pos + 1, meta)]

remove_table(levels, l, id) ==
    [levels EXCEPT ![l + 1] = SelectSeq(@, LAMBDA t : t.id # id)]

overlapping(levels, l, from, to) ==
    SelectSeq(level(levels, l), LAMBDA t : overlaps(t, from, to))

(* lookup_order: every L0 table that may hold k, newest first, then the    *)
(* first such table of each deeper level.                                  *)
lookup_order(levels, k) ==
    LET candidates(l) == SelectSeq(level(levels, l), LAMBDA t : may_contain(t, k))
        deeper == [i \in 1 .. Len(levels) - 1 |->
                     SubSeq(candidates(i), 1, IF candidates(i) = <<>> THEN 0 ELSE 1)]
    IN  Reverse(candidates(0)) \o FlattenSeq(deeper)

(* score, as a fraction: tables over the trigger at L0, bytes over budget  *)
(* below it.                                                               *)
score(levels, cfg, l) ==
    IF l = 0
    THEN [num |-> Len(level(levels, 0)), den |-> cfg.l0_compaction_trigger]
    ELSE LET bytes == FoldLeft(LAMBDA n, t : n + t.file_bytes, 0, level(levels, l))
             budget == level_budget(cfg, l)
         IN  IF budget = 0 THEN [num |-> 0, den |-> 1] ELSE [num |-> bytes, den |-> budget]

Exceeds(a, b) == a.num * b.den > b.num * a.den

(* The level with the highest score, the first of equals, among those that *)
(* have a level to drain to.                                               *)
BestLevel(levels, cfg) ==
    FoldLeft(LAMBDA best, l : IF Exceeds(score(levels, cfg, l), score(levels, cfg, best))
                              THEN l ELSE best,
             0, [i \in 1 .. Len(levels) - 1 |-> i - 1])

Due(levels, cfg) ==
    LET s == score(levels, cfg, BestLevel(levels, cfg)) IN s.num >= s.den

(* The first of the largest tables of a level.                             *)
Largest(tables) ==
    LET biggest == {i \in DOMAIN tables :
                      \A j \in DOMAIN tables : tables[j].file_bytes <= tables[i].file_bytes}
    IN  tables[Least(biggest)]

MinKey(metas) == Least({t.min_key : t \in metas})
MaxKey(metas) == Greatest({t.max_key : t \in metas})

(* Wrong on purpose: only the tables of the target level that hold the     *)
(* first source key are rewritten.                                         *)
PickNarrow(levels, cfg) ==
    LET l == BestLevel(levels, cfg)
        source == IF l = 0 THEN level(levels, 0) ELSE <<Largest(level(levels, l))>>
    IN  [source_level |-> l, target_level |-> l + 1, source_tables |-> source,
         target_tables |-> overlapping(levels, l + 1, MinKey(ToSet(source)),
                                       MinKey(ToSet(source)))]

(* pick_compaction, when one is due: all of L0 or the largest table of a   *)
(* deeper level, with every table of the next level its keys overlap.      *)
pick_compaction(levels, cfg) ==
    LET l == BestLevel(levels, cfg)
        source == IF l = 0 THEN level(levels, 0) ELSE <<Largest(level(levels, l))>>
    IN  [source_level |-> l, target_level |-> l + 1, source_tables |-> source,
         target_tables |-> overlapping(levels, l + 1, MinKey(ToSet(source)),
                                       MaxKey(ToSet(source)))]

all_inputs(job) == job.source_tables \o job.target_tables

is_bottom_most(job, cfg) == job.target_level + 1 >= cfg.max_levels

apply(levels, job, outputs) ==
    LET without == FoldLeft(LAMBDA ls, t : remove_table(ls, t.level, t.id), levels,
                            all_inputs(job))
    IN  FoldLeft(add_table, without, outputs)

-----------------------------------------------------------------------------
(* merge_runs: all versions in key order, newest first, an earlier run     *)
(* first on a tie; then one pass that drops what no snapshot at or above   *)
(* the floor can tell apart.                                               *)

SortedRuns(runs) ==
    LET all == UNION {{[run |-> r, e |-> runs[r][i]] : i \in DOMAIN runs[r]} :
                        r \in DOMAIN runs}
        less(a, b) == \/ IKeyLess(a.e, b.e)
                      \/ SameIKey(a.e, b.e) /\ a.run < b.run
        sorted == SortBy(all, less)
    IN  [i \in DOMAIN sorted |-> sorted[i].e]

(* One turn of the loop.  `covered' says that the current key already has  *)
(* a version at or below the floor.                                        *)
MergeStep(acc, e, floor, dropTombstones) ==
    LET newKey == acc.key # e.key
        covered == ~newKey /\ acc.covered
        duplicate == acc.out # <<>> /\ SameIKey(Last(acc.out), e)
        dead == e.slot = Tombstone /\ dropTombstones /\ e.seqno <= floor
    IN  [key |-> e.key,
         covered |-> covered \/ (~duplicate /\ e.seqno <= floor),
         out |-> IF covered \/ duplicate \/ dead THEN acc.out ELSE Append(acc.out, e)]

merge_runs(runs, floor, dropTombstones) ==
    FoldLeft(LAMBDA acc, e : MergeStep(acc, e, floor, dropTombstones),
             [key |-> 0, covered |-> FALSE, out |-> <<>>], SortedRuns(runs)).out
=============================================================================
