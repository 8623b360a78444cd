------------------------------ MODULE TreeFile -------------------------------
(***************************************************************************)
(* A database file under its B+Tree: the checkpoint of rust/src/lib.rs     *)
(* stages inserts and deletes, then flushes them or drops them; the file   *)
(* is reopened after crashes, backed up, restored, compacted, and read by  *)
(* the salvage of rust/src/repair.rs.                                      *)
(***************************************************************************)
EXTENDS BTree

CONSTANT Settings   \* what a behaviour may be set to, see TreeFileAssumption

ASSUME TreeFileAssumption ==
    Settings \subseteq [fill : Fills, start : SUBSET Keys, keys : SUBSET Keys,
                        values : SUBSET Values, ops : Nat, flushes : Nat, copies : Nat]

VARIABLES
    s,        \* the pager, with the file under it
    kv,       \* auxiliary: what the tree must hold
    durable,  \* auxiliary: what it held at the last flush
    backup,   \* the backup made last, and what it must hold
    done,     \* operations, flushes and copies so far, for the bounds
    setting

vars == <<s, kv, durable, backup, done, setting>>

Nothing == [k \in {} |-> 0]

(* copy_into_new_database: the pairs inserted in ascending order into a    *)
(* new file, then flushed.                                                 *)
CopyInto(pairs) ==
    LET ascending == SortBy(DOMAIN pairs, <)
        Put(new, k) == tree_insert(new, k, pairs[k], setting.fill)
    IN flush(FoldLeft(Put, initialize, ascending))

Within(what) ==
    /\ done[what] < setting[what]
    /\ done' = [done EXCEPT ![what] = @ + 1]

-----------------------------------------------------------------------------
(* What a checkpoint does to the tree.                                     *)

Insert(k, v) ==
    /\ Within("ops")
    /\ s' = tree_insert(s, k, v, setting.fill)
    /\ kv' = (k :> v) @@ kv
    /\ UNCHANGED <<durable, backup, setting>>

Delete(k) ==
    /\ Within("ops")
    /\ s' = tree_delete(s, k)
    /\ kv' = Restrict(kv, DOMAIN kv \ {k})
    /\ UNCHANGED <<durable, backup, setting>>

Flush ==
    /\ s.dirty # NoPages \/ s.meta # s.saved
    /\ Within("flushes")
    /\ s' = flush(s)
    /\ durable' = kv
    /\ UNCHANGED <<kv, backup, setting>>

(* A merge that failed half way: its pages are dropped.                    *)
MergeFails ==
    /\ s.dirty # NoPages
    /\ s' = discard_dirty(s, s.saved)
    /\ kv' = durable
    /\ UNCHANGED <<durable, backup, done, setting>>

Crash ==
    /\ s.dirty # NoPages \/ s.cache # NoPages
    /\ s' = open_pager(s)
    /\ kv' = durable
    /\ UNCHANGED <<durable, backup, done, setting>>

(* A full scan leaves every leaf it passes in the cache.                   *)
Scan ==
    LET d == find_leaf(s, FIRST)
    IN /\ setting.copies > 0
       /\ s' = Cached(s, Visited(d) \cup ToSet(LeafChain(s, d.leaf, s.meta.page_count)))
       /\ UNCHANGED <<kv, durable, backup, done, setting>>

-----------------------------------------------------------------------------
(* Copies of the whole database.                                           *)

Backup ==
    /\ Within("copies")
    /\ backup' = [src |-> CopyInto(kv), kv |-> kv]
    /\ UNCHANGED <<s, kv, durable, setting>>

(* Database::restore: the pending pages are flushed, the file replaced.    *)
Restore ==
    /\ Within("flushes")
    /\ done.copies > 0
    /\ s' = replace_contents(flush(s), backup.src)
    /\ kv' = backup.kv /\ durable' = backup.kv
    /\ UNCHANGED <<backup, setting>>

(* Database::compact: a copy in a scratch file replaces the file.          *)
Compact ==
    /\ Within("copies")
    /\ s' = replace_contents(flush(s), CopyInto(kv))
    /\ durable' = kv
    /\ UNCHANGED <<kv, backup, setting>>

-----------------------------------------------------------------------------
(* A new file, or one that a compaction has written.                       *)
TreeFileInit ==
    /\ setting \in Settings
    /\ kv \in [setting.start -> {"empty"}] /\ durable = kv
    /\ s = open_pager(CopyInto(kv))
    /\ backup = [src |-> initialize, kv |-> Nothing]
    /\ done = [ops |-> 0, flushes |-> 0, copies |-> 0]

TreeFileNext ==
    \/ \E k \in setting.keys : Delete(k) \/ \E v \in setting.values : Insert(k, v)
    \/ Flush \/ MergeFails \/ Crash \/ Scan
    \/ Backup \/ Restore \/ Compact

TreeFileSpec == TreeFileInit /\ [][TreeFileNext]_vars

-----------------------------------------------------------------------------
(* Salvage.                                                                *)

(* The pages of the file with some of them damaged.                        *)
Surviving(damaged) ==
    [p \in DOMAIN s.file |-> IF p \in damaged THEN [type |-> "Damaged"] ELSE s.file[p]]

(* repair::read_chain: any number of links that the file has room for.     *)
read_chain(pages, head, total_len) == Assemble(pages, head, total_len, Cardinality(DOMAIN pages))

(* Wrong on purpose: a broken chain is taken for an empty value.           *)
SalvageHalfRead(damaged) ==
    LET pages == Surviving(damaged)
        leaves == SortBy({p \in DOMAIN pages : pages[p].type = "Leaf"}, <)
        Value(c) == IF ~c.overflow THEN c.value
                    ELSE LET read == read_chain(pages, c.head, c.total_len)
                         IN IF read = "corrupt" THEN "empty" ELSE read
        Pairs(p) == [k \in {pages[p].cells[i].key : i \in DOMAIN pages[p].cells} |->
                        Value(pages[p].cells[search(pages[p], k).at])]
    IN FoldLeft(LAMBDA found, p : Pairs(p) @@ found, Nothing, leaves)

(* repair::salvage: the pairs of every readable leaf, in page order since  *)
(* no page carries a log sequence number, a later page over an earlier.    *)
salvage(damaged) ==
    LET pages == Surviving(damaged)
        leaves == SortBy({p \in DOMAIN pages : pages[p].type = "Leaf" /\ validate_structure(pages[p])}, <)
        Value(c) == IF c.overflow THEN read_chain(pages, c.head, c.total_len) ELSE c.value
        Pairs(p) == [k \in {pages[p].cells[i].key : i \in
                                {j \in DOMAIN pages[p].cells :
                                    Value(pages[p].cells[j]) # "corrupt"}} |->
                        Value(pages[p].cells[search(pages[p], k).at])]
    IN FoldLeft(LAMBDA found, p : Pairs(p) @@ found, Nothing, leaves)

-----------------------------------------------------------------------------
(* Properties.                                                             *)

TreeFileTypeOK ==
    /\ s.meta.page_count <= Cardinality(DOMAIN s.file)
    /\ s.meta.root \in 1 .. s.meta.page_count - 1
    /\ DOMAIN s.dirty \subseteq DOMAIN s.file
    /\ \A p \in DOMAIN s.file : s.file[p].type \in
            {"Blank", "Meta", "Free", "Leaf", "Internal", "Overflow"}
    /\ DOMAIN kv \subseteq setting.keys /\ DOMAIN durable \subseteq setting.keys

Bounds == {[kind |-> "unbounded", key |-> 0]}
            \cup [kind : {"included", "excluded"}, key : setting.keys]

Inside(k, lo, hi) ==
    /\ lo.kind = "included" => lo.key <= k
    /\ lo.kind = "excluded" => lo.key < k
    /\ hi.kind = "included" => k <= hi.key
    /\ hi.kind = "excluded" => k < hi.key

(* Lookups, range scans with every kind of bound and the count agree with  *)
(* the inserts and deletes made, whatever splits, removals of leaves,      *)
(* recycled pages, discarded merges, crashes, restores and compactions     *)
(* came between (BTree::get, range_iter and len, btree.rs:165-658).        *)
TreeHoldsTheWrites ==
    /\ \A k \in setting.keys :
            tree_get(s, k) = IF k \in DOMAIN kv THEN kv[k] ELSE "absent"
    /\ tree_len(s) = Cardinality(DOMAIN kv)
    /\ \A lo, hi \in Bounds :
            lo.kind = "unbounded" \/ hi.kind = "unbounded" =>
                LET keys == SortBy({k \in DOMAIN kv : Inside(k, lo, hi)}, <)
                IN range_iter(s, lo, hi) = [i \in DOMAIN keys |-> <<keys[i], kv[keys[i]]>>]

(* The structure BTree::check verifies holds after every operation: keys   *)
(* in order and within their parents' range, leaves at one depth and       *)
(* chained in order, no page used twice, the free list disjoint from the   *)
(* tree.  No page leaks, not even by a crash, which the report of check    *)
(* would allow (btree.rs:134-136), and no insert fails for want of a split *)
(* (BTree::check, btree.rs:670-744; split_point's promise, 909-915).       *)
TreeIsSound ==
    TreeFileTypeOK /\ s.err = "none" /\ check(s).ok /\ check(s).unreachable_pages = 0

(* A clean page in the cache is the page of the file, so no reader sees a  *)
(* page from before a flush, a discarded merge or a restore                *)
(* (Pager::read_page, pager.rs:225-259).                                   *)
CacheIsCurrent ==
    \A p \in DOMAIN s.cache \ DOMAIN s.dirty :
        p \in DOMAIN s.file /\ s.cache[p] = s.file[p]

(* Salvage of a flushed file, any one page of which is damaged, recovers   *)
(* exactly the pairs whose leaf and overflow pages are intact, none of     *)
(* them stale, although freed and recycled pages lie among the scanned     *)
(* ones (repair.rs:11-20, 85-214).                                         *)
SalvageRecoversIntactPairs ==
    s.dirty = NoPages =>
        \A damaged \in {{}} \cup {{p} : p \in DOMAIN s.file} :
            LET leaf(k) == find_leaf(s, k).leaf
                cell(k) == s.file[leaf(k)].cells[search(s.file[leaf(k)], k).at]
                chain(k) == IF cell(k).overflow
                            THEN ToSet(ChainFrom(s.file, cell(k).head, s.meta.page_count)) ELSE {}
                intact == {k \in DOMAIN durable : (chain(k) \cup {leaf(k)}) \cap damaged = {}}
            IN salvage(damaged) = Restrict(durable, intact)
=============================================================================
