------------------------------ MODULE PageStore ------------------------------
(***************************************************************************)
(* The slotted pages of rust/src/page.rs, to the byte: a directory of      *)
(* slots in key order, a cell heap that only ever grows towards it, holes  *)
(* where cells were removed until the page is compacted.  A cell is its    *)
(* decoded fields together with its encoded length.                        *)
(*                                                                         *)
(* Keys are numbers in key order and values are names; KeyLen and ValueLen *)
(* give their length in bytes.                                             *)
(***************************************************************************)
EXTENDS Integers, Sequences, SequencesExt, TLC

CONSTANTS KeyLen, ValueLen

PAGE_SIZE == 4096
PAGE_HEADER_SIZE == 32
SLOT_SIZE == 4
SENTINEL == -1
MAX_KEY_SIZE == 1024
MAX_INLINE_VALUE == 1024
OVERFLOW_PAYLOAD == PAGE_SIZE - PAGE_HEADER_SIZE - 8
USABLE_SPACE == PAGE_SIZE - PAGE_HEADER_SIZE

Keys == DOMAIN KeyLen
Values == DOMAIN ValueLen

(* Longer keys are refused by BTree::insert before anything is touched.    *)
ASSUME PageAssumption ==
    /\ Keys \subseteq Nat
    /\ \A k \in Keys : KeyLen[k] \in 1 .. MAX_KEY_SIZE
    /\ \A v \in Values : ValueLen[v] \in Nat

(* `heap' is the size of the cell heap: PAGE_SIZE - cell_start.            *)
new_page(type) == [type |-> type, extra |-> SENTINEL, cells |-> <<>>, heap |-> 0]

(* A page of the file that was never written.                              *)
Blank == [type |-> "Blank"]

(* What is left of a page when a cell did not fit: Error::Full.            *)
Overfull == [type |-> "Overfull"]

is_leaf(page) == page.type = "Leaf"
num_keys(page) == Len(page.cells)

-----------------------------------------------------------------------------
(* Cells.                                                                  *)

inline_leaf_cell(key, value) ==
    [key |-> key, len |-> 8 + KeyLen[key] + ValueLen[value],
     total_len |-> ValueLen[value], value |-> value, overflow |-> FALSE]

overflow_leaf_cell(key, value, head) ==
    [key |-> key, len |-> 8 + KeyLen[key] + 4,
     total_len |-> ValueLen[value], head |-> head, overflow |-> TRUE]

internal_cell(key, child) ==
    [key |-> key, len |-> 6 + KeyLen[key], child |-> child]

Bytes(cells) == FoldLeft(LAMBDA sum, c : sum + c.len, 0, cells)

free_space(page) ==
    LET gap == USABLE_SPACE - page.heap - SLOT_SIZE * num_keys(page)
    IN IF gap < 0 THEN 0 ELSE gap

compact(page) == [page EXCEPT !.heap = Bytes(page.cells)]

(* Where the search for a key ends: at its slot, or where it would go.     *)
search(page, key) ==
    LET bisect[lo \in 1 .. num_keys(page) + 1, hi \in 1 .. num_keys(page) + 1] ==
            IF lo >= hi THEN [found |-> FALSE, at |-> lo]
            ELSE LET mid == (lo + hi) \div 2
                     at == page.cells[mid].key
                 IN IF at = key THEN [found |-> TRUE, at |-> mid]
                    ELSE IF at < key THEN bisect[mid + 1, hi]
                    ELSE bisect[lo, mid]
    IN bisect[1, num_keys(page) + 1]

insert_cell_at(page, i, cell) ==
    LET roomy == IF cell.len + SLOT_SIZE > free_space(page) THEN compact(page) ELSE page
    IN IF cell.len + SLOT_SIZE > free_space(roomy) THEN Overfull
       ELSE [roomy EXCEPT !.cells = InsertAt(@, i, cell), !.heap = @ + cell.len]

(* The bytes of the cell stay in the heap until the page is compacted.     *)
remove_cell_at(page, i) == [page EXCEPT !.cells = RemoveAt(@, i)]

clear_cells(page) == [page EXCEPT !.cells = <<>>, !.heap = 0]

(* clear_cells, then every cell of a list in turn.                         *)
Fill(page, cells) ==
    FoldLeft(LAMBDA p, c : IF p = Overfull THEN p ELSE insert_cell_at(p, num_keys(p) + 1, c),
             clear_cells(page), cells)

-----------------------------------------------------------------------------
(* Overflow pages: one piece of a value each.                              *)

Pieces(value) == (ValueLen[value] + OVERFLOW_PAYLOAD - 1) \div OVERFLOW_PAYLOAD

PieceLen(value, i) ==
    IF i < Pieces(value) THEN OVERFLOW_PAYLOAD
    ELSE ValueLen[value] - (Pieces(value) - 1) * OVERFLOW_PAYLOAD

write_overflow(value, i, next) ==
    [type |-> "Overflow", extra |-> next, value |-> value, piece |-> i,
     len |-> PieceLen(value, i)]

(* validate_structure: the slots end before the heap begins.               *)
validate_structure(page) ==
    page.type \in {"Leaf", "Internal"} =>
        /\ page.heap \in 0 .. USABLE_SPACE
        /\ SLOT_SIZE * num_keys(page) + page.heap <= USABLE_SPACE
        /\ Bytes(page.cells) <= page.heap

-----------------------------------------------------------------------------
(* What rust/src/pager.rs keeps in memory over the database file: staged   *)
(* pages, a cache of clean ones, the free list and the overflow chains.    *)
(* Every operator takes the pager `s' and returns it changed:              *)
(*                                                                         *)
(*   s.file    the pages of the file, `Blank' where none was written       *)
(*   s.saved   the meta page of the file                                   *)
(*   s.dirty   Pager::dirty: pages staged for the next flush               *)
(*   s.cache   Pager::cache: clean pages that were read                    *)
(*   s.meta    Pager::meta: root, free_list, page_count                    *)
(*   s.err     the error that ended an operation, "none" so far            *)
(*                                                                         *)
(* The flush is one step here; Pager is its write-by-write model.  The     *)
(* cache never fills: dropping an entry has no effect as long as every     *)
(* entry equals the page of the file, which CacheIsCurrent states.         *)

(* Pager::GROW_CHUNK; a small one lets files be seen to grow more than once. *)
CONSTANT GrowChunk

ASSUME GrowAssumption == GrowChunk \in Nat \ {0}

NoPages == [p \in {} |-> Blank]

Fail(s, why) == [s EXCEPT !.err = why]

(* Pager::ensure_file_pages: the file grows at once, outside any flush.    *)
ensure_file_pages(s, pages) ==
    LET have == Cardinality(DOMAIN s.file)
        want == IF pages > have + GrowChunk THEN pages ELSE have + GrowChunk
    IN IF pages <= have THEN s
       ELSE [s EXCEPT !.file = [p \in 0 .. want - 1 |->
                                    IF p < have THEN s.file[p] ELSE Blank]]

(* A new database: an empty leaf for a root.                               *)
initialize ==
    LET meta == [root |-> 1, free_list |-> SENTINEL, page_count |-> 2]
        s == [file |-> [p \in 0 .. 1 |-> new_page(IF p = 0 THEN "Meta" ELSE "Leaf")],
                  saved |-> meta, dirty |-> NoPages, cache |-> NoPages, meta |-> meta,
                  err |-> "none"]
    IN s

read_page(s, id) ==
    IF id \in DOMAIN s.dirty THEN s.dirty[id]
    ELSE IF id \in DOMAIN s.cache THEN s.cache[id]
    ELSE s.file[id]

InMemory(s) == [p \in 0 .. s.meta.page_count - 1 |-> read_page(s, p)]

(* Pages that were read and not staged are in the cache afterwards.        *)
Cached(s, ids) ==
    [s EXCEPT !.cache = @ @@ [p \in ids \ DOMAIN s.dirty |-> s.file[p]]]

write_page(s, id, page) ==
    IF page = Overfull THEN Fail(s, "page is full")
    ELSE [s EXCEPT !.dirty = (id :> page) @@ @, !.cache = Restrict(@, DOMAIN @ \ {id})]

(* The page taken and the pager without it.                                *)
allocate_page(s, type) ==
    LET recycled == s.meta.free_list # SENTINEL
        id == IF recycled THEN s.meta.free_list ELSE s.meta.page_count
        page == read_page(s, id)
        taken == IF recycled
                 THEN IF page.type # "Free" THEN Fail(s, "free list points at a page in use")
                      ELSE [s EXCEPT !.meta.free_list = page.extra]
                 ELSE ensure_file_pages([s EXCEPT !.meta.page_count = @ + 1], id + 1)
    IN [s |-> write_page(taken, id, new_page(type)), id |-> id]

free_page(s, id) ==
    IF id = 0 \/ id >= s.meta.page_count THEN Fail(s, "cannot free the page")
    ELSE [write_page(s, id, [new_page("Free") EXCEPT !.extra = s.meta.free_list])
            EXCEPT !.meta.free_list = id]

-----------------------------------------------------------------------------
(* Overflow chains.                                                        *)

(* The chain is built from its last piece; `id' is its head.               *)
write_overflow_chain(s, value) ==
    LET Link(i, chain) ==
            LET page == allocate_page(chain.s, "Overflow")
            IN [s |-> write_page(page.s, page.id, write_overflow(value, i, chain.id)),
                id |-> page.id]
    IN FoldRight(Link, [i \in 1 .. Pieces(value) |-> i], [s |-> s, id |-> SENTINEL])

(* The page ids of a chain, as far as the pages are overflow pages and no  *)
(* further than `limit' of them.                                           *)
RECURSIVE ChainFrom(_, _, _)
ChainFrom(pages, id, limit) ==
    IF id \notin DOMAIN pages \/ limit = 0 \/ pages[id].type # "Overflow" THEN <<id>>
    ELSE <<id>> \o ChainFrom(pages, pages[id].extra, limit - 1)

(* The value read from a chain, or "corrupt": the links end with the       *)
(* sentinel within the number the declared length allows, and hold that    *)
(* many bytes.                                                             *)
Assemble(pages, head, total_len, limit) ==
    LET links == ChainFrom(pages, head, limit)
        ids == Front(links)
        bytes == FoldLeft(LAMBDA sum, p : sum + pages[p].len, 0, ids)
        read == [i \in DOMAIN ids |-> <<pages[ids[i]].value, pages[ids[i]].piece>>]
        Is(v) == read = [i \in 1 .. Pieces(v) |-> <<v, i>>]
    IN IF Last(links) # SENTINEL \/ bytes # total_len THEN "corrupt"
       ELSE IF \E v \in Values : ValueLen[v] = total_len /\ Is(v)
            THEN CHOOSE v \in Values : ValueLen[v] = total_len /\ Is(v)
            ELSE "scrambled"

read_overflow_chain(s, head, total_len) ==
    LET max_links == total_len \div OVERFLOW_PAYLOAD + 2
    IN IF max_links > s.meta.page_count THEN "corrupt"
       ELSE Assemble(InMemory(s), head, total_len, max_links)

(* Wrong on purpose: only the first page of the chain is freed.            *)
FreeHeadOnly(s, head) == IF head = SENTINEL THEN s ELSE free_page(s, head)

free_overflow_chain(s, head) ==
    LET links == ChainFrom(InMemory(s), head, s.meta.page_count)
    IN IF Last(links) # SENTINEL THEN Fail(s, "not an overflow chain")
       ELSE FoldLeft(free_page, s, Front(links))

-----------------------------------------------------------------------------
(* Flush, discard, reopen, replace.                                        *)

flush(s) ==
    LET grown == ensure_file_pages(s, Max({0} \cup DOMAIN s.dirty) + 1)
    IN [grown EXCEPT !.file = s.dirty @@ @, !.saved = s.meta, !.dirty = NoPages,
                     !.cache = s.dirty @@ @]

discard_dirty(s, meta) == [s EXCEPT !.dirty = NoPages, !.meta = meta, !.err = "none"]

(* Pager::open on the file a crash or a close leaves.                      *)
open_pager(s) ==
    [s EXCEPT !.dirty = NoPages, !.cache = NoPages, !.meta = s.saved, !.err = "none"]

(* Wrong on purpose: pages of the old contents stay in the cache.          *)
ReplaceKeepsCache(s, src) ==
    [s EXCEPT !.file = src.file, !.saved = src.saved, !.dirty = NoPages, !.meta = src.saved]

(* The whole file becomes the file `src', once every page of it that is    *)
(* allocated has been read and verified.                                   *)
replace_contents(s, src) ==
    IF src.saved.page_count > Cardinality(DOMAIN src.file)
        \/ \E p \in 1 .. src.saved.page_count - 1 : src.file[p] = Blank
    THEN Fail(s, "backup is inconsistent")
    ELSE [s EXCEPT !.file = src.file, !.saved = src.saved, !.dirty = NoPages,
                   !.cache = NoPages, !.meta = src.saved]
=============================================================================
