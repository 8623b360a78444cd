-------------------------------- MODULE BTree --------------------------------
(***************************************************************************)
(* The B+Tree of rust/src/btree.rs over the pager of PageStore: insert with *)
(* byte-balanced splits, delete with the removal of empty leaves, lookups, *)
(* range scans along the leaf chain, and BTree::check.  Child slot 0 is    *)
(* the leftmost child, slot i the child of cell i.  `fill' is what         *)
(* FillFactor::max_used_bytes returns.                                     *)
(***************************************************************************)
EXTENDS PageStore, Ordered

MAX_INLINE_CELL == USABLE_SPACE \div 4 - SLOT_SIZE

(* FillFactor::new clamps max to more than one half and at most all.       *)
Fills == USABLE_SPACE \div 2 .. USABLE_SPACE

(* Where a descent goes when it does not look for a key.                   *)
FIRST == -1
LAST == -2

NoSplit == [right |-> SENTINEL]

(* A key equal to a separator belongs to the separator's right child.      *)
child_slot_for(page, key) ==
    CASE key = FIRST -> 0
      [] key = LAST -> num_keys(page)
      [] OTHER -> LET r == search(page, key) IN IF r.found THEN r.at ELSE r.at - 1

child_at(page, slot) == IF slot = 0 THEN page.extra ELSE page.cells[slot].child

(* The internal pages passed on the way down, each with the slot taken,    *)
(* and the leaf reached.                                                   *)
RECURSIVE Descend(_, _, _, _)
Descend(s, id, key, path) ==
    LET page == read_page(s, id)
        slot == child_slot_for(page, key)
    IN IF is_leaf(page) THEN [path |-> path, leaf |-> id]
       ELSE Descend(s, child_at(page, slot), key, Append(path, [id |-> id, slot |-> slot]))

find_leaf(s, key) == Descend(s, s.meta.root, key, <<>>)

Visited(d) == {d.path[i].id : i \in DOMAIN d.path} \cup {d.leaf}

-----------------------------------------------------------------------------
(* Reads.                                                                  *)

cell_value(s, cell) ==
    IF cell.overflow THEN read_overflow_chain(s, cell.head, cell.total_len) ELSE cell.value

(* BTree::get: the value, or "absent".                                     *)
tree_get(s, key) ==
    LET leaf == read_page(s, find_leaf(s, key).leaf)
        r == search(leaf, key)
    IN IF r.found THEN cell_value(s, leaf.cells[r.at]) ELSE "absent"

(* The leaves from one on, along their sibling links; LeafChainGuard ends  *)
(* a walk longer than the file.                                            *)
RECURSIVE LeafChain(_, _, _)
LeafChain(s, id, remaining) ==
    IF id = SENTINEL \/ remaining = 0 THEN <<>>
    ELSE <<id>> \o LeafChain(s, read_page(s, id).extra, remaining - 1)

(* BTree::range_iter.  A bound is [kind, key], kind "unbounded", "included" *)
(* or "excluded".  The first leaf is entered at the lower bound, the walk  *)
(* ends at the first key past the upper one.                               *)
EnteredAt(leaf, lo) ==
    LET r == search(leaf, lo.key)
    IN IF lo.kind = "unbounded" THEN 1
       ELSE IF lo.kind = "excluded" /\ r.found THEN r.at + 1 ELSE r.at

CellsFrom(s, chain, lo) ==
    FlattenSeq([i \in DOMAIN chain |->
        LET leaf == read_page(s, chain[i])
        IN SubSeq(leaf.cells, IF i = 1 THEN EnteredAt(leaf, lo) ELSE 1, num_keys(leaf))])

UpTo(s, all, hi) ==
    LET past(i) == CASE hi.kind = "unbounded" -> FALSE
                     [] hi.kind = "included" -> all[i].key > hi.key
                     [] hi.kind = "excluded" -> all[i].key >= hi.key
        stop == Min({i \in DOMAIN all : past(i)} \cup {Len(all) + 1})
    IN [i \in 1 .. stop - 1 |-> <<all[i].key, cell_value(s, all[i])>>]

range_iter(s, lo, hi) ==
    LET first == find_leaf(s, IF lo.kind = "unbounded" THEN FIRST ELSE lo.key).leaf
    IN UpTo(s, CellsFrom(s, LeafChain(s, first, s.meta.page_count), lo), hi)

tree_len(s) ==
    LET chain == LeafChain(s, find_leaf(s, FIRST).leaf, s.meta.page_count)
    IN FoldLeft(LAMBDA n, id : n + num_keys(read_page(s, id)), 0, chain)

-----------------------------------------------------------------------------
(* Insert.                                                                 *)

(* The most even division, in bytes, of which both halves fit a page: how  *)
(* many cells stay on the left.  With `promote' the cell after them moves  *)
(* up.  -1 when there is none.                                             *)
split_point(cells, promote) ==
    LET n == Len(cells)
        size(from, to) == Bytes(SubSeq(cells, from, to)) + SLOT_SIZE * (to - from + 1)
        left(i) == IF i = 0 THEN 0 ELSE size(1, i)
        right(i) == LET from == IF promote THEN i + 2 ELSE i + 1
                    IN IF from > n THEN 0 ELSE size(from, n)
        fits == {i \in IF promote THEN 0 .. n - 1 ELSE 1 .. n - 1 :
                    left(i) <= USABLE_SPACE /\ right(i) <= USABLE_SPACE}
        gap(i) == IF left(i) > right(i) THEN left(i) - right(i) ELSE right(i) - left(i)
        best == {i \in fits : \A j \in fits : gap(i) <= gap(j)}
    IN IF fits = {} THEN -1 ELSE Min(best)

(* A leaf and the new one to its right, with the cells divided after `at'. *)
SplitLeafAt(new, id, leaf, sibling, cells, at) ==
    LET right == Fill([new_page("Leaf") EXCEPT !.extra = sibling], SubSeq(cells, at + 1, Len(cells)))
        left == Fill([leaf EXCEPT !.extra = new.id], SubSeq(cells, 1, at))
    IN [s |-> write_page(write_page(new.s, id, left), new.id, right),
        split |-> [key |-> cells[at + 1].key, right |-> new.id]]

(* Past the end of the rightmost leaf a fresh one is started.              *)
LeafDivision(leaf, idx, cells) ==
    IF idx = num_keys(leaf) + 1 /\ num_keys(leaf) > 0 /\ leaf.extra = SENTINEL
    THEN num_keys(leaf)
    ELSE split_point(cells, FALSE)

(* Wrong on purpose: the new leaf forgets the sibling it was split before. *)
SplitLeafUnlinked(s, id, leaf, idx, cell) ==
    LET cells == InsertAt(leaf.cells, idx, cell)
    IN SplitLeafAt(allocate_page(s, "Leaf"), id, leaf, SENTINEL, cells, split_point(cells, FALSE))

split_leaf(s, id, leaf, idx, cell) ==
    LET cells == InsertAt(leaf.cells, idx, cell)
        at == LeafDivision(leaf, idx, cells)
    IN IF at = -1 THEN [s |-> Fail(s, "leaf cannot be split"), split |-> NoSplit]
       ELSE SplitLeafAt(allocate_page(s, "Leaf"), id, leaf, leaf.extra, cells, at)

(* The old cell of a key that is replaced goes, with its overflow chain.   *)
Released(s, page, r) ==
    IF r.found /\ page.cells[r.at].overflow
    THEN free_overflow_chain(s, page.cells[r.at].head) ELSE s

Without(page, r) == IF r.found THEN remove_cell_at(page, r.at) ELSE page

(* The new cell, and the pager once a value too large for it has spilled.  *)
encode_cell(s, key, value) ==
    IF /\ ValueLen[value] <= MAX_INLINE_VALUE
       /\ 8 + KeyLen[key] + ValueLen[value] <= MAX_INLINE_CELL
    THEN [s |-> s, cell |-> inline_leaf_cell(key, value)]
    ELSE LET chain == write_overflow_chain(s, value)
         IN [s |-> chain.s, cell |-> overflow_leaf_cell(key, value, chain.id)]

Fits(page, cell) == cell.len + SLOT_SIZE <= free_space(page)
WithinFill(page, cell, fill) == USABLE_SPACE - free_space(page) + cell.len + SLOT_SIZE <= fill

(* Removed cells leave holes that do not count as free: a page is          *)
(* compacted before it is found too full.                                  *)
Roomy(page, good) == IF good THEN page ELSE compact(page)

PlaceInLeaf(e, id, leaf, idx, fill) ==
    IF Fits(leaf, e.cell) /\ (WithinFill(leaf, e.cell, fill) \/ num_keys(leaf) = 0)
    THEN [s |-> write_page(e.s, id, insert_cell_at(leaf, idx, e.cell)), split |-> NoSplit]
    ELSE split_leaf(e.s, id, leaf, idx, e.cell)

ReplaceInLeaf(e, id, leaf, idx, fill) ==
    PlaceInLeaf(e, id, Roomy(leaf, Fits(leaf, e.cell) /\ WithinFill(leaf, e.cell, fill)), idx, fill)

insert_into_leaf(s, id, key, value, fill) ==
    LET page == read_page(s, id)
        r == search(page, key)
    IN ReplaceInLeaf(encode_cell(Released(s, page, r), key, value), id, Without(page, r), r.at, fill)

(* An internal node and the new one to its right: the cell after the first *)
(* `m' moves up and its child is the leftmost of the right node.           *)
SplitNodeAt(new, id, node, cells, m) ==
    LET left == Fill(node, SubSeq(cells, 1, m))
        right == Fill([new_page("Internal") EXCEPT !.extra = cells[m + 1].child],
                      SubSeq(cells, m + 2, Len(cells)))
    IN [s |-> write_page(write_page(new.s, id, left), new.id, right),
        split |-> [key |-> cells[m + 1].key, right |-> new.id]]

(* At the right edge the separator moves up by itself.                     *)
NodeDivision(node, pos, cells) ==
    IF pos = num_keys(node) + 1 THEN num_keys(node) ELSE split_point(cells, TRUE)

PlaceInNode(s, id, node, pos, cell) ==
    LET cells == InsertAt(node.cells, pos, cell)
        m == NodeDivision(node, pos, cells)
    IN IF Fits(node, cell)
       THEN [s |-> write_page(s, id, insert_cell_at(node, pos, cell)), split |-> NoSplit]
       ELSE IF m = -1 THEN [s |-> Fail(s, "internal page cannot be split"), split |-> NoSplit]
       ELSE SplitNodeAt(allocate_page(s, "Internal"), id, node, cells, m)

(* Inserts a promoted separator into an internal node.                     *)
absorb_split(s, id, split) ==
    LET node == read_page(s, id)
        cell == internal_cell(split.key, split.right)
        r == search(node, split.key)
    IN PlaceInNode(s, id, Roomy(node, Fits(node, cell)), IF r.found THEN r.at + 1 ELSE r.at, cell)

(* A root that split gets a new root above it.                             *)
new_root(s, split) ==
    LET new == allocate_page(s, "Internal")
        page == [new_page("Internal") EXCEPT !.extra = s.meta.root]
        cell == internal_cell(split.key, split.right)
    IN [write_page(new.s, new.id, insert_cell_at(page, 1, cell)) EXCEPT !.meta.root = new.id]

(* Up the path of the descent, as far as the splits reach.                 *)
Absorb(step, r) ==
    IF r.split = NoSplit \/ r.s.err # "none" THEN r ELSE absorb_split(r.s, step.id, r.split)

RaiseRoot(top) ==
    IF top.split = NoSplit \/ top.s.err # "none" THEN top.s ELSE new_root(top.s, top.split)

InsertAlong(s, d, key, value, fill) ==
    RaiseRoot(FoldRight(Absorb, d.path, insert_into_leaf(Cached(s, Visited(d)), d.leaf, key, value, fill)))

tree_insert(s, key, value, fill) == InsertAlong(s, find_leaf(s, key), key, value, fill)

-----------------------------------------------------------------------------
(* Delete.                                                                 *)

(* The leaf before the subtree a path leads to, as the descent that finds  *)
(* it: one child left at the deepest level that has one, then rightmost.   *)
previous_leaf(s, path) ==
    LET turn == SelectLastInSeq(path, LAMBDA step : step.slot > 0)
        step == path[turn]
    IN IF turn = 0 THEN [path |-> <<>>, leaf |-> SENTINEL]
       ELSE Descend(s, child_at(read_page(s, step.id), step.slot - 1), LAST, <<>>)

(* A root left with a single child hands the tree to that child.           *)
RECURSIVE CollapseRoot(_)
CollapseRoot(s) ==
    LET root == read_page(s, s.meta.root)
        seen == Cached(s, {s.meta.root})
    IN IF is_leaf(root) \/ num_keys(root) > 0 THEN seen
       ELSE CollapseRoot(free_page([seen EXCEPT !.meta.root = root.extra], s.meta.root))

(* The leaf before the removed one skips it.                               *)
LinkPast(s, prev, next) ==
    IF prev.leaf = SENTINEL THEN s
    ELSE write_page(Cached(s, Visited(prev)), prev.leaf,
                    [read_page(s, prev.leaf) EXCEPT !.extra = next])

WithoutChild(page, slot) ==
    IF slot = 0 THEN remove_cell_at([page EXCEPT !.extra = page.cells[1].child], 1)
    ELSE remove_cell_at(page, slot)

Unanchored(s, linked, anchor) ==
    write_page(linked, anchor.id, WithoutChild(read_page(s, anchor.id), anchor.slot))

(* Unlinks an empty leaf.  Internal nodes above it that have no other      *)
(* child go with it; the anchor is the first that keeps one.               *)
remove_empty_leaf(s, leaf, leaf_id, path) ==
    LET keeps == SelectLastInSeq(path, LAMBDA step : num_keys(read_page(s, step.id)) > 0)
        orphaned == Reverse([i \in 1 .. Len(path) - keeps |-> path[keeps + i].id])
        linked == LinkPast(s, previous_leaf(s, SubSeq(path, 1, keeps)), leaf.extra)
    IN IF keeps = 0
       THEN FoldLeft(free_page, [write_page(s, leaf_id, leaf) EXCEPT !.meta.root = leaf_id], orphaned)
       ELSE CollapseRoot(FoldLeft(free_page, Unanchored(s, linked, path[keeps]), <<leaf_id>> \o orphaned))

DeleteFrom(s, leaf, d) ==
    IF num_keys(leaf) > 0 \/ d.path = <<>> THEN write_page(s, d.leaf, leaf)
    ELSE remove_empty_leaf(s, leaf, d.leaf, d.path)

DeleteAlong(s, d, page, r) ==
    IF r.found THEN DeleteFrom(Released(s, page, r), Without(page, r), d) ELSE s

(* The pager after the delete of a key; one the tree does not hold changes *)
(* nothing (NotFound).                                                     *)
tree_delete(s, key) ==
    LET d == find_leaf(s, key)
        page == read_page(s, d.leaf)
    IN DeleteAlong(Cached(s, Visited(d)), d, page, search(page, key))

-----------------------------------------------------------------------------
(* BTree::check.                                                           *)

(* The pages of a cell's overflow chain, and whether they add up.          *)
check_overflow(s, cell) ==
    IF cell.overflow
    THEN [seen |-> Front(ChainFrom(InMemory(s), cell.head, s.meta.page_count)),
          ok |-> Assemble(InMemory(s), cell.head, cell.total_len, s.meta.page_count) # "corrupt"]
    ELSE [seen |-> <<>>, ok |-> TRUE]

(* What check_node collects below a page: every page met, in order, the    *)
(* leaves in order, the depths of leaves, and whether all was well.  Keys  *)
(* of the subtree lie in lo .. hi - 1.                                     *)
RECURSIVE check_node(_, _, _, _, _)
check_node(s, id, lo, hi, depth) ==
    LET page == read_page(s, id)
        n == num_keys(page)
        key(i) == page.cells[i].key
        ordered == /\ \A i \in 1 .. n : lo <= key(i) /\ key(i) < hi
                   /\ \A i \in 1 .. n - 1 : key(i) < key(i + 1)
        chains == [i \in 1 .. n |-> check_overflow(s, page.cells[i])]
        below == [i \in 1 .. n + 1 |->
                    check_node(s, child_at(page, i - 1), IF i = 1 THEN lo ELSE key(i - 1),
                               IF i = n + 1 THEN hi ELSE key(i), depth + 1)]
    IN IF id <= 0 \/ id >= s.meta.page_count \/ page.type \notin {"Leaf", "Internal"}
       THEN [ok |-> FALSE, seen |-> <<id>>, leaves |-> <<>>, depths |-> {}]
       ELSE IF is_leaf(page)
       THEN [ok |-> ordered /\ validate_structure(page) /\ \A i \in 1 .. n : chains[i].ok,
             seen |-> <<id>> \o FlattenSeq([i \in 1 .. n |-> chains[i].seen]),
             leaves |-> <<id>>, depths |-> {depth}]
       ELSE [ok |-> ordered /\ validate_structure(page) /\ \A i \in 1 .. n + 1 : below[i].ok,
             seen |-> <<id>> \o FlattenSeq([i \in 1 .. n + 1 |-> below[i].seen]),
             leaves |-> FlattenSeq([i \in 1 .. n + 1 |-> below[i].leaves]),
             depths |-> UNION {below[i].depths : i \in 1 .. n + 1}]

RECURSIVE FreeList(_, _, _)
FreeList(s, id, limit) ==
    IF id \notin 1 .. s.meta.page_count - 1 \/ limit = 0 THEN <<id>>
    ELSE <<id>> \o FreeList(s, read_page(s, id).extra, limit - 1)

(* Whether the tree and the free list are sound, and how many pages are in *)
(* neither.                                                                *)
check(s) ==
    LET tree == check_node(s, s.meta.root, Min(Keys), Max(Keys) + 1, 1)
        free == FreeList(s, s.meta.free_list, s.meta.page_count)
        seen == tree.seen \o Front(free)
    IN [ok |-> /\ tree.ok
               /\ Cardinality(tree.depths) = 1
               /\ LeafChain(s, find_leaf(s, FIRST).leaf, s.meta.page_count) = tree.leaves
               /\ Last(free) = SENTINEL
               /\ \A i \in 1 .. Len(free) - 1 : read_page(s, free[i]).type = "Free"
               /\ Cardinality(ToSet(seen)) = Len(seen),
        unreachable_pages |-> s.meta.page_count - (Cardinality(ToSet(seen)) + 1)]
=============================================================================
