----------------------------- MODULE MCTreeFile ------------------------------
(* TLC instance of TreeFile: keys of 1024 bytes, of which three fit a page, *)
(* next to short ones, and values that are inline, empty, or fill one or   *)
(* two overflow pages.                                                     *)
EXTENDS TreeFile

MCKeyLen == [k \in 1 .. 13 |-> IF k = 3 THEN 300 ELSE 1024]
MCValueLen == [empty |-> 0, short |-> 500, long |-> 4057]

Setting(fill, start, keys, values, ops, flushes, copies) ==
    [fill |-> fill, start |-> start, keys |-> keys, values |-> values, ops |-> ops,
     flushes |-> flushes, copies |-> copies]

Half == USABLE_SPACE \div 2

(* A leaf takes one long key when half full and three when full, a node    *)
(* three separators.  The first two settings split leaves and the root;    *)
(* the third starts with three levels, splits and empties inner nodes and  *)
(* goes back to two; the others flush, crash, salvage, and copy.           *)
Shapes == {Setting(Half, {}, 4 .. 8, {"empty"}, 7, 0, 0),
           Setting(USABLE_SPACE, {}, 1 .. 6, {"empty"}, 7, 0, 0),
           Setting(Half, {4, 6, 8, 10, 12}, 4 .. 13, {"empty"}, 3, 0, 0),
           Setting(Half, {}, 2 .. 4, {"empty", "long"}, 4, 1, 0),
           Setting(Half, {}, 2 .. 4, {"short"}, 4, 2, 1)}
=============================================================================
