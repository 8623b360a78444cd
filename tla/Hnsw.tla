-------------------------------- MODULE Hnsw ---------------------------------
(***************************************************************************)
(* The navigable small-world graph of rust/src/vector/hnsw.rs.  A node is  *)
(* the ordinal of its record, from 1; vectors are numbers, and the         *)
(* ordering distance of two is how far they are apart.  The height of a    *)
(* new node is a parameter: the code draws it.                             *)
(***************************************************************************)
EXTENDS Integers, FiniteSets, Sequences, SequencesExt, Ordered

CONSTANT Params   \* HnswParams: m, m_max0, ef_construction, ef_search

ASSUME HnswAssumption ==
    /\ Params.m \in 1 .. 512 /\ Params.m_max0 \in 1 .. 1024
    /\ Params.ef_construction \in Params.m .. 4096 /\ Params.ef_search \in 1 .. 4096

Distance(x, y) == IF x < y THEN y - x ELSE x - y

EmptyGraph == [nodes |-> <<>>, entry |-> 0, max_level |-> 0]

budget_at(layer) == IF layer = 0 THEN Params.m_max0 ELSE Params.m

links_at(graph, id, layer) ==
    IF id \in DOMAIN graph.nodes /\ layer \in DOMAIN graph.nodes[id]
    THEN graph.nodes[id][layer] ELSE <<>>

(* Candidates in the order of their heap: by distance, then by id.         *)
Nearer(dist, a, b) == dist[a] < dist[b] \/ (dist[a] = dist[b] /\ a < b)
ByDistance(S, dist) == SortBy(S, LAMBDA a, b : Nearer(dist, a, b))
Nearest(S, dist) == CHOOSE a \in S : \A b \in S \ {a} : Nearer(dist, a, b)
Furthest(S, dist) == CHOOSE a \in S : \A b \in S \ {a} : Nearer(dist, b, a)

(* `dist' is the distance of every node to the query.                      *)
RECURSIVE greedy_descend(_, _, _, _)
greedy_descend(graph, start, layer, dist) ==
    LET best == FoldLeft(LAMBDA b, n : IF dist[n] < dist[b] THEN n ELSE b, start,
                         links_at(graph, start, layer))
    IN IF best = start THEN start ELSE greedy_descend(graph, best, layer, dist)

(* Down to the layer below the ones given, a greedy walk on each.          *)
RECURSIVE DescendTo(_, _, _, _, _)
DescendTo(graph, current, layer, bottom, dist) ==
    IF layer <= bottom THEN current
    ELSE DescendTo(graph, greedy_descend(graph, current, layer, dist), layer - 1, bottom, dist)

-----------------------------------------------------------------------------
(* The beam search of one layer.  Nodes outside `ok' (tombstoned, or       *)
(* rejected by a filter) are walked through and never returned.            *)

Offer(b, n, ef, dist, ok) ==
    LET seen == [b EXCEPT !.visited = @ \cup {n}]
        better == \/ Cardinality(b.results) < ef
                  \/ dist[n] < dist[Furthest(b.results, dist)]
        more == b.results \cup {n}
        kept == IF Cardinality(more) > ef THEN more \ {Furthest(more, dist)} ELSE more
    IN IF n \in b.visited THEN b
       ELSE IF ~better THEN seen
       ELSE [seen EXCEPT !.frontier = @ \cup {n},
                         !.results = IF n \in ok THEN kept ELSE @]

RECURSIVE Expand(_, _, _, _, _, _)
Expand(graph, layer, ef, dist, ok, b) ==
    LET current == Nearest(b.frontier, dist)
        popped == [b EXCEPT !.frontier = @ \ {current}]
        done == /\ Cardinality(b.results) >= ef
                /\ dist[current] > dist[Furthest(b.results, dist)]
    IN IF b.frontier = {} \/ done THEN b.results
       ELSE Expand(graph, layer, ef, dist, ok,
                   FoldLeft(LAMBDA x, n : Offer(x, n, ef, dist, ok), popped,
                            links_at(graph, current, layer)))

search_layer_where(graph, entry_points, ef, layer, dist, ok) ==
    LET start == [frontier |-> entry_points, visited |-> entry_points,
                  results |-> entry_points \cap ok]
    IN ByDistance(Expand(graph, layer, ef, dist, ok, start), dist)

-----------------------------------------------------------------------------
(* Inserting.  `vecs' are the vectors of all nodes.                        *)

DistancesTo(vecs, query) == [i \in DOMAIN vecs |-> Distance(vecs[i], query)]

(* Candidates nearer to the node than to any chosen before, then the       *)
(* nearest of the others, up to the budget.                                *)
select_neighbours(node, candidates, budget, dist, vecs) ==
    LET others == SelectSeq(candidates, LAMBDA c : c # node)
        Choose(chosen, c) ==
            IF /\ Len(chosen) < budget
               /\ \A i \in DOMAIN chosen : Distance(vecs[c], vecs[chosen[i]]) > dist[c]
            THEN Append(chosen, c) ELSE chosen
        Backfill(chosen, c) ==
            IF Len(chosen) < budget /\ ~Contains(chosen, c) THEN Append(chosen, c) ELSE chosen
    IN FoldLeft(Backfill, FoldLeft(Choose, <<>>, others), others)

connect(graph, from, to, layer) ==
    IF \/ from = to \/ layer \notin DOMAIN graph.nodes[from]
       \/ Contains(graph.nodes[from][layer], to)
    THEN graph
    ELSE [graph EXCEPT !.nodes[from][layer] = Append(@, to)]

prune(graph, node, layer, vecs) ==
    LET links == links_at(graph, node, layer)
        dist == DistancesTo(vecs, vecs[node])
        kept == select_neighbours(node, ByDistance(ToSet(links), dist), budget_at(layer), dist, vecs)
    IN IF Len(links) <= budget_at(layer) THEN graph
       ELSE [graph EXCEPT !.nodes[node][layer] = kept]

(* Links the node into a layer and every layer below it.                   *)
RECURSIVE LinkDown(_, _, _, _, _, _, _, _)
LinkDown(graph, id, layer, entry_points, current, dist, ok, vecs) ==
    LET candidates == search_layer_where(graph, entry_points, Params.ef_construction, layer, dist, ok)
        selected == select_neighbours(id, candidates, budget_at(layer), dist, vecs)
        Link(g, n) == prune(connect(connect(g, id, n, layer), n, id, layer), n, layer, vecs)
        linked == FoldLeft(Link, graph, selected)
        next == IF selected = <<>> THEN {current} ELSE ToSet(selected)
    IN IF layer < 0 THEN graph
       ELSE LinkDown(linked, id, layer - 1, next, current, dist, ok, vecs)

hnsw_insert(graph, vecs, deleted, level) ==
    LET id == Len(graph.nodes) + 1
        dist == DistancesTo(vecs, vecs[id])
        grown == [graph EXCEPT !.nodes = Append(@, [l \in 0 .. level |-> <<>>])]
        first == [grown EXCEPT !.entry = id, !.max_level = level]
        current == DescendTo(graph, graph.entry, graph.max_level, level, dist)
        top == IF level < graph.max_level THEN level ELSE graph.max_level
        linked == LinkDown(grown, id, top, {current}, current, dist, (1 .. id) \ deleted, vecs)
    IN IF graph.entry = 0 THEN first
       ELSE IF level > graph.max_level THEN [linked EXCEPT !.entry = id, !.max_level = level]
       ELSE linked

-----------------------------------------------------------------------------
(* Queries: the k nearest of the nodes in `ok', nearest first.             *)

Truncate(found, k) == SubSeq(found, 1, IF Len(found) < k THEN Len(found) ELSE k)

hnsw_search(graph, k, ef, dist, ok) ==
    LET width == IF ef > k THEN ef ELSE k
        current == DescendTo(graph, graph.entry, graph.max_level, 0, dist)
    IN IF k = 0 \/ graph.entry = 0 THEN <<>>
       ELSE Truncate(search_layer_where(graph, {current}, width, 0, dist, ok), k)

(* The bounded heap of the exhaustive scans, over the nodes in order.      *)
brute_force(k, dist, ok) ==
    LET Push(heap, n) ==
            LET more == heap \cup {n}
            IN IF Cardinality(more) > k THEN more \ {Furthest(more, dist)} ELSE more
    IN ByDistance(FoldLeft(Push, {}, SortBy(ok, <)), dist)
=============================================================================
