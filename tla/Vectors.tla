------------------------------- MODULE Vectors -------------------------------
(***************************************************************************)
(* The vector engine of rust/src/vector/mod.rs over the record file of     *)
(* store.rs and the graph of hnsw.rs: `os' is the file as the operating    *)
(* system shows it, `disk' as it was last synced, `snapshot' the `.hnsw'   *)
(* file.  Writers exclude one another, so an operation is one action; the  *)
(* places a crash can leave it half done are actions of their own.         *)
(***************************************************************************)
EXTENDS Hnsw, TLC

CONSTANTS
    Ids,          \* ids of vectors
    Vecs,         \* vectors, positive numbers
    MaxRecords,   \* bound: records in the file
    Settings      \* what may happen in a run, with its bounds

ASSUME VectorsAssumption == MaxRecords \in Nat \ {0} /\ Vecs \subseteq Nat \ {0}

VARIABLES setting, status, os, disk, snapshot, graph, ids, live,
          writes, crashes,   \* how often, for the bounds
          may,               \* ghost: the vectors an id may have now
          since              \* ghost: the ones it had since the last sync
vars == <<setting, status, os, disk, snapshot, graph, ids, live, writes, crashes, may, since>>

Absent == 0
Ordinals == 1 .. MaxRecords
Torn == [id |-> "none", vec |-> Absent, deleted |-> FALSE]
NoIds == [i \in Ids |-> 0]
EmptyFile == [slots |-> [o \in Ordinals |-> Torn], count |-> 0]
NoSnapshot == [graph |-> EmptyGraph, ids |-> NoIds]

-----------------------------------------------------------------------------
(* The record file.                                                        *)

is_deleted(f, o) == o \notin 1 .. f.count \/ f.slots[o].deleted
LiveOrdinals(f) == {o \in 1 .. f.count : ~f.slots[o].deleted}
DeletedOrdinals(f) == (1 .. f.count) \ LiveOrdinals(f)
VectorsIn(f) == [o \in 1 .. f.count |-> f.slots[o].vec]

tombstone(f, o) == [f EXCEPT !.slots[o].deleted = TRUE]

(* append: the record's bytes go to the slot after the last ...            *)
WriteRecord(f, id, v) ==
    [f EXCEPT !.slots[f.count + 1] = [id |-> id, vec |-> v, deleted |-> FALSE]]
(* ... and only then does the header count it.                             *)
WriteHeader(f) == [f EXCEPT !.count = @ + 1]

truncate_to(f, count) == [f EXCEPT !.count = count]

(* What a slot may hold after a power loss: what was synced, what was      *)
(* written since, or a mix of the two that its checksum does not match.    *)
SlotOutcomes(written, synced) ==
    IF written = synced THEN {written}
    ELSE IF written.vec = synced.vec /\ written.id = synced.id THEN {written, synced}
    ELSE {written, synced, [written EXCEPT !.deleted = FALSE], Torn}

PowerLoss(f, d) ==
    LET dirty == {o \in Ordinals : f.slots[o] # d.slots[o]}
        Outcomes == UNION {SlotOutcomes(f.slots[o], d.slots[o]) : o \in dirty}
    IN {[slots |-> s @@ f.slots, count |-> c] :
          s \in {g \in [dirty -> Outcomes] :
                   \A o \in dirty : g[o] \in SlotOutcomes(f.slots[o], d.slots[o])},
          c \in {f.count, d.count}}

-----------------------------------------------------------------------------
(* Opening.  The snapshot is used unless it covers more records than the   *)
(* file has or names one it does not cover.                                *)

load_snapshot(count) ==
    IF /\ Len(snapshot.graph.nodes) <= count
       /\ \A i \in Ids : snapshot.ids[i] <= Len(snapshot.graph.nodes)
    THEN snapshot ELSE NoSnapshot

(* Wrong on purpose: two live records of one id are both kept.             *)
ReplayKeepingBoth(e, o, level) ==
    LET record == e.file.slots[o]
        f == [e.file EXCEPT !.count = o]
    IN [e EXCEPT !.live = IF record.deleted THEN @ ELSE @ + 1,
                 !.ids[record.id] = o,
                 !.graph = hnsw_insert(@, VectorsIn(f), DeletedOrdinals(f), level)]

(* One record the snapshot does not cover: the newer of two live records   *)
(* of an id wins.                                                          *)
ReplayRecord(e, o, level) ==
    LET record == e.file.slots[o]
        previous == e.ids[record.id]
        replaces == ~record.deleted /\ previous # 0 /\ ~is_deleted(e.file, previous)
        f == IF replaces THEN tombstone(e.file, previous) ELSE e.file
        known == [f EXCEPT !.count = o]
    IN [file |-> f,
        live |-> e.live + (IF record.deleted THEN 0 ELSE 1) - (IF replaces THEN 1 ELSE 0),
        ids |-> [e.ids EXCEPT ![record.id] = o],
        graph |-> hnsw_insert(e.graph, VectorsIn(known), DeletedOrdinals(known), level)]

RECURSIVE Replay(_, _, _)
Replay(e, o, levels) ==
    IF o > e.file.count THEN e
    ELSE IF e.file.slots[o] = Torn THEN [e EXCEPT !.file = truncate_to(@, o - 1)]
    ELSE Replay(ReplayRecord(e, o, levels[o]), o + 1, levels)

OpenedFrom(f, levels) ==
    LET s == load_snapshot(f.count)
        covered == Len(s.graph.nodes)
    IN Replay([file |-> f, graph |-> s.graph, ids |-> s.ids,
               live |-> Cardinality({o \in 1 .. covered : ~is_deleted(f, o)})],
              covered + 1, levels)

-----------------------------------------------------------------------------
(* What callers see.                                                       *)

ViewOf(f, index, id) == IF is_deleted(f, index[id]) THEN Absent ELSE f.slots[index[id]].vec
get(id) == ViewOf(os, ids, id)

(* A request for k vectors: the ids of the matches, nearest first.         *)
to_matches(raw) == [n \in DOMAIN raw |-> os.slots[raw[n]].id]

RawSearch(query, k) ==
    LET dist == DistancesTo(VectorsIn(os), query)
    IN IF live = 0 THEN <<>>
       ELSE IF live <= setting.threshold THEN brute_force(k, dist, LiveOrdinals(os))
       ELSE hnsw_search(graph, k, Params.ef_search, dist, LiveOrdinals(os))

(* Wrong on purpose: what the widened beam finds is the answer.            *)
AcceptingBeamOnly(query, k, accepted) ==
    LET dist == DistancesTo(VectorsIn(os), query)
        ok == LiveOrdinals(os) \cap accepted
    IN IF live <= setting.threshold THEN brute_force(k, dist, ok)
       ELSE hnsw_search(graph, k, Params.ef_search, dist, ok)

search_accepting(query, k, accepted) ==
    LET dist == DistancesTo(VectorsIn(os), query)
        ok == LiveOrdinals(os) \cap accepted
        widened == IF Params.ef_search > k * 4 THEN Params.ef_search ELSE k * 4
        found == hnsw_search(graph, k, widened, dist, ok)
    IN IF live <= setting.threshold \/ Len(found) < k THEN brute_force(k, dist, ok)
       ELSE found

search(query, k) == to_matches(RawSearch(query, k))

search_filtered(query, k, allow) ==
    to_matches(IF live = 0 THEN <<>>
               ELSE search_accepting(query, k, {o \in 1 .. os.count : os.slots[o].id \in allow}))

search_ids(query, k, wanted) ==
    LET ordinals == {ids[i] : i \in {j \in wanted : ~is_deleted(os, ids[j])}}
        few == IF live \div 8 > setting.threshold THEN live \div 8 ELSE setting.threshold
    IN to_matches(IF Cardinality(ordinals) <= few
                  THEN brute_force(k, DistancesTo(VectorsIn(os), query), ordinals)
                  ELSE search_accepting(query, k, ordinals))

-----------------------------------------------------------------------------
Init ==
    /\ setting \in Settings
    /\ status = "open"
    /\ os = EmptyFile /\ disk = EmptyFile
    /\ snapshot = NoSnapshot
    /\ graph = EmptyGraph /\ ids = NoIds /\ live = 0
    /\ writes = 0 /\ crashes = 0
    /\ may = [i \in Ids |-> {Absent}]
    /\ since = [i \in Ids |-> {}]

Up == status = "open"
Can(op) == op \in setting.ops
Write == writes < setting.writes /\ writes' = writes + 1
(* A caller that syncs between two writes of one id.                       *)
Calm(id) == Can("calm") => Cardinality(since[id]) <= 1

(* The file while an insert is under way, after each of its writes: the    *)
(* replaced record's tombstone, the record, the header.                    *)
Replaces(id) == ids[id] # 0 /\ ~is_deleted(os, ids[id])

Tombstoned(id) == IF Replaces(id) THEN tombstone(os, ids[id]) ELSE os
RecordWritten(id, v) == WriteRecord(Tombstoned(id), id, v)
Counted(id, v) == WriteHeader(RecordWritten(id, v))

Synced == [i \in Ids |-> {get(i)}]

insert(id, v, level) ==
    /\ Up /\ Write /\ Calm(id) /\ os.count < MaxRecords
    /\ os' = Counted(id, v)
    /\ disk' = IF setting.sync THEN os' ELSE disk
    /\ graph' = hnsw_insert(graph, VectorsIn(os'), DeletedOrdinals(os'), level)
    /\ ids' = [ids EXCEPT ![id] = os'.count]
    /\ live' = IF Replaces(id) THEN live ELSE live + 1
    /\ may' = [may EXCEPT ![id] = {v}]
    /\ since' = IF setting.sync THEN [i \in Ids |-> {ViewOf(os', ids', i)}]
                ELSE [since EXCEPT ![id] = @ \cup {Absent, v}]
    /\ UNCHANGED <<setting, status, snapshot, crashes>>

(* The append fails when the replaced record is already tombstoned.        *)
insert_fails(id) ==
    /\ Up /\ Can("fail") /\ Write
    /\ os' = Tombstoned(id)
    /\ live' = IF Replaces(id) THEN live - 1 ELSE live
    /\ may' = [may EXCEPT ![id] = {Absent}]
    /\ since' = [since EXCEPT ![id] = @ \cup {Absent}]
    /\ UNCHANGED <<setting, status, disk, snapshot, graph, ids, crashes>>

remove(id) ==
    /\ Up /\ Can("remove") /\ Write /\ Calm(id)
    /\ ids[id] # 0 /\ ~is_deleted(os, ids[id])
    /\ os' = tombstone(os, ids[id])
    /\ live' = live - 1
    /\ may' = [may EXCEPT ![id] = {Absent}]
    /\ since' = [since EXCEPT ![id] = @ \cup {Absent}]
    /\ UNCHANGED <<setting, status, disk, snapshot, graph, ids, crashes>>

flush ==
    /\ Up /\ Can("flush")
    /\ disk' = os
    /\ since' = Synced
    /\ UNCHANGED <<setting, status, os, snapshot, graph, ids, live, writes, crashes, may>>

(* Wrong on purpose: a snapshot of records that are not synced.            *)
SaveUnsynced ==
    /\ disk' = disk
    /\ since' = Synced
    /\ snapshot' = [graph |-> graph, ids |-> ids]

save_locked ==
    /\ disk' = os
    /\ since' = Synced
    /\ snapshot' = [graph |-> graph, ids |-> ids]

save ==
    /\ Up /\ Can("save")
    /\ save_locked
    /\ UNCHANGED <<setting, status, os, graph, ids, live, writes, crashes, may>>

Down == status' = "down" /\ graph' = EmptyGraph /\ ids' = NoIds /\ live' = 0

(* close, and the Drop that does the same.                                 *)
close ==
    /\ Up /\ Can("save")
    /\ save_locked /\ Down
    /\ UNCHANGED <<setting, os, writes, crashes, may>>

(* The rebuilt file: the live records in their order.                      *)
Rebuilt ==
    LET survivors == SortBy(LiveOrdinals(os), <)
    IN [slots |-> [o \in Ordinals |-> IF o \in DOMAIN survivors THEN os.slots[survivors[o]] ELSE Torn],
        count |-> Len(survivors)]

RECURSIVE GraphOf(_, _, _)
GraphOf(f, g, levels) ==
    IF Len(g.nodes) = f.count THEN g
    ELSE LET known == [f EXCEPT !.count = Len(g.nodes) + 1]
         IN GraphOf(f, hnsw_insert(g, VectorsIn(known), {}, levels[known.count]), levels)

(* The rebuilt file is synced, renamed over the old one and snapshotted.   *)
compact(levels) ==
    /\ Up /\ Can("compact") /\ os.count > live
    /\ os' = Rebuilt /\ disk' = Rebuilt
    /\ graph' = GraphOf(Rebuilt, EmptyGraph, levels)
    /\ ids' = [i \in Ids |-> Greatest({0} \cup {o \in 1 .. Rebuilt.count : Rebuilt.slots[o].id = i})]
    /\ live' = Rebuilt.count
    /\ snapshot' = [graph |-> graph', ids |-> ids']
    /\ since' = Synced
    /\ UNCHANGED <<setting, status, writes, crashes, may>>

-----------------------------------------------------------------------------
(* Crashes.  A process that dies leaves what it wrote to the operating     *)
(* system; a power loss takes an arbitrary part of what was not synced.    *)

DieWith(file, synced, could, had) ==
    /\ crashes < setting.crashes /\ crashes' = crashes + 1
    /\ Down
    /\ UNCHANGED <<setting, snapshot, writes>>
    /\ \/ /\ "process" \in setting.kinds
          /\ os' = file /\ disk' = synced /\ may' = could /\ since' = had
       \/ /\ "power" \in setting.kinds
          /\ \E f \in PowerLoss(file, synced) : os' = f /\ disk' = f
          /\ may' = [i \in Ids |-> could[i] \cup had[i]]
          /\ since' = [i \in Ids |-> {}]

Crash == Up /\ DieWith(os, disk, may, since)

(* In an insert, after the tombstone or after the record.                  *)
CrashInInsert(id, v) ==
    /\ Up /\ Can("crash_in_insert") /\ Calm(id) /\ os.count < MaxRecords /\ writes < setting.writes
    /\ \E f \in {Tombstoned(id), RecordWritten(id, v)} :
         DieWith(f, disk, [may EXCEPT ![id] = {ViewOf(f, ids, id)}],
                 [since EXCEPT ![id] = @ \cup {Absent, v}])

(* In a compaction, after the rename and before the snapshot.              *)
CrashInCompact ==
    /\ Up /\ Can("crash_in_compact") /\ os.count > live
    /\ DieWith(Rebuilt, Rebuilt, may, Synced)

open(levels) ==
    /\ status = "down"
    /\ \E e \in {OpenedFrom(os, levels)} :
         /\ os' = e.file
         /\ disk' = IF e.file.count < os.count THEN e.file ELSE disk
         /\ graph' = e.graph /\ ids' = e.ids /\ live' = e.live
         /\ may' = [i \in Ids |-> may[i] \cap {ViewOf(e.file, e.ids, i)}]
         /\ since' = [i \in Ids |-> since[i] \cup {ViewOf(e.file, e.ids, i)}]
    /\ status' = "open"
    /\ UNCHANGED <<setting, snapshot, writes, crashes>>

(* The heights drawn for the first n records.                              *)
Levels(n) == [1 .. n -> setting.levels]

Next ==
    \/ \E id \in Ids, v \in Vecs, level \in setting.levels : insert(id, v, level)
    \/ \E id \in Ids : insert_fails(id)
    \/ \E id \in Ids : remove(id)
    \/ flush
    \/ save
    \/ close
    \/ \E levels \in Levels(live) : compact(levels)
    \/ Crash
    \/ \E id \in Ids, v \in Vecs : CrashInInsert(id, v)
    \/ CrashInCompact
    \/ \E levels \in Levels(os.count) : open(levels)

VectorsSpec == Init /\ [][Next]_vars

-----------------------------------------------------------------------------
(* The engine's parts are well formed; while it is open the graph has one  *)
(* node for every record of the file, in the record's place.               *)
VectorsTypeOK ==
    /\ setting \in Settings /\ status \in {"open", "down"}
    /\ os.count \in 0 .. MaxRecords /\ disk.count \in 0 .. MaxRecords
    /\ ids \in [Ids -> 0 .. MaxRecords]
    /\ Up => Len(graph.nodes) = os.count /\ \A i \in Ids : ids[i] <= os.count

(* get answers what was last stored under the id and, after a crash, what  *)
(* was synced or a write that came after: a synced vector nobody touched   *)
(* since survives any crash, and a lost tombstone or a torn record never   *)
(* brings back an older vector than the last synced one.                   *)
EngineHoldsTheVectors == Up => \A i \in Ids : get(i) \in may[i]

(* The index, the counter and the file agree: the live records of the file *)
(* are the ones the index names, one for an id, and `live' counts them.    *)
(* A search reads the file and get the index, so this is what makes the    *)
(* two see the same vectors.                                               *)
LiveRecordsAreTheIds ==
    Up => /\ live = Cardinality(LiveOrdinals(os))
          /\ \A o \in LiveOrdinals(os) : ids[os.slots[o].id] = o

(* No node has more links on a layer than the layer's budget, links lead   *)
(* to other nodes that are on the layer, none twice, and the descent       *)
(* starts at a node as high as the graph.                                  *)
GraphIsNavigable ==
    Up => \A n \in DOMAIN graph.nodes :
            /\ graph.max_level \in DOMAIN graph.nodes[graph.entry]
            /\ \A l \in DOMAIN graph.nodes[n] :
                 LET links == links_at(graph, n, l)
                 IN /\ Len(links) <= budget_at(l) /\ IsInjective(links)
                    /\ l <= graph.max_level
                    /\ \A i \in DOMAIN links : links[i] # n /\ l \in DOMAIN graph.nodes[links[i]]

(* Record file, index and graph fit together, after every operation and    *)
(* every recovery.                                                         *)
IndexIsSound == VectorsTypeOK /\ LiveRecordsAreTheIds /\ GraphIsNavigable

Present == {i \in Ids : get(i) # Absent}

(* An answer: distinct ids of vectors that are there, nearest first.       *)
IsAnswer(found, query, allow) ==
    /\ IsInjective(found) /\ ToSet(found) \subseteq Present \cap allow
    /\ \A m, n \in DOMAIN found :
         m < n => Distance(get(found[m]), query) <= Distance(get(found[n]), query)

(* The k nearest of the vectors allowed.                                   *)
IsExact(found, query, k, allow) ==
    /\ IsAnswer(found, query, allow)
    /\ Len(found) = Least({k, Cardinality(Present \cap allow)})
    /\ \A i \in ToSet(found), j \in (Present \cap allow) \ ToSet(found) :
         Distance(get(i), query) <= Distance(get(j), query)

(* Every search answers with vectors that are stored, in order; a small    *)
(* index answers exactly; and a filtered search, whose beam may come short *)
(* of k, never returns fewer matches than there are.                       *)
SearchesAnswer ==
    Up => \A query \in Vecs, k \in 1 .. 2 :
            /\ IsAnswer(search(query, k), query, Ids)
            /\ live <= setting.threshold => IsExact(search(query, k), query, k, Ids)
            /\ \A allow \in SUBSET Ids \ {{}} :
                 LET filtered == search_filtered(query, k, allow)
                     among == search_ids(query, k, allow)
                 IN /\ IsAnswer(filtered, query, allow) /\ IsAnswer(among, query, allow)
                    /\ Len(filtered) = Least({k, Cardinality(Present \cap allow)})
                    /\ Len(among) = Len(filtered)
                    /\ Cardinality(allow) <= setting.threshold => IsExact(among, query, k, allow)
=============================================================================
