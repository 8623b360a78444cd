------------------------------ MODULE MCVectors ------------------------------
(* Instances of Vectors for TLC.                                           *)
EXTENDS Vectors

AnyId == Permutations(Ids)

SmallGraph == [m |-> 1, m_max0 |-> 2, ef_construction |-> 2, ef_search |-> 2]

Quiet == [ops |-> {"remove", "save"}, kinds |-> {"process"}, sync |-> FALSE, crashes |-> 0,
          writes |-> 5, levels |-> {0}, threshold |-> 0]

(* No crash: every operation, both ways to search, nodes of two heights.   *)
Searching == [Quiet EXCEPT !.ops = {"remove"}, !.levels = {0, 1}, !.writes = 4]
Scanning == [Quiet EXCEPT !.ops = {"remove", "fail", "save", "compact"}, !.threshold = 2, !.writes = 4]
(* The process dies, in operations too.                                    *)
Dying == [Quiet EXCEPT !.ops = {"remove", "save", "crash_in_insert"}, !.crashes = 1, !.writes = 3]
DyingCompact == [Quiet EXCEPT !.ops = {"remove", "crash_in_compact"}, !.crashes = 1, !.writes = 4]
(* The power goes, with and without a sync on every insert.                *)
Losing == [Quiet EXCEPT !.ops = {"flush", "save", "remove", "calm", "crash_in_insert"}, !.kinds = {"process", "power"},
                        !.crashes = 1, !.writes = 3]
LosingSynced == [Losing EXCEPT !.ops = {"remove", "crash_in_insert"}, !.sync = TRUE, !.writes = 3]

WorkingSettings == {Searching, Scanning, Dying, DyingCompact, Losing, LosingSynced}
=============================================================================
