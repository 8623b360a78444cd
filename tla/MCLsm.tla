-------------------------------- MODULE MCLsm --------------------------------
(* TLC instance of Lsm: two keys whose filter bits collide.                *)
EXTENDS Lsm

MCHash1 == [k \in Keys |-> k]
MCHash2 == [k \in Keys |-> 1]

Levels(trigger, n) == [l0_compaction_trigger |-> trigger, base_level_bytes |-> 1,
                       size_multiplier |-> 1, max_levels |-> n]

Fault(failing, crashBound, writeBound, levelConfigs) ==
    [faults |-> failing, crashes |-> crashBound, writes |-> writeBound,
     configs |-> levelConfigs]

Deep == Levels(1, 3)
Shallow == Levels(1, 2)
Lazy == Levels(2, 3)

Crashing == {Fault({}, 0, 3, <<Lazy>>), Fault({}, 1, 2, <<Deep, Shallow>>),
             Fault({}, 2, 1, <<Shallow, Deep, Lazy>>),
             Fault({"write", "rewrite", "append", "swap"}, 0, 2, <<Shallow>>)}
=============================================================================
