------------------------------ MODULE MCEngine ------------------------------
(* TLC instance of Engine.  Two keys where whole commits matter, one where *)
(* a third transaction does.                                               *)
EXTENDS Durability

Setting(sync, faults, bound, txns, keys) ==
    [sync_on_commit |-> sync, faults |-> faults, crashes |-> bound,
     txns |-> txns, keys |-> keys]

OneKey == {CHOOSE k \in Keys : TRUE}

(* Two crashes and no error; nothing synced; checkpoints that fail, and    *)
(* are retried; and commits that fail.                                     *)
AllSettings == {Setting(TRUE, {}, 2, 2, Keys),
                Setting(FALSE, {}, 1, 3, OneKey),
                Setting(TRUE, {"flush", "reset"}, 1, 2, OneKey),
                Setting(TRUE, {"merge", "reset"}, 1, 2, OneKey),
                Setting(TRUE, {"append", "sync"}, 1, 2, OneKey)}
=============================================================================
