------------------------------ MODULE MCWatch -------------------------------
(* TLC instance of Watch.  `all' watches every key, `some' only k2.        *)
EXTENDS Watch

CONSTANTS all, some, k1, k2

MCObserved == [s \in Watchers |-> IF s = all THEN Keys ELSE {k2}]

Setting(writers, watchers, keys, capacity, commits, resets) ==
    [writers |-> writers, watchers |-> watchers, keys |-> keys, capacity |-> capacity,
     commits |-> commits, restores |-> resets]

OneWriter == {CHOOSE w \in Writers : TRUE}

(* A two-place queue behind two writers' commits of up to two keys each; a *)
(* one-place queue with a restore beside a commit; and two watchers with   *)
(* one-place queues around one writer.                                     *)
MCSettings == {Setting(Writers, {all}, {k1, k2}, 2, 2, 0),
               Setting(Writers, {all}, {k2}, 1, 1, 1),
               Setting(OneWriter, {all, some}, {k2}, 1, 1, 1)}

(* Two writers, and a queue that never overflows.                          *)
KeepsUp == {Setting(Writers, {all}, {k2}, 2, 2, 0)}
=============================================================================
