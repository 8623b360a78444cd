----------------------------- MODULE MCIsolates ------------------------------
(* TLC instance of Isolates.                                               *)
EXTENDS Isolates

Setting(n, closing, happens) == [calls |-> n, closers |-> closing, events |-> happens]

(* Requests around overlapping closes and a death; a subscription; and     *)
(* opens and closes that meet in the registry.                             *)
MCSettings == {Setting(2, {"first", "second"}, {"die"}),
               Setting(0, {"first", "second"}, {"watch"}),
               Setting(0, {"first"}, {"watch", "cancel"}),
               Setting(0, {"first"}, {"watch", "break", "spawn"}),
               Setting(0, {"first"}, {"watch", "app"}),
               Setting(1, {"first"}, {"app", "other", "die"}),
               Setting(0, {"first"}, {"app", "fail"})}
=============================================================================
