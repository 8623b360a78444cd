---------------------------- MODULE MCCollections ----------------------------
(* Instances of Collections for TLC.                                       *)
EXTENDS Collections

A == <<97>>
AB == <<97, 98>>
TwoIds == {A, AB}

Str(bytes) == [t |-> "str", s |-> bytes]
Num(n) == [t |-> "num", sign |-> IF n < 0 THEN 1 ELSE 0, mag |-> IF n < 0 THEN -n ELSE n]
Obj(map) == [t |-> "obj", map |-> map]
Arr(items) == [t |-> "arr", items |-> items]
Null == [t |-> "null"]

Tags == Obj(<<102>> :> Arr(<<Str(<<97>>), Str(<<0>>), Str(<<97>>)>>))
Flag == Obj(<<102>> :> Num(1))

Doc(id, meta, has_text, terms, v) ==
    [id |-> id, meta |-> meta, has_text |-> has_text, terms |-> terms, vec |-> v]
Tagged(id) == Doc(id, Tags, TRUE, <<"x", "y", "x">>, 1)
Plain(id) == Doc(id, Flag, TRUE, <<"y">>, 2)
Bare(id) == Doc(id, Null, FALSE, <<>>, NoVector)

(* Two documents, one replaced, one whose vector goes, one id twice.       *)
SomeBatches == {<<Tagged(A)>>, <<Plain(A), Tagged(AB)>>, <<Bare(A)>>,
                <<Tagged(AB), Bare(AB), Plain(AB)>>, <<Plain(A), Bare(A)>>}
SomeDeletes == {<<A>>, <<AB, A, AB>>}

Calm == [text_index |-> TRUE, sync |-> TRUE, maintain |-> TRUE, faults |-> {}, kinds |-> {"process"},
         crashes |-> 0, steps |-> 3]

Indexed == Calm
Unindexed == [Calm EXCEPT !.text_index = FALSE, !.maintain = FALSE]
Failing == [Calm EXCEPT !.faults = {"vectors", "commit", "undo"}]
FailingRecovery == [Calm EXCEPT !.faults = {"vectors", "commit"}, !.crashes = 2, !.steps = 2]
Crashing == [Calm EXCEPT !.sync = FALSE, !.crashes = 2, !.steps = 2]
PowerLoss == [Calm EXCEPT !.kinds = {"process", "power"}, !.crashes = 2, !.steps = 2]

WorkingSettings == {Indexed, Unindexed, Failing, FailingRecovery, Crashing, PowerLoss}
=============================================================================
