------------------------------- MODULE Ordered -------------------------------
(* Finite sets put in the order of a strict total order on them, and the   *)
(* extremes of such an order.                                              *)
EXTENDS Naturals, Sequences, FiniteSets

SortBy(S, Less(_, _)) ==
    [i \in 1 .. Cardinality(S) |->
        CHOOSE x \in S : Cardinality({y \in S : Less(y, x)}) = i - 1]

(* Of x, evaluated once, and of a sequence with its elements evaluated.     *)
With(x, Of(_)) == CHOOSE y \in {Of(v) : v \in {x}} : TRUE
Listed(s) == s \o <<>>

(* A finite set in some order, and sequences put behind one another.  (What *)
(* SequencesExt offers comes with definitions that slow down every proof.)  *)
Listing(S) ==
    CHOOSE f \in [1 .. Cardinality(S) -> S] :
        \A i, j \in DOMAIN f : f[i] = f[j] => i = j

Joined(seqs) ==
    LET join[i \in 0 .. Len(seqs)] == IF i = 0 THEN <<>> ELSE join[i - 1] \o seqs[i]
    IN  join[Len(seqs)]

Least(S) == CHOOSE x \in S : \A y \in S : x <= y
Greatest(S) == CHOOSE x \in S : \A y \in S : y <= x
=============================================================================
