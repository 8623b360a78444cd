------------------------------- MODULE Chains -------------------------------
(* The versions of one key (rust/src/txn.rs): a sequence sorted by commit  *)
(* timestamp, over the value that the tree holds for the key.              *)
EXTENDS Integers, Sequences

CONSTANTS
    Keys,       \* the keys clients use
    Values,     \* the values clients write
    None,       \* a tombstone in a chain, a missing key in the tree
    Absent      \* no entry in a write set

ASSUME NoneAssumption == None \notin Values
ASSUME AbsentAssumption == Absent \notin Values \cup {None}

Slot == Values \cup {None}
Version == [ts : Nat, val : Slot]

(* The position of the newest version of a chain at or below ts, 0 when    *)
(* there is none: iter().rev().find and rposition over a sorted chain.     *)
LastAt(chain, ts) ==
    IF \E i \in 1 .. Len(chain) : chain[i].ts <= ts
    THEN CHOOSE i \in 1 .. Len(chain) :
            /\ chain[i].ts <= ts
            /\ \A j \in (i + 1) .. Len(chain) : chain[j].ts > ts
    ELSE 0

(* What a chain over a base value shows at ts.                             *)
AsOf(chain, base, ts) ==
    IF LastAt(chain, ts) = 0 THEN base ELSE chain[LastAt(chain, ts)].val

-----------------------------------------------------------------------------
(* What a chain keeps of the commits to a key, for the proofs.             *)

(* An entry of history.                                                    *)
Committed == [ts : Nat, val : Slot, snap : Nat]

(* A chain c over a tree value base stands for the history h: the chain is *)
(* the end of h, and base is the version just before it.                   *)
Represents(h, c, base) ==
    LET cut == Len(h) - Len(c) IN
    /\ cut >= 0
    /\ \A i \in 1 .. Len(c) : c[i].ts = h[cut + i].ts /\ c[i].val = h[cut + i].val
    /\ base = IF cut = 0 THEN None ELSE h[cut].val

(* The version in the tree is no newer than s.                             *)
CutBelow(h, c, s) ==
    Len(h) > Len(c) => h[Len(h) - Len(c)].ts <= s

(* Timestamps grow along h and stay within bound.                          *)
Sorted(h, bound) ==
    /\ \A i \in 1 .. Len(h) : h[i].ts <= bound
    /\ \A i, j \in 1 .. Len(h) : i < j => h[i].ts < h[j].ts

(* The chain c, with nothing up to lo, stands for h over a tree as of lo.  *)
Continues(h, c, lo) ==
    /\ c \in Seq(Version)
    /\ Represents(h, c, AsOf(h, None, lo))
    /\ CutBelow(h, c, lo)
    /\ \A i \in 1 .. Len(c) : c[i].ts > lo

(* g is what h has up to ts.                                               *)
CutAt(g, h, ts) ==
    /\ g \in Seq(Committed)
    /\ Len(g) <= Len(h)
    /\ \A i \in 1 .. Len(g) : g[i] = h[i]
    /\ \A i \in 1 .. Len(h) : i <= Len(g) <=> h[i].ts <= ts
    /\ Sorted(g, ts)
    /\ \A s \in Nat : s <= ts => AsOf(g, None, s) = AsOf(h, None, s)
=============================================================================
