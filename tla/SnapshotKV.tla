----------------------------- MODULE SnapshotKV -----------------------------
(***************************************************************************)
(* What PhoenixDB promises a client, with no versions, log or pages: a     *)
(* key-value map under snapshot isolation (README of the repository,       *)
(* rust/src/txn.rs:1-25).  A transaction works on a private copy of the    *)
(* map; it may commit only while nobody has committed a key it wrote; a    *)
(* crash ends every transaction and keeps the map, except that a commit    *)
(* that had not been acknowledged may have taken effect.                   *)
(***************************************************************************)
EXTENDS Integers

CONSTANTS Keys, Values, None, Absent, TxnIds

VARIABLES
    store,  \* the committed map: a value, or None, for every key
    limbo,  \* after a crash: the maps recovery may come up with
    txns    \* live transactions: [view, read_only, writes, stale]

kvvars == <<store, limbo, txns>>

Up == limbo = {}

Written(t) == {k \in Keys : txns[t].writes[k] # Absent}

Overlay(t) == [k \in Keys |-> IF k \in Written(t) THEN txns[t].writes[k] ELSE store[k]]

Without(t) == [u \in DOMAIN txns \ {t} |-> txns[u]]

KVInit ==
    /\ store = [k \in Keys |-> None]
    /\ limbo = {}
    /\ txns = [t \in {} |-> 0]

Begin(t, read_only) ==
    /\ t \notin DOMAIN txns
    /\ txns' = [u \in DOMAIN txns \cup {t} |->
                    IF u = t
                    THEN [view |-> store, read_only |-> read_only,
                          writes |-> [k \in Keys |-> Absent], stale |-> {}]
                    ELSE txns[u]]
    /\ UNCHANGED <<store, limbo>>

Stage(t, k, write) ==
    /\ ~txns[t].read_only
    /\ txns' = [txns EXCEPT ![t].writes[k] = write]
    /\ UNCHANGED <<store, limbo>>

Put(t, k, v) == Stage(t, k, v)

Delete(t, k) ==
    /\ (IF k \in Written(t) THEN txns[t].writes[k] ELSE txns[t].view[k]) # None
    /\ Stage(t, k, None)

End(t) ==
    /\ txns' = Without(t)
    /\ UNCHANGED <<store, limbo>>

MayCommit(t) ==
    /\ ~txns[t].read_only
    /\ Written(t) # {}
    /\ Written(t) \cap txns[t].stale = {}

Commit(t) ==
    /\ MayCommit(t)
    /\ store' = Overlay(t)
    /\ UNCHANGED limbo
    /\ txns' = [u \in DOMAIN txns \ {t} |->
                    [txns[u] EXCEPT !.stale = @ \cup Written(t)]]

(* A crash, or another one before recovery is complete.                    *)
Crash ==
    /\ txns' = [t \in {} |-> 0]
    /\ store' = [k \in Keys |-> None]
    /\ limbo' # {}
    /\ limbo' \subseteq IF Up
                       THEN {store} \cup {Overlay(t) : t \in {u \in DOMAIN txns : MayCommit(u)}}
                       ELSE limbo

Recover ==
    /\ store' \in limbo
    /\ limbo' = {}
    /\ UNCHANGED txns

KVNext ==
    \/ Up /\ \E t \in TxnIds, ro \in BOOLEAN : Begin(t, ro)
    \/ Up /\ \E t \in DOMAIN txns :
        \/ \E k \in Keys, v \in Values : Put(t, k, v)
        \/ \E k \in Keys : Delete(t, k)
        \/ End(t)
        \/ Commit(t)
    \/ Crash
    \/ Recover

KVSpec == KVInit /\ [][KVNext]_kvvars
=============================================================================
