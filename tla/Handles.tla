------------------------------- MODULE Handles -------------------------------
(***************************************************************************)
(* The C interface's registry of shared engines: rust/src/ffi/mod.rs (and, *)
(* with the same shape, collection_ffi.rs and vector_ffi.rs).  Isolates of *)
(* one process open and close handles on one file; those that overlap      *)
(* share one engine, which holds the file lock from Database::open until   *)
(* its last reference is dropped.                                          *)
(*                                                                         *)
(* A registry entry is a weak reference.  The strong count of an engine is *)
(* the number of handles whose pointer leads to it, so no counter is kept. *)
(***************************************************************************)
EXTENDS Naturals

CONSTANTS
    Holders,   \* the isolates, each with at most one handle at a time
    NoOne,
    Elsewhere  \* another process, as owner of the file lock

VARIABLES
    mutex,    \* the isolate that holds REGISTRY's lock, or NoOne
    registry, \* the engines REGISTRY has weak references to
    flock,    \* the owner of the file lock: an engine, Elsewhere, or 0
    engines,  \* engines opened so far; they are numbered from 1
    handle    \* [pc, db] of each isolate's handle; db is 0 for a null pointer

handlevars == <<mutex, registry, flock, engines, handle>>

NoHandle == {"none", "failed", "closed"}

ASSUME HoldersAssumption ==
    /\ NoOne \notin Holders
    /\ Elsewhere \notin Nat

Step(h, pc, db) == handle' = [handle EXCEPT ![h] = [pc |-> pc, db |-> db]]

(* The engine's strong count is not zero.                                  *)
Alive(e) == \E h \in Holders : handle[h].db = e

-----------------------------------------------------------------------------
(* phoenix_open_ex and open_shared.                                        *)

CallOpen(h) ==
    /\ handle[h].pc \in NoHandle
    /\ Step(h, "wait", 0)
    /\ UNCHANGED <<mutex, registry, flock, engines>>

LockToOpen(h) ==
    /\ handle[h].pc = "wait"
    /\ mutex = NoOne
    /\ mutex' = h
    /\ Step(h, "look", 0)
    /\ UNCHANGED <<registry, flock, engines>>

(* retain, then the lookup and the upgrade of the weak reference.          *)
Join(h) ==
    /\ handle[h].pc = "look"
    /\ registry' = {e \in registry : Alive(e)}
    /\ \E e \in registry' : Step(h, "open", e)
    /\ mutex' = NoOne
    /\ UNCHANGED <<flock, engines>>

(* Nothing to join: Database::open, with the lock still held.              *)
StartCreate(h) ==
    /\ handle[h].pc = "look"
    /\ \A e \in registry : ~Alive(e)
    /\ registry' = {}
    /\ Step(h, "create", 0)
    /\ UNCHANGED <<mutex, flock, engines>>

Created(h) ==
    /\ handle[h].pc = "create"
    /\ flock = 0
    /\ engines' = engines + 1
    /\ flock' = engines'
    /\ registry' = registry \cup {engines'}
    /\ Step(h, "open", engines')
    /\ mutex' = NoOne

(* The file is locked (Busy), or the open failed and let go of it again.   *)
CreateFails(h) ==
    /\ handle[h].pc = "create"
    /\ Step(h, "failed", 0)
    /\ mutex' = NoOne
    /\ UNCHANGED <<registry, flock, engines>>

-----------------------------------------------------------------------------
(* phoenix_close.                                                          *)

(* The tag is poisoned and the pointer taken, before the registry's lock.  *)
CallClose(h) ==
    /\ handle[h].pc = "open"
    /\ Step(h, "closing", handle[h].db)
    /\ UNCHANGED <<mutex, registry, flock, engines>>

(* Wrong on purpose: drops the engine without the registry's lock.         *)
CloseUnlocked(h) ==
    /\ handle[h].pc = "closing"
    /\ UNCHANGED mutex
    /\ Step(h, "drop", handle[h].db)
    /\ UNCHANGED <<registry, flock, engines>>

LockToClose(h) ==
    /\ handle[h].pc = "closing"
    /\ mutex = NoOne
    /\ mutex' = h
    /\ Step(h, "drop", handle[h].db)
    /\ UNCHANGED <<registry, flock, engines>>

(* Dropping one of several references.                                     *)
DropOne(h) ==
    /\ handle[h].pc = "drop"
    /\ \E g \in Holders \ {h} : handle[g].db = handle[h].db
    /\ Step(h, "closed", 0)
    /\ mutex' = NoOne
    /\ UNCHANGED <<registry, flock, engines>>

(* Wrong on purpose: drops the engine whoever else has it.                 *)
DropAnyway(h) ==
    /\ handle[h].pc = "drop"
    /\ Step(h, "last", 0)
    /\ UNCHANGED <<mutex, registry, flock, engines>>

(* The last reference: the strong count is zero while Database::drop       *)
(* closes the watchers and checkpoints ...                                 *)
DropLast(h) ==
    /\ handle[h].pc = "drop"
    /\ \A g \in Holders \ {h} : handle[g].db # handle[h].db
    /\ Step(h, "last", 0)
    /\ UNCHANGED <<mutex, registry, flock, engines>>

(* ... and then lets go of the file.                                       *)
Dropped(h) ==
    /\ handle[h].pc = "last"
    /\ flock' = 0
    /\ Step(h, "closed", 0)
    /\ mutex' = NoOne
    /\ UNCHANGED <<registry, engines>>

-----------------------------------------------------------------------------
(* Another process takes the file lock or gives it back.                   *)
OtherProcess ==
    /\ flock \in {0, Elsewhere}
    /\ flock' = IF flock = 0 THEN Elsewhere ELSE 0
    /\ UNCHANGED <<mutex, registry, engines, handle>>

HandlesInit ==
    /\ mutex = NoOne
    /\ registry = {}
    /\ flock = 0
    /\ engines = 0
    /\ handle = [h \in Holders |-> [pc |-> "none", db |-> 0]]

(* What the thread inside phoenix_open_ex or phoenix_close does next.      *)
InCall(h) ==
    \/ LockToOpen(h) \/ Join(h) \/ StartCreate(h) \/ Created(h) \/ CreateFails(h)
    \/ LockToClose(h) \/ DropOne(h) \/ DropLast(h) \/ Dropped(h)

HandlesNext ==
    \/ \E h \in Holders : CallOpen(h) \/ CallClose(h) \/ InCall(h)
    \/ OtherProcess

HandlesSpec == HandlesInit /\ [][HandlesNext]_handlevars

-----------------------------------------------------------------------------
(* Properties.                                                             *)

(* All handles share one engine, which owns the file lock from the open    *)
(* that created it to the end of the last close, however opens and closes  *)
(* overlap ("they all go through one engine and one lock",                 *)
(* ffi/mod.rs:101-102).                                                    *)
OneEngine ==
    \A h \in Holders : handle[h].db # 0 =>
        /\ flock = handle[h].db
        /\ \A g \in Holders : handle[g].db \in {0, handle[h].db}

(* An open that goes to the file never meets this process's own lock on    *)
(* it: the engine that is going away has gone, and only another process    *)
(* makes an open fail as Busy (ffi/mod.rs:104-107).                        *)
NeverBusyWithItself ==
    \A h \in Holders : handle[h].pc = "create" => flock \in {0, Elsewhere}
=============================================================================
