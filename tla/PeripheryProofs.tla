-------------------------- MODULE PeripheryProofs --------------------------
(***************************************************************************)
(* Proofs about what surrounds the engine: the flush its pager makes of    *)
(* the pages is all or nothing (Pager), the isolates of a process share    *)
(* one engine (Handles), and no watcher sleeps through a change (Watch).   *)
(* The three modules share no state.                                       *)
(***************************************************************************)
EXTENDS Pager, Handles, Watch, TLAPS

-----------------------------------------------------------------------------
(* The journaled flush is atomic for any number of pages, flushes and      *)
(* crashes, when no flush fails and crashes are of one kind: of the        *)
(* process, or of the machine.                                             *)
(*                                                                         *)
(* FileInv says what file and journal are worth at each step of a flush    *)
(* and of a replay; the crash of a process adds nothing to it.  SafeInv    *)
(* says how much of them is on the disk; a power loss leaves a mixture of  *)
(* the two, and the pages that are torn are those the journal still has.   *)

(* The settings for which atomicity is claimed.                            *)
OneKind == ~setting.io_errors /\ setting.crash_kinds \in {{"process"}, {"power"}}

IsPageMap(f) == f = [p \in Pages |-> f[p]]

(* The journal's images are the pages of a flush that may be shown whole,  *)
(* and those not in todo are already in the file.                          *)
Covers(images) ==
    /\ journal = Complete(images)
    /\ Over(images, file) \in states
    /\ todo \subseteq DOMAIN images
    /\ \A p \in Pages : p \in DOMAIN images \ todo => file[p] = images[p]

(* The journal j and the file f are worth a flush that may be shown.       *)
Recoverable(j, f) ==
    \/ j \in {Empty, Partial} /\ f \in states
    \/ j = Complete(j.images) /\ Over(j.images, f) \in states

FileInv ==
    /\ IsPageMap(file)
    /\ pc = "idle" => journal = Empty /\ states = {file}
    /\ pc \in {"journal", "journal_sync"} =>
            /\ journal = IF pc = "journal" THEN Partial ELSE Complete(FlushImages)
            /\ {file, Over(FlushImages, file)} \subseteq states
    /\ pc \in {"write", "clear"} => Covers(FlushImages)
    /\ pc = "clear" => file \in states /\ Over(FlushImages, file) = file
    /\ pc \in {"clear_sync", "discard_sync"} => journal = Empty /\ file \in states
    /\ pc = "down" => Recoverable(journal, file)
    /\ pc = "replay" => Covers(journal.images)
    /\ pc \in {"idle", "journal", "journal_sync", "write", "clear", "clear_sync", "down",
               "replay", "discard_sync"}

(* Where the file on disk is behind, the journal has the page.             *)
Backed(images) == \A p \in Pages \ DOMAIN images : safe[p] = file[p]

(* What is left of the journal changes nothing.                            *)
Spent ==
    \/ jsafe = Partial
    \/ jsafe = Complete(jsafe.images) /\ Over(jsafe.images, file) = file

SafeInv ==
    /\ IsPageMap(safe)
    /\ pc \in {"idle", "journal", "journal_sync"} => jsafe = Empty
    /\ pc \in {"write", "clear", "down", "replay"} => jsafe = journal
    /\ pc \in {"clear_sync", "discard_sync"} => Spent
    /\ pc \notin {"write", "replay"} => safe = file
    /\ pc = "write" => Backed(FlushImages)
    /\ pc = "replay" => Backed(journal.images)

PagerInv == OneKind /\ FileInv /\ ("power" \in setting.crash_kinds => SafeInv)

(* A new database: an empty journal, and the file on disk.                 *)
LEMMA InitInv == Init /\ OneKind => PagerInv
BY DEF Init, PagerInv, FileInv, SafeInv, IsPageMap

(* Staging pages changes no file.                                          *)
LEMMA StagingKeepsInv ==
    ASSUME PagerInv, pc = "idle", NotStaging
    PROVE  PagerInv'
BY DEF PagerInv, OneKind, FileInv, SafeInv, NotStaging, IsPageMap

(* Writing over what is there with what is there, or with nothing.         *)
LEMMA OverFacts ==
    ASSUME NEW images, NEW f, IsPageMap(f)
    PROVE  /\ Over(Nothing, f) = f
           /\ IsPageMap(Over(images, f))
           /\ Over(images, Over(images, f)) = Over(images, f)
           /\ (\A p \in Pages : p \in DOMAIN images => f[p] = images[p]) => Over(images, f) = f
BY DEF Over, IsPageMap, Nothing

(* Two files that agree outside the images are the same under them.        *)
LEMMA OverAgrees ==
    ASSUME NEW images, NEW f, NEW g, \A p \in Pages \ DOMAIN images : f[p] = g[p]
    PROVE  Over(images, f) = Over(images, g)
BY DEF Over

(* What is staged stays as it is while a flush runs.                       *)
LEMMA ImagesKept == UNCHANGED staged => FlushImages' = FlushImages
BY DEF staged, FlushImages

(* The steps of a flush before any page is written in place.               *)
LEMMA JournalKeepsInv ==
    ASSUME PagerInv, TruncateJournal \/ WriteJournal \/ SyncJournal
    PROVE  PagerInv'
<1>1. FlushImages' = FlushImages /\ OneKind'
  BY ImagesKept DEF PagerInv, OneKind, TruncateJournal, WriteJournal, SyncJournal
<1>2. FileInv'
  <2>1. CASE TruncateJournal
    BY <1>1, <2>1 DEF PagerInv, FileInv, TruncateJournal, IsPageMap
  <2>2. CASE WriteJournal
    BY <1>1, <2>2 DEF PagerInv, FileInv, WriteJournal, IsPageMap
  <2>3. CASE SyncJournal
    BY <1>1, <2>3 DEF PagerInv, FileInv, SyncJournal, IsPageMap, Covers
  <2>. QED  BY <2>1, <2>2, <2>3
<1>3. ASSUME "power" \in setting'.crash_kinds PROVE SafeInv'
  <2>. SafeInv
    BY <1>3 DEF PagerInv, TruncateJournal, WriteJournal, SyncJournal
  <2>1. CASE TruncateJournal \/ WriteJournal
    BY <2>1 DEF PagerInv, FileInv, SafeInv, TruncateJournal, WriteJournal, IsPageMap
  <2>2. CASE SyncJournal
    BY <1>1, <2>2 DEF SafeInv, SyncJournal, IsPageMap, Backed
  <2>. QED  BY <2>1, <2>2
<1>. QED  BY <1>1, <1>2, <1>3 DEF PagerInv

(* One page written in place, of a flush or of a replay: the file under    *)
(* the journal's images does not change.                                   *)
LEMMA WriteCovers ==
    ASSUME NEW images, IsPageMap(file), Covers(images), WriteInPlace(images),
           UNCHANGED <<journal, states>>
    PROVE  /\ IsPageMap(file')
           /\ journal' = Complete(images)
           /\ Over(images, file') \in states'
           /\ \A p \in Pages : p \in DOMAIN images \ todo' => file'[p] = images[p]
           /\ \A p \in Pages \ DOMAIN images : file'[p] = file[p]
           /\ todo' \subseteq DOMAIN images
<1>1. PICK w \in todo : file' = [file EXCEPT ![w] = images[w]] /\ todo' = todo \ {w}
  BY Zenon DEF WriteInPlace
<1>2. IsPageMap(file')
  BY <1>1 DEF IsPageMap
<1>3. \A p \in Pages \ DOMAIN images : file'[p] = file[p]
  BY <1>1 DEF IsPageMap, Covers
<1>4. Over(images, file') = Over(images, file)
  BY <1>3, OverAgrees
<1>5. \A p \in Pages : p \in DOMAIN images \ todo' => file'[p] = images[p]
  BY <1>1 DEF IsPageMap, Covers
<1>. QED  BY <1>1, <1>2, <1>3, <1>4, <1>5 DEF Covers

LEMMA WritePageKeepsInv ==
    ASSUME PagerInv, WritePage
    PROVE  PagerInv'
<1>1. FlushImages' = FlushImages /\ OneKind'
  BY ImagesKept DEF PagerInv, OneKind, WritePage
<1>2. IsPageMap(file) /\ Covers(FlushImages)
  BY DEF PagerInv, FileInv, WritePage
<1>3. /\ IsPageMap(file') /\ Covers(FlushImages)'
      /\ \A p \in Pages \ DOMAIN FlushImages : file'[p] = file[p]
  BY <1>1, <1>2, WriteCovers DEF WritePage, Covers
<1>4. FileInv'
  BY <1>3 DEF FileInv, WritePage, IsPageMap
<1>5. ASSUME "power" \in setting'.crash_kinds PROVE SafeInv'
  BY <1>1, <1>3, <1>5 DEF PagerInv, SafeInv, WritePage, Backed, IsPageMap
<1>. QED  BY <1>1, <1>4, <1>5 DEF PagerInv

LEMMA ReplayPageKeepsInv ==
    ASSUME PagerInv, ReplayPage
    PROVE  PagerInv'
<1>1. journal' = journal /\ OneKind'
  BY DEF PagerInv, OneKind, ReplayPage
<1>2. IsPageMap(file) /\ Covers(journal.images)
  BY DEF PagerInv, FileInv, ReplayPage
<1>3. /\ IsPageMap(file') /\ Covers(journal.images)'
      /\ \A p \in Pages \ DOMAIN journal.images : file'[p] = file[p]
  BY <1>1, <1>2, WriteCovers DEF ReplayPage, Covers
<1>4. FileInv'
  BY <1>3 DEF FileInv, ReplayPage, IsPageMap
<1>5. ASSUME "power" \in setting'.crash_kinds PROVE SafeInv'
  BY <1>1, <1>3, <1>5 DEF PagerInv, SafeInv, ReplayPage, Backed, IsPageMap
<1>. QED  BY <1>1, <1>4, <1>5 DEF PagerInv

(* The end of a flush: every page is in the file.                          *)
LEMMA FlushEndKeepsInv ==
    ASSUME PagerInv, SyncFile \/ clear_journal \/ FinishFlush
    PROVE  PagerInv'
<1>1. OneKind' /\ file' = file
  BY DEF PagerInv, OneKind, SyncFile, clear_journal, FinishFlush
<1>2. CASE SyncFile
  <2>1. FlushImages' = FlushImages
    BY <1>2, ImagesKept DEF SyncFile
  <2>2. Over(FlushImages, file) = file
    BY <1>2, OverFacts DEF PagerInv, FileInv, SyncFile, Covers
  <2>3. FileInv'
    BY <1>2, <2>1, <2>2 DEF PagerInv, FileInv, SyncFile, Covers, IsPageMap
  <2>4. ASSUME "power" \in setting'.crash_kinds PROVE SafeInv'
    BY <1>2, <2>4 DEF PagerInv, FileInv, SafeInv, SyncFile, IsPageMap
  <2>. QED  BY <1>1, <2>3, <2>4 DEF PagerInv
<1>3. CASE clear_journal
  <2>1. FileInv'
    BY <1>3 DEF PagerInv, FileInv, clear_journal, IsPageMap
  <2>2. ASSUME "power" \in setting'.crash_kinds PROVE SafeInv'
    <3>1. Spent'
      BY <1>3, <2>2 DEF PagerInv, FileInv, SafeInv, clear_journal, Covers, Spent, Complete
    <3>. QED  BY <1>3, <2>2, <3>1 DEF PagerInv, SafeInv, clear_journal, IsPageMap
  <2>. QED  BY <1>1, <2>1, <2>2 DEF PagerInv
<1>4. CASE FinishFlush
  <2>1. FileInv'
    BY <1>4 DEF PagerInv, FileInv, FinishFlush, IsPageMap
  <2>2. ASSUME "power" \in setting'.crash_kinds PROVE SafeInv'
    BY <1>4, <2>2 DEF PagerInv, SafeInv, FinishFlush, IsPageMap
  <2>. QED  BY <1>1, <2>1, <2>2 DEF PagerInv
<1>. QED  BY <1>2, <1>3, <1>4

(* At every step the operating system shows something that recovers.       *)
LEMMA AlwaysRecoverable ==
    ASSUME PagerInv
    PROVE  Recoverable(journal, file)
BY DEF PagerInv, FileInv, Recoverable, Covers, Complete

LEMMA ProcessCrashKeepsInv ==
    ASSUME PagerInv, ProcessCrash
    PROVE  PagerInv'
<1>1. OneKind' /\ "power" \notin setting'.crash_kinds
  BY DEF PagerInv, OneKind, ProcessCrash, Die
<1>2. FileInv'
  BY AlwaysRecoverable DEF PagerInv, FileInv, ProcessCrash, Die, Recoverable, IsPageMap
<1>. QED  BY <1>1, <1>2 DEF PagerInv

(* A power loss takes back only what the journal has, or what is not       *)
(* needed any more.                                                        *)
LEMMA PowerLossKeepsInv ==
    ASSUME PagerInv, PowerLoss
    PROVE  PagerInv'
<1>. SafeInv /\ pc # "down"
  BY DEF PagerInv, PowerLoss, Die
<1>1. OneKind' /\ states' = states /\ pc' = "down" /\ safe' = file' /\ jsafe' = journal'
  BY DEF PagerInv, OneKind, PowerLoss, Die
<1>2. IsPageMap(file') /\ \A p \in Pages : file[p] = safe[p] => file'[p] = file[p]
  BY DEF PowerLoss, IsPageMap
<1>3. journal' \in IF journal = jsafe THEN {jsafe} ELSE {journal, jsafe, Partial}
  BY DEF PowerLoss
<1>4. Recoverable(journal', file')
  <2>1. CASE pc \in {"write", "replay"}
    <3>1. PICK images : Covers(images) /\ Backed(images) /\ jsafe = journal
      BY <2>1 DEF PagerInv, FileInv, SafeInv
    <3>2. Over(images, file') = Over(images, file)
      BY <1>2, <3>1, OverAgrees DEF Backed
    <3>. QED  BY <1>3, <3>1, <3>2 DEF Covers, Recoverable, Complete
  <2>2. CASE pc \notin {"write", "replay"}
    <3>1. file' = file
      BY <1>2, <2>2 DEF PagerInv, FileInv, SafeInv, IsPageMap
    <3>2. CASE journal = jsafe
      BY <1>3, <3>1, <3>2, AlwaysRecoverable
    <3>3. CASE journal # jsafe
      <4>1. file \in states
        BY <2>2, <3>3 DEF PagerInv, FileInv, SafeInv
      <4>2. Recoverable(jsafe, file) /\ Recoverable(Partial, file)
        BY <2>2, <3>3, <4>1 DEF PagerInv, FileInv, SafeInv, Spent, Recoverable
      <4>. QED  BY <1>3, <3>1, <3>3, <4>2, AlwaysRecoverable
    <3>. QED  BY <3>2, <3>3
  <2>. QED  BY <2>1, <2>2
<1>5. FileInv' /\ SafeInv'
  BY <1>1, <1>2, <1>4 DEF FileInv, SafeInv, Recoverable, IsPageMap
<1>. QED  BY <1>1, <1>5 DEF PagerInv

(* Recovery, and the open that follows it.                                 *)
LEMMA OpenKeepsInv ==
    ASSUME PagerInv, OpenClean \/ DiscardJournal \/ StartReplay \/ FinishReplay \/ FinishOpen
    PROVE  PagerInv'
<1>1. OneKind' /\ file' = file
  BY DEF PagerInv, OneKind, OpenClean, DiscardJournal, StartReplay, FinishReplay, FinishOpen
<1>2. CASE OpenClean \/ FinishOpen
  <2>1. FileInv'
    BY <1>1, <1>2 DEF PagerInv, FileInv, OpenClean, FinishOpen, Opened, Recoverable, IsPageMap
  <2>2. ASSUME "power" \in setting'.crash_kinds PROVE SafeInv'
    BY <1>2, <2>2 DEF PagerInv, SafeInv, OpenClean, FinishOpen, Opened, IsPageMap
  <2>. QED  BY <1>1, <2>1, <2>2 DEF PagerInv
<1>3. CASE DiscardJournal
  <2>1. FileInv'
    BY <1>3 DEF PagerInv, FileInv, DiscardJournal, Recoverable, IsPageMap, Partial, Complete
  <2>2. ASSUME "power" \in setting'.crash_kinds PROVE SafeInv'
    <3>1. Spent'
      BY <1>3, <2>2 DEF PagerInv, SafeInv, DiscardJournal, Spent
    <3>. QED  BY <1>3, <2>2, <3>1 DEF PagerInv, SafeInv, DiscardJournal, IsPageMap
  <2>. QED  BY <1>1, <2>1, <2>2 DEF PagerInv
<1>4. CASE StartReplay
  <2>1. FileInv'
    <3>1. Covers(journal.images)'
      BY <1>4 DEF PagerInv, FileInv, StartReplay, Recoverable, Covers, Empty, Partial
    <3>. QED  BY <1>4, <3>1 DEF PagerInv, FileInv, StartReplay, IsPageMap
  <2>2. ASSUME "power" \in setting'.crash_kinds PROVE SafeInv'
    BY <1>4, <2>2 DEF PagerInv, SafeInv, StartReplay, Backed, IsPageMap
  <2>. QED  BY <1>1, <2>1, <2>2 DEF PagerInv
<1>5. CASE FinishReplay
  <2>1. Covers(journal.images) /\ Over(journal.images, file) = file
    BY <1>5, OverFacts DEF PagerInv, FileInv, FinishReplay, Covers
  <2>2. FileInv'
    BY <1>5, <2>1 DEF PagerInv, FileInv, FinishReplay, Covers, IsPageMap
  <2>3. ASSUME "power" \in setting'.crash_kinds PROVE SafeInv'
    <3>1. Spent'
      BY <1>5, <2>1, <2>3 DEF PagerInv, SafeInv, FinishReplay, Spent, Covers
    <3>. QED  BY <1>5, <2>3, <3>1 DEF PagerInv, FileInv, SafeInv, FinishReplay, IsPageMap
  <2>. QED  BY <1>1, <2>2, <2>3 DEF PagerInv
<1>. QED  BY <1>2, <1>3, <1>4, <1>5

(* Every step of the pager keeps the invariant.                            *)
LEMMA NextKeepsInv ==
    ASSUME PagerInv, [Next]_vars
    PROVE  PagerInv'
<1>1. CASE \E c \in Contents : set_meta(c) \/ \E p \in Pages \ {0} : write_page(p, c)
  BY <1>1, StagingKeepsInv DEF set_meta, write_page
<1>2. CASE discard_dirty
  BY <1>2, StagingKeepsInv DEF discard_dirty
<1>3. CASE TruncateJournal \/ WriteJournal \/ SyncJournal
  BY <1>3, JournalKeepsInv
<1>4. CASE WritePage \/ ReplayPage
  BY <1>4, WritePageKeepsInv, ReplayPageKeepsInv
<1>5. CASE SyncFile \/ clear_journal \/ FinishFlush
  BY <1>5, FlushEndKeepsInv
<1>6. CASE FlushFails
  BY <1>6 DEF PagerInv, OneKind, FlushFails
<1>7. CASE ProcessCrash \/ PowerLoss
  BY <1>7, ProcessCrashKeepsInv, PowerLossKeepsInv
<1>8. CASE OpenClean \/ DiscardJournal \/ StartReplay \/ FinishReplay \/ FinishOpen
  BY <1>8, OpenKeepsInv
<1>9. CASE UNCHANGED vars
  <2>1. FlushImages' = FlushImages
    BY <1>9, ImagesKept DEF vars
  <2>. QED
    BY <1>9, <2>1 DEF vars, PagerInv, OneKind, FileInv, SafeInv, IsPageMap, Covers, Backed,
                      Spent, Recoverable
<1>. QED
  BY <1>1, <1>2, <1>3, <1>4, <1>5, <1>6, <1>7, <1>8, <1>9 DEF Next

(* From the first state on, the invariant holds.                           *)
LEMMA Invariance == Spec /\ OneKind => []PagerInv
<1>1. Init /\ OneKind => PagerInv
  BY InitInv
<1>2. PagerInv /\ [Next]_vars => PagerInv'
  BY NextKeepsInv
<1>. QED  BY <1>1, <1>2, PTL DEF Spec

(* Crash atomicity of Pager::flush and of recover_journal (pager.rs:14-27),*)
(* for any set of pages and any number of flushes and crashes: whatever    *)
(* the crash interrupted, the file under its journal is one flush, whole.  *)
THEOREM FlushIsAtomic == Spec /\ OneKind => []FileIsOneFlush
<1>1. PagerInv => FileIsOneFlush
  <2>. SUFFICES ASSUME PagerInv, pc = "down" PROVE FileIsOneFlush
    BY DEF FileIsOneFlush
  <2>1. Recoverable(journal, file) /\ IsPageMap(file)
    BY DEF PagerInv, FileInv
  <2>2. CASE journal \in {Empty, Partial} /\ file \in states
    BY <2>1, <2>2, OverFacts DEF FileIsOneFlush, Empty, Partial
  <2>3. CASE journal = Complete(journal.images) /\ Over(journal.images, file) \in states
    BY <2>3 DEF FileIsOneFlush, Complete
  <2>. QED  BY <2>1, <2>2, <2>3 DEF Recoverable
<1>. QED  BY <1>1, Invariance, PTL

(* A flush that returns, and an open that returns, leave one flush, whole  *)
(* (Pager::flush and recover_journal), however many crashes came before.   *)
THEOREM FlushReturnsWhole == Spec /\ OneKind => ReturnsOneFlush
<1>1. PagerInv /\ [Next]_vars =>
        [pc # "idle" /\ pc' = "idle" /\ ~FlushFails => file' \in states]_vars
  <2>. SUFFICES ASSUME PagerInv, Next, pc # "idle", pc' = "idle" PROVE file' \in states
    BY DEF vars
  <2>1. FinishFlush \/ OpenClean \/ FinishOpen
    BY DEF PagerInv, OneKind, Next, set_meta, write_page, discard_dirty, TruncateJournal,
           WriteJournal, SyncJournal, WritePage, SyncFile, clear_journal, FlushFails,
           ProcessCrash, PowerLoss, Die, DiscardJournal, StartReplay, ReplayPage, FinishReplay
  <2>. QED
    BY <2>1 DEF PagerInv, FileInv, Recoverable, Complete, Empty, FinishFlush, OpenClean,
                FinishOpen
<1>. QED  BY <1>1, Invariance, PTL DEF Spec, ReturnsOneFlush

-----------------------------------------------------------------------------
(* For any number of isolates, opens and closes: one engine, and no open   *)
(* that meets the lock of an engine of its own process.                    *)
(*                                                                         *)
(* Neither property is inductive.  What they rest on is that every step    *)
(* that could end an engine, or make one, is taken with the registry's     *)
(* lock held, that a live engine is in the registry, and that a file lock  *)
(* of this process belongs to a live engine or to one that the holder of   *)
(* the registry's lock is dropping.                                        *)

Locked == {"look", "create", "drop", "last"}
Referring == {"open", "closing", "drop"}
PCs == NoHandle \cup {"wait"} \cup Locked \cup Referring

HandlesTypeOK ==
    /\ mutex \in Holders \cup {NoOne}
    /\ engines \in Nat
    /\ flock \in Nat \cup {Elsewhere}
    /\ registry \subseteq Nat \ {0}
    /\ handle \in [Holders -> [pc : PCs, db : Nat]]

LockHeld == \A h \in Holders : handle[h].pc \in Locked <=> mutex = h

PointersTaken == \A h \in Holders : handle[h].db # 0 <=> handle[h].pc \in Referring

Registered == \A h \in Holders : handle[h].db # 0 => handle[h].db \in registry

NobodyRefers == \A h \in Holders : handle[h].db = 0

(* Who is between two engines has the file's engine to itself.             *)
Between ==
    /\ \A h \in Holders : handle[h].pc \in {"create", "last"} => NobodyRefers
    /\ \A h \in Holders : handle[h].pc = "last" => flock \in Nat \ {0}

(* No lock without an owner.                                               *)
LockHasOwner ==
    flock \in Nat \ {0} => \E h \in Holders : handle[h].db # 0 \/ handle[h].pc = "last"

HInv ==
    /\ HandlesTypeOK /\ LockHeld /\ PointersTaken /\ Registered /\ Between
    /\ LockHasOwner /\ OneEngine

(* At the start no handle is open and nothing is locked.                   *)
LEMMA InitHInv == HandlesInit => HInv
BY HoldersAssumption
   DEF HandlesInit, HInv, HandlesTypeOK, LockHeld, PointersTaken, Registered, Between,
       LockHasOwner, OneEngine, PCs, NoHandle, Locked, Referring

(* A step of one isolate changes its own handle and no other.              *)
LEMMA StepEffect ==
    ASSUME HandlesTypeOK, NEW h \in Holders, NEW to \in PCs, NEW db \in Nat, Step(h, to, db)
    PROVE  /\ handle' \in [Holders -> [pc : PCs, db : Nat]]
           /\ handle'[h].pc = to /\ handle'[h].db = db
           /\ \A g \in Holders \ {h} : handle'[g] = handle[g]
BY DEF HandlesTypeOK, Step

(* A step that gives no handle another engine, and neither begins nor ends *)
(* the making or the dropping of one.                                      *)
LEMMA QuietStepKeepsHInv ==
    ASSUME HInv, HandlesTypeOK', LockHeld', PointersTaken', UNCHANGED <<registry, flock>>,
           \A g \in Holders : handle'[g].db = handle[g].db,
           \A g \in Holders : \A p \in {"create", "last"} : handle'[g].pc = p <=> handle[g].pc = p
    PROVE  HInv'
<1>1. Registered'
  BY DEF HInv, Registered
<1>2. Between'
  <2>1. NobodyRefers' <=> NobodyRefers
    BY DEF NobodyRefers
  <2> QED
    BY <2>1 DEF HInv, Between
<1>3. LockHasOwner'
  BY DEF HInv, LockHasOwner
<1>4. OneEngine'
  BY DEF HInv, OneEngine
<1> QED  BY <1>1, <1>2, <1>3, <1>4 DEF HInv

(* Calling open or close, and waiting for the lock.                        *)
LEMMA CallsKeepHInv ==
    ASSUME HInv, NEW h \in Holders,
           CallOpen(h) \/ CallClose(h) \/ LockToOpen(h) \/ LockToClose(h)
    PROVE  HInv'
<1> USE HoldersAssumption DEF PCs, NoHandle, Locked, Referring
<1>1. CASE CallOpen(h)
  <2>1. /\ handle' \in [Holders -> [pc : PCs, db : Nat]]
        /\ handle'[h].pc = "wait" /\ handle'[h].db = 0
        /\ \A g \in Holders \ {h} : handle'[g] = handle[g]
    BY <1>1, StepEffect DEF CallOpen, HInv
  <2>2. handle'[h].db = handle[h].db /\ UNCHANGED <<registry, flock, engines>>
    BY <1>1, <2>1 DEF CallOpen, HInv, PointersTaken, HandlesTypeOK
  <2>3. HandlesTypeOK' /\ PointersTaken'
    <3>1. HandlesTypeOK'
      BY <1>1, <2>1, <2>2, ZenonT(30) DEF CallOpen, HInv, HandlesTypeOK
    <3>2. PointersTaken'
      BY <1>1, <2>1, <2>2 DEF CallOpen, HInv, PointersTaken
    <3> QED  BY <3>1, <3>2
  <2>4. LockHeld'
    BY <1>1, <2>1 DEF CallOpen, HInv, LockHeld, HandlesTypeOK
  <2>5. \A g \in Holders : \A p \in {"create", "last"} : handle'[g].pc = p <=> handle[g].pc = p
    BY <1>1, <2>1 DEF CallOpen
  <2> QED
    BY <2>1, <2>2, <2>3, <2>4, <2>5, QuietStepKeepsHInv, ZenonT(30)
<1>2. CASE CallClose(h)
  <2>1. /\ handle' \in [Holders -> [pc : PCs, db : Nat]]
        /\ handle'[h].pc = "closing" /\ handle'[h].db = handle[h].db
        /\ \A g \in Holders \ {h} : handle'[g] = handle[g]
    BY <1>2, StepEffect DEF CallClose, HInv, HandlesTypeOK
  <2>2. handle'[h].db = handle[h].db /\ UNCHANGED <<registry, flock, engines>>
    BY <1>2, <2>1 DEF CallClose, HInv, PointersTaken, HandlesTypeOK
  <2>3. HandlesTypeOK' /\ PointersTaken'
    <3>1. HandlesTypeOK'
      BY <1>2, <2>1, <2>2, ZenonT(30) DEF CallClose, HInv, HandlesTypeOK
    <3>2. PointersTaken'
      BY <1>2, <2>1, <2>2 DEF CallClose, HInv, PointersTaken
    <3> QED  BY <3>1, <3>2
  <2>4. LockHeld'
    BY <1>2, <2>1 DEF CallClose, HInv, LockHeld, HandlesTypeOK
  <2>5. \A g \in Holders : \A p \in {"create", "last"} : handle'[g].pc = p <=> handle[g].pc = p
    BY <1>2, <2>1, ZenonT(30) DEF CallClose
  <2> QED
    BY <2>1, <2>2, <2>3, <2>4, <2>5, QuietStepKeepsHInv, ZenonT(30)
<1>3. CASE LockToOpen(h)
  <2>1. /\ handle' \in [Holders -> [pc : PCs, db : Nat]]
        /\ handle'[h].pc = "look" /\ handle'[h].db = 0
        /\ \A g \in Holders \ {h} : handle'[g] = handle[g]
    BY <1>3, StepEffect DEF LockToOpen, HInv
  <2>2. handle'[h].db = handle[h].db /\ UNCHANGED <<registry, flock, engines>>
    BY <1>3, <2>1 DEF LockToOpen, HInv, PointersTaken, HandlesTypeOK
  <2>3. HandlesTypeOK' /\ PointersTaken'
    <3>1. HandlesTypeOK'
      BY <1>3, <2>1, <2>2, SMTT(20) DEF LockToOpen, HInv, HandlesTypeOK
    <3>2. PointersTaken'
      BY <1>3, <2>1, <2>2, ZenonT(30) DEF LockToOpen, HInv, PointersTaken
    <3> QED  BY <3>1, <3>2
  <2>4. LockHeld'
    BY <1>3, <2>1, ZenonT(30) DEF LockToOpen, HInv, LockHeld, HandlesTypeOK
  <2>5. \A g \in Holders : \A p \in {"create", "last"} : handle'[g].pc = p <=> handle[g].pc = p
    BY <1>3, <2>1, ZenonT(30) DEF LockToOpen
  <2> QED
    BY <2>1, <2>2, <2>3, <2>4, <2>5, QuietStepKeepsHInv, ZenonT(30)
<1>4. CASE LockToClose(h)
  <2>1. /\ handle' \in [Holders -> [pc : PCs, db : Nat]]
        /\ handle'[h].pc = "drop" /\ handle'[h].db = handle[h].db
        /\ \A g \in Holders \ {h} : handle'[g] = handle[g]
    BY <1>4, StepEffect DEF LockToClose, HInv, HandlesTypeOK
  <2>2. handle'[h].db = handle[h].db /\ UNCHANGED <<registry, flock, engines>>
    BY <1>4, <2>1 DEF LockToClose, HInv, PointersTaken, HandlesTypeOK
  <2>3. HandlesTypeOK' /\ PointersTaken'
    <3>1. HandlesTypeOK'
      BY <1>4, <2>1, <2>2, SMTT(20) DEF LockToClose, HInv, HandlesTypeOK
    <3>2. PointersTaken'
      BY <1>4, <2>1, <2>2, ZenonT(30) DEF LockToClose, HInv, PointersTaken
    <3> QED  BY <3>1, <3>2
  <2>4. LockHeld'
    BY <1>4, <2>1, ZenonT(30) DEF LockToClose, HInv, LockHeld, HandlesTypeOK
  <2>5. \A g \in Holders : \A p \in {"create", "last"} : handle'[g].pc = p <=> handle[g].pc = p
    BY <1>4, <2>1 DEF LockToClose
  <2> QED
    BY <2>1, <2>2, <2>3, <2>4, <2>5, QuietStepKeepsHInv, ZenonT(30)
<1> QED  BY <1>1, <1>2, <1>3, <1>4

(* open_shared: joining an engine, and making one.                         *)
LEMMA OpensKeepHInv ==
    ASSUME HInv, NEW h \in Holders,
           Join(h) \/ StartCreate(h) \/ Created(h) \/ CreateFails(h)
    PROVE  HInv'
<1> USE HoldersAssumption DEF PCs, NoHandle, Locked, Referring
<1>1. CASE Join(h)
  <2>1. PICK e \in registry : Alive(e) /\ Step(h, "open", e)
    BY <1>1 DEF Join
  <2>2. PICK g \in Holders : handle[g].db = e
    BY <2>1 DEF Alive
  <2>3. e \in Nat
    BY <2>1, ZenonT(30) DEF HInv, HandlesTypeOK
  <2>4. /\ handle' \in [Holders -> [pc : PCs, db : Nat]]
        /\ handle'[h].pc = "open" /\ handle'[h].db = e
        /\ \A f \in Holders \ {h} : handle'[f] = handle[f]
    BY <2>1, <2>3, StepEffect DEF HInv
  <2>5. handle[h].db = 0 /\ mutex = h
    BY <1>1 DEF Join, HInv, PointersTaken, HandlesTypeOK, LockHeld
  <2>6. /\ handle[g].db # 0 /\ flock = e /\ e # 0
        /\ \A f \in Holders : handle[f].db \in {0, e}
    BY <2>1, <2>2 DEF HInv, HandlesTypeOK, OneEngine
  <2>7. HandlesTypeOK' /\ LockHeld'
    BY <1>1, <2>4, <2>5, ZenonT(30) DEF Join, HInv, HandlesTypeOK, LockHeld
  <2>8. PointersTaken' /\ LockHasOwner'
    BY <2>4, <2>6 DEF HInv, PointersTaken, LockHasOwner
  <2>9. Registered'
    BY <1>1, <2>1, <2>2, <2>4, <2>6, ZenonT(30) DEF Join, Alive, HInv, Registered
  <2>10. Between'
    <3>1. \A f \in Holders : handle[f].pc \notin {"create", "last"}
      BY <2>2, <2>6, ZenonT(30) DEF HInv, Between, NobodyRefers
    <3> QED  BY <2>4, <3>1 DEF Between
  <2>11. OneEngine'
    BY <1>1, <2>4, <2>6, ZenonT(30) DEF Join, OneEngine
  <2> QED
    BY <2>7, <2>8, <2>9, <2>10, <2>11 DEF HInv
<1>2. CASE StartCreate(h)
  <2>1. /\ handle' \in [Holders -> [pc : PCs, db : Nat]]
        /\ handle'[h].pc = "create" /\ handle'[h].db = 0
        /\ \A g \in Holders \ {h} : handle'[g] = handle[g]
    BY <1>2, StepEffect, SMTT(20) DEF StartCreate, HInv
  <2>2. NobodyRefers
    BY <1>2, ZenonT(30) DEF StartCreate, Alive, NobodyRefers, HInv, Registered
  <2> QED
    BY <1>2, <2>1, <2>2, ZenonT(30)
       DEF StartCreate, HInv, HandlesTypeOK, LockHeld, PointersTaken, Registered, Between,
           LockHasOwner, OneEngine, NobodyRefers
<1>3. CASE Created(h)
  <2>1. /\ handle' \in [Holders -> [pc : PCs, db : Nat]]
        /\ handle'[h].pc = "open" /\ handle'[h].db = engines + 1
        /\ \A g \in Holders \ {h} : handle'[g] = handle[g]
    BY <1>3, StepEffect, SMTT(20) DEF Created, HInv, HandlesTypeOK
  <2>2. NobodyRefers /\ mutex = h
    BY <1>3, Zenon DEF Created, HInv, Between, LockHeld
  <2>3. engines + 1 \in Nat \ {0}
    <3>1. engines \in Nat
      BY ZenonT(30) DEF HInv, HandlesTypeOK
    <3> QED  BY <3>1, SMTT(20)
  <2> QED
    BY <1>3, <2>1, <2>2, <2>3, ZenonT(30)
       DEF Created, HInv, HandlesTypeOK, LockHeld, PointersTaken, Registered, Between,
           LockHasOwner, OneEngine, NobodyRefers
<1>4. CASE CreateFails(h)
  <2>1. /\ handle' \in [Holders -> [pc : PCs, db : Nat]]
        /\ handle'[h].pc = "failed" /\ handle'[h].db = 0
        /\ \A g \in Holders \ {h} : handle'[g] = handle[g]
    BY <1>4, StepEffect, ZenonT(30) DEF CreateFails, HInv
  <2>2. NobodyRefers /\ mutex = h
    BY <1>4, ZenonT(30) DEF CreateFails, HInv, Between, LockHeld
  <2> QED
    BY <1>4, <2>1, <2>2, SMTT(20)
       DEF CreateFails, HInv, HandlesTypeOK, LockHeld, PointersTaken, Registered, Between,
           LockHasOwner, OneEngine, NobodyRefers
<1> QED  BY <1>1, <1>2, <1>3, <1>4

(* phoenix_close with the registry's lock held.                            *)
LEMMA DropsKeepHInv ==
    ASSUME HInv, NEW h \in Holders, DropOne(h) \/ DropLast(h) \/ Dropped(h)
    PROVE  HInv'
<1> USE HoldersAssumption DEF PCs, NoHandle, Locked, Referring
<1>1. CASE DropOne(h)
  <2>1. /\ handle' \in [Holders -> [pc : PCs, db : Nat]]
        /\ handle'[h].pc = "closed" /\ handle'[h].db = 0
        /\ \A g \in Holders \ {h} : handle'[g] = handle[g]
    BY <1>1, StepEffect, ZenonT(30) DEF DropOne, HInv
  <2>2. PICK g \in Holders \ {h} : handle[g].db = handle[h].db
    BY <1>1, ZenonT(30) DEF DropOne
  <2>3. handle[h].db # 0 /\ mutex = h
    BY <1>1, ZenonT(30) DEF DropOne, HInv, PointersTaken, LockHeld
  <2>4. HandlesTypeOK' /\ LockHeld' /\ PointersTaken'
    BY <1>1, <2>1, <2>3, SMTT(20) DEF DropOne, HInv, HandlesTypeOK, LockHeld, PointersTaken
  <2>5. Registered' /\ OneEngine'
    BY <1>1, <2>1, ZenonT(30) DEF DropOne, HInv, Registered, OneEngine
  <2>6. LockHasOwner'
    BY <2>1, <2>2, <2>3 DEF LockHasOwner
  <2>7. Between'
    <3>1. \A f \in Holders : handle[f].pc \notin {"create", "last"}
      BY <2>3, SMTT(20) DEF HInv, Between, NobodyRefers
    <3> QED  BY <2>1, <3>1, ZenonT(30) DEF Between
  <2> QED
    BY <2>4, <2>5, <2>6, <2>7, SMTT(20) DEF HInv
<1>2. CASE DropLast(h)
  <2>1. /\ handle' \in [Holders -> [pc : PCs, db : Nat]]
        /\ handle'[h].pc = "last" /\ handle'[h].db = 0
        /\ \A g \in Holders \ {h} : handle'[g] = handle[g]
    BY <1>2, StepEffect, ZenonT(30) DEF DropLast, HInv
  <2>2. handle[h].db # 0 /\ mutex = h
    BY <1>2, ZenonT(30) DEF DropLast, HInv, PointersTaken, LockHeld
  <2>3. flock \in Nat \ {0}
    BY <2>2, SMTT(20) DEF HInv, OneEngine, HandlesTypeOK
  <2>4. \A g \in Holders \ {h} : handle[g].db = 0
    BY <1>2, <2>2, ZenonT(30) DEF DropLast, HInv, OneEngine
  <2>5. HandlesTypeOK' /\ LockHeld' /\ PointersTaken'
    BY <1>2, <2>1, <2>2, ZenonT(30) DEF DropLast, HInv, HandlesTypeOK, LockHeld, PointersTaken
  <2>6. Registered' /\ OneEngine'
    BY <1>2, <2>1, <2>4, ZenonT(30) DEF DropLast, HInv, Registered, OneEngine, PointersTaken
  <2>7. LockHasOwner' /\ Between'
    BY <1>2, <2>1, <2>2, <2>3, <2>4, ZenonT(30)
       DEF DropLast, HInv, LockHasOwner, OneEngine, Between, NobodyRefers
  <2> QED
    BY <2>5, <2>6, <2>7, Zenon DEF HInv
<1>3. CASE Dropped(h)
  <2>1. /\ handle' \in [Holders -> [pc : PCs, db : Nat]]
        /\ handle'[h].pc = "closed" /\ handle'[h].db = 0
        /\ \A g \in Holders \ {h} : handle'[g] = handle[g]
    BY <1>3, StepEffect, ZenonT(30) DEF Dropped, HInv
  <2>2. NobodyRefers /\ mutex = h
    BY <1>3, ZenonT(30) DEF Dropped, HInv, Between, LockHeld
  <2> QED
    BY <1>3, <2>1, <2>2, ZenonT(30)
       DEF Dropped, HInv, HandlesTypeOK, LockHeld, PointersTaken, Registered, Between,
           LockHasOwner, OneEngine, NobodyRefers
<1> QED  BY <1>1, <1>2, <1>3

(* The other process only takes a lock that is free.                       *)
LEMMA OtherKeepsHInv == HInv /\ OtherProcess => HInv'
BY HoldersAssumption
   DEF OtherProcess, HInv, HandlesTypeOK, LockHeld, PointersTaken, Registered, Between,
           LockHasOwner, OneEngine, NobodyRefers, PCs, NoHandle, Locked, Referring

(* The invariant and what follows from it hold in every behaviour of the   *)
(* registry.                                                               *)
LEMMA AlwaysHInv == HandlesSpec => []HInv
<1>1. HInv /\ [HandlesNext]_handlevars => HInv'
  <2> SUFFICES ASSUME HInv, [HandlesNext]_handlevars PROVE HInv'
    OBVIOUS
  <2>1. CASE UNCHANGED handlevars
    BY <2>1 DEF handlevars, HInv, HandlesTypeOK, LockHeld, PointersTaken, Registered, Between,
           LockHasOwner, OneEngine, NobodyRefers
  <2>2. ASSUME NEW h \in Holders, CallOpen(h) \/ CallClose(h) \/ InCall(h) PROVE HInv'
    BY <2>2, CallsKeepHInv, OpensKeepHInv, DropsKeepHInv DEF InCall
  <2>3. CASE OtherProcess
    BY <2>3, OtherKeepsHInv
  <2> QED  BY <2>1, <2>2, <2>3, ZenonT(30) DEF HandlesNext
<1> QED  BY InitHInv, <1>1, PTL DEF HandlesSpec

(* All open handles of a process share one engine, which owns the file     *)
(* lock, for any number of isolates that open and close in any order       *)
(* (ffi/mod.rs:115-131, 391-411).                                          *)
THEOREM SharedEngine == HandlesSpec => []OneEngine
<1>1. HInv => OneEngine
  BY DEF HInv
<1> QED  BY <1>1, AlwaysHInv, PTL

(* An open that goes to the file finds it free or locked by another        *)
(* process, never by an engine of its own process that is closing.         *)
THEOREM OpenNeverMeetsItself == HandlesSpec => []NeverBusyWithItself
<1>1. HInv => NeverBusyWithItself
  <2> SUFFICES ASSUME HInv, NEW h \in Holders, handle[h].pc = "create"
               PROVE  flock \in {0, Elsewhere}
    BY Zenon DEF NeverBusyWithItself
  <2>1. mutex = h /\ NobodyRefers
    BY ZenonT(30) DEF HInv, LockHeld, Between, Locked
  <2>2. \A g \in Holders : handle[g].pc # "last"
    BY <2>1 DEF HInv, LockHeld, Locked
  <2> QED
    BY <2>1, <2>2, SMTT(20) DEF HInv, LockHasOwner, NobodyRefers, HandlesTypeOK
<1> QED  BY <1>1, AlwaysHInv, PTL

-----------------------------------------------------------------------------
(* No wake-up is lost, for any number of writers, watchers, commits and    *)
(* restores: the condition variable of each Shared is notified by every    *)
(* step that gives a sleeping poll something to return for.                *)

(* The shape of the watchers' records.                                     *)
Shape ==
    /\ state = [s \in Watchers |-> state[s]]
    /\ consumer = [s \in Watchers |-> consumer[s]]
    /\ \A s \in Watchers : DOMAIN state[s] = {"queue", "dropped", "closed", "woken"}

WakeInv == Shape /\ SleepersHaveNothing

(* A step that touches no watcher.                                         *)
LEMMA UntouchedKeepsInv ==
    ASSUME WakeInv, UNCHANGED <<state, consumer>>
    PROVE  WakeInv'
BY DEF WakeInv, Shape, SleepersHaveNothing, MustWait

(* Whatever a step does to the state of s, it may if it notifies s.        *)
LEMMA NotifyKeepsInv ==
    ASSUME WakeInv, NEW s, NEW st, state' = [state EXCEPT ![s] = st], consumer' = Notify(s),
           DOMAIN st = {"queue", "dropped", "closed", "woken"}
    PROVE  WakeInv'
<1>1. Shape'
  BY Zenon DEF WakeInv, Shape, Notify
<1>2. ASSUME NEW x \in Watchers, consumer'[x] = "waiting" PROVE MustWait(x)'
  <2>1. x # s /\ consumer[x] = "waiting"
    BY <1>2 DEF WakeInv, Shape, Notify
  <2>2. state'[x] = state[x]
    BY <2>1 DEF WakeInv, Shape
  <2>. QED  BY <2>1, <2>2 DEF WakeInv, SleepersHaveNothing, MustWait
<1>. QED  BY <1>1, <1>2 DEF WakeInv, SleepersHaveNothing

(* Draining the queue ends the poll.                                       *)
LEMMA TakeKeepsInv ==
    ASSUME WakeInv, NEW s \in Watchers, Take(s)
    PROVE  WakeInv'
BY ZenonT(30) DEF WakeInv, Shape, Take, SleepersHaveNothing, MustWait

(* Going to sleep, after a look at what there is under the same lock.      *)
LEMMA WaitKeepsInv ==
    ASSUME WakeInv, NEW s \in Watchers, MustWait(s), Wait(s)
    PROVE  WakeInv'
BY DEF WakeInv, Shape, Wait, SleepersHaveNothing, MustWait

(* Shared::push: a closed watcher is left alone, another one is notified.  *)
LEMMA PushKeepsInv ==
    ASSUME WakeInv, NEW w, Push(w)
    PROVE  WakeInv'
<1>. DEFINE s == Head(work)[1]
            change == [Head(work)[2] EXCEPT !.value = @ /\ s \in Valued]
            st == [state[s] EXCEPT !.queue = Enqueue(s, change),
                                   !.dropped = IF Full(s) THEN @ + 1 ELSE @]
<1>1. CASE state[s].closed
  BY <1>1, UntouchedKeepsInv DEF Push
<1>2. CASE ~state[s].closed
  <2>1. state' = [state EXCEPT ![s] = st] /\ consumer' = Notify(s)
    BY <1>2, Zenon DEF Push
  <2>2. CASE s \in Watchers
    <3>1. DOMAIN st = {"queue", "dropped", "closed", "woken"}
      BY <2>2 DEF WakeInv, Shape
    <3>. QED  BY <2>1, <3>1, NotifyKeepsInv, ZenonT(30)
  <2>3. CASE s \notin Watchers
    <3>1. state' = state /\ consumer' = consumer
      BY <2>1, <2>3, Zenon DEF WakeInv, Shape, Notify
    <3>. QED  BY <3>1, UntouchedKeepsInv
  <2>. QED  BY <2>2, <2>3
<1>. QED  BY <1>1, <1>2

(* Watcher::wake.                                                          *)
LEMMA WakeKeepsInv ==
    ASSUME WakeInv, NEW s \in Watchers, wake(s)
    PROVE  WakeInv'
<1>. DEFINE st == [state[s] EXCEPT !.woken = TRUE]
<1>1. state' = [state EXCEPT ![s] = st] /\ consumer' = Notify(s)
  BY DEF wake
<1>2. DOMAIN st = {"queue", "dropped", "closed", "woken"}
  BY DEF WakeInv, Shape
<1>. QED  BY <1>1, <1>2, NotifyKeepsInv, ZenonT(30)

(* Registry::close_all.                                                    *)
LEMMA CloseKeepsInv ==
    ASSUME WakeInv, close_all
    PROVE  WakeInv'
<1>1. Shape'
  BY DEF WakeInv, Shape, close_all
<1>2. ASSUME NEW x \in Watchers, consumer'[x] = "waiting" PROVE MustWait(x)'
  <2>1. CASE x \in Range(subs)
    BY <1>2, <2>1, ZenonT(30) DEF WakeInv, Shape, close_all, Notify
  <2>2. CASE x \notin Range(subs)
    <3>1. consumer[x] = "waiting" /\ state'[x] = state[x]
      BY <1>2, <2>2 DEF close_all
    <3>. QED  BY <3>1 DEF WakeInv, SleepersHaveNothing, MustWait
  <2>. QED  BY <2>1, <2>2
<1>. QED  BY <1>1, <1>2 DEF WakeInv, SleepersHaveNothing

(* Subscribing, leaving and reading the number of drops: all done by a     *)
(* consumer that is not asleep.                                            *)
LEMMA AwakeKeepsInv ==
    ASSUME WakeInv, NEW s \in Watchers, Subscribe(s) \/ Unsubscribe(s) \/ TakeDropped(s)
    PROVE  WakeInv'
<1>1. CASE Subscribe(s)
  BY <1>1, ZenonT(30) DEF WakeInv, Shape, Subscribe, SleepersHaveNothing, MustWait
<1>2. CASE Unsubscribe(s)
  BY <1>2 DEF WakeInv, Shape, Unsubscribe, SleepersHaveNothing, MustWait
<1>3. CASE TakeDropped(s)
  BY <1>3 DEF WakeInv, Shape, TakeDropped, SleepersHaveNothing, MustWait
<1>. QED  BY <1>1, <1>2, <1>3, ZenonT(30)

(* poll, before and after it has slept, and try_poll.                      *)
LEMMA PollKeepsInv ==
    ASSUME WakeInv, NEW s \in Watchers,
           try_poll(s) \/ poll(s) \/ Recheck(s) \/ Timeout(s)
    PROVE  WakeInv'
<1>1. Take(s) \/ (MustWait(s) /\ Wait(s))
  BY SMTT(20) DEF try_poll, poll, Recheck, Timeout
<1>. QED  BY <1>1, TakeKeepsInv, WaitKeepsInv

(* Every step keeps the invariant.                                         *)
LEMMA NextKeepsWakeInv ==
    ASSUME WakeInv, [WatchNext]_watchvars
    PROVE  WakeInv'
<1>1. ASSUME NEW w \in limits.writers, \E writes \in WriteSets : StartCommit(w, writes)
      PROVE  WakeInv'
  BY <1>1, UntouchedKeepsInv, ZenonT(30) DEF StartCommit
<1>2. ASSUME NEW w \in limits.writers, Restore(w) \/ WriterStep(w)
      PROVE  WakeInv'
  <2>1. CASE Push(w)
    BY <2>1, PushKeepsInv
  <2>2. CASE Restore(w) \/ Collect(w) \/ FinishCommit(w) \/ StartPublish(w) \/ EndPublish(w)
    <3>1. UNCHANGED <<state, consumer>>
      BY <2>2, Zenon DEF Restore, Collect, FinishCommit, StartPublish, EndPublish
    <3>. QED  BY <3>1, UntouchedKeepsInv
  <2>. QED  BY <1>2, <2>1, <2>2, ZenonT(30) DEF WriterStep
<1>3. ASSUME NEW s \in Watchers,
             \/ Subscribe(s) \/ Unsubscribe(s)
             \/ try_poll(s) \/ poll(s) \/ Recheck(s) \/ Timeout(s)
             \/ TakeDropped(s) \/ wake(s)
      PROVE  WakeInv'
  BY <1>3, AwakeKeepsInv, PollKeepsInv, WakeKeepsInv
<1>4. CASE close_all
  BY <1>4, CloseKeepsInv
<1>5. CASE UNCHANGED watchvars
  BY <1>5, UntouchedKeepsInv DEF watchvars
<1>. QED  BY <1>1, <1>2, <1>3, <1>4, <1>5, ZenonT(30) DEF WatchNext

(* No wake-up is lost (Shared::push, Watcher::poll and wake, close_all,    *)
(* watch.rs:109-188): a poll that sleeps and has not been notified has an  *)
(* empty queue, an open database and nobody who called wake.               *)
THEOREM NoLostWakeup == WatchSpec => []SleepersHaveNothing
<1>1. ASSUME WatchInit
      PROVE  WakeInv
  <2>1. state = [s \in Watchers |-> Fresh] /\ consumer = [s \in Watchers |-> "none"]
    BY <1>1, Zenon DEF WatchInit
  <2>2. Shape
    BY <2>1, Zenon DEF Shape, Fresh
  <2>3. SleepersHaveNothing
    BY <2>1 DEF SleepersHaveNothing
  <2> QED
    BY <2>2, <2>3 DEF WakeInv
<1>2. WakeInv /\ [WatchNext]_watchvars => WakeInv'
  BY NextKeepsWakeInv
<1>3. WakeInv => SleepersHaveNothing
  BY DEF WakeInv
<1>. QED  BY <1>1, <1>2, <1>3, PTL DEF WatchSpec
=============================================================================
