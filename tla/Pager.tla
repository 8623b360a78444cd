-------------------------------- MODULE Pager --------------------------------
(***************************************************************************)
(* The journaled flush of rust/src/pager.rs, write by write, with crashes  *)
(* of the process and of the machine, and the journal replay of            *)
(* Pager::open.                                                            *)
(*                                                                         *)
(* A page is its content, one of a few values.  Page 0 holds the metadata: *)
(* it is kept in memory and belongs to every flush.  `file' and `journal'  *)
(* are what the operating system shows, `safe' and `jsafe' what an fsync   *)
(* has put on the disk.                                                    *)
(* When the machine goes down, a page that differs between the two ends up *)
(* as either, or torn.                                                     *)
(***************************************************************************)
EXTENDS Integers, FiniteSets, TLC

CONSTANTS
    Pages,      \* page ids; 0 is the meta page
    Contents,   \* page images
    Blank,      \* the image every page has in a new database
    Torn,       \* an image that fails its CRC
    Settings,   \* what a behaviour may be set to: the kinds of crashes it has,
                \* whether a flush may fail, a bound on the flushes started
    MaxCrashes  \* bound on the number of crashes

ASSUME PagerAssumption ==
    /\ Pages \subseteq Nat /\ 0 \in Pages
    /\ Blank \in Contents /\ Torn \notin Contents
    /\ Settings \subseteq [crash_kinds : SUBSET {"process", "power"},
                          io_errors : BOOLEAN, flushes : Nat]
    /\ MaxCrashes \in Nat

VARIABLES
    file, safe,     \* the database file
    journal, jsafe, \* the journal file
    dirty,          \* Pager::dirty: staged pages
    meta,           \* Pager::meta, as the image of page 0
    meta_dirty,     \* Pager::meta_dirty
    durable_meta,   \* the caller's copy of meta from before it staged anything
    pc,             \* the step that a flush or an open has come to
    todo,           \* pages that it still has to write in place
    states,         \* auxiliary: file contents a reopen may legally show
    flushes, crashes,
    setting         \* the member of Settings that holds throughout

staged == <<dirty, meta, meta_dirty, durable_meta>>
vars == <<file, safe, journal, jsafe, staged, pc, todo, states, flushes, crashes, setting>>

Nothing == [p \in {} |-> Blank]
Empty == [kind |-> "empty", images |-> Nothing]
Partial == [kind |-> "partial", images |-> Nothing]
Complete(images) == [kind |-> "complete", images |-> images]

Over(images, f) == [p \in Pages |-> IF p \in DOMAIN images THEN images[p] ELSE f[p]]

(* The pages of a flush: everything staged, and always the meta page.      *)
FlushImages == (0 :> meta) @@ dirty

-----------------------------------------------------------------------------
(* Staging.                                                                *)

NotStaging ==
    UNCHANGED <<file, safe, journal, jsafe, pc, todo, states, flushes, crashes, setting>>

write_page(p, c) ==
    /\ pc = "idle"
    /\ dirty' = (p :> c) @@ dirty
    /\ UNCHANGED <<meta, meta_dirty, durable_meta>>
    /\ NotStaging

set_meta(c) ==
    /\ pc = "idle"
    /\ c # meta
    /\ meta' = c
    /\ meta_dirty' = TRUE
    /\ UNCHANGED <<dirty, durable_meta>>
    /\ NotStaging

(* After a failed merge: the meta page goes back, and stays dirty.         *)
discard_dirty ==
    /\ pc = "idle"
    /\ dirty' = Nothing
    /\ meta' = durable_meta
    /\ meta_dirty' = (meta_dirty \/ meta # durable_meta)
    /\ UNCHANGED durable_meta
    /\ NotStaging

-----------------------------------------------------------------------------
(* Pager::flush.                                                           *)

(* write_journal opens the journal with truncate(true) ...                 *)
TruncateJournal ==
    /\ pc = "idle"
    /\ dirty # Nothing \/ meta_dirty
    /\ flushes < setting.flushes
    /\ journal' = Partial
    /\ states' = states \cup {Over(FlushImages, f) : f \in states}
    /\ flushes' = flushes + 1
    /\ pc' = "journal"
    /\ UNCHANGED <<file, safe, jsafe, staged, todo, crashes, setting>>

(* ... writes header, entries and trailer ...                              *)
WriteJournal ==
    /\ pc = "journal"
    /\ journal' = Complete(FlushImages)
    /\ pc' = "journal_sync"
    /\ UNCHANGED <<file, safe, jsafe, staged, todo, states, flushes, crashes, setting>>

(* Wrong on purpose: goes on without the sync.                             *)
JournalUnsynced ==
    /\ pc = "journal_sync"
    /\ todo' = DOMAIN FlushImages
    /\ pc' = "write"
    /\ UNCHANGED <<file, safe, journal, jsafe, staged, states, flushes, crashes, setting>>

(* ... and syncs it.                                                       *)
SyncJournal ==
    /\ pc = "journal_sync"
    /\ jsafe' = journal
    /\ todo' = DOMAIN FlushImages
    /\ pc' = "write"
    /\ UNCHANGED <<file, safe, journal, staged, states, flushes, crashes, setting>>

(* The next page, in ascending order, is written from the images given.    *)
WriteInPlace(images) ==
    \E p \in todo :
        /\ \A q \in todo : p <= q
        /\ file' = [file EXCEPT ![p] = images[p]]
        /\ todo' = todo \ {p}

WritePage ==
    /\ pc = "write"
    /\ WriteInPlace(FlushImages)
    /\ UNCHANGED <<safe, journal, jsafe, staged, pc, states, flushes, crashes, setting>>

SyncFile ==
    /\ pc = "write" /\ todo = {}
    /\ safe' = file
    /\ pc' = "clear"
    /\ UNCHANGED <<file, journal, jsafe, staged, todo, states, flushes, crashes, setting>>

clear_journal ==
    /\ pc = "clear"
    /\ journal' = Empty
    /\ pc' = "clear_sync"
    /\ UNCHANGED <<file, safe, jsafe, staged, todo, states, flushes, crashes, setting>>

FinishFlush ==
    /\ pc = "clear_sync"
    /\ jsafe' = Empty
    /\ dirty' = Nothing
    /\ meta_dirty' = FALSE
    /\ durable_meta' = meta
    /\ states' = {file}
    /\ pc' = "idle"
    /\ UNCHANGED <<file, safe, journal, meta, todo, flushes, crashes, setting>>

(* An error at any step returns at once; the pages stay staged.            *)
FlushFails ==
    /\ setting.io_errors
    /\ pc \in {"journal", "journal_sync", "write", "clear", "clear_sync"}
    /\ pc' = "idle"
    /\ todo' = {}
    /\ durable_meta' = meta
    /\ UNCHANGED <<file, safe, journal, jsafe, dirty, meta, meta_dirty, states, flushes,
                   crashes, setting>>

-----------------------------------------------------------------------------
(* Crashes.                                                                *)

Die ==
    /\ pc # "down"
    /\ crashes < MaxCrashes
    /\ crashes' = crashes + 1
    /\ dirty' = Nothing
    /\ meta' = Blank /\ meta_dirty' = FALSE /\ durable_meta' = Blank
    /\ todo' = {}
    /\ pc' = "down"
    /\ UNCHANGED <<states, flushes, setting>>

ProcessCrash ==
    /\ "process" \in setting.crash_kinds
    /\ Die
    /\ UNCHANGED <<file, safe, journal, jsafe>>

PowerLoss ==
    /\ "power" \in setting.crash_kinds
    /\ Die
    /\ file' \in {f \in [Pages -> Contents \cup {Torn}] : \A p \in Pages :
                    f[p] \in IF file[p] = safe[p] THEN {safe[p]}
                             ELSE {file[p], safe[p], Torn}}
    /\ safe' = file'
    /\ journal' \in IF journal = jsafe THEN {jsafe} ELSE {journal, jsafe, Partial}
    /\ jsafe' = journal'

-----------------------------------------------------------------------------
(* Pager::open: recover_journal.                                           *)

(* The meta page is read from the recovered file.                          *)
Opened ==
    /\ meta' = file[0] /\ durable_meta' = file[0]
    /\ states' = {file}
    /\ pc' = "idle"
    /\ UNCHANGED <<dirty, meta_dirty>>

OpenClean ==
    /\ pc = "down" /\ journal = Empty
    /\ Opened
    /\ UNCHANGED <<file, safe, journal, jsafe, todo, flushes, crashes, setting>>

(* An incomplete journal is thrown away.                                   *)
DiscardJournal ==
    /\ pc = "down" /\ journal = Partial
    /\ journal' = Empty
    /\ pc' = "discard_sync"
    /\ UNCHANGED <<file, safe, jsafe, staged, todo, states, flushes, crashes, setting>>

(* Wrong on purpose: the first entry of the journal is skipped.            *)
ReplaySkipsFirst ==
    /\ pc = "down" /\ journal.kind = "complete"
    /\ todo' = DOMAIN journal.images \ {0}
    /\ pc' = "replay"
    /\ UNCHANGED <<file, safe, journal, jsafe, staged, states, flushes, crashes, setting>>

(* A complete one is replayed into the file.                               *)
StartReplay ==
    /\ pc = "down" /\ journal.kind = "complete"
    /\ todo' = DOMAIN journal.images
    /\ pc' = "replay"
    /\ UNCHANGED <<file, safe, journal, jsafe, staged, states, flushes, crashes, setting>>

ReplayPage ==
    /\ pc = "replay"
    /\ WriteInPlace(journal.images)
    /\ UNCHANGED <<safe, journal, jsafe, staged, pc, states, flushes, crashes, setting>>

FinishReplay ==
    /\ pc = "replay" /\ todo = {}
    /\ safe' = file
    /\ journal' = Empty
    /\ pc' = "discard_sync"
    /\ UNCHANGED <<file, jsafe, staged, todo, states, flushes, crashes, setting>>

FinishOpen ==
    /\ pc = "discard_sync"
    /\ jsafe' = Empty
    /\ Opened
    /\ UNCHANGED <<file, safe, journal, todo, flushes, crashes, setting>>

-----------------------------------------------------------------------------
Init ==
    /\ file = [p \in Pages |-> Blank] /\ safe = file
    /\ journal = Empty /\ jsafe = Empty
    /\ dirty = Nothing
    /\ meta = Blank /\ durable_meta = Blank /\ meta_dirty = FALSE
    /\ pc = "idle"
    /\ todo = {}
    /\ states = {file}
    /\ flushes = 0 /\ crashes = 0
    /\ setting \in Settings

Next ==
    \/ \E c \in Contents : set_meta(c) \/ \E p \in Pages \ {0} : write_page(p, c)
    \/ discard_dirty
    \/ TruncateJournal \/ WriteJournal \/ SyncJournal \/ WritePage \/ SyncFile
    \/ clear_journal \/ FinishFlush \/ FlushFails
    \/ ProcessCrash \/ PowerLoss
    \/ OpenClean \/ DiscardJournal \/ StartReplay \/ ReplayPage \/ FinishReplay
    \/ FinishOpen

(* A flush and an open run to their end unless a crash or an error stops   *)
(* them: both are straight-line code.                                      *)
Steps ==
    \/ WriteJournal \/ SyncJournal \/ WritePage \/ SyncFile \/ clear_journal
    \/ FinishFlush \/ OpenClean \/ DiscardJournal \/ StartReplay \/ ReplayPage
    \/ FinishReplay \/ FinishOpen

Spec == Init /\ [][Next]_vars /\ WF_vars(Steps)

-----------------------------------------------------------------------------
(* Properties.                                                             *)

(* After a crash at any point of a flush, or of the replay of an earlier   *)
(* crash, the file with its journal replayed is exactly the state of one   *)
(* flush, the last that completed or the one that was under way: no page   *)
(* of one mixed with pages of the other, none torn (pager.rs:14-27).       *)
FileIsOneFlush ==
    pc = "down" =>
        Over(IF journal.kind = "complete" THEN journal.images ELSE Nothing, file)
            \in states

(* A flush that returns Ok and an open that succeeds leave in the file one *)
(* complete flush: all of the pages staged, or all that the crash left     *)
(* legal (Pager::flush, pager.rs:341-375; recover_journal, 588-623).       *)
ReturnsOneFlush ==
    [][pc # "idle" /\ pc' = "idle" /\ ~FlushFails => file' \in states]_vars

(* A database that crashed can be opened again, and a flush that was       *)
(* started ends: neither waits for anything (pager.rs:90, 341).            *)
OpenCompletes == pc # "idle" ~> pc = "idle"

(* Open ends, and what it returns is one whole flush (pager.rs:90-139,     *)
(* 588-623).                                                               *)
OpenReturnsOneFlush == ReturnsOneFlush /\ OpenCompletes
=============================================================================
