----------------------------- MODULE Collections -----------------------------
(***************************************************************************)
(* Document collections, rust/src/collection/mod.rs: a key/value database  *)
(* of documents, metadata index, postings and counters, and a vector       *)
(* index beside it.  A transaction of the database is atomic, and durable  *)
(* when it commits if the collection syncs; the vectors are not part of    *)
(* it.  What a crash leaves of the two is what Engine and Vectors promise: *)
(* a prefix of the commits, and for every id a vector it had since the     *)
(* last sync or, when one was being replaced, none.                        *)
(***************************************************************************)
EXTENDS Filters, Functions, TLC

CONSTANTS
    Ids,        \* ids of documents, byte strings
    Batches,    \* batches of documents: sequences of [id, meta, has_text, terms, vec]
    Deletes,    \* lists of ids to delete
    Settings

ASSUME CollectionsAssumption ==
    \A b \in Batches : \A i \in DOMAIN b : b[i].id \in Ids /\ flatten(b[i].meta).ok

VARIABLES
    setting,
    status,     \* what the collection is doing
    kv,         \* the committed database
    older,      \* the states of it a power loss may go back to
    vec, had,   \* the vectors, 0 for none; the ones an id had since the last sync
    job,        \* the operation under way
    backup,     \* the last backup, none, of the documents so far, or whole
    steps, crashes,
    astray      \* ghost: per id, the vectors of upserts a crash cut short, and
                \* those that an error which is not reported left in place
vars == <<setting, status, kv, older, vec, had, job, backup, steps, crashes, astray>>

NoVector == 0
NoJob == [kv |-> <<>>, items |-> <<>>, undo |-> <<>>, remove |-> <<>>]
EmptyKv ==
    [docs |-> <<>>, ids |-> {}, index |-> {}, postings |-> <<>>,
     docs_count |-> 0, text_docs |-> 0, text_terms |-> 0, open |-> TRUE]

-----------------------------------------------------------------------------
(* What a write does to the database.                                      *)

term_frequencies(terms) ==
    [t \in ToSet(terms) |-> Cardinality({i \in DOMAIN terms : terms[i] = t})]

Minus(f, keys) == Restrict(f, DOMAIN f \ keys)
saturating_sub(x, y) == IF x < y THEN 0 ELSE x - y

(* Wrong on purpose: the postings of a replaced document stay.             *)
UnindexKeepingPostings(s, id) ==
    LET old == s.docs[id]
        counted == old.has_text /\ setting.text_index
    IN [s EXCEPT !.index = @ \ index_keys(flatten(old.meta), id),
                 !.text_docs = IF counted THEN saturating_sub(@, 1) ELSE @,
                 !.text_terms = IF counted THEN saturating_sub(@, Len(old.terms)) ELSE @,
                 !.docs_count = saturating_sub(@, 1)]

(* The index entries and counts of a document, not its record.             *)
unindex(s, id) ==
    LET old == s.docs[id]
        counted == old.has_text /\ setting.text_index
    IN [s EXCEPT !.index = @ \ index_keys(flatten(old.meta), id),
                 !.postings = IF counted THEN Minus(@, {<<t, id>> : t \in ToSet(old.terms)}) ELSE @,
                 !.text_docs = IF counted THEN saturating_sub(@, 1) ELSE @,
                 !.text_terms = IF counted THEN saturating_sub(@, Len(old.terms)) ELSE @,
                 !.docs_count = saturating_sub(@, 1)]

(* `vec' of a record is not stored; it is there for the properties.        *)
StageDoc(s, doc) ==
    LET cleared == IF doc.id \in DOMAIN s.docs THEN unindex(s, doc.id) ELSE s
        tf == term_frequencies(doc.terms)
        record == [meta |-> doc.meta, has_text |-> doc.has_text, terms |-> doc.terms,
                   has_vector |-> doc.vec # NoVector, vec |-> doc.vec]
        counted == doc.has_text /\ setting.text_index
    IN [cleared EXCEPT
            !.docs = (doc.id :> record) @@ @,
            !.ids = @ \cup {doc.id},
            !.index = @ \cup index_keys(flatten(doc.meta), doc.id),
            !.postings = IF counted
                         THEN [k \in {<<t, doc.id>> : t \in DOMAIN tf} |-> <<tf[k[1]], Len(doc.terms)>>] @@ @
                         ELSE @,
            !.docs_count = @ + 1,
            !.text_docs = IF counted THEN @ + 1 ELSE @,
            !.text_terms = IF counted THEN @ + Len(doc.terms) ELSE @]

HasVector(s, id) == id \in DOMAIN s.docs /\ s.docs[id].has_vector

(* A batch, in order, and the ids that lose their vector on the way.       *)
StageUpsert(batch) ==
    FoldLeft(LAMBDA a, doc :
                [kv |-> StageDoc(a.kv, doc),
                 vectorless |-> IF HasVector(a.kv, doc.id) /\ doc.vec = NoVector
                                THEN a.vectorless \cup {doc.id} ELSE a.vectorless],
             [kv |-> kv, vectorless |-> {}], batch)

StageDelete(list) ==
    FoldLeft(LAMBDA a, id :
                IF id \notin DOMAIN a.kv.docs THEN a
                ELSE [kv |-> [unindex(a.kv, id) EXCEPT !.docs = Minus(@, {id}), !.ids = @ \ {id}],
                      removed |-> Append(a.removed, id)],
             [kv |-> kv, removed |-> <<>>], list)

-----------------------------------------------------------------------------
(* The vector index.                                                       *)

InsertMany(v, items) == FoldLeft(LAMBDA a, it : [a EXCEPT ![it.id] = it.vec], v, items)
HadMore(items) == [i \in Ids |-> had[i] \cup UNION {{NoVector, it.vec} : it \in {x \in ToSet(items) : x.id = i}}]
SyncedVectors(v) == [i \in Ids |-> {v[i]}]

(* A commit of the database: durable at once if the collection syncs.      *)
CommitTo(s) ==
    /\ kv' = s
    /\ older' = IF setting.sync THEN {s} ELSE older \cup {s}

Init ==
    /\ setting \in Settings
    /\ status = "idle"
    /\ kv = EmptyKv /\ older = {EmptyKv}
    /\ vec = [i \in Ids |-> NoVector] /\ had = SyncedVectors(vec)
    /\ job = NoJob
    /\ astray = [i \in Ids |-> [cut |-> {}, dropped |-> {}]]
    /\ backup = [part |-> "none", kv |-> EmptyKv, vec |-> vec, astray |-> astray]
    /\ steps = 0 /\ crashes = 0

Idle == status = "idle"

(* Wrong on purpose: a backup does not take the turn.                      *)
TurnWithoutBackups == Idle

(* serialize_writes: upsert, delete, compact and backup take turns, and a  *)
(* collection is not dropped while one of them runs.                       *)
Turn == Idle /\ backup.part # "docs"

Settled(f, ids) == [i \in Ids |-> IF i \in ids THEN [cut |-> {}, dropped |-> {}] ELSE f[i]]
Dropped(f, ids, v) == [i \in Ids |-> IF i \in ids THEN [f[i] EXCEPT !.dropped = @ \cup {v[i]}] ELSE f[i]]
Op == steps < setting.steps /\ steps' = steps + 1

-----------------------------------------------------------------------------
(* upsert, in the steps between which others run or the process dies.      *)

UpsertStage(batch) ==
    /\ Turn /\ Op
    /\ LET staged == StageUpsert(batch)
           items == SelectSeq(batch, LAMBDA d : d.vec # NoVector)
           last == [id \in {batch[i].id : i \in DOMAIN batch} |->
                      batch[CHOOSE i \in DOMAIN batch :
                              /\ batch[i].id = id
                              /\ \A j \in DOMAIN batch : batch[j].id = id => j <= i].vec]
       IN job' = [kv |-> staged.kv, items |-> items,
                  undo |-> [i \in DOMAIN items |-> [id |-> items[i].id, vec |-> vec[items[i].id]]],
                  remove |-> SetToSeq({id \in staged.vectorless : last[id] = NoVector})]
    /\ status' = "vectors"
    /\ UNCHANGED <<setting, kv, older, vec, had, backup, crashes, astray>>

UpsertVectors ==
    /\ status = "vectors"
    /\ vec' = InsertMany(vec, job.items)
    /\ had' = IF setting.sync THEN SyncedVectors(vec') ELSE HadMore(job.items)
    /\ status' = "commit"
    /\ UNCHANGED <<setting, kv, older, job, backup, steps, crashes, astray>>

(* What each id held before, put back; an error is dropped, and leaves the *)
(* new vector or, when that was tombstoned already, none.                  *)
undo_vectors(v) ==
    \E failed \in SUBSET (IF "undo" \in setting.faults THEN {it.id : it \in ToSet(job.undo)} ELSE {}) :
        /\ vec' \in {w \in [Ids -> {NoVector} \cup {v[i] : i \in Ids} \cup {it.vec : it \in ToSet(job.undo)}] :
                       \A i \in Ids : IF i \in failed THEN w[i] \in {v[i], NoVector}
                                      ELSE w[i] = InsertMany(v, job.undo)[i]}
        /\ astray' = Dropped(astray, failed, vec')

Undone(v) ==
    /\ undo_vectors(v)
    /\ had' = SyncedVectors(vec')
    /\ status' = "idle" /\ job' = NoJob
    /\ UNCHANGED <<setting, kv, older, backup, steps, crashes>>

(* insert_many fails in one of the items, the record it replaces already   *)
(* tombstoned, or the flush after it fails.                                *)
UpsertVectorsFail ==
    /\ status = "vectors" /\ "vectors" \in setting.faults
    /\ \/ \E n \in DOMAIN job.items :
            Undone([InsertMany(vec, SubSeq(job.items, 1, n - 1)) EXCEPT ![job.items[n].id] = NoVector])
       \/ Undone(InsertMany(vec, job.items))

UpsertCommitFails ==
    /\ status = "commit" /\ "commit" \in setting.faults
    /\ Undone(vec)

UpsertCommit ==
    /\ status = "commit"
    /\ CommitTo(job.kv)
    /\ status' = "remove"
    /\ astray' = Settled(astray, {it.id : it \in ToSet(job.items)})
    /\ UNCHANGED <<setting, vec, had, job, backup, steps, crashes>>

Delete(list) ==
    /\ Turn /\ Op
    /\ LET staged == StageDelete(list)
       IN /\ CommitTo(staged.kv)
          /\ job' = [NoJob EXCEPT !.remove = staged.removed]
    /\ status' = "remove"
    /\ UNCHANGED <<setting, vec, had, backup, crashes, astray>>

(* After the commit, one by one: the vectors of documents without any.  An *)
(* error is dropped, and the vector stays.                                 *)
RemoveVector ==
    /\ status = "remove" /\ job.remove # <<>>
    /\ LET id == Head(job.remove)
       IN \/ /\ vec' = [vec EXCEPT ![id] = NoVector]
             /\ had' = [had EXCEPT ![id] = @ \cup {NoVector}]
             /\ astray' = Settled(astray, {id})
          \/ /\ "vectors" \in setting.faults
             /\ astray' = Dropped(astray, {id}, vec)
             /\ UNCHANGED <<vec, had>>
    /\ job' = [job EXCEPT !.remove = Tail(@)]
    /\ UNCHANGED <<setting, status, kv, older, backup, steps, crashes>>

Done ==
    /\ status = "remove" /\ job.remove = <<>>
    /\ status' = "idle" /\ job' = NoJob
    /\ UNCHANGED <<setting, kv, older, vec, had, backup, steps, crashes, astray>>

-----------------------------------------------------------------------------
(* flush: save of the vectors, checkpoint of the documents.  It takes no   *)
(* turn, and runs beside a write.                                          *)
Flush ==
    /\ status \in {"idle", "vectors", "commit", "remove"} /\ setting.maintain
    /\ had' = SyncedVectors(vec) /\ older' = {kv}
    /\ UNCHANGED <<setting, status, kv, vec, job, backup, steps, crashes, astray>>

(* compact: vectors without a document go, both stores are rebuilt.        *)
Compact ==
    /\ Turn /\ setting.maintain
    /\ vec' = [i \in Ids |-> IF i \in kv.ids THEN vec[i] ELSE NoVector]
    /\ astray' = Settled(astray, Ids \ kv.ids)
    /\ had' = SyncedVectors(vec') /\ older' = {kv}
    /\ UNCHANGED <<setting, status, kv, job, backup, steps, crashes>>

(* backup: one store, then the other, and at last the marker of the copy.  *)
BackupDocs ==
    /\ Turn /\ setting.maintain
    /\ backup' = [backup EXCEPT !.part = "docs", !.kv = [kv EXCEPT !.open = FALSE]]
    /\ UNCHANGED <<setting, status, kv, older, vec, had, job, steps, crashes, astray>>

BackupVectors ==
    /\ backup.part = "docs"
    /\ backup' = [backup EXCEPT !.part = "whole", !.vec = vec, !.astray = astray]
    /\ had' = SyncedVectors(vec)
    /\ UNCHANGED <<setting, status, kv, older, vec, job, steps, crashes, astray>>

(* Drop: the vectors are synced before the marker goes; the engine's own   *)
(* drop saves, the database's checkpoints.  If the sync fails the marker   *)
(* stays.                                                                  *)
CloseVectors ==
    /\ Turn /\ setting.maintain
    /\ \/ had' = SyncedVectors(vec) /\ status' = "closing"
       \/ "vectors" \in setting.faults /\ had' = had /\ status' = "down"
    /\ UNCHANGED <<setting, kv, older, vec, job, backup, steps, crashes, astray>>

CloseMarker ==
    /\ status = "closing"
    /\ kv' = [kv EXCEPT !.open = FALSE] /\ older' = {kv'}
    /\ status' = "down"
    /\ UNCHANGED <<setting, vec, had, job, backup, steps, crashes, astray>>

-----------------------------------------------------------------------------
(* open: the stores recover; a marker of the last session means it did not *)
(* close, and the two are reconciled before the marker is set again.       *)

(* Wrong on purpose: the stores are taken as they are.                     *)
OpenWithoutReconcile ==
    /\ status = "down"
    /\ status' = "mark"
    /\ UNCHANGED <<setting, kv, older, vec, had, job, backup, steps, crashes, astray>>

Open ==
    /\ status = "down"
    /\ status' = IF kv.open THEN "orphans" ELSE "mark"
    /\ UNCHANGED <<setting, kv, older, vec, had, job, backup, steps, crashes, astray>>

reconcile_orphans ==
    /\ status = "orphans"
    /\ vec' = [i \in Ids |-> IF HasVector(kv, i) THEN vec[i] ELSE NoVector]
    /\ had' = IF vec' # vec THEN SyncedVectors(vec') ELSE had
    /\ status' = "lost"
    /\ UNCHANGED <<setting, kv, older, job, backup, steps, crashes, astray>>

(* An error in either pass fails the open, and what was opened is dropped: *)
(* the marker goes with it unless the vectors cannot be flushed.           *)
ReconcileFails ==
    /\ crashes < setting.crashes /\ crashes' = crashes + 1
    /\ \/ /\ status = "orphans" /\ "vectors" \in setting.faults
          /\ \E removed \in SUBSET {i \in Ids : vec[i] # NoVector /\ ~HasVector(kv, i)} :
               vec' = [i \in Ids |-> IF i \in removed THEN NoVector ELSE vec[i]]
       \/ /\ status = "lost" /\ "commit" \in setting.faults
          /\ \E i \in DOMAIN kv.docs : kv.docs[i].has_vector /\ vec[i] = NoVector
          /\ vec' = vec
    /\ \/ /\ kv' = [kv EXCEPT !.open = FALSE] /\ older' = {kv'} /\ had' = SyncedVectors(vec')
          /\ astray' = Dropped(astray, {i \in Ids : HasVector(kv, i) # (vec'[i] # NoVector)}, vec')
       \/ /\ "vectors" \in setting.faults
          /\ had' = [i \in Ids |-> had[i] \cup {vec'[i]}]
          /\ UNCHANGED <<kv, older, astray>>
    /\ status' = "down"
    /\ UNCHANGED <<setting, job, backup, steps>>

(* Wrong on purpose: a document without its vector is an error.            *)
LostIsAnError ==
    /\ status = "lost"
    /\ \A i \in DOMAIN kv.docs : kv.docs[i].has_vector => vec[i] # NoVector
    /\ status' = "mark"
    /\ UNCHANGED <<setting, kv, older, vec, had, job, backup, steps, crashes, astray>>

reconcile_lost ==
    /\ status = "lost"
    /\ LET lost == {i \in DOMAIN kv.docs : kv.docs[i].has_vector /\ vec[i] = NoVector}
           fixed == [i \in DOMAIN kv.docs |-> IF i \in lost THEN [kv.docs[i] EXCEPT !.has_vector = FALSE]
                                              ELSE kv.docs[i]]
       IN IF lost = {} THEN UNCHANGED <<kv, older>> ELSE CommitTo([kv EXCEPT !.docs = fixed])
    /\ astray' = [i \in Ids |-> [cut |-> astray[i].cut \cup astray[i].dropped, dropped |-> {}]]
    /\ status' = "mark"
    /\ UNCHANGED <<setting, vec, had, job, backup, steps, crashes>>

Mark ==
    /\ status = "mark"
    /\ CommitTo([kv EXCEPT !.open = TRUE])
    /\ status' = "idle"
    /\ UNCHANGED <<setting, vec, had, job, backup, steps, crashes, astray>>

-----------------------------------------------------------------------------
(* The process dies, or the power goes with it.  In the middle of          *)
(* insert_many some items are in, and the next may have lost the record it *)
(* was to replace.                                                         *)

VectorsAtDeath ==
    IF status # "vectors" THEN {vec}
    ELSE UNION {LET done == InsertMany(vec, SubSeq(job.items, 1, n))
                IN {done} \cup {[done EXCEPT ![job.items[n + 1].id] = NoVector] :
                                   x \in {m \in {n} : m < Len(job.items)}}
                : n \in 0 .. Len(job.items)}

Crash ==
    /\ status # "down" /\ crashes < setting.crashes
    /\ crashes' = crashes + 1
    /\ LET inflight == IF status \in {"vectors", "commit"} THEN job.items ELSE <<>>
           lingering == IF status = "vectors" THEN HadMore(job.items) ELSE had
       IN /\ astray' = [i \in Ids |-> [astray[i] EXCEPT
                             !.cut = @ \cup {it.vec : it \in {x \in ToSet(inflight) : x.id = i}}]]
          /\ \/ /\ "process" \in setting.kinds
                /\ vec' \in VectorsAtDeath
                /\ had' = lingering /\ kv' = kv /\ older' = older
             \/ /\ "power" \in setting.kinds
                /\ vec' \in {v \in [Ids -> UNION {lingering[i] : i \in Ids}] : \A i \in Ids : v[i] \in lingering[i]}
                /\ had' = SyncedVectors(vec')
                /\ kv' \in older /\ older' = {kv'}
    /\ status' = "down" /\ job' = NoJob
    /\ backup' = IF backup.part = "docs" THEN [backup EXCEPT !.part = "none"] ELSE backup
    /\ UNCHANGED <<setting, steps>>

Next ==
    \/ \E batch \in Batches : UpsertStage(batch)
    \/ UpsertVectors
    \/ UpsertVectorsFail
    \/ UpsertCommitFails
    \/ UpsertCommit
    \/ \E list \in Deletes : Delete(list)
    \/ RemoveVector
    \/ Done
    \/ Flush
    \/ Compact
    \/ BackupDocs
    \/ BackupVectors
    \/ CloseVectors
    \/ CloseMarker
    \/ Open
    \/ reconcile_orphans
    \/ reconcile_lost
    \/ ReconcileFails
    \/ Mark
    \/ Crash

(* A call that is made runs to its end: nothing in upsert, delete or open  *)
(* waits for anybody.                                                      *)
Running == UpsertVectors \/ UpsertCommit \/ RemoveVector \/ Done \/ BackupVectors
           \/ CloseMarker \/ Open \/ reconcile_orphans \/ reconcile_lost \/ Mark

CollectionsSpec == Init /\ [][Next]_vars /\ WF_vars(Running)

-----------------------------------------------------------------------------
(* The collection's parts are well formed; no call waits on one that is    *)
(* over.                                                                   *)
CollectionsTypeOK ==
    /\ status \in {"idle", "vectors", "commit", "remove", "closing", "down",
                   "orphans", "lost", "mark"}
    /\ vec \in [Ids -> Nat] /\ \A i \in Ids : vec[i] \in had[i]
    /\ DOMAIN kv.docs = kv.ids /\ kv.ids \subseteq Ids
    /\ kv \in older
    /\ Idle => job = NoJob /\ kv.open
    /\ backup.part \in {"none", "docs", "whole"}

TermsOf(s) == {i \in DOMAIN s.docs : s.docs[i].has_text /\ setting.text_index}

IsIndexed(s) ==
    /\ s.index = UNION {index_keys(flatten(s.docs[i].meta), i) : i \in DOMAIN s.docs}
    /\ DOMAIN s.postings = UNION {{<<t, i>> : t \in ToSet(s.docs[i].terms)} : i \in TermsOf(s)}
    /\ \A p \in DOMAIN s.postings :
         s.postings[p] = <<term_frequencies(s.docs[p[2]].terms)[p[1]], Len(s.docs[p[2]].terms)>>
    /\ s.docs_count = Cardinality(DOMAIN s.docs)
    /\ s.text_docs = Cardinality(TermsOf(s))
    /\ s.text_terms = FoldLeft(LAMBDA n, i : n + Len(s.docs[i].terms), 0, SetToSeq(TermsOf(s)))

(* The metadata index, the postings and the counters of every committed    *)
(* state are those of the documents in it, whatever was replaced or        *)
(* deleted on the way, in one batch too: count, list, filters and BM25     *)
(* read nothing else.                                                      *)
IndexMatchesDocuments == CollectionsTypeOK /\ IsIndexed(kv) /\ IsIndexed(backup.kv)

AgreeOn(s, v, odd, i) ==
    LET given == IF i \in DOMAIN s.docs THEN s.docs[i].vec ELSE NoVector
    IN \/ /\ HasVector(s, i) <=> v[i] # NoVector
          /\ \/ v[i] = given
             \/ given # NoVector /\ odd[i].cut # {} /\ v[i] \in odd[i].cut \cup {NoVector}
       \/ v[i] \in odd[i].dropped

(* Whenever no write is under way, after failed writes and after recovery  *)
(* too, a committed document has the vector it was written with, and says  *)
(* so; one written without has none, and what is no document has none.     *)
(* The exceptions: a later upsert of the document that a crash cut short   *)
(* may have left its vector there, or none, which the document then says;  *)
(* and a vector whose removal, or whose undoing, failed is still there.    *)
VectorsMatchDocuments == Idle => \A i \in Ids : AgreeOn(kv, vec, astray, i)

(* A backup holds documents and vectors of one moment.                     *)
BackupIsOneMoment ==
    backup.part = "whole" => \A i \in Ids : AgreeOn(backup.kv, backup.vec, backup.astray, i)

(* Documents and vectors agree, here and in the backup.                    *)
StoresAgree == VectorsMatchDocuments /\ BackupIsOneMoment

(* Every call returns, and a collection that went down comes back in       *)
(* order: recovery ends even when it is itself cut short.                  *)
BackToIdle == []<>Idle
=============================================================================
