----------------------------- MODULE TwinIndex -----------------------------
(***************************************************************************)
(* persona-twin's index: the twins, their files on disk, the vector store  *)
(* and the keyword index, under requests that create a twin, delete one    *)
(* and re-ingest the corpus, and a server that restarts.                   *)
(*                                                                         *)
(* Everything runs on one event loop: a request is interrupted only while  *)
(* it awaits the embedder or the store, and an action goes from one await  *)
(* to the next.  The chunks of a twin are one value, the twin itself; they *)
(* are keyed by the twin's id, so a namesake's replace them.  Where the    *)
(* batches of 64 chunks begin and end is left open.                        *)
(***************************************************************************)
EXTENDS Naturals

CONSTANTS
    Jobs,     \* the requests that change the index at once, and the start-up
    Boot,     \* the start-up (lifespan)
    Ids,      \* the personas' slugs
    BakedIn,  \* those of the corpus in the repository
    Atlas,    \* whether the vector store is Atlas, which outlives the process
    MaxTwins  \* how many twins are created, a bound of the model

ASSUME JobsAssumption == Boot \in Jobs
ASSUME BakedInAssumption == BakedIn \subseteq Ids
ASSUME MaxTwinsAssumption == MaxTwins \in Nat

VARIABLES
    disk,     \* PersonaStore: the files of the twins created in the browser
    records,  \* AppState.records
    store,    \* the vector store
    bm25,     \* the chunks of the keyword index, with hybrid retrieval on
    job,      \* the locals of each request
    made,     \* how many twins were created
    broken,   \* a request failed or was cut short since the store was last dropped
    raced,    \* the last read for the keyword index overlapped another's
    haunted   \* twins that went while a request still held their chunks

corpusVars == <<disk, records, made>>
ghosts == <<broken, raced, haunted>>
indexVars == <<corpusVars, store, bm25, job, ghosts>>

\* A twin; one created again under its id is another.
Twins == [id : Ids, made : 0..MaxTwins]

Stages == {"idle", "count", "drop", "capture", "upsert", "read", "build"}

Locals == [at : Stages, left : SUBSET Twins, read : SUBSET Twins]

\* What a request awaits, the chunks it has yet to store, those it has read.
Doing(at, left, read) == [at |-> at, left |-> left, read |-> read]
Idle == Doing("idle", {}, {})
Dropping == Doing("drop", {}, {})

\* A slip: the keyword index is not rebuilt.
IngestingVectors(twins) ==
    IF twins = {} THEN Idle ELSE Doing("upsert", twins, {})

Ingesting(twins) ==
    IF twins = {} THEN Doing("read", {}, {}) ELSE Doing("upsert", twins, {})

Corpus == [id : BakedIn, made : {0}]

\* A twin on disk gives way to one of the corpus.
Loaded == Corpus \cup {r \in disk : r.id \notin BakedIn}

Others(twins, i) == {r \in twins : r.id # i}

\* A later chunk replaces the one with its id.
Upserted(old, batch) == {c \in old : \A d \in batch : d.id # c.id} \cup batch

\* PersonaStore.save and delete: a directory that is not writable is only logged.
Save(twin) == disk' \in {disk, Upserted(disk, {twin})}
Unlink(i) == disk' \in {disk, Others(disk, i)}

Serving == job[Boot].at = "idle"

IndexInit ==
    /\ disk = {} /\ records = Corpus
    /\ store = {} /\ bm25 = {}
    /\ job = [[j \in Jobs |-> Idle] EXCEPT ![Boot] = Doing("count", {}, {})]
    /\ made = 0
    /\ broken = FALSE /\ raced = FALSE /\ haunted = {}

\* A request arrives, which takes a server that has started.
Accept(j, what) ==
    /\ Serving /\ j # Boot
    /\ job[j].at = "idle"
    /\ job' = [job EXCEPT ![j] = what]
    /\ UNCHANGED <<store, bm25, broken, raced>>

\* POST /personas
Create(j, i) ==
    LET twin == [id |-> i, made |-> made + 1]
    IN  /\ made < MaxTwins
        /\ \A r \in records : r.id # i
        /\ made' = made + 1
        /\ Save(twin)
        /\ records' = records \cup {twin}
        /\ Accept(j, Ingesting({twin}))
        /\ UNCHANGED haunted

\* A slip: the rest is ingested over what is there.
DeleteInPlace(j, i) ==
    /\ \E r \in disk : r.id = i
    /\ Unlink(i)
    /\ records' = Others(records, i)
    /\ haunted' = haunted \cup ((records \ records') \cap UNION {job[k].left : k \in Jobs})
    /\ Accept(j, Doing("capture", {}, {}))
    /\ UNCHANGED made

\* DELETE /personas/{id}: that the file may stay is not reported.
Delete(j, i) ==
    /\ \E r \in disk : r.id = i
    /\ Unlink(i)
    /\ records' = Others(records, i)
    /\ haunted' = haunted \cup ((records \ records') \cap UNION {job[k].left : k \in Jobs})
    /\ Accept(j, Dropping)
    /\ UNCHANGED made

\* POST /ingest
Ingest(j) ==
    /\ Accept(j, Dropping)
    /\ UNCHANGED <<disk, records, made, haunted>>

Go(j, stage, next) ==
    /\ job[j].at = stage
    /\ job' = [job EXCEPT ![j] = next]
    /\ UNCHANGED corpusVars

\* The store is emptied ...
Drop(j) ==
    /\ Go(j, "drop", Doing("capture", {}, {}))
    /\ store' = {}
    /\ broken' = FALSE
    /\ UNCHANGED <<bm25, raced, haunted>>

\* A slip: what is on disk is ingested.
CaptureFiles(j) ==
    /\ Go(j, "capture", Ingesting(Loaded))
    /\ UNCHANGED <<store, bm25, ghosts>>

\* ... and, when the drop returns, the records are cut into chunks as they are now.
Capture(j) ==
    /\ Go(j, "capture", Ingesting(records))
    /\ UNCHANGED <<store, bm25, ghosts>>

Upsert(j) ==
    \E batch \in SUBSET job[j].left \ {{}} :
        /\ Go(j, "upsert", Ingesting(job[j].left \ batch))
        /\ store' = Upserted(store, batch)
        /\ UNCHANGED <<bm25, ghosts>>

\* _rebuild_bm25 reads the chunks ...
ReadAll(j) ==
    /\ Go(j, "read", Doing("build", {}, store))
    /\ raced' = (\E k \in Jobs \ {j} : job[k].at = "build")
    /\ UNCHANGED <<store, bm25, broken, haunted>>

\* ... and builds the keyword index of what it read.
Build(j) ==
    /\ Go(j, "build", Idle)
    /\ bm25' = job[j].read
    /\ UNCHANGED <<store, ghosts>>

\* The embedder or the store raises: the request ends where it is.
FailJob(j) ==
    /\ j # Boot /\ job[j].at # "idle"
    /\ job' = [job EXCEPT ![j] = Idle]
    /\ broken' = TRUE
    /\ UNCHANGED <<corpusVars, store, bm25, raced, haunted>>

\* The process ends, or fails to start, and starts again.
Restart ==
    /\ job' = [[j \in Jobs |-> Idle] EXCEPT ![Boot] = Doing("count", {}, {})]
    /\ records' = Loaded
    /\ store' = IF Atlas THEN store ELSE {}
    /\ bm25' = {}
    /\ broken' = (broken \/ ~(Loaded \subseteq records) \/ \E j \in Jobs : job[j].at # "idle")
    /\ raced' = FALSE
    /\ haunted' = haunted \cup (records \ Loaded)
    /\ UNCHANGED <<disk, made>>

\* Start-up ingests into an empty store only.
Count ==
    /\ Go(Boot, "count", IF store = {} THEN Ingesting(records) ELSE Doing("read", {}, {}))
    /\ broken' = (broken /\ store # {})
    /\ UNCHANGED <<store, bm25, raced, haunted>>

IndexNext ==
    \/ \E j \in Jobs :
        \/ \E i \in Ids : Create(j, i) \/ Delete(j, i)
        \/ Ingest(j)
        \/ Drop(j) \/ Capture(j) \/ Upsert(j) \/ ReadAll(j) \/ Build(j)
        \/ FailJob(j)
    \/ Restart \/ Count

IndexSpec == IndexInit /\ [][IndexNext]_indexVars

-----------------------------------------------------------------------------

IndexTypeOK ==
    /\ disk \subseteq Twins /\ records \subseteq Twins
    /\ store \subseteq Twins /\ bm25 \subseteq Twins
    /\ job \in [Jobs -> Locals]
    /\ made \in 0..MaxTwins
    /\ broken \in BOOLEAN /\ raced \in BOOLEAN /\ haunted \subseteq Twins

AtRest == \A j \in Jobs : job[j].at = "idle"

\* However creations, deletions and re-ingestions interleave, once all are through
\* every twin can be found in the vector store; unless one of them failed, or a restart
\* cut it short over an Atlas that was not empty, and nothing was re-ingested since.
IndexIsWhole ==
    AtRest /\ ~broken => \A r \in records : \E c \in store : c.id = r.id

\* Chunks of a twin that is gone are a delete's that has yet to drop them, or another
\* request had taken them before the twin went, or the twin was lost to a restart that
\* did not find its file, or a request failed.
LeftoversHaveCause ==
    \A c \in store :
        \/ c \in records \cup haunted
        \/ broken
        \/ \E j \in Jobs : job[j].at = "drop"

\* Once all requests are through, keyword search sees what vector search sees; unless
\* one failed, or two had read the chunks for it at once and the earlier came last.
KeywordsCatchUp ==
    AtRest /\ ~broken /\ ~raced => bm25 = store
=============================================================================
