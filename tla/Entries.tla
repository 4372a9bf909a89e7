------------------------------- MODULE Entries -------------------------------
(***************************************************************************)
(* Journal entries and what is derived from them: rows in SQLite           *)
(* (src/journal/db/repository.py), vectors in ChromaDB                     *)
(* (src/journal/vectorstore/store.py), made and kept up to date by the     *)
(* ingestion service (src/journal/services/ingestion.py), by mood scoring  *)
(* and by entity extraction.                                               *)
(*                                                                         *)
(* The event loop ("api") runs one handler or MCP tool at a time; the      *)
(* executor's workers run the queued jobs.  A step is one write or one     *)
(* provider call with the local work up to the next, so every place where  *)
(* the other side can act is a place between two steps.                    *)
(*                                                                         *)
(* A text is the number of its version: 1 as ingested, one more with each  *)
(* edit.  Chunks, vectors, mood scores and mentions are the version they   *)
(* were made from, 0 when there are none.  A file is a model value, its    *)
(* hash.  Statuses, pushes and restarts of jobs are JobRunner's; here a    *)
(* job is a record in the queue or in a worker's hands.                    *)
(***************************************************************************)
EXTENDS Integers, Sequences, FiniteSets

CONSTANTS
    MaxEntries,  \* bound: rows the entries table can hold
    MaxText,     \* bound: versions of a text
    Chunks,      \* the number of chunks of each version
    Users,       \* the users who ingest
    DefaultUser, \* the user_id of a service call that passes none
    Uploads,     \* the uploads clients make: sequences of files
    Requests,    \* the operations clients ask for
    MaxRetries,  \* Len(_RETRY_DELAYS_SECONDS)
    MaxQueue,    \* bound: queued jobs at which clients pause
    MaxFaults,   \* bound: provider and store calls that raise
    MaxCrashes   \* bound: crashes of the process

Text == 1..MaxText
Entry == 1..MaxEntries
NoEntry == 0

ASSUME SizesAssumption ==
    /\ MaxEntries \in Nat /\ MaxText \in Nat \ {0}
    /\ Chunks \in [Text -> Nat \ {0}]
ASSUME UsersAssumption == Users \subseteq Nat \ {0} /\ DefaultUser \in Nat \ {0}
ASSUME RequestsAssumption ==
    Requests \subseteq {"text", "upload", "media", "edit", "tool", "delete",
                        "extract", "extract_stale", "backfill"}
ASSUME BoundsAssumption ==
    /\ MaxRetries \in Nat /\ MaxQueue \in Nat
    /\ MaxFaults \in Nat /\ MaxCrashes \in Nat

File == UNION {{u[i] : i \in DOMAIN u} : u \in Uploads}

\* The handlers refuse a request without a file.
ASSUME UploadsAssumption == \A u \in Uploads : u \in Seq(File) /\ u # <<>>

\* Variant: a pool of two threads.
TwoWorkers == {"worker", "worker2"}

\* ThreadPoolExecutor(max_workers=1).
Workers == {"worker"}

Thread == {"api"} \cup Workers

\* chunk_index runs from 1 here; no text has more chunks than this.
ChunkId == 1..(CHOOSE n \in {Chunks[v] : v \in Text} : \A v \in Text : Chunks[v] <= n)

Version == 0..MaxText

\* A row of entries with the rows that belong to it: entry_chunks,
\* mood_scores, entity_mentions and source_files.  newer says that updated_at
\* is later than the newest score.
Row == [state : {"absent", "live", "deleted"}, text : Version,
        owner : Nat, count : Nat, stale : BOOLEAN, newer : BOOLEAN,
        chunks : Version, moods : Version, mentions : Version,
        files : SUBSET File]

Vector == [text : Version, owner : Nat]

JobKind == {"ingest", "reprocess", "extract", "mood", "extract_stale", "backfill"}

\* What the row of a job says in params_json: the entry, if it names one, the
\* held upload of an ingestion, the user.
JobRecord == [kind : JobKind, entry : Entry \cup {NoEntry},
              upload : Uploads \cup {<<>>}, user : Nat]

Steps == {"idle", "check", "read", "create", "store", "chunk", "embed",
          "score", "count", "return", "follow", "select", "next", "clear",
          "model", "mention", "mark", "save", "submit", "purge", "drop"}

\* The local state of a thread: what it runs and the entry its job names, the
\* entry it works on, and the values it has read.
Local == [pc : Steps, kind : {"none", "text", "media", "edit", "delete"} \cup JobKind,
          job : Entry \cup {NoEntry}, entry : Entry \cup {NoEntry},
          upload : Uploads \cup {<<>>}, user : Nat, idx : Nat, text : Version,
          count : Nat, todo : SUBSET Entry, attempt : Nat]

VARIABLES
    db,       \* the tables, by entry
    vectors,  \* the collection in ChromaDB, by entry and chunk index
    queue,    \* the jobs the executor has still to run
    thread,   \* the local state of each thread
    asked,    \* the text the owner last asked the entry to have
    faults,   \* provider and store calls that have raised
    crashes   \* crashes so far

vars == <<db, vectors, queue, thread, asked, faults, crashes>>

-----------------------------------------------------------------------------
(* The two stores.                                                         *)

Absent == [state |-> "absent", text |-> 0, owner |-> 0, count |-> 0,
           stale |-> FALSE, newer |-> FALSE, chunks |-> 0, moods |-> 0,
           mentions |-> 0, files |-> {}]

Live(e) == db[e].state = "live"

\* AUTOINCREMENT: the id after the largest ever used.
FreshId(e) == db[e].state = "absent" /\ \A i \in 1..(e - 1) : db[i].state # "absent"

\* A new row is stale by the column's default.
Created(e, u) ==
    [db EXCEPT ![e] = [Absent EXCEPT !.state = "live", !.text = 1,
                                     !.owner = u, !.stale = TRUE]]

\* The stale trigger fires, updated_at moves on, and the caller's chunk_count
\* is written with the text.
TextUpdated(e, n) ==
    [db EXCEPT ![e] = [@ EXCEPT !.text = db[e].text + 1, !.count = n, !.stale = TRUE,
                                !.newer = db[e].moods # 0]]

\* Variant: a mark that no reader of the table knows.
RowMarked(e) == [db EXCEPT ![e].state = "trashed"]

\* Every table that refers to entries has ON DELETE CASCADE.
RowDeleted(e) == [db EXCEPT ![e] = [Absent EXCEPT !.state = "deleted"]]

Chunked(e, v) == [db EXCEPT ![e].chunks = v]
Counted(e, n) == [db EXCEPT ![e].count = n]
Scored(e, v) == [db EXCEPT ![e] = [@ EXCEPT !.moods = v, !.newer = FALSE]]
Mentioned(e, v) == [db EXCEPT ![e].mentions = v]
Extracted(e) == [db EXCEPT ![e].stale = FALSE]
Stored(e, f) == [db EXCEPT ![e].files = @ \cup {f}]

NoVector == [text |-> 0, owner |-> 0]

\* Chroma's add() leaves ids that exist as they are.
VectorsAdded(e, v, u) ==
    [vectors EXCEPT ![e] =
        [i \in ChunkId |-> IF vectors[e][i] = NoVector /\ i <= Chunks[v]
                           THEN [text |-> v, owner |-> u] ELSE vectors[e][i]]]

VectorsDeleted(e) == [vectors EXCEPT ![e] = [i \in ChunkId |-> NoVector]]

\* Variant: nobody looks for the hash.
NeverDuplicate(f) == FALSE

\* _is_duplicate: a file of an entry that still exists.
IsDuplicate(f) == \E e \in Entry : f \in db[e].files

-----------------------------------------------------------------------------
(* Threads and jobs.                                                       *)

Idle == [pc |-> "idle", kind |-> "none", job |-> NoEntry, entry |-> NoEntry,
         upload |-> <<>>, user |-> 0, idx |-> 0, text |-> 0, count |-> 0,
         todo |-> {}, attempt |-> 0]

At(t, step) == thread[t].pc = step
Becomes(t, local) == thread' = [thread EXCEPT ![t] = local]
Goto(t, step) == Becomes(t, [thread[t] EXCEPT !.pc = step])

\* A single job ends, for better or worse; a batch goes on to its next entry
\* whatever happened to this one.
EntryDone(t) ==
    IF thread[t].todo = {} THEN Becomes(t, Idle) ELSE Goto(t, "next")

JobOf(k, e) == [kind |-> k, entry |-> e, upload |-> <<>>, user |-> 0]

\* Variants: only a running job, or only a queued one, blocks a delete.
RunningFor(e) == \E w \in Workers : thread[w].job = e
QueuedFor(e) == \E i \in 1..Len(queue) : queue[i].entry = e

\* has_active_jobs_for_entry: a queued or running job whose parameters name
\* the entry.  Those of an ingestion or a batch name none.
ActiveFor(e) ==
    \/ \E i \in 1..Len(queue) : queue[i].entry = e
    \/ \E w \in Workers : thread[w].job = e

Init ==
    /\ db = [e \in Entry |-> Absent]
    /\ vectors = [e \in Entry |-> [i \in ChunkId |-> NoVector]]
    /\ queue = <<>>
    /\ thread = [t \in Thread |-> Idle]
    /\ asked = [e \in Entry |-> 0]
    /\ faults = 0
    /\ crashes = 0

\* Bound: an upload is only made while there is an id left for it.
Room ==
    Cardinality({e \in Entry : db[e].state = "absent"}) >
        Cardinality({i \in 1..Len(queue) : queue[i].kind = "ingest"})
        + Cardinality({w \in Workers : thread[w].kind = "ingest"})

\* A handler of the event loop starts; it runs to its end before the next.
Requested(r) == r \in Requests /\ At("api", "idle") /\ Len(queue) <= MaxQueue

-----------------------------------------------------------------------------
(* Ingestion, in a job (kind "ingest"), in POST /api/entries/ingest/text   *)
(* ("text"), or in an MCP tool ("media", with no files for typed text).    *)

Ingesting(k, u, up) ==
    [Idle EXCEPT !.kind = k, !.user = u, !.upload = up, !.idx = 1,
                 !.pc = IF up = <<>> THEN "create" ELSE "check"]

PostText(u) ==
    /\ Requested("text") /\ Room
    /\ Becomes("api", Ingesting("text", u, <<>>))
    /\ UNCHANGED <<db, vectors, queue, asked, faults, crashes>>

\* An ingestion job is queued with its upload held in memory.
PostUpload(u, up) ==
    /\ Requested("upload") /\ Room
    /\ queue' = Append(queue, [JobOf("ingest", NoEntry) EXCEPT !.upload = up,
                                                               !.user = u])
    /\ UNCHANGED <<db, vectors, thread, asked, faults, crashes>>

\* journal_ingest_media and its siblings ingest on the event loop.
CallMedia(u, up) ==
    /\ Requested("media") /\ Room
    /\ Becomes("api", Ingesting("media", u, up))
    /\ UNCHANGED <<db, vectors, queue, asked, faults, crashes>>

\* A duplicate is refused with a ValueError, which is never retried.
CheckFile(t) ==
    /\ At(t, "check")
    /\ IF IsDuplicate(thread[t].upload[thread[t].idx])
       THEN Becomes(t, Idle) ELSE Goto(t, "read")
    /\ UNCHANGED <<db, vectors, queue, asked, faults, crashes>>

\* OCR or transcription of one file returns.
ReadFile(t) ==
    /\ At(t, "read")
    /\ IF thread[t].idx < Len(thread[t].upload)
       THEN Becomes(t, [thread[t] EXCEPT !.pc = "check", !.idx = @ + 1])
       ELSE Goto(t, "create")
    /\ UNCHANGED <<db, vectors, queue, asked, faults, crashes>>

CreateEntry(t) ==
    /\ At(t, "create")
    /\ \E e \in Entry :
          /\ FreshId(e)
          /\ db' = Created(e, thread[t].user)
          /\ asked' = [asked EXCEPT ![e] = 1]
          /\ Becomes(t, [thread[t] EXCEPT
                            !.entry = e, !.text = 1, !.idx = 1,
                            !.pc = IF thread[t].upload = <<>>
                                   THEN "chunk" ELSE "store"])
    /\ UNCHANGED <<vectors, queue, faults, crashes>>

\* _store_source_file.  A foreign key error when the entry is gone.
StoreFile(t) ==
    LET e == thread[t].entry
    IN  /\ At(t, "store")
        /\ \/ /\ Live(e)
              /\ db' = Stored(e, thread[t].upload[thread[t].idx])
              /\ IF thread[t].idx < Len(thread[t].upload)
                 THEN Becomes(t, [thread[t] EXCEPT !.idx = @ + 1])
                 ELSE Goto(t, "chunk")
           \/ /\ ~Live(e)
              /\ Becomes(t, Idle)
              /\ UNCHANGED db
        /\ UNCHANGED <<vectors, queue, asked, faults, crashes>>

\* _process_text, shared with re-embedding: replace_chunks first, with the
\* same foreign key error.
ReplaceChunks(t) ==
    LET e == thread[t].entry
    IN  /\ At(t, "chunk")
        /\ \/ /\ Live(e)
              /\ db' = Chunked(e, thread[t].text)
              /\ Goto(t, "embed")
           \/ /\ ~Live(e)
              /\ Becomes(t, Idle)
              /\ UNCHANGED db
        /\ UNCHANGED <<vectors, queue, asked, faults, crashes>>

\* skip_mood: only the media tools and re-embedding score the mood of the
\* entry in _process_text; everyone else leaves it to a job.
ScoresInline(local) ==
    local.kind = "reprocess" \/ (local.kind = "media" /\ local.upload # <<>>)

\* The embeddings arrive and are added to the collection, which knows nothing
\* of the entries table.
Embed(t) ==
    /\ At(t, "embed")
    /\ vectors' = VectorsAdded(thread[t].entry, thread[t].text, thread[t].user)
    /\ Goto(t, IF ScoresInline(thread[t]) THEN "score" ELSE "count")
    /\ UNCHANGED <<db, queue, asked, faults, crashes>>

\* update_chunk_count touches no row when the entry is gone.
UpdateCount(t) ==
    LET e == thread[t].entry
    IN  /\ At(t, "count")
        /\ db' = IF Live(e) THEN Counted(e, Chunks[thread[t].text]) ELSE db
        /\ IF thread[t].kind = "reprocess"
           THEN EntryDone(t) ELSE Goto(t, "return")
        /\ UNCHANGED <<vectors, queue, asked, faults, crashes>>

\* get_entry at the end of an ingestion finds nothing when the entry was
\* deleted meanwhile, and the caller trips over the None.
Return(t) ==
    /\ At(t, "return")
    /\ IF Live(thread[t].entry) /\ thread[t].kind # "media"
       THEN Goto(t, "follow") ELSE Becomes(t, Idle)
    /\ UNCHANGED <<db, vectors, queue, asked, faults, crashes>>

\* _queue_post_ingestion_jobs, and the same in the text handler.
FollowUp(t) ==
    /\ At(t, "follow")
    /\ queue' = queue \o <<JobOf("mood", thread[t].entry),
                           JobOf("extract", thread[t].entry)>>
    /\ Becomes(t, Idle)
    /\ UNCHANGED <<db, vectors, asked, faults, crashes>>

-----------------------------------------------------------------------------
(* The other jobs.                                                         *)

BatchKinds == {"extract_stale", "backfill"}

\* A worker takes the next job.
Take(w) ==
    LET j == Head(queue)
    IN  /\ At(w, "idle") /\ queue # <<>>
        /\ queue' = Tail(queue)
        /\ Becomes(w, IF j.kind = "ingest"
                      THEN Ingesting("ingest", j.user, j.upload)
                      ELSE IF j.kind \in BatchKinds
                      THEN [Idle EXCEPT !.kind = j.kind, !.pc = "select"]
                      ELSE [Idle EXCEPT !.kind = j.kind, !.pc = "next",
                                        !.job = j.entry, !.todo = {j.entry}])
        /\ UNCHANGED <<db, vectors, asked, faults, crashes>>

\* get_entries_missing_mood_scores: no scores, or an edit after the newest.
NeedsScores(e) == Live(e) /\ (db[e].moods = 0 \/ db[e].newer)

\* The entries a batch will look at, read once.
Selected(k) ==
    {e \in Entry : IF k = "backfill" THEN NeedsScores(e)
                   ELSE Live(e) /\ db[e].stale}

Select(w) ==
    /\ At(w, "select")
    /\ Becomes(w, IF Selected(thread[w].kind) = {} THEN Idle
                  ELSE [thread[w] EXCEPT !.pc = "next",
                                         !.todo = Selected(thread[w].kind)])
    /\ UNCHANGED <<db, vectors, queue, asked, faults, crashes>>

FirstStep(k) ==
    CASE k = "reprocess" -> "clear"
      [] k \in {"extract", "extract_stale"} -> "model"
      [] k \in {"mood", "backfill"} -> "score"

\* The job reads the entry: its text is the one all its steps work with.
\* reprocess_embeddings is called without a user.  A missing entry fails a
\* single job and is skipped by a batch.
ReadEntry(w) ==
    /\ At(w, "next")
    /\ \E e \in thread[w].todo :
          LET rest == thread[w].todo \ {e}
          IN  Becomes(w, IF Live(e)
                         THEN [thread[w] EXCEPT !.pc = FirstStep(thread[w].kind),
                                                !.entry = e, !.text = db[e].text,
                                                !.user = DefaultUser,
                                                !.todo = rest]
                         ELSE IF rest = {} THEN Idle
                         ELSE [thread[w] EXCEPT !.todo = rest])
    /\ UNCHANGED <<db, vectors, queue, asked, faults, crashes>>

\* Re-embedding deletes the old vectors, then goes through _process_text.
ClearVectors(w) ==
    /\ At(w, "clear")
    /\ vectors' = VectorsDeleted(thread[w].entry)
    /\ Goto(w, "chunk")
    /\ UNCHANGED <<db, queue, asked, faults, crashes>>

\* score_entry: the scorer answers and the scores replace the old ones, with
\* a foreign key error when the entry is gone.
Score(t) ==
    LET e == thread[t].entry
    IN  /\ At(t, "score")
        /\ \/ /\ Live(e)
              /\ db' = Scored(e, thread[t].text)
              /\ IF ScoresInline(thread[t]) THEN Goto(t, "count") ELSE EntryDone(t)
           \/ /\ ~Live(e)
              /\ EntryDone(t)
              /\ UNCHANGED db
        /\ UNCHANGED <<vectors, queue, asked, faults, crashes>>

\* extract_from_entry: the model answers, then the results of the last run
\* are deleted.
ModelAnswers(w) ==
    LET e == thread[w].entry
    IN  /\ At(w, "model")
        /\ db' = IF Live(e) THEN Mentioned(e, 0) ELSE db
        /\ Goto(w, "mention")
        /\ UNCHANGED <<vectors, queue, asked, faults, crashes>>

\* The mentions and relationships of this run; "deleted during extraction"
\* when the entry is gone and there is any to write.
WriteMentions(w) ==
    LET e == thread[w].entry
    IN  /\ At(w, "mention")
        /\ \/ /\ Live(e)
              /\ db' = Mentioned(e, thread[w].text)
              /\ Goto(w, "mark")
           \/ /\ ~Live(e)
              /\ EntryDone(w)
              /\ UNCHANGED db
        /\ UNCHANGED <<vectors, queue, asked, faults, crashes>>

\* mark_entry_extracted, whatever the text is by now.
MarkExtracted(w) ==
    LET e == thread[w].entry
    IN  /\ At(w, "mark")
        /\ db' = IF Live(e) THEN Extracted(e) ELSE db
        /\ EntryDone(w)
        /\ UNCHANGED <<vectors, queue, asked, faults, crashes>>

\* POST /api/entities/extract for one entry, or a batch.
PostExtract(e) ==
    /\ Requested("extract") /\ Live(e)
    /\ queue' = Append(queue, JobOf("extract", e))
    /\ UNCHANGED <<db, vectors, thread, asked, faults, crashes>>

PostBatch(k) ==
    /\ Requested(k)
    /\ queue' = Append(queue, JobOf(k, NoEntry))
    /\ UNCHANGED <<db, vectors, thread, asked, faults, crashes>>

-----------------------------------------------------------------------------
(* Editing and deleting, on the event loop.                                *)

\* PATCH with a text: save_final_text reads the row ...
Edit(e) ==
    /\ Requested("edit") /\ Live(e) /\ db[e].text < MaxText
    /\ Becomes("api", [Idle EXCEPT !.kind = "edit", !.pc = "save", !.entry = e,
                                   !.count = db[e].count])
    /\ UNCHANGED <<db, vectors, queue, asked, faults, crashes>>

\* ... and writes the text together with the chunk_count it has read.
SaveText ==
    LET e == thread["api"].entry
    IN  /\ At("api", "save")
        /\ db' = TextUpdated(e, thread["api"].count)
        /\ asked' = [asked EXCEPT ![e] = db[e].text + 1]
        /\ Goto("api", "submit")
        /\ UNCHANGED <<vectors, queue, faults, crashes>>

\* Variant: the edit pipeline forgets the embeddings.
StagesWithoutVectors(e) == <<JobOf("extract", e), JobOf("mood", e)>>

\* Variant: or the entities.
StagesWithoutEntities(e) == <<JobOf("reprocess", e), JobOf("mood", e)>>

\* The stages of submit_save_entry_pipeline.
SaveStages(e) ==
    <<JobOf("reprocess", e), JobOf("extract", e), JobOf("mood", e)>>

SubmitStages ==
    /\ At("api", "submit")
    /\ queue' = queue \o SaveStages(thread["api"].entry)
    /\ Becomes("api", Idle)
    /\ UNCHANGED <<db, vectors, asked, faults, crashes>>

\* The MCP tool passes user_id to update_entry_text, which has no such
\* parameter: the TypeError is all the client gets.
CallUpdateTool(e) ==
    /\ Requested("tool") /\ Live(e) /\ db[e].text < MaxText
    /\ asked' = [asked EXCEPT ![e] = db[e].text + 1]
    /\ UNCHANGED <<db, vectors, queue, thread, faults, crashes>>

\* DELETE is refused while a job names the entry.
Delete(e) ==
    /\ Requested("delete") /\ Live(e) /\ ~ActiveFor(e)
    /\ Becomes("api", [Idle EXCEPT !.kind = "delete", !.pc = "purge", !.entry = e])
    /\ UNCHANGED <<db, vectors, queue, asked, faults, crashes>>

\* The vectors go first,
PurgeVectors ==
    /\ At("api", "purge")
    /\ vectors' = VectorsDeleted(thread["api"].entry)
    /\ Goto("api", "drop")
    /\ UNCHANGED <<db, queue, asked, faults, crashes>>

\* then the row, and with it all that refers to it.
DropRow ==
    LET e == thread["api"].entry
    IN  /\ At("api", "drop")
        /\ db' = RowDeleted(e)
        /\ asked' = [asked EXCEPT ![e] = 0]
        /\ Becomes("api", Idle)
        /\ UNCHANGED <<vectors, queue, faults, crashes>>

-----------------------------------------------------------------------------
(* Calls that raise, and the end of the process.                           *)

Faulty == faults < MaxFaults /\ faults' = faults + 1

\* A provider or ChromaDB raises.  An ingestion job starts again from its
\* first file when the error is transient and it has attempts left; anything
\* else ends what the thread was doing.
CallRaises(t) ==
    /\ thread[t].pc \in {"read", "embed", "clear", "model", "purge"} /\ Faulty
    /\ \/ /\ thread[t].kind = "ingest" /\ thread[t].attempt < MaxRetries
          /\ Becomes(t, [Ingesting("ingest", thread[t].user, thread[t].upload)
                            EXCEPT !.attempt = thread[t].attempt + 1])
       \/ EntryDone(t)
    /\ UNCHANGED <<db, vectors, queue, asked, crashes>>

\* score_entry swallows the scorer's error and writes nothing.
ScorerFails(t) ==
    /\ At(t, "score") /\ Faulty
    /\ IF ScoresInline(thread[t]) THEN Goto(t, "count") ELSE EntryDone(t)
    /\ UNCHANGED <<db, vectors, queue, asked, crashes>>

\* A submission after an ingestion raises: it is logged, and the other goes on.
FollowUpRaises(t) ==
    /\ At(t, "follow") /\ Faulty
    /\ \E k \in {"mood", "extract"} :
          queue' = Append(queue, JobOf(k, thread[t].entry))
    /\ Becomes(t, Idle)
    /\ UNCHANGED <<db, vectors, asked, crashes>>

\* A submission raises: PATCH logs it, and the later stages are not queued.
SubmissionRaises ==
    /\ At("api", "submit") /\ Faulty
    /\ \E n \in 0..2 :
          queue' = queue \o SubSeq(SaveStages(thread["api"].entry), 1, n)
    /\ Becomes("api", Idle)
    /\ UNCHANGED <<db, vectors, asked, crashes>>

\* The process dies and is started again: both stores stay, everything in
\* memory is gone, and the jobs it had are failed.
Crash ==
    /\ crashes < MaxCrashes
    /\ crashes' = crashes + 1
    /\ queue' = <<>>
    /\ thread' = [t \in Thread |-> Idle]
    /\ UNCHANGED <<db, vectors, asked, faults>>

-----------------------------------------------------------------------------
Request ==
    \/ \E u \in Users : PostText(u)
    \/ \E u \in Users, up \in Uploads : PostUpload(u, up)
    \/ \E u \in Users, up \in Uploads \cup {<<>>} : CallMedia(u, up)
    \/ \E e \in Entry : Edit(e) \/ CallUpdateTool(e) \/ Delete(e) \/ PostExtract(e)
    \/ \E k \in BatchKinds : PostBatch(k)

IngestStep(t) ==
    \/ CheckFile(t) \/ ReadFile(t) \/ CreateEntry(t) \/ StoreFile(t)
    \/ ReplaceChunks(t) \/ Embed(t) \/ Score(t) \/ UpdateCount(t)
    \/ Return(t) \/ FollowUp(t)

ApiStep == IngestStep("api") \/ SaveText \/ SubmitStages \/ PurgeVectors \/ DropRow

WorkerStep(w) ==
    \/ IngestStep(w) \/ Take(w) \/ Select(w) \/ ReadEntry(w) \/ ClearVectors(w)
    \/ ModelAnswers(w) \/ WriteMentions(w) \/ MarkExtracted(w)

Fault ==
    \/ \E t \in Thread : CallRaises(t) \/ ScorerFails(t) \/ FollowUpRaises(t)
    \/ SubmissionRaises

Next == Request \/ ApiStep \/ (\E w \in Workers : WorkerStep(w)) \/ Fault \/ Crash

Spec == Init /\ [][Next]_vars

\* Handlers and workers go on: provider calls end, and nothing else blocks
\* them.  Requests, faults and crashes need not happen.
FairSpec == Spec /\ WF_vars(ApiStep) /\ \A w \in Workers : WF_vars(WorkerStep(w))

-----------------------------------------------------------------------------
(* Properties.                                                             *)

\* Every variable has its type.
TypeOK ==
    /\ db \in [Entry -> Row]
    /\ vectors \in [Entry -> [ChunkId -> Vector]]
    /\ queue \in Seq(JobRecord)
    /\ thread \in [Thread -> Local]
    /\ asked \in [Entry -> Version]
    /\ faults \in Nat
    /\ crashes \in Nat

Undisturbed == faults = 0 /\ crashes = 0

Quiet == queue = <<>> /\ \A t \in Thread : At(t, "idle")

\* The collection holds the chunks of the current text and no others.
Indexed(e) ==
    \A i \in ChunkId :
        vectors[e][i].text = IF i <= Chunks[db[e].text] THEN db[e].text ELSE 0

\* When nothing has raised and all work is done, an entry has the text its
\* owner last asked for, and chunks, chunk count and vectors are those of that
\* text, however edits, ingestions and re-embeddings were interleaved.  (The
\* MCP tool of another user changes nothing, so it is left aside.)
SearchCaughtUp ==
    Undisturbed /\ Quiet =>
        \A e \in Entry : Live(e) =>
            /\ "tool" \notin Requests => db[e].text = asked[e]
            /\ db[e].chunks = db[e].text
            /\ db[e].count = Chunks[db[e].text]
            /\ Indexed(e)

\* When nothing has raised and all work is done, mood scores and mentions are
\* those of the current text, and no entry is marked for another extraction.
\* Entries ingested by an MCP tool get no extraction job, so this is said
\* where there are none.
ExtrasCaughtUp ==
    Undisturbed /\ Quiet /\ "media" \notin Requests =>
        \A e \in Entry : Live(e) =>
            /\ db[e].moods = db[e].text
            /\ db[e].mentions = db[e].text
            /\ ~db[e].stale

\* The vectors of an entry are never of two texts at a time, whatever raises
\* or crashes between the delete and the add.
NoMixedVectors ==
    \A e \in Entry : \A i, k \in ChunkId :
        vectors[e][i] # NoVector /\ vectors[e][k] # NoVector =>
            vectors[e][i].text = vectors[e][k].text

\* While files are only ingested by jobs, no file is in two entries: retries,
\* repeated uploads and crashes add nothing twice.
OneEntryPerFile ==
    "media" \notin Requests =>
        \A d, e \in Entry : d # e => db[d].files \cap db[e].files = {}

\* While entries are only made on the event loop, a deleted entry has no
\* vectors: the check for active jobs keeps every re-embedding away.
NoOrphanVectors ==
    "upload" \notin Requests =>
        \A e \in Entry : db[e].state # "live" =>
            \A i \in ChunkId : vectors[e][i] = NoVector

\* Under the same condition, an entry that a waiting or running job names
\* still exists: no such job fails for a missing entry.
JobsHaveEntries ==
    "upload" \notin Requests =>
        /\ \A i \in 1..Len(queue) : queue[i].entry # NoEntry => Live(queue[i].entry)
        /\ \A w \in Workers : thread[w].job # NoEntry => Live(thread[w].job)

\* While nothing raises, every text a user saves reaches the search index,
\* unless it is edited again or deleted.
EditsReachSearch ==
    \A e \in Entry, v \in Text :
        Live(e) /\ db[e].text = v ~>
            ~Live(e) \/ db[e].text # v \/ Indexed(e) \/ ~Undisturbed

-----------------------------------------------------------------------------
(* What the repository says of the program and the program does not do.    *)

\* docs/auth.md: vectors carry their owner's user_id, and searches filter by
\* it.
VectorsCarryOwner ==
    \A e \in Entry : \A i \in ChunkId :
        Live(e) /\ vectors[e][i] # NoVector => vectors[e][i].owner = db[e].owner

=============================================================================
