# Verification of the journal server

TLA+ specifications of the journal server (`src/src/journal`), checked with TLC
on small instances and, where stated, proved with TLAPS for every value of the
constants. Paths below are relative to the repository unless they name a module.

## 1. The system

The server ingests photographed, dictated and typed journal entries, keeps them
in SQLite (rows, chunks, mood scores, entities) and ChromaDB (vectors), and
answers searches over REST and MCP. One process runs an event loop, one worker
thread for background jobs, and a health-polling thread; all of them share one
SQLite connection.

| Part | State it keeps | Operations | What is hard |
| --- | --- | --- | --- |
| Job runner (`services/jobs.py`, `db/jobs_repository.py`) | `jobs` table, executor queue, held uploads | submit, run, retry, queue follow-ups, notify, shut down, reconcile after a restart | API thread against worker, calls that raise, lost process, retries |
| Process (`mcp_server.py`) | the services | start, reconcile, atexit, live settings | restart at any point |
| Ingestion (`services/ingestion.py`, `vectorstore/store.py`) | `entries`, `source_files`, `entry_chunks`, vectors | ingest image, voice, text, URL; save text; re-embed; re-chunk; delete | two stores, slow provider calls between read and write, retry after partial work |
| Entry repository (`db/repository.py`) | the rows of an entry | create, edit, delete, replace chunks and scores | transactions on a shared connection |
| Entities (`services/entity_extraction.py`, `entitystore/store.py`) | entities, aliases, mentions, relationships, merge candidates, stale flag | extract one or many, merge, rename, delete, prune | re-extraction against edits, merges and prunes |
| Shared connection (`db/connection.py`) | the open transaction | execute, commit, rollback from several threads | one thread commits what another has half done |
| Mood (`services/mood_scoring.py`, `services/backfill.py`) | `mood_scores` | score one, backfill, prune | staleness against edits |
| Accounts (`services/auth.py`, `auth.py`, `auth_api.py`, `db/user_repository.py`) | users, failure counter, lock, sessions, keys; tokens in mails | log in, lock, register, reset, verify, issue and revoke keys, change users | several commits for one operation; handlers that wait between check and write; time |
| Settings and reload (`services/runtime_settings.py`, `services/reload.py`) | cache, table, what the services hold | set, reload, start | cache and table, services rebound in turn, a start from the configuration |
| Health polling and notifications (`services/health_poll.py`, `services/notifications.py`) | last status of each component; topics, credentials | poll, alert, tell of a failed job | which transitions raise an alert; recipients that change on the way |
| OCR and transcription (`providers/ocr.py`, `providers/transcription.py`) | a call in progress | read, mark doubts, reconcile two readings, retry, fall back, shadow | offsets through each conversion; whose failure counts |
| Chunking (`services/chunking.py`) | none | pack, split, merge | seams, budgets, overlap |
| Search (`services/query.py`, `services/hybrid.py`, `providers/reranker.py`) | cache of results | keyword, vector and hybrid search | entries that change under a search and under the cache |

The parts meet at four places: the HTTP handlers submit jobs and edit entries on
the event loop; the worker runs jobs that call ingestion, extraction and mood
scoring; both write through the same connection; and the notification service is
called by both. `PROJECT.json` lists every part with its status, and every
hazard with the line where it bites and the properties that watch it.

What makes each part correct:

* Job runner: every job ends, and ends once; its owner hears of the outcome
  once, at the right time, with the truth; nothing held in memory is lost or
  kept for ever; a restart leaves no unfinished row.
* Ingestion: when the last edit has been processed, chunks, vectors and counts
  are those of the current text; a deleted entry leaves nothing behind; a retry
  adds nothing twice.
* Entities: one extraction's results per entry; every mention and relationship
  points at a living entity; no entity without a mention survives a prune, none
  with a mention is pruned; a merge is all or nothing (as it turns out, up to a
  crash).
* Mood: an entry whose scores are older than its text is found by the backfill.
* Accounts: the fifth failure in a row locks; a success or an expired lock
  restarts the count; after a reset no old session is valid.
* Settings: cache, table and services agree after every completed change, and
  the two users of the mood dimensions never differ.
* Health: an administrator hears of every outage, once.
* Reading: the letters a model doubted are the ones marked in the entry.
* Chunking: every letter is in a chunk, what is carried over and packed stays
  within the budgets.
* Search: no page shows another user's entry; what the cache shows was true a
  short time ago.

## 2. The modules

### JobRunner

The jobs table, the executor and the two threads. The state and the code:

| Variable | In the code |
| --- | --- |
| `rows` | the `jobs` table: status, type, `parent_job_id`, `follow_up_jobs`, `_notification_sent`, `status_detail` |
| `up`, `open` | the process exists; the executor accepts work |
| `queue` | the work queue of the one-thread executor |
| `pending` | `_pending_images` and `_pending_audio` |
| `thread` | locals and position of the API thread in `submit_save_entry_pipeline` and of the worker in its `_run_*` body |
| `pushes` | calls of the notification service, by job and kind |
| `faults`, `stops` | counters for the bounds `MaxFaults` and `MaxStops` |

One action is one call on the jobs table, which the repository's lock makes
atomic, together with the local work up to the next call. Submission is one
step where nobody can see its middle (`Submit`), and one step per row where
somebody can (`BeginPipeline`, `SubmitChild`, `FinishParent`).
`_try_pipeline_notification` is written once for both threads: `ReadParent`,
`ReadChild` for each sibling, `Claim`, `Send`. The worker's five bodies share
their control: `Take`, `Start`, the body's outcomes (`BodyReturns`,
`BodyRaises`, `BodyTransient` with `Wake`, `EntryMissing`), `QueueFollowUp`,
`Succeed`, `AnnounceSuccess`, and the handler `Fail`, `AnnounceFailure`.
Calls that raise are actions of their own (`SubmitFaults`, `PipelineFaults`,
`FollowUpFaults`, `WorkerFaults`): the write is lost, or it stays for the next
commit on the connection to keep. `Crash`, `Shutdown`, `Exit` and `Restart` are
the life of the process; `Restart` reconciles.

Details of the code that the model keeps because the properties depend on them:
a mark_succeeded overwrites `result_json` and with it the claim of the summary;
a call that raises after `mark_succeeded` turns the row to failed; the handler
of an ingestion whose `mark_running` raised does not know its user (an unbound
local) and tells nobody; a follow-up whose executor is shut down leaves a row
nobody runs; a queued row that loses its process is failed by the next one
without a push.

Left out: progress counters, texts, results other than the follow-up list. All
jobs have a user and notifications are configured, as for jobs submitted over
HTTP; the services the bodies call are there, so that the early exits "Ingestion
service not available" do not occur.

### JobLifecycle

What docs/jobs.md promises, in four states and a record of good and bad news
told: no terminal state is left, an outcome is told at most once, not before the
job and the jobs that finish it are settled, and good news only of a job that
succeeded. `JobRunner!ImplementsLifecycle` is the refinement: `told.good` are the
success pushes, `told.bad` the failure and breakdown pushes, `parts` the
follow-ups.

### MCJobRunner

The constants of the runs. One kind of job stands for each shape of worker body:
"ingest" (held data, retries, follow-ups) and "mood" (the exit for a missing
entry); the plain shape ("extract", "reprocess") occurs as follow-up and as stage
of a save.

### JobRunnerProofs

That JobRunner is well typed; that no job of it is given a second summary, that a
summary comes last and is true, that no unfinished job is without an owner, and that
every step of JobRunner is a step of JobLifecycle (TLAPS). Section 4 has the
arguments of this and of all other proofs.

### Entries

Entries and everything derived from them, in both stores, with the handlers and
jobs that write them.

| Variable | In the code |
| --- | --- |
| `db` | a row of `entries` with its rows in `entry_chunks`, `mood_scores`, `entity_mentions` and `source_files`; `newer` is the comparison of `updated_at` with the scores that the backfill makes |
| `vectors` | the ChromaDB collection, by entry and chunk index |
| `queue` | the jobs the executor has still to run |
| `thread` | locals and position of the event loop ("api") in a handler or MCP tool, and of the worker in a job |
| `asked` | the text the owner last asked for, which `SearchCaughtUp` compares with what is stored and searched |
| `faults`, `crashes` | counters for the bounds `MaxFaults` and `MaxCrashes` |

Handlers and tools call the services synchronously, so the event loop runs one
of them to its end before the next; the worker runs one job at a time; the two
interleave between any two writes or provider calls. A text is the number of its
version and everything derived is the version it was made from, so that "up to
date" is an equation. Texts differ in their number of chunks (`Chunks`), because
ChromaDB's `add` leaves existing ids alone: a shorter text would leave the tail
of a longer one, a longer one would be mixed with the old.

One ingestion is `CheckFile`, `ReadFile` for each file, `CreateEntry`,
`StoreFile` for each file, `ReplaceChunks`, `Embed`, `Score` where mood is scored
inline, `UpdateCount`, `Return` and `FollowUp`; re-embedding is `ReadEntry`,
`ClearVectors` and the same steps from `ReplaceChunks` on; extraction is
`ModelAnswers`, `WriteMentions`, `MarkExtracted`; editing is `Edit`, `SaveText`,
`SubmitStages`; deleting is `Delete`, `PurgeVectors`, `DropRow`. Writes to the
rows of an entry that is gone fail with a foreign key error, or touch no row, as
the statement in the code does. Errors are `CallRaises`, `ScorerFails`,
`FollowUpRaises` and `SubmissionRaises`.

Mood scoring is enabled and has dimensions; texts are not blank. Left out: dates
of entries, pages and uncertain spans, tags and people, the command-line
rechunk and forced backfills, `update_entry_text` (which no caller can reach),
and the statuses, pushes and restarts of jobs, which are JobRunner's. Batches
visit their entries in any order. `updated_at` and the time of the scores are
taken to differ when one write follows another; they have seconds in the code,
and within the same second the backfill passes an entry by.

### MCEntries

The constants of the runs of Entries: uploads of one and two files, texts of one
and two chunks, and which requests clients make. The user is not user 1, the one
a call without `user_id` works for.

### EntriesProofs

That Entries is well typed; that vectors of two texts are never mixed; that
everything derived from a text has caught up with it once the work is done; what the
check for active jobs and the check for duplicates protect (TLAPS).

### Entities

The entity graph: what extractions find in entries, resolved against what is
known, and the handlers that merge, rename and delete.

| Variable | In the code |
| --- | --- |
| `db` | `entities` with `entity_aliases`, `entity_mentions`, `entity_relationships`, `entity_merge_candidates`, `entity_merge_history`, and of `entries` which exist and which are stale: as every thread of the process sees them |
| `saved` | the same as of the last commit: what a crash leaves |
| `run` | locals and position of `extract_from_entry`, and of the batch around it, on the worker and on the event loop ("loop"), where the MCP tool runs it |
| `api` | locals and position of the handler that deletes an entry, or merges |
| `jobs` | the queued extraction jobs |
| `runs`, `broken`, `faults`, `crashes` | extractions so far, whether one has stopped half-way, and counters for the bounds |

The store takes no lock and commits after every call, so a step is one call of
the store with the local work up to the next. Only `merge_entities` issues
several statements before its commit: `MergeRecord`, `MergeMentions`,
`MergeEdges`, `MergeAliases` and `MergeDrop` change `db` alone, `MergeCommit`
makes them durable, and so does any other commit that comes in between, because
the connection is shared. A merge that meets an error (`GiveUp`) answers and
leaves its statements in the open transaction.

One extraction is `ReadEntry`, `Ask` (the model), `SnapshotPrior`,
`DeleteMentions`, `DeleteEdges`; then for each person `Resolve` (stages a and b)
or `Embed` (stage c), `CreateEntity`, `SetEmbedding`, `CreateCandidate`,
`AddAliases`, `CreateMention`; then for each relationship `FindAuthor`,
`CreateAuthor`, `CreateRelationship`; at last `Prune` and `Mark`. Whatever
raises ends the extraction of this entry (`Raise`) and a batch goes on with the
next. Foreign keys and cascades are those of the migrations: a row for an
entity or entry that is gone makes the call raise, and removing an entity takes
its aliases, mentions, relationships, candidates and history along.

Abstractions: entities are of one type; a name has its spelling (`Name`) and two
lower-case forms: `Lower`, of SQLite's LOWER, which leaves letters beyond ASCII
alone and which the lookup by name compares, and `Fold`, of Python's lower, which
aliases, merges and relationships use; what `Lower` takes for one name, `Fold`
does. An embedding is the name it was made of, and
`Alike` and `Close` say which names reach the threshold or come near it; where
several are alike, any may be the best; the aliases of one person are added in
one step, and the two updates of a merge's relationships are one.

### MCEntities

The constants of the runs of Entities: names, among them the author's, one in two
spellings that SQLite folds and one in two that it does not ("Elodie" and
"elodie", for a name with an accented first letter), and the answers the model may
give.

### EntitiesProofs

All safety properties of Entities that hold: that its rows refer to rows that exist,
that an entry has the results of one extraction, that users share no entities, that
what SQLite takes for one name has one entity, what merges and their history leave,
and that no entity is left over (TLAPS).

### Accounts

Users, sessions, API keys, mailed tokens, and the middleware that admits
requests.

| Variable | In the code |
| --- | --- |
| `db` | `users` (hash, flags, `failed_login_attempts`, `locked_until`), `user_sessions`, `api_keys`; of a session also which password opened it (`by`) and which handler (`via`) |
| `mails` | signed tokens of password reset and verification: they say nothing of the state they were made in and any may be used, again too, while its time lasts |
| `handlers` | requests that wait for their body, or a registration for its mail |
| `clock` | time; the stored times are compared the way SQLite compares the strings (`Later`) |
| `torn`, `faults` | users whose last reset stopped half-way; calls that raised and crashes |

Every call of a handler is synchronous, so a handler is one step, except where
it awaits; then what it has checked before (the sender, the registration switch)
may no longer be true. Every write commits on its own: a step is a list of the
databases its commits leave behind (`Commits`), and it reaches the last or stops
at any of them. Left out: display names, last-seen and last-used times, read-only
endpoints, `logout_all` and `cleanup_expired_sessions` (no caller), and requests
that are turned away.

### AccountsProofs

That Accounts is well typed, that lock, counter and sessions follow each other, and
when failures are forgotten (TLAPS).

### Settings, Notifications, Server

`Settings` is a runtime setting on its way from a PATCH to the part it governs:
`table` and `cache` (RuntimeSettings), `services` (the attributes that
`_on_runtime_setting_change` and the reloads rebind, one by one: `writes`), `files`
(context and mood files on disk), `todo` (the rest of a request), and two records
for the properties: `unsaved` (settings whose last write raised) and `adrift`
(settings whose part has been told something else, with the code's reasons in the
definitions of `ApplyChange`, `Reload` and `Start`).

`Notifications` has the poller (`last`, `seen`), the notices that it and the
worker give recipient by recipient (`notices`), preferences (`muted`, `reachable`,
`admins`) and what was heard (`alerted`, `told`). Whether a message that is handed
to Pushover arrives is not modelled.

`Server` composes them: one process whose parts start and stop together and share
a database that may stop answering (`Answers`), which makes a write of a setting
raise and a notice fall silent. A change of the deployed configuration between
two starts is not modelled.

### ServerProofs

That Server is well typed, its services follow the settings and agree about the
mood dimensions, and nobody is told of anything twice (TLAPS).

### Reading, Chunking, Search, Texts

`Reading` follows an upload: what the models say (`said`), the results of the
providers for its parts (`parts`: text and doubted offsets), the call in progress
with its attempts, fallback and shadow (`call`), and the entry (`entry`). A text
is a short sequence of letters, blanks, line breaks and marks, and the conversions
are operators on it: marks to offsets (`PageResult`), log probabilities and phrases
to offsets (`TakeResult`), two readings to one (`Reconciled`), parts to a whole
(`Joined`), the heading (`Unheaded`), the formatter (`Formatted`). Spans are kept as
the set of offsets they cover, so merging adjacent spans is a union.

`Chunking` cuts the stored text, by either chunker. How many tokens a text has is a
constant (`TokenCount`), and need not be the sum over its parts: as in the code,
chunks are packed by the sum over their pieces, while segments and whole texts are
counted as joined. The splitter may return a sentence changed (`Altered`): such a
sentence is placed where the text has it next, or else at the cursor (`Located`).
Similarities may put the cuts anywhere. `Search` has the rows and vectors as far as a search
sees them (`rows`, `vectors`), the cache (`cached`, `recency`), and one search at a
time in its phases (`run`): the search is synchronous on the event loop, so other
requests wait, but the worker re-embeds meanwhile. Any ranking by the index, the
vectors or the model is possible. `Texts` composes the three: the entry that was
read is chunked, embedded and found.

### ReadingProofs

That the results of the providers are what their answers make them, that where two
readings of a page are reconciled nothing doubted becomes sure, and that the letters a
model marked are the doubted ones of the entry (TLAPS). It also has the lemmas on texts,
spans and words that the next two modules use.

### ChunkingProofs

That the chunks of an entry lose no word of it, where the splitter leaves its sentences
as they are, and that what is packed into them keeps to the budget (TLAPS).

### SearchProofs

That uploads and searches of Texts are well typed, that no page shows another user's entry, nor a deleted one for longer than the
cache keeps a result, and that the cache keeps to its limit (TLAPS).

### MCAccounts, MCServer, MCTexts

The constants of the runs of these modules.

## 3. What is checked

| Run | Shows |
| --- | --- |
| `job_faults` | With any one call on the table raising and one crash or shutdown: at most one summary per pipeline (`AtMostOneSummary`), none before the last job of its pipeline (`SummaryComesLast`) |
| `job_restart` | With one crash or shutdown and no raising call: every unfinished row has an owner and a waiting ingestion its data (`NobodyForgotten`), the summary says what the rows say (`SummaryTruthful`), every job settles (`EveryJobSettles`), its user hears once unless the process stopped (`OwnerHears`), and the runner implements the life cycle (`ImplementsLifecycle`) |
| `entries_jobs` | Uploads ingested by jobs while entries are edited and deleted: when all work is done and nothing has raised, the entry has the text last asked for, and chunks, count and vectors are those of that text (`SearchCaughtUp`), so are scores and mentions (`ExtrasCaughtUp`); no file is in two entries, with a raising call and a retry too (`OneEntryPerFile`); every saved text reaches the index (`EditsReachSearch`) |
| `entries_loop` | Entries made on the event loop, edited and deleted, with one raising call and one crash: a deleted entry leaves no vectors (`NoOrphanVectors`), a delete takes no entry from under a job (`JobsHaveEntries`), vectors of two texts are never mixed (`NoMixedVectors`) |
| `entries_owner` | Violated: docs/auth.md says that vectors carry the `user_id` of their owner; re-embedding after an edit writes user 1 |
| `entities_jobs` | Extractions by jobs while entries and entities are deleted, with one crash: rows refer to rows that exist, durably too (`TypeOK`); an entry has the results of one extraction (`OneRunPerEntry`); the spellings that SQLite takes for one name have one entity (`NoTwins`); when all is quiet no entity is left without a mention (`NoneLeftBehind`) |
| `entities_tool` | Jobs and the MCP tool extract the entries of two users at once, candidates are reviewed and a provider call raises: no entry and no candidate brings entities of two users together (`OwnersKept`) |
| `entities_merge` | Merges and renames of one user's entities during extractions, with names that SQLite does not fold: what the history says was absorbed is gone, also after a merge that ended in an error (`HistoryTrue`); what an absorbed entity was called leads to its survivor, as an alias, unless it was the survivor's own name at the time (`MergedNamesLead`) |
| `accounts_lockout` | Logins, resets, keys, registrations and an administrator, interleaved where they wait, with one raising call or crash: whatever refers to a user refers to one that exists (`TypeOK`); lock and counter go together, and a raising call gives away at most one guess (`LockFollowsCount`); failures are forgotten for a login, a reset or the end of a lock only (`CountKept`); after a reset no session of the old password is left, unless the reset stopped half-way (`SessionsFollowPassword`) |
| `accounts_expiry` | Violated: sessions expire after 7 days, says docs/auth.md; on its last day a session stays valid until midnight UTC |
| `server` | Patches, reloads, edits of files, outages, failed jobs and a restart: the services follow the settings, and the table has what a restart will need (`InForce`); ingestion and job runner score with the same dimensions (`MoodTogether`); nobody hears of an outage or a failed job twice (`ToldOnce`); administrators hear of every outage (`OutageHeard`) |
| `texts` | Uploads of every kind, and searches: doubted letters stay the doubted ones and the shown text is the end of what was read (`DoubtsTravel`); two readings are reconciled as the docstring says (`DisputesMarked`); chunks cover a text that the splitter left as it is, and hold the words of their range (`NothingLost`); their pieces add up to the budget and the overlap at most (`BudgetKept`); no page shows another user's entry (`OwnEntriesOnly`), nor one that was deleted longer ago than the cache keeps a result (`StaleForATime`); every upload is stored or fails (`ReadingEnds`) |

Bounds of JobRunner. Five rows hold a save with its three stages together with another job,
or an ingestion with its two follow-ups and two more, which is where the two
threads and two pipelines meet; one retry has a first attempt, a wait and a last
attempt; one fault and one stop, at any step, reach every handler. A request is
only taken when the table has room for all its rows (`Room`), so no behaviour is
cut inside a pipeline; the end of the rows is why deadlock is not checked.

Bounds of Entries. Two entries and three uploads, one of which shares its files
with the others, are enough for duplicates within and across entries; two texts
for an edit, three for a re-embedding that follows a re-embedding; texts of one
and two chunks tell an index that grew from one that shrank. `MaxQueue` only
holds clients back while jobs are waiting, and `Room` uploads that would find no
id: a handler or job that has begun is never cut short. One fault and one crash
come at any step. The ends of these bounds are why deadlock is not checked.

Bounds of Entities. Two entries, of one user or of two, are what an entity needs
to be shared or left over; up to four entities are two names, a late twin of one
and the author; two or three extractions let one entry be extracted anew while
another refers to the same entities. One queued job beside the running one is
enough, since jobs run in turn. A merge absorbs up to two entities, with ids
repeated or the survivor's own, which is how it fails half-way. Three names, two of
them spellings of one, are a survivor, what it absorbs, and a name to rename it to. An extraction
needs a number and an entity an id: a thread that finds none left waits, which
is why deadlock is not checked, and no property asks that anything ends.

Bounds of Accounts. Two users, one of them the administrator; two wrong passwords
lock, which is enough for the count to be above, at and below the threshold when
a lock ends, one tick later; in `accounts_expiry` a day has two ticks, so that a time
can be later on the same day. One session, key and waiting handler, two mails: what matters is what comes between
a check and a write, and the reuse of a token.

Bounds of Server. Instead of every combination, `Loads` lists what may happen
together: requests with edits and a restart, an outage during requests, outages
with a restart and a change of preferences, outages with a failed job. Two users
show that a recipient is neither skipped nor told twice.

Bounds of Texts. Pages of up to four characters have every nesting of marks;
scribbles of two words have every alignment of two readings; two parts have one
seam. Texts of four words with every separator, and a long one, meet every budget
of two or three tokens. A token is a letter, a full stop or a run of line breaks, so
that a joined text has more than its pieces. In one text the splitter changes two
sentences: one is then nowhere in the text, the other is found too late. Two entries of one user with one of another, and a cache
of two results for three keys, are what a ranking and an eviction need.

Fairness of JobRunner (`FairSpec`). Weak fairness of the API thread's and the worker's steps:
a handler runs on, nothing blocks it but the repository's lock; a provider call
or a sleep ends. Weak fairness of `Exit` and `Restart`: atexit ends the process
once the worker is done, and docker-compose restarts it. Requests, faults,
crashes and shutdowns are never forced.

Fairness of Entries (`FairSpec`). Weak fairness of the event loop's and of the
worker's steps, for the same reasons; requests and faults need not happen.

Fairness of Server. Weak fairness of the poller (`WF_vars(Watch)`): it is a thread
that runs as long as the server does. No request, outage or restart is forced.

Fairness of Texts. Weak fairness of reading (`WF_vars(Read)`): the clients of the
providers give up on a call in the end, and the handler or worker goes on.

`EveryJobSettles` is checked with no raising call. With one, a row stays running
if `mark_failed` itself raises, until the next restart: docs/jobs.md calls a
stuck running row impossible "under normal process lifetime".

Conditions that some properties of Entries carry, and what the code does outside
them:

* `OneEntryPerFile` is said of uploads by jobs. An MCP tool that ingests a file
  while a job ingests the same file passes the duplicate check as well.
* `NoOrphanVectors` and `JobsHaveEntries` are said where entries are made on the
  event loop. The check for active jobs sees only jobs whose parameters name the
  entry; an ingestion job still working on the entry it has just created is not
  seen, its entry can be deleted, and it then adds vectors that nothing removes.
* `ExtrasCaughtUp` is said without MCP ingestion, whose entries are not queued
  for extraction.
* `SearchCaughtUp`, `ExtrasCaughtUp` and `EditsReachSearch` are said while
  nothing raises: an embedding call that fails after the old vectors were
  deleted leaves the entry without vectors, and no job looks for such entries.

Conditions that some properties of Entities carry, and what the code does
outside them:

* `OneRunPerEntry` is said of extraction by jobs (see below).
* `NoneLeftBehind` is said while no extraction or delete has stopped half-way
  (`broken`). One that fails after its deletes leaves entities without mentions,
  and a retry no longer knows of them.
* `NoneLeftBehind` is checked with jobs for single entries and deletes of entries
  and entities. A batch job is not seen by the check of a delete, and an entity it
  has just created for the deleted entry stays. It excepts the author, whom a
  relationship brings in without a mention; a prune of the author takes the
  relationships of other entries along.
* `HistoryTrue` and `MergedNamesLead` are said while nothing crashes. A commit of
  the worker can make half a merge durable; if the process stops before the rest,
  the history tells of an entity that is still there.
* `NoTwins` is said of names that extractions give, where the MCP tool does not
  extract: a rename only minds the exact letters, and the tool may insert between the
  worker's look and its insert. It is said of `Lower`: names that differ in the case of
  a letter beyond ASCII pass stages a and b, and are one entity only if stage c
  finds their embeddings alike.
* `MergedNamesLead` excepts what was the survivor's own name, in Python's lower case,
  when the merge was made: `merge_entities` makes no alias of it
  (`entitystore/store.py:721`). That name is then found by stage a only, in the
  spellings that SQLite takes for the survivor's, and while the survivor keeps it.
  Merging two spellings that SQLite tells apart, or renaming the survivor, leaves
  it without an entity, and the next extraction brings it back.

Conditions that other properties carry:

* `SessionsFollowPassword` leaves aside the session a registration opens after its
  mail, and users whose reset stopped between its commits: their old sessions stay.
* `InForce` excepts what is `adrift`: a setting whose rebuilding or write raised; OCR
  after an admin reload, and OCR and mood scoring after a start, where the
  configuration says otherwise; and `transcription_context_enabled`, which no part
  reads while the server runs.
* `OutageHeard` is said while the database answers: the alert that would tell that
  it does not needs it to look up the administrators.
* `StaleForATime` bounds how long a deleted entry is shown; nothing clears the cache. It
  looks at the steps that make a page other than the one before.
* `NothingLost` is said of a text that the splitter returns as it is. A sentence it
  has changed is put at the cursor, with a warning (`services/chunking.py:119`): the
  range of its chunk and of those that follow may be that of other words.
* `BudgetKept` is said of what the chunkers add up: the tokens of the pieces of a chunk.
  The text of the chunk has more where the separators count: with the defaults, 150
  paragraphs of a token each are packed into one chunk although they have
  almost twice as many tokens when joined (`services/chunking.py:219`).
  A text of two sentences is not cut by the semantic chunker at all.
* `EveryJobSettles` and `NobodyForgotten` are said while no call on the jobs table
  raises, `MoodTogether` outside a handler, which rebinds one service after the other.

Seen while modelling, without a run of their own.

Jobs, entries and entities:

* A restart fails the stages of an interrupted save and nothing looks at their
  pipeline again (`db/jobs_repository.py:236`), so the user gets no push at all;
  docs/jobs.md:347 says "exactly one Pushover regardless of outcome". It also
  leaves `status_detail`, which migration 0010 says is cleared.
* The stale flag is cleared for whatever text the entry has when an extraction ends
  (`services/entity_extraction.py:293`): if the extraction of the edit made meanwhile
  is lost, the entry keeps mentions of the old text and is passed by;
  docs/entity-tracking.md:44 says "not touched since".
* The MCP tool that updates a text passes `user_id` to a method without that
  parameter (`mcp_server.py:993`, `services/ingestion.py:809`): every call is a
  TypeError; docs/api.md:1494 says it updates the text.
* The MCP tool that extracts runs beside the worker: both delete before either
  writes, and the results of both stay (`services/entity_extraction.py:138`);
  docs/entity-tracking.md:40 says the count can never double.
* The lookup of an entity by its name compares in SQLite, whose LOWER folds ASCII letters
  only (`entitystore/store.py:235`), while aliases, merges and relationships are folded
  by Python (`entitystore/store.py:183`, `:722`): "Élodie" does not find "élodie";
  docs/entity-tracking.md:52 says "Case-insensitive lookup".
* A transient error after the source file is stored makes the retry refuse the file
  as a duplicate, so the entry stays without chunks; a PATCH of the date alone
  leaves the old date in the vectors' metadata; every edit is scored for mood
  twice, once by re-embedding, which does not pass `skip_mood`, and once by the
  mood job; the table in docs/jobs.md has mood scored inline for images and audio,
  where the code queues a job; a merge of a survivor deletes its own merge history
  by cascade, and the candidates a merge means to accept are gone by the time it
  looks for them; a name already taken makes the rename of an entity an error 500.

Accounts: keys are compared with the time in the same way as sessions, and so would
the clean-up of sessions be; a reset token can be used again within its half hour;
the last administrator can demote himself; a handler that waits for its body goes on
for a sender who is no longer admitted.

Server: after a restart OCR provider and mood scoring follow the environment, not
the persisted settings, and setting the same value again does nothing
(docs/mood-scoring.md:4, :15); `transcription_context_enabled` has no effect at
runtime (docs/context-files.md:140); a failed rebuilding is reported as an error
although cache and table have changed; the admin reload of OCR undoes runtime OCR
settings; the dashboard's mood dimensions (`api.py:1239`) stay those of the start;
`services/ingestion.py:674` reads its mood service twice, and a handler may take it
away in between; a component that gets worse from degraded to error is silent.

Texts: an open mark without a close swallows the doubts of later pairs; the error
for an exhausted primary cannot occur, since a wrapper is only built with a
fallback; a shadow that hangs holds up the result; the second look at the database
in a search checks the owner but not the dates, so an entry whose date was changed
is found by its old date (`services/hybrid.py:338`); chunk offsets in a result come
from the current rows and indexes from the vectors; a chunk may have more tokens than
`CHUNKING_MAX_TOKENS`, by what is carried over and by the separators
(docs/configuration.md:49 calls it an upper bound); a ranking by the reranker that
is cut short loses candidates; a heading
that is the whole text leaves an entry with an empty text and no chunks.

## 4. What is proved

`JobRunnerProofs!TypeCorrect`: `Spec => []TypeOK` for every value of the
constants. The inductive invariant is `TypeOK /\ PlanOK`: `PlanOK` says that a
thread in a submission loop still has something to submit, without which
`Head(plan)` would be no kind of job.

`JobRunnerProofs!OneSummary`: `Spec => []AtMostOneSummary`, with no limit on jobs,
raising calls, crashes and restarts. The property is not inductive: nothing in
it keeps two threads from both standing before `Send`. Its strengthening `Once`
says who may still send a summary of a job:

* while the job is unfinished nobody may (`Untouched`: no follow-ups, no claim,
  no summary), and one party has it: the queue or one thread (`Exclusive`);
* marking it succeeded happens once, and either leaves it without follow-ups,
  so that only the worker at "announce" may send (`Announcing`), or with
  follow-ups and a claim that one thread can win (`Looking`, `Sending`);
* sending uses the right up (`Told`).

`AbsentIsBlank`, `JobsExist` and `ApiSteps` carry what the others need of rows
not yet created and of the steps each thread can be in. Steps that send nothing
are covered by one lemma (`MoveKeepsOnce`: each row is kept, made, finished or
won, and no thread gains a right), the two ways to send by another
(`GrantKeepsOnce`).

`JobRunnerProofs!SummaryLast`: `Spec => []SummaryComesLast`, whatever raises,
crashes or restarts. The look at a pipeline reads the siblings one by one, so the
invariant `Course` says that a terminal state stays terminal while the look goes
on: the place a thread has reached fixes the state of its job's row (`Place`), so
`mark_running` is only written for a queued job, and the siblings before the one
that is read next are settled (`Look`). `Waiting` and `Stopped` say the rest: a job
in the queue is queued in the table, and without a process there is no work.

`JobRunnerProofs!SummaryTrue` and `JobRunnerProofs!NoneForgotten`:
`Spec => []SummaryTruthful` and `Spec => []NobodyForgotten`. Both properties speak
of the time before a call raises, when no terminal state is left at all. `Clean`
says what a look has gathered (`Gathered`: the failures it has seen are those of the
rows it has read), and that a job about to fail or to be announced has told
nothing else (`Outcome`). `Stages` says what a thread has still to submit,
and `Owners` who answers for each unfinished row, and that the data in memory are
those of the waiting ingestions.

`JobRunnerProofs!RunnerImplementsLifecycle`:
`Spec /\ [](faults = 0) => ImplementsLifecycle`. Where no call on the table raises,
each step of the runner is mapped to one of JobLifecycle or to a stutter
(`LifecycleStep`): submissions make rows, the marks settle them, the pushes tell
good and bad news, everything else changes neither. The condition that a summary is
told after its parts is `Course`, that it is told once is `Once`, and that it is the
right news is `Clean`. With a call that raises, a row that has succeeded can turn to
failed: there the refinement does not hold and is not claimed.

`EntriesProofs!EntriesTyped`: `Spec => []TypeOK` for every value of the constants
of Entries. What a step reads is left by earlier steps, so the inductive
invariant `TypeInv` adds what they leave: a thread beyond the creation of its
entry has one and a text of it (`Shaped`), a job of the kinds that read an entry
names one (`NamedJob`), and an edit about to be saved is still below the last
text (`SaveReady`).

`EntriesProofs!VectorsUnmixed`: `Spec => []NoMixedVectors`. ChromaDB's `add` keeps
what it finds, so the property rests on who may embed an entry and on what that
thread finds. `VectorInv` adds to the property `Known` (a number not yet given to
an entry is named by no job and no thread, and has no vectors: so a new entry
starts from none) and `Alone` (at most one thread is between reading an entry and
embedding it, and from the delete of the old vectors to the add there are none).
The single worker matters here: with two, two re-embeddings of one entry would
meet, which is the mutant of this property in `entries_loop`.

`EntriesProofs!EntriesSearchCaughtUp` and `EntriesProofs!EntriesExtrasCaughtUp`:
`Spec => []SearchCaughtUp` and `Spec => []ExtrasCaughtUp`. These are said of states
where all work is done, so the invariant, `UpInv`, has to say of all others who will
still bring what lags behind. It has two parts, beside `VectorInv`:

* `Parted`: the worker and the event loop never derive the rows of one entry at the
  same time. The entry the event loop is ingesting has no job that embeds
  (`Sole`); `Placed` and `KindsApart` tell from the step a thread is at what kind of
  work it does.
* Of each entry, while nothing has raised, `Up`: chunks, count and vectors are those
  of the text, or a re-embedding is queued, or a thread is on its way to them with
  the current text (`Searched`); the text is the last that was asked for
  (`Asked`); the scores are current, or a job will
  score them or a thread is before the step that does (`Rated`); and the same of
  mentions and the stale flag (`Noted`).

Every step either keeps an entry's row and the thread that is at work on it, or
moves one of the two on. The delicate one is an edit that is saved while the
worker has read the old text: what the worker then writes is old, but the stages of
the edit are still to be queued, or queued behind it.

`EntriesProofs!NoOrphans` and `EntriesProofs!JobsKeepEntries`:
`Spec => []NoOrphanVectors` and `Spec => []JobsHaveEntries`, by one invariant,
`Guarded`. Where no ingestion is queued, the worker embeds only the entry its job
names (`WorkerFits`), that entry and those of queued jobs exist (`JobFits`), and
so does the one the event loop works on; and from the check for active jobs to
the delete of the row no job names the entry, because the event loop, busy with
the delete, is the only one to queue jobs (`Deleting`). So the vectors that are
deleted first stay away until the row is gone.

`EntriesProofs!FilesUnshared`: `Spec => []OneEntryPerFile`. The invariant,
`Unshared`, says that the places of an upload that have passed the duplicate
check (`Checked`) are files of no entry but the worker's own, until they are
stored: nothing else stores files meanwhile. It also shows why a retry is safe,
though useless after the first file was stored: it starts from nothing checked.

These are all the safety invariants of Entries.

`EntitiesProofs!EntitiesTyped`: `Spec => []TypeOK` of Entities, which includes the
foreign keys of both `db` and `saved`. The invariant `Typed` adds what a thread
at a step holds (`Fits`: an entry and a run number once it has read, a person
where it works on one) and what a handler holds (`Handles`). The weight is in the
lemmas on the tables: each way to add or remove rows keeps every reference
(`MentionAdded`, `RemovalSound`, `EntryRemovalSound` and the like).

`EntitiesProofs!EntitiesOneRun`: where the tool is not among the requests,
`OneRunPerEntry` always holds, with any number of jobs, merges, deletes, raising
calls and crashes. The invariant `Alone` says that the event loop extracts
nothing, that both `db` and `saved` have one run per entry (a crash goes back to
`saved`), and that the worker, once past its deletes, finds no rows of its entry
but those of its own run. All other steps only take rows away or move them to
another entity (`FewerRows`, `MovedFewer`). The condition is needed: with the tool,
both extractions delete before either writes.

`EntitiesProofs!EntitiesOwned`: `Spec => []OwnersKept`, with the tool too. The
invariant `Owned` says it of `db` and of `saved`, and of what a thread or a handler
holds between two calls: the entities found for an entry are its owner's, and those
of a merge are one user's. The check of a merge is made once, at its start; it stays
good because ids are not used again.

`EntitiesProofs!EntitiesHistory`: `Spec => []HistoryTrue`. `Told` says that an id
in the history is gone or is one that the merge in progress, whose survivor is the
same, is about to drop. A merge that gives up is safe for a reason of the schema: once
its row is written it does so only where the survivor is gone, and with the survivor
the row has gone by cascade.

`EntitiesProofs!EntitiesNoTwins`: `NoTwins` where there are neither renames nor the
tool. `TwinFree` says besides that the name a worker is about to create has no
entity yet, from the lookup to the insert. Renames check the name as it is
spelt, and the tool creates while the worker looks, so both are left out. The theorem
speaks of `Lower`, which the lookup compares; of `Fold` it would be false.

`EntitiesProofs!EntitiesLead`: `Spec => []MergedNamesLead`, for any two functions of case,
with renames and everything else. `Leading` says that the name and the aliases of what
was absorbed, but for the survivor's name of that time, are aliases of the survivor or
among the aliases that the merge in progress is about to add (`Carried`). Nothing
takes an alias away but the end of the entity, and with the survivor its history goes.

`EntitiesProofs!EntitiesNoneLeft`: `NoneLeftBehind` for jobs for single entries,
edits, deletes of entries and entities, and reviews, as in `entities_jobs`. `Tidy`
says of an entity without a mention who will still mention or prune it (`Tended`,
`Covered`): the worker, which has it in hand or remembers it from the extraction before
(`Noting`), or the delete of an entry. `Apart` keeps the two from working on one entry: a
delete is refused while a job names the entry. A batch names none, which is why it is
left out, and merges, which prune nothing, may strand what they come across.

The conditions on `Requests` are those of the runs, stated in the theorems because
the properties do not carry them.

`AccountsProofs`: `TypeOK`, `LockFollowsCount`, `SessionsFollowPassword` and
`CountKept` for any users, bounds, raising calls and crashes. One invariant, `Inv`,
carries all four. Its heart, `Fine(d, n, T)`, is said of any database that a commit
may leave, with n raising calls so far and T the users whose reset is torn, so that
one lemma per write serves every place in a handler where it can be the last:

* `Counted` strengthens the lock: an account without a lock has a guess left, one
  with a lock has used them up. A failure that is counted but not locked, because
  the next statement raised, is paid by that raising call (`IncrementedFine`).
* `Follow`: sessions were opened with the current password or their user is in T.
  Changing the hash puts the user into T (`HashedFine`), ending the sessions takes
  him out (`SessionsDroppedFine`); a reset that stops between leaves him there.
* Rows of users never go (`Grows`), so what a waiting handler or a mail refers to
  stays.

`CountKept` follows from `Inv` step by step: a step that lowers a counter without
raising wrote the user whose lock has run out, who logs in or whose password is
reset. `SessionsEnd`, which the code violates, is of course not among them.

`SearchProofs!OwnEntries`: `Spec => []OwnEntriesOnly` of Texts, for any entries and
owners, any ranking, any cache, and with the worker, edits and deletes changing rows
and vectors at any time; it assumes that entries and chunks are finite. The
invariant `OwnInv` says that a search knows entries of its user only (`Running`) and
that what is cached for a key or answered is made of such entries. What the vectors
contribute needs no invariant: `Resolve` looks it up again (`ResolveKeeps`). The rest
of the work is in the operators, which must not show anything they were not given:
picking positions (`PickedFrom`), reranking whatever the model sends
(`RerankedFrom`), and sorting a page, where the order is a strict order
(`BeforeOrders`), so that each position of the page is one of the result
(`Positions`).

`SearchProofs!StaleNotForLong`: `Spec => StaleForATime`, an action property, from the
same invariant and `StaleInv`: an entry with a row was never deleted, and an upload
has none before it is stored (`OnceDeleted`; the database does not use a number
twice, which is the assumption on `New`); what a running search knows, and what a
cached result holds, was not deleted before the search began (`KnownThere`,
`CachedThere`); and a cached result is as old as it says. The last is where a
cache that renews its hits would fail.

`SearchProofs!CacheBounded`: `Spec => []SearchType`, the part of the type invariant of
Texts that is about searches. `CacheInv` says that the cached keys are just those whose
use is remembered, each once, and no more than the limit; the weight is in the lemmas on
taking keys out of a sequence (`ThoseOnce`, `WithoutKey`, `TouchedKey`) and in the one
that what is evicted leaves room for the rest (`RoomLeft`).

`SearchProofs!TextsTypes`: `Spec => []TypeOK` of Texts, so with the part about uploads
(`ReadingType`): tries within their bound, and doubted offsets within the text. Its
invariant is `ReadInv`, of ReadingProofs, on which the next five results rest as well:
what the providers returned for a part is `ResultOf` what was said
about it, and what is stored is those parts joined, with a heading lifted off or
reformatted (`FinalOf`). So what a page turns into need not be followed
through the retries and fallbacks, and the rest is about operators.

The recursive functions of Reading and Chunking walk over a text. The induction
theorems of the library take an operator as a parameter, which the provers cannot
instantiate, so induction is over sets of numbers instead: `UpTo` says that a set with 0
and, with each number below n, its successor, has all up to n, and `Recursion` that the
function a recursive definition chooses exists. Both follow from the least number of a
set (`LeastOf`). Each recursive operator has a lemma that shows its CHOOSE (`..Chosen`), and
one that says it is the function (`..Function`, `..Facts`).

`ReadingProofs!DisputesStayMarked`: `Spec => []DisputesMarked`, for any two answers. Its three parts are three
inductions over the pairs of the alignment:

* `ReconciledReliable`: the sure words of what has been put together are words of the
  primary, in order, that it read for sure (`SurelyRead`). Each piece is appended so that no
  word runs into the next (`Apart`, `Reliable`).
* `ReconciledUndoubted`: where nobody doubts, what has been put together is the
  beginning of the primary's text (`Copied`, `Undoubted`).
* `ReconciledAgreed`: two readings with the same words are aligned word by word
  (`AlignedSelf`: the longest run is all of them), and then a word is doubted
  if either doubted it.

`ReadingProofs!LettersKeepDoubts`: `Spec => []DoubtsTravel`, for any answers with any
marks. `Flagged` is shown to be a selection from the text with a flag on each character
(`FlaggedAre`), so that it takes texts that are put together to sequences that are put
together (`FlaggedJoin`, of which padding, stripping and joining the parts are uses:
`StrippedFlagged`, `JoinedFlagged`). On a page, the program follows the depth of the
marks in one pass, whereas `MeantAt` says by counting which letters a model doubted:
`DepthExact` says that above its surroundings the depth is the surplus of open marks, so
what closes a mark by the one is what matches it by the other (`MatchedIs`); the outermost
pairs are those at depth 0 (`PairsAre`), a letter is doubted if it stands in one
(`MeantIs`), and taking the marks out moves it to the offset that is recorded
(`KeptIs`, `MarkedIs`). That the shown text is the end of the stored one is
`FinalSuffix`: a reformatted text has the same words, and a text has the
letters of its words (`FlaggedWords`).

`ChunkingProofs!ChunksCover`: `Spec => []NothingLost`, for either chunker, any budgets,
any cuts, and any text of which the splitter changes nothing (`Unaltered`, the condition in
`NothingLost`). The invariant `ChunkInv` says that the chunks of such a text are `Tiled`:
each has just the words from some word to a later one (`Holds`); they begin in order; and
every word is in one of them. The chunkers work on pieces (paragraphs,
sentences) that follow each other without losing a letter (`Chain`, `Follow`), and each step
keeps this of what is done and what is open: `PackKeeps` with the tail that is carried
over, `FillingKeeps` with the paragraphs that are split, `MergeKeeps` for the merging
of small segments. That a sentence is found where it stands, and not earlier, is because
the search starts where the sentence before ended.

`ChunkingProofs!ChunksFit`: `Spec => []BudgetKept`, for any tokeniser, which is only
assumed to give a number, any text, altered sentences too, and any budgets and cuts.
What is open while chunks are packed is light enough (`Opened`, `Packing`): what is
carried over fits into the overlap and the next piece into the budget, or it is the
first, and then no longer than the longest sentence (`PackFits`). Whole texts and
segments are within the budget as joined (`Small`).

`ServerProofs`: `TypeOK`, `MoodTogether`, `InForce` and `ToldOnce`, for any settings
in force, any requests and any users. A handler rebinds the services one attribute at
a time, so the invariant speaks of what they will be when it is through (`Soon`):
that follows the cache for every setting that is not adrift (`Followed`), and is the
same for both users of the mood service (`MoodSoon`, with `Rebinding`: at most these
two attributes are rebound together, with one value). `Kept` compares cache and
table. `ToldOnce` needs that a notice goes through its recipients once, and that
none of them has heard: of a job, because each job is told of by one notice, whose
administrators exclude the owner (`Fresh`); of an outage, because nobody has
heard of a component that was last seen well (`Unheard`).

Only model-checked is liveness under fairness (`EveryJobSettles`, `OwnerHears`,
`EditsReachSearch`, `OutageHeard`, `ReadingEnds`), which is out of the prover's reach.
Each safety property of a passing run is a theorem. `TokenCount`, `Altered`, `Fold` and
`Lower` are constants of the theorems: nothing is assumed of tiktoken, and of the
splitter only that it returns no blank sentence and none with blanks around it.

Before a proof was tried, TLC checked each inductive invariant on the run of its
module.

## 5. Plan

Done so far: job runner, entries, entities, accounts, settings with health polling
and notifications, and the way of a text from upload to search; and proofs of their
safety properties (section 4). Left:

1. A property, with its proof, of the entities after an extraction that stopped
   half-way.
2. The shared connection: the rollbacks of one thread against the open statements
   of another, which Entities leaves out; an abstract specification with atomic
   operations.
3. Migrations: scripts, `user_version`, foreign keys, crashes between them.

Not modelled: the command line (one-shot commands over the same services), the
calls to embedding, extraction and mood models beyond what may come back, date
extraction, statistics, pricing and logging (formatting and I/O without control of
their own).
