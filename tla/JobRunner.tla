------------------------------ MODULE JobRunner ------------------------------
(***************************************************************************)
(* The background-job runner of the journal server                         *)
(* (src/journal/services/jobs.py) with the rows of its jobs table          *)
(* (src/journal/db/jobs_repository.py) and the process around it           *)
(* (src/journal/mcp_server.py).                                            *)
(*                                                                         *)
(* Two threads share the jobs table.  "api" is the event-loop thread: it   *)
(* submits jobs.  "worker" is the only thread of the ThreadPoolExecutor:   *)
(* it runs them one after the other.  Both run                             *)
(* _try_pipeline_notification, so that procedure is written once, for a    *)
(* thread t.  A step is one call on the jobs table (the repository's lock  *)
(* makes each call atomic) together with the local work up to the next.    *)
(*                                                                         *)
(* Progress counters, texts of messages and results other than the list    *)
(* of follow-up jobs are left out.  Every job has a user_id and            *)
(* notifications are configured, as they are for a job submitted over      *)
(* HTTP.  A push is counted when the code hands it to the notification     *)
(* service, which swallows delivery errors.                                *)
(***************************************************************************)
EXTENDS Integers, Sequences, FiniteSets

CONSTANTS
    MaxJobs,      \* bound: number of rows the jobs table can hold
    ApiKinds,     \* kinds of job clients submit on their own
    MoodSettings, \* values of the enable_mood_scoring runtime setting
    MaxRetries,   \* Len(_RETRY_DELAYS_SECONDS): retries of an ingestion
    MaxFaults,    \* bound: calls on the jobs table that raise
    MaxStops      \* bound: crashes and shutdowns of the process

ASSUME MaxJobsAssumption == MaxJobs \in Nat
ASSUME ApiKindsAssumption ==
    ApiKinds \subseteq {"ingest", "extract", "mood", "reprocess", "backfill"}
ASSUME MoodSettingsAssumption == MoodSettings \subseteq BOOLEAN
ASSUME BoundsAssumption ==
    /\ MaxRetries \in Nat
    /\ MaxFaults \in Nat
    /\ MaxStops \in Nat

JobId == 1..MaxJobs
NoJob == 0

Thread == {"api", "worker"}

\* "ingest" stands for ingest_images and ingest_audio, whose workers have the
\* same control; "pipeline" for save_entry_pipeline, which no worker runs.
Kind == {"ingest", "extract", "mood", "reprocess", "backfill", "pipeline"}

Active == {"queued", "running"}
Terminal == {"succeeded", "failed"}

\* A row of the jobs table.  claim is what result_json says of the pipeline
\* push: no result yet, no _notification_sent key, or the key set.
Row == [status    : {"absent"} \cup Active \cup Terminal,
        kind      : Kind \cup {"none"},
        parent    : JobId \cup {NoJob},
        followUps : Seq(JobId),
        claim     : {"none", "unsent", "sent"},
        detail    : BOOLEAN]

Steps == {"idle", "children", "start", "body", "sleep", "follow", "succeed",
          "announce", "fail", "announce_fail",
          "check_parent", "check_child", "claim", "send"}

\* The local state of a thread: the job it works on (for "api" the pipeline
\* parent), the kinds still to submit, the follow-ups submitted so far, the
\* sibling being looked at and whether one had failed, the retry attempt,
\* whether an exception would still reach the worker's except handler, and
\* whether that handler knows whom to tell: the one of an ingestion reads
\* job_user_id, which the try block only binds after mark_running.
Local == [pc : Steps, job : JobId \cup {NoJob}, plan : Seq(Kind),
          made : Seq(JobId), idx : Nat, bad : BOOLEAN,
          attempt : Nat, guarded : BOOLEAN, known : BOOLEAN]

PushKinds == {"success", "failed", "breakdown", "retrying"}

VARIABLES
    rows,     \* the jobs table
    up,       \* the server process is running
    open,     \* the executor accepts work
    queue,    \* the executor's work queue
    pending,  \* jobs whose images or recordings are held in memory
    thread,   \* the local state of the two threads
    pushes,   \* pushes handed to the notification service, by job
    faults,   \* calls on the jobs table that have raised
    stops     \* crashes and shutdowns so far

vars == <<rows, up, open, queue, pending, thread, pushes, faults, stops>>

-----------------------------------------------------------------------------
(* The jobs table.                                                         *)

Blank == [status |-> "absent", kind |-> "none", parent |-> NoJob,
          followUps |-> <<>>, claim |-> "none", detail |-> FALSE]

\* The identifier create() gives the next row: never used before.
Fresh(j) == /\ rows[j].status = "absent"
            /\ \A i \in 1..(j - 1) : rows[i].status # "absent"

Created(j, k, p) ==
    [rows EXCEPT ![j] = [Blank EXCEPT !.status = "queued",
                                      !.kind = k, !.parent = p]]

Running(j) == [rows EXCEPT ![j].status = "running"]

Detailed(j, d) == [rows EXCEPT ![j].detail = d]

\* result_json is overwritten, and with it the _notification_sent key.
Succeeded(j, kids) ==
    [rows EXCEPT ![j] = [@ EXCEPT !.status = "succeeded", !.detail = FALSE,
                                  !.followUps = kids, !.claim = "unsent"]]

Failed(j) == [rows EXCEPT ![j] = [@ EXCEPT !.status = "failed",
                                           !.detail = FALSE]]

Claimed(p) == [rows EXCEPT ![p].claim = "sent"]

ReconciledBy(from, to) ==
    [j \in JobId |-> IF rows[j].status \in from
                     THEN [rows[j] EXCEPT !.status = to] ELSE rows[j]]

\* Variants of the next definition, each with one plausible bug: a status no
\* reader knows, no reconciliation, running rows only.
ReconciledToUnknown == ReconciledBy(Active, "interrupted")
ReconciledNothing == rows
ReconciledRunning == ReconciledBy({"running"}, "failed")

\* reconcile_stuck_jobs() leaves status_detail as it was.
Reconciled == ReconciledBy(Active, "failed")

\* The parent's notify_strategy, fixed in its params, is compressed_all.
CompressedAll(p) == rows[p].kind = "pipeline"

\* _get_notify_strategy: the job leaves its failure to the pipeline's push.
Defers(j) == rows[j].parent # NoJob /\ CompressedAll(rows[j].parent)

Push(j, k) == pushes' = [pushes EXCEPT ![j][k] = @ + 1]

-----------------------------------------------------------------------------
(* Threads.                                                                *)

Idle == [pc |-> "idle", job |-> NoJob, plan |-> <<>>, made |-> <<>>,
         idx |-> 0, bad |-> FALSE, attempt |-> 0, guarded |-> FALSE, known |-> FALSE]

At(t, step) == up /\ thread[t].pc = step

Becomes(t, local) == thread' = [thread EXCEPT ![t] = local]

Goto(t, step) == Becomes(t, [thread[t] EXCEPT !.pc = step])

GoIdle(t) == Becomes(t, Idle)

Job(t) == thread[t].job

IsIngest(j) == rows[j].kind = "ingest"

Init ==
    /\ rows = [j \in JobId |-> Blank]
    /\ up = TRUE
    /\ open = TRUE
    /\ queue = <<>>
    /\ pending = {}
    /\ thread = [t \in Thread |-> Idle]
    /\ pushes = [j \in JobId |-> [k \in PushKinds |-> 0]]
    /\ faults = 0
    /\ stops = 0

-----------------------------------------------------------------------------
(* Submission, on the API thread.                                          *)

\* Bound: a request is only taken up while the table has room for its rows
\* and for the two follow-ups each unfinished ingestion will add.
Room(n) ==
    Cardinality({j \in JobId : rows[j].status = "absent"}) >=
        n + 2 * Cardinality({j \in JobId : rows[j].kind = "ingest"
                                           /\ rows[j].status \in Active})

Serving == up /\ open /\ thread["api"].pc = "idle"

\* The rows a kind of job makes: an ingestion adds two follow-ups.
RowsOf(k) == IF k = "ingest" THEN 3 ELSE 1

\* submit_image_ingestion and its siblings: create the row, keep the data in
\* memory, hand the job to the executor.  Nobody looks at the row or the data
\* before the executor has the job, so this is one step.
Submit(k) ==
    /\ Serving /\ Room(RowsOf(k))
    /\ \E j \in JobId :
          /\ Fresh(j)
          /\ rows' = Created(j, k, NoJob)
          /\ pending' = IF k = "ingest" THEN pending \cup {j} ELSE pending
          /\ queue' = Append(queue, j)
    /\ UNCHANGED <<up, open, thread, pushes, faults, stops>>

\* The stages of a save, in the order they are submitted.
SaveStages(mood) ==
    <<"reprocess", "extract">> \o (IF mood THEN <<"mood">> ELSE <<>>)

\* submit_save_entry_pipeline, first half: create the parent row.
BeginPipeline(mood) ==
    /\ Serving /\ Room(1 + Len(SaveStages(mood)))
    /\ \E p \in JobId :
          /\ Fresh(p)
          /\ rows' = Created(p, "pipeline", NoJob)
          /\ Becomes("api", [Idle EXCEPT !.pc = "children", !.job = p,
                                         !.plan = SaveStages(mood)])
    /\ UNCHANGED <<up, open, queue, pending, pushes, faults, stops>>

\* Thread t, in a loop over its plan, is through with the first entry.
Submitted(t, made) ==
    [thread[t] EXCEPT !.plan = Tail(thread[t].plan), !.made = made,
                      !.pc = IF Len(thread[t].plan) = 1
                             THEN "succeed" ELSE thread[t].pc]

\* One stage is submitted with the parent's id.
SubmitChild ==
    /\ At("api", "children")
    /\ \E j \in JobId :
          /\ Fresh(j)
          /\ rows' = Created(j, Head(thread["api"].plan), Job("api"))
          /\ queue' = Append(queue, j)
          /\ Becomes("api", Submitted("api", Append(thread["api"].made, j)))
    /\ UNCHANGED <<up, open, pending, pushes, faults, stops>>

\* Variant: no sweep.
NoSweep == "idle"

\* Where the API thread goes once the parent is marked succeeded: the
\* defensive sweep.
AfterParent == "check_parent"

\* Second half: the one mark_succeeded that publishes the follow-up map.
FinishParent ==
    /\ At("api", "succeed")
    /\ rows' = Succeeded(Job("api"), thread["api"].made)
    /\ Goto("api", AfterParent)
    /\ UNCHANGED <<up, open, queue, pending, pushes, faults, stops>>

-----------------------------------------------------------------------------
(* _try_pipeline_notification, on either thread.                           *)

\* The parent whose pipeline thread t looks at.
Watched(t) == IF t = "api" THEN Job(t) ELSE rows[Job(t)].parent

\* Not yet succeeded, or nothing to wait for: return.
ParentReady(p) == rows[p].status = "succeeded" /\ rows[p].followUps # <<>>

ReadParent(t) ==
    /\ At(t, "check_parent")
    /\ \/ /\ ParentReady(Watched(t))
          /\ Becomes(t, [thread[t] EXCEPT !.pc = "check_child",
                                          !.idx = 1, !.bad = FALSE])
       \/ /\ ~ParentReady(Watched(t))
          /\ GoIdle(t)
    /\ UNCHANGED <<rows, up, open, queue, pending, pushes, faults, stops>>

\* Variant: only a running sibling ends the look.
NotRunning(j) == rows[j].status # "running"

\* A sibling that has not reached a terminal state ends the look.
SiblingDone(j) == rows[j].status \in Terminal

\* Variant: only the last sibling counts.
LastFailed(t, kid) == rows[kid].status = "failed"

\* follow_up_failures is not empty once kid has been looked at.
AnyFailed(t, kid) == thread[t].bad \/ rows[kid].status = "failed"

\* Read one follow-up.  The parent's map is written once, so looking it up
\* again is the same as having kept the copy read with the parent.
ReadChild(t) ==
    LET kids == rows[Watched(t)].followUps
        kid  == kids[thread[t].idx]
    IN  /\ At(t, "check_child")
        /\ \/ /\ SiblingDone(kid)
              /\ Becomes(t, [thread[t] EXCEPT
                                !.idx = thread[t].idx + 1,
                                !.bad = AnyFailed(t, kid),
                                !.pc = IF thread[t].idx = Len(kids)
                                       THEN "claim" ELSE "check_child"])
           \/ /\ ~SiblingDone(kid)
              /\ GoIdle(t)
        /\ UNCHANGED <<rows, up, open, queue, pending, pushes, faults, stops>>

\* Variant: nobody looks at _notification_sent.
AlwaysUnclaimed(p) == rows[p].claim # "none"

\* The WHERE clause of try_acquire_notification_lock.
Unclaimed(p) == rows[p].claim = "unsent"

Claim(t) ==
    /\ At(t, "claim")
    /\ \/ /\ Unclaimed(Watched(t))
          /\ rows' = Claimed(Watched(t))
          /\ Goto(t, "send")
       \/ /\ ~Unclaimed(Watched(t))
          /\ GoIdle(t)
          /\ UNCHANGED rows
    /\ UNCHANGED <<up, open, queue, pending, pushes, faults, stops>>

\* A pipeline with failed stages is told stage by stage; every other one as
\* a success of the parent's kind.
SummaryKind(t) ==
    IF CompressedAll(Watched(t)) /\ thread[t].bad THEN "breakdown" ELSE "success"

Send(t) ==
    /\ At(t, "send")
    /\ Push(Watched(t), SummaryKind(t))
    /\ GoIdle(t)
    /\ UNCHANGED <<rows, up, open, queue, pending, faults, stops>>

-----------------------------------------------------------------------------
(* The worker thread.                                                      *)

Take ==
    /\ At("worker", "idle") /\ queue # <<>>
    /\ queue' = Tail(queue)
    /\ Becomes("worker", [Idle EXCEPT !.pc = "start", !.job = Head(queue),
                                      !.guarded = TRUE,
                                      !.known = ~IsIngest(Head(queue))])
    /\ UNCHANGED <<rows, up, open, pending, pushes, faults, stops>>

\* mark_running, then the held data is popped.  That a queued ingestion always
\* finds its data is part of the invariant NobodyForgotten.
Start ==
    /\ At("worker", "start")
    /\ rows' = Running(Job("worker"))
    /\ pending' = pending \ {Job("worker")}
    /\ Becomes("worker", [thread["worker"] EXCEPT !.pc = "body", !.known = TRUE])
    /\ UNCHANGED <<up, open, queue, pushes, faults, stops>>

\* The service call returns.
BodyReturns ==
    /\ At("worker", "body")
    /\ \/ /\ IsIngest(Job("worker"))
          /\ Becomes("worker", [thread["worker"] EXCEPT
                                   !.pc = "follow",
                                   !.plan = <<"mood", "extract">>])
       \/ /\ ~IsIngest(Job("worker"))
          /\ Goto("worker", "succeed")
    /\ UNCHANGED <<rows, up, open, queue, pending, pushes, faults, stops>>

\* Into the except handler, whose own exceptions are only logged.
Caught == Becomes("worker", [thread["worker"] EXCEPT !.pc = "fail",
                                                     !.guarded = FALSE])

\* The service call raises something that is not retried.
BodyRaises ==
    /\ At("worker", "body")
    /\ Caught
    /\ UNCHANGED <<rows, up, open, queue, pending, pushes, faults, stops>>

\* _run_mood_score_entry finds no entry, or no text: it fails the job inside
\* the try block.
EntryMissing ==
    /\ At("worker", "body") /\ rows[Job("worker")].kind = "mood"
    /\ Goto("worker", "fail")
    /\ UNCHANGED <<rows, up, open, queue, pending, pushes, faults, stops>>

\* A transient error of an ingestion: note the wait, tell the user the first
\* time, sleep.
BodyTransient ==
    /\ At("worker", "body") /\ IsIngest(Job("worker"))
    /\ thread["worker"].attempt < MaxRetries
    /\ rows' = Detailed(Job("worker"), TRUE)
    /\ IF thread["worker"].attempt = 0
       THEN Push(Job("worker"), "retrying") ELSE UNCHANGED pushes
    /\ Goto("worker", "sleep")
    /\ UNCHANGED <<up, open, queue, pending, faults, stops>>

Wake ==
    /\ At("worker", "sleep")
    /\ rows' = Detailed(Job("worker"), FALSE)
    /\ Becomes("worker", [thread["worker"] EXCEPT
                             !.pc = "body",
                             !.attempt = thread["worker"].attempt + 1])
    /\ UNCHANGED <<up, open, queue, pending, pushes, faults, stops>>

\* The rest of the follow-ups to queue, or on to mark_succeeded.
NextFollowUp(made) == Becomes("worker", Submitted("worker", made))

\* _queue_post_ingestion_jobs: with the executor shut down the row exists
\* when submit() raises, and the exception is swallowed.
QueueFollowUp ==
    /\ At("worker", "follow")
    /\ \E j \in JobId :
          /\ Fresh(j)
          /\ rows' = Created(j, Head(thread["worker"].plan), Job("worker"))
          /\ \/ /\ open
                /\ queue' = Append(queue, j)
                /\ NextFollowUp(Append(thread["worker"].made, j))
             \/ /\ ~open
                /\ UNCHANGED queue
                /\ NextFollowUp(thread["worker"].made)
    /\ UNCHANGED <<up, open, pending, pushes, faults, stops>>

\* Variant: an ingestion announces itself although follow-ups will.
AnnounceAnyway ==
    IF rows[Job("worker")].parent # NoJob THEN "check_parent" ELSE "announce"

\* What follows mark_succeeded: a child looks at its pipeline, an ingestion
\* with follow-ups leaves the news to them, any other job tells its own.
AfterSuccess ==
    IF rows[Job("worker")].parent # NoJob THEN "check_parent"
    ELSE IF thread["worker"].made # <<>> THEN "idle" ELSE "announce"

Succeed ==
    /\ At("worker", "succeed")
    /\ rows' = Succeeded(Job("worker"), thread["worker"].made)
    /\ IF AfterSuccess = "idle" THEN GoIdle("worker")
       ELSE Goto("worker", AfterSuccess)
    /\ UNCHANGED <<up, open, queue, pending, pushes, faults, stops>>

AnnounceSuccess ==
    /\ At("worker", "announce")
    /\ Push(Job("worker"), "success")
    /\ GoIdle("worker")
    /\ UNCHANGED <<rows, up, open, queue, pending, faults, stops>>

\* mark_failed.  A handler that does not know whom to tell trips over it here
\* (UnboundLocalError), which is logged.
Fail ==
    /\ At("worker", "fail")
    /\ rows' = Failed(Job("worker"))
    /\ IF thread["worker"].known
       THEN Goto("worker", "announce_fail") ELSE GoIdle("worker")
    /\ UNCHANGED <<up, open, queue, pending, pushes, faults, stops>>

\* After mark_failed: the push, unless the pipeline tells it, then the look
\* at the pipeline.
AnnounceFailure ==
    /\ At("worker", "announce_fail")
    /\ IF Defers(Job("worker"))
       THEN UNCHANGED pushes ELSE Push(Job("worker"), "failed")
    /\ IF rows[Job("worker")].parent # NoJob
       THEN Goto("worker", "check_parent") ELSE GoIdle("worker")
    /\ UNCHANGED <<rows, up, open, queue, pending, faults, stops>>

-----------------------------------------------------------------------------
(* Calls on the jobs table that raise.  The shared connection makes this a *)
(* documented event (docs/sqlite-threading.md).  The write may be lost, or *)
(* execute() has run and only commit() raised, and the next commit on the  *)
(* connection keeps it.                                                    *)

Faulty == faults < MaxFaults /\ faults' = faults + 1

\* The table after the write thread t is about to make.
Written(t) ==
    CASE thread[t].pc = "start"   -> Running(Job(t))
      [] thread[t].pc = "sleep"   -> Detailed(Job(t), FALSE)
      [] thread[t].pc = "succeed" -> Succeeded(Job(t), thread[t].made)
      [] thread[t].pc = "fail"    -> Failed(Job(t))
      [] thread[t].pc = "claim" /\ Unclaimed(Watched(t)) -> Claimed(Watched(t))
      [] OTHER -> rows

LostOrCreated(k, p) ==
    \/ UNCHANGED rows
    \/ \E j \in JobId : Fresh(j) /\ rows' = Created(j, k, p)

\* create() raises in a handler: the client gets an error.
SubmitFaults(k) ==
    /\ Serving /\ Room(RowsOf(k)) /\ Faulty
    /\ LostOrCreated(k, NoJob)
    /\ UNCHANGED <<up, open, queue, pending, thread, pushes, stops>>

\* The PATCH handler catches whatever the pipeline's submission raises.
PipelineFaults ==
    /\ up /\ thread["api"].pc # "idle" /\ thread["api"].pc # "send" /\ Faulty
    /\ IF thread["api"].pc = "children"
       THEN LostOrCreated(Head(thread["api"].plan), Job("api"))
       ELSE rows' \in {rows, Written("api")}
    /\ GoIdle("api")
    /\ UNCHANGED <<up, open, queue, pending, pushes, stops>>

\* A follow-up's create() raises: logged and skipped.
FollowUpFaults ==
    /\ At("worker", "follow") /\ Faulty
    /\ LostOrCreated(Head(thread["worker"].plan), Job("worker"))
    /\ NextFollowUp(thread["worker"].made)
    /\ UNCHANGED <<up, open, queue, pending, pushes, stops>>

\* The handler drops held data that was not yet taken.
DataDropped == pending \ {Job("worker")}

\* The worker's calls that an exception handler surrounds.
WorkerCalls == {"start", "sleep", "succeed", "fail", "announce_fail",
                "check_parent", "check_child", "claim"}

\* In the try block the handler fails the job; in the handler itself the
\* exception is logged and the job left as it is.
WorkerFaults ==
    /\ up /\ thread["worker"].pc \in WorkerCalls /\ Faulty
    /\ thread["worker"].pc = "announce_fail" => rows[Job("worker")].parent # NoJob
    /\ rows' \in {rows, Written("worker")}
    /\ pending' = DataDropped
    /\ \/ /\ thread["worker"].guarded
          /\ Caught
       \/ /\ ~thread["worker"].guarded
          /\ GoIdle("worker")
    /\ UNCHANGED <<up, open, queue, pushes, stops>>

-----------------------------------------------------------------------------
(* The process.                                                            *)

\* Everything that is not in the database is gone.
Down ==
    /\ up' = FALSE
    /\ open' = FALSE
    /\ queue' = <<>>
    /\ pending' = {}
    /\ thread' = [t \in Thread |-> Idle]
    /\ UNCHANGED <<rows, pushes, faults>>

Crash ==
    /\ up /\ stops < MaxStops
    /\ stops' = stops + 1
    /\ Down

\* JobRunner.shutdown(wait=False), from atexit: no handler runs any more,
\* queued jobs are cancelled, the running one goes on.
Shutdown ==
    /\ Serving /\ stops < MaxStops
    /\ stops' = stops + 1
    /\ open' = FALSE
    /\ queue' = <<>>
    /\ UNCHANGED <<rows, up, pending, thread, pushes, faults>>

\* The interpreter ends once the worker has.
Exit ==
    /\ At("worker", "idle") /\ ~open
    /\ UNCHANGED stops
    /\ Down

\* The supervisor starts the server again (docker-compose: restart: always),
\* and its lifespan reconciles before anything is submitted.
Restart ==
    /\ ~up
    /\ up' = TRUE
    /\ open' = TRUE
    /\ rows' = Reconciled
    /\ UNCHANGED <<queue, pending, thread, pushes, faults, stops>>

-----------------------------------------------------------------------------
Request == \/ \E k \in ApiKinds : Submit(k)
           \/ \E mood \in MoodSettings : BeginPipeline(mood)

Check(t) == ReadParent(t) \/ ReadChild(t) \/ Claim(t) \/ Send(t)

ApiStep == SubmitChild \/ FinishParent \/ Check("api")

WorkerStep ==
    \/ Take \/ Start
    \/ BodyReturns \/ BodyRaises \/ EntryMissing \/ BodyTransient \/ Wake
    \/ QueueFollowUp \/ Succeed \/ AnnounceSuccess \/ Fail \/ AnnounceFailure
    \/ Check("worker")

Fault == \/ \E k \in ApiKinds : SubmitFaults(k)
         \/ MoodSettings # {} /\ SubmitFaults("pipeline")
         \/ PipelineFaults \/ FollowUpFaults \/ WorkerFaults

Process == Crash \/ Shutdown \/ Exit \/ Restart

Next == Request \/ ApiStep \/ WorkerStep \/ Fault \/ Process

Spec == Init /\ [][Next]_vars

\* A handler that has begun and a job the worker has taken go on: nothing
\* blocks them but the repository's lock and provider calls and sleeps that
\* end.  A process that is shutting down ends, and is started again.  New
\* requests, faults, crashes and shutdowns need not happen.
FairSpec ==
    /\ Spec
    /\ WF_vars(ApiStep)
    /\ WF_vars(WorkerStep)
    /\ WF_vars(Exit)
    /\ WF_vars(Restart)

-----------------------------------------------------------------------------
(* Properties.                                                             *)

\* Every variable has its type.
TypeOK ==
    /\ rows \in [JobId -> Row]
    /\ up \in BOOLEAN
    /\ open \in BOOLEAN
    /\ queue \in Seq(JobId)
    /\ pending \in SUBSET JobId
    /\ thread \in [Thread -> Local]
    /\ pushes \in [JobId -> [PushKinds -> Nat]]
    /\ faults \in Nat
    /\ stops \in Nat

Summaries(p) == pushes[p]["success"] + pushes[p]["breakdown"]

\* However the API thread's sweep and the worker's looks interleave, and
\* whatever raises, crashes or restarts in between, no job gets a second
\* summary push: what try_acquire_notification_lock is for.
AtMostOneSummary == \A p \in JobId : Summaries(p) <= 1

Settled(j) == rows[j].status \in Terminal

IsSave(p) == rows[p].kind = "pipeline"

\* The summary of a pipeline comes after the last of its jobs: at the time of
\* the push and ever after, all of them are in a terminal state.
SummaryComesLast ==
    \A p \in JobId : Summaries(p) > 0 =>
        \A i \in 1..Len(rows[p].followUps) : Settled(rows[p].followUps[i])

FailedStage(p) ==
    \E i \in 1..Len(rows[p].followUps) :
        rows[rows[p].followUps[i]].status = "failed"

\* While no call on the table raises, the summary of a save pipeline says what
\* the rows say: a breakdown when a stage failed, a success when none did,
\* although the two were read in separate calls.
SummaryTruthful ==
    faults = 0 =>
        \A p \in JobId : IsSave(p) =>
            /\ pushes[p]["breakdown"] > 0 => FailedStage(p)
            /\ pushes[p]["success"] > 0 => ~FailedStage(p)

Queued(j) == \E i \in 1..Len(queue) : queue[i] = j

\* Until a call raises or the executor closes, somebody is responsible for
\* every unfinished row: it waits in the queue, the worker runs it, or it is
\* the pipeline the API thread is still submitting.  A row without an owner
\* would stay queued or running until the next restart.  An ingestion that has
\* not started has its data in memory (without it the job fails with "No image
\* data found for job"), and no data outlives its job.
NobodyForgotten ==
    (faults = 0 /\ open) =>
        /\ \A j \in JobId : rows[j].status \in Active =>
              \/ rows[j].status = "queued" /\ Queued(j)
              \/ j = Job("worker")
              \/ rows[j].status = "queued" /\ j = Job("api")
        /\ up => pending = {j \in JobId : IsIngest(j) /\ rows[j].status = "queued"}

\* Every unfinished row reaches a terminal state, across crashes, shutdowns
\* and restarts.
EveryJobSettles ==
    \A j \in JobId : rows[j].status \in Active ~> Settled(j)

Outcomes(j) == Summaries(j) + pushes[j]["failed"]

\* As long as the process lives, the user hears of every job submitted over
\* HTTP, once and for all: directly, or through the summary of its pipeline.
OwnerHears ==
    \A j \in JobId :
        rows[j].status # "absent" /\ rows[j].parent = NoJob
            ~> (Outcomes(j) = 1 \/ stops > 0)

-----------------------------------------------------------------------------
(* The runner implements JobLifecycle while no call on the table raises.   *)

FollowUpSet(j) == {rows[j].followUps[i] : i \in 1..Len(rows[j].followUps)}

Lifecycle == INSTANCE JobLifecycle WITH
    Jobs   <- JobId,
    status <- [j \in JobId |-> rows[j].status],
    parts  <- [j \in JobId |-> FollowUpSet(j)],
    told   <- [j \in JobId |->
                [good |-> pushes[j]["success"],
                 bad  |-> pushes[j]["failed"] + pushes[j]["breakdown"]]]

\* Every step of the two threads, of a crash, a shutdown or a restart is one
\* step of the lifecycle docs/jobs.md promises, or none: no terminal state is
\* left, no outcome is told twice, early, or wrongly.
ImplementsLifecycle == Lifecycle!LSpec

=============================================================================
