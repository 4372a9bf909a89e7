----------------------------- MODULE JobLifecycle -----------------------------
(***************************************************************************)
(* What the job runner promises its users (docs/jobs.md): a submitted job  *)
(* is queued, runs, and succeeds or fails for good; after a restart of the *)
(* server whatever was unfinished has failed.  The outcome of a job is     *)
(* told at most once, and it is told when it is settled: a job that handed *)
(* parts of its work to other jobs is announced after the last of them.    *)
(*                                                                         *)
(* JobRunner implements this module; nothing here knows of threads,        *)
(* queues, retries or the jobs table.                                      *)
(***************************************************************************)
EXTENDS Naturals

CONSTANT Jobs

VARIABLES
    status,  \* the state of each job
    parts,   \* the jobs that finish what a job began
    told     \* how often good and bad news of a job went out

lvars == <<status, parts, told>>

Unfinished == {"queued", "running"}
Final == {"succeeded", "failed"}

LInit ==
    /\ status = [j \in Jobs |-> "absent"]
    /\ parts = [j \in Jobs |-> {}]
    /\ told = [j \in Jobs |-> [good |-> 0, bad |-> 0]]

SubmitJob(j) ==
    /\ status[j] = "absent"
    /\ status' = [status EXCEPT ![j] = "queued"]
    /\ UNCHANGED <<parts, told>>

StartJob(j) ==
    /\ status[j] = "queued"
    /\ status' = [status EXCEPT ![j] = "running"]
    /\ UNCHANGED <<parts, told>>

\* The parent of a save pipeline succeeds without having run.
JobSucceeds(j) ==
    /\ status[j] \in Unfinished
    /\ status' = [status EXCEPT ![j] = "succeeded"]
    /\ \E S \in SUBSET {i \in Jobs : status[i] # "absent"} :
          parts' = [parts EXCEPT ![j] = S]
    /\ UNCHANGED told

JobFails(j) ==
    /\ status[j] = "running"
    /\ status' = [status EXCEPT ![j] = "failed"]
    /\ UNCHANGED <<parts, told>>

\* The next server process gives up on everything unfinished.
GiveUp ==
    /\ status' = [j \in Jobs |-> IF status[j] \in Unfinished
                                THEN "failed" ELSE status[j]]
    /\ UNCHANGED <<parts, told>>

Untold(j) == told[j].good = 0 /\ told[j].bad = 0

PartsFinal(j) == \A i \in parts[j] : status[i] \in Final

\* Good news: the job succeeded and its parts are through.
TellGood(j) ==
    /\ Untold(j) /\ status[j] = "succeeded" /\ PartsFinal(j)
    /\ told' = [told EXCEPT ![j].good = 1]
    /\ UNCHANGED <<status, parts>>

\* Bad news: the job failed, or one of its parts did.
TellBad(j) ==
    /\ Untold(j) /\ PartsFinal(j)
    /\ status[j] = "failed" \/ \E i \in parts[j] : status[i] = "failed"
    /\ told' = [told EXCEPT ![j].bad = 1]
    /\ UNCHANGED <<status, parts>>

LNext ==
    \/ GiveUp
    \/ \E j \in Jobs : \/ SubmitJob(j) \/ StartJob(j)
                      \/ JobSucceeds(j) \/ JobFails(j)
                      \/ TellGood(j) \/ TellBad(j)

LSpec == LInit /\ [][LNext]_lvars

=============================================================================
