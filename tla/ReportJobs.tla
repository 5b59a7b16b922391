------------------------------ MODULE ReportJobs ------------------------------
(***************************************************************************)
(* Report generation (backend/app/routers/reports.py and                   *)
(* services/reports/jobs.py).  A synchronous request writes its row with   *)
(* its audit event.  An asynchronous one commits a PENDING row, leaves a   *)
(* task with the server, writes its event and answers; the task runs in    *)
(* the same process after the answer, in one transaction of its own.       *)
(***************************************************************************)
CONSTANTS
  Jobs,        \* requests for a report, each made once
  NoJob

VARIABLES
  job,         \* committed status of the report_jobs row of each
  request,     \* the request's thread
  task,        \* run_job: BackgroundTasks of the process
  logged,      \* events in the audit log <<event, job>>
  stranded     \* history: jobs whose task was lost or could not finish

jobVars == <<job, request, task, logged, stranded>>

JobsInit ==
  /\ job = [j \in Jobs |-> NoJob]
  /\ request = [j \in Jobs |-> "idle"]
  /\ task = [j \in Jobs |-> "none"]
  /\ logged = {}
  /\ stranded = {}

-----------------------------------------------------------------------------
(* The seven GET endpoints: the generator runs in the request, its row is    *)
(* flushed and committed by record_event; a failure leaves neither.          *)

GenerateNow(j) ==
  /\ request[j] = "idle"
  /\ request' = [request EXCEPT ![j] = "done"]
  /\ \/ /\ job' = [job EXCEPT ![j] = "completed"]
        /\ logged' = logged \cup {<<"generated", j>>}
     \/ UNCHANGED <<job, logged>>
  /\ UNCHANGED <<task, stranded>>

-----------------------------------------------------------------------------
(* enqueue_report_job                                                        *)

Enqueue(j) ==
  /\ request[j] = "idle"
  /\ job' = [job EXCEPT ![j] = "pending"]
  /\ request' = [request EXCEPT ![j] = "enqueued"]
  /\ task' = [task EXCEPT ![j] = "added"]
  /\ UNCHANGED <<logged, stranded>>

Answer(j) ==
  /\ request[j] = "enqueued"
  /\ logged' = logged \cup {<<"enqueued", j>>}
  /\ request' = [request EXCEPT ![j] = "done"]
  /\ task' = [task EXCEPT ![j] = "queued"]
  /\ UNCHANGED <<job, stranded>>

\* The event raises: the answer is an error, and the tasks of a request that
\* fails are not run.
AnswerFails(j) ==
  /\ request[j] = "enqueued"
  /\ request' = [request EXCEPT ![j] = "done"]
  /\ task' = [task EXCEPT ![j] = "none"]
  /\ stranded' = stranded \cup {j}
  /\ UNCHANGED <<job, logged>>

-----------------------------------------------------------------------------
(* run_job: RUNNING is flushed, never committed: other sessions see PENDING. *)

StartJob(j) ==
  /\ task[j] = "queued"
  /\ job[j] = "pending"
  /\ task' = [task EXCEPT ![j] = "running"]
  /\ UNCHANGED <<job, request, logged, stranded>>

EndJob(j, status) ==
  /\ task[j] = "running"
  /\ task' = [task EXCEPT ![j] = "done"]
  /\ job' = [job EXCEPT ![j] = status]

Complete(j) ==
  /\ EndJob(j, "completed")
  /\ UNCHANGED <<request, logged, stranded>>

\* Mutant: an exception of the generator reaches the session, which rolls back.
MarkFailed_Uncaught(j) ==
  /\ EndJob(j, job[j])
  /\ UNCHANGED <<request, logged, stranded>>

\* The generator raises: _mark_failed.
MarkFailed(j) ==
  /\ EndJob(j, "failed")
  /\ UNCHANGED <<request, logged, stranded>>

\* The generator's statement fails in the database: the transaction that
\* _mark_failed would commit is aborted, and all of it is rolled back.
FailInDatabase(j) ==
  /\ EndJob(j, job[j])
  /\ stranded' = stranded \cup {j}
  /\ UNCHANGED <<request, logged>>

\* The process stops: requests, tasks that wait and tasks that run go with it.
Waiting == {j \in Jobs : task[j] \in {"added", "queued", "running"}}
Restart ==
  /\ Waiting # {}
  /\ stranded' = stranded \cup Waiting
  /\ task' = [j \in Jobs |-> IF j \in Waiting THEN "none" ELSE task[j]]
  /\ request' = [j \in Jobs |-> IF request[j] = "enqueued" THEN "done" ELSE request[j]]
  /\ UNCHANGED <<job, logged>>

JobStep(j) ==
  \/ Answer(j)
  \/ AnswerFails(j)
  \/ StartJob(j)
  \/ Complete(j)
  \/ MarkFailed(j)
  \/ FailInDatabase(j)

JobsNext ==
  \/ \E j \in Jobs : GenerateNow(j) \/ Enqueue(j) \/ JobStep(j)
  \/ Restart

-----------------------------------------------------------------------------
(* "Poll GET /reports/jobs/{job_id} for status" (reports.py:293): a pending  *)
(* job ends completed or failed, whatever its generator does in Python.      *)
(* Left out are jobs nobody is left to run, for which the code has no second *)
(* look: the process stopped, the event of the request failed, or the        *)
(* database refused a statement of the generator.                            *)
JobsEnd ==
  \A j \in Jobs :
    job[j] = "pending" ~> (job[j] \in {"completed", "failed"} \/ j \in stranded)
===============================================================================
