--------------------------- MODULE MCWorkflowAdmin ---------------------------
(* What has begun ends, and what was written stays in order.  In the           *)
(* behaviours whose view is "stages", two requests, and either an              *)
(* administrator who edits the second stage and what follows it, or a stage    *)
(* with a deadline; in those whose view is "log", four concurrent record_event *)
(* calls; in those whose view is "schema", the migrations; in those whose view *)
(* is "jobs", three reports.                                                   *)
EXTENDS WorkflowAdmin, AuditChain, Migrations, ReportJobs, TLC

CONSTANTS i1, r1, r2, eng, pm, c1, c2, c3, c4, j1, j2, j3

VARIABLE view

StageRow(role, count, sign, hours) ==
  [required_role |-> role, required_count |-> count,
   require_signature |-> sign, timeout_hours |-> hours]

MCUsers == {eng, pm}
MCRole == (eng :> "engineer") @@ (pm :> "pm")

Edited == {<<StageRow("engineer", 1, TRUE, 0), StageRow("pm", 1, FALSE, 0)>>}
Timed == {<<StageRow(AnyRole, 2, FALSE, 1), StageRow("pm", 1, TRUE, 0)>>}
MCTemplates == Edited \cup Timed
MCRows == {StageRow(AnyRole, 0, FALSE, 0)}

\* A template with a deadline is never edited: its edits are used up.
StagesInit == Init /\ edits = IF stages \in Edited THEN 0 ELSE MaxEdits
\* Time passes only where a stage has a deadline: nothing else depends on it.
StagesNext ==
  AdminNext /\ (now' = now \/ \E n \in DOMAIN stages : stages[n].timeout_hours > 0)

MCInit ==
  /\ StagesInit /\ LogInit /\ SchemaInit /\ JobsInit
  /\ view \in {"stages", "log", "schema", "jobs"}
  /\ view # "stages" => stages \in Edited
MCNext ==
  /\ UNCHANGED view
  /\ \/ view = "stages" /\ StagesNext /\ UNCHANGED <<logVars, migrationVars, jobVars>>
     \/ view = "log" /\ LogNext /\ UNCHANGED <<adminVars, migrationVars, jobVars>>
     \/ view = "schema" /\ SchemaNext /\ UNCHANGED <<adminVars, logVars, jobVars>>
     \/ view = "jobs" /\ JobsNext /\ UNCHANGED <<adminVars, logVars, migrationVars>>
MCSpec ==
  /\ MCInit /\ [][MCNext]_<<view, adminVars, logVars, migrationVars, jobVars>>
  /\ \A r \in Requests : WF_adminVars(CallStep(r) /\ UNCHANGED edits)
  /\ \A j \in Jobs : WF_jobVars(view = "jobs" /\ JobStep(j))
=============================================================================
