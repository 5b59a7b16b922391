---------------------------- MODULE WorkflowAdmin ----------------------------
(***************************************************************************)
(* The approval engine while its template is edited: the stage and         *)
(* workflow endpoints of backend/app/routers/workflows.py change the       *)
(* WorkflowStage rows that running instances read again at every commit.   *)
(* None of them looks at the instances of the template.                    *)
(***************************************************************************)
EXTENDS ApprovalWorkflow

CONSTANTS
  StageNumbers,  \* stage_number values an edit may use (any int in the code)
  StageRows,     \* the rows an edit may write
  MaxEdits       \* bound: edits of the template

VARIABLE edits   \* edits so far

adminVars == <<vars, edits>>

AdminInit == Init /\ edits = 0

Edit ==
  /\ edits < MaxEdits
  /\ edits' = edits + 1
  /\ UNCHANGED <<starting, instance, actions, signatures, req, sweep, now>>

\* A second row with a number already in use is outside the model: the order
\* of two such rows, and so the one _get_stage returns, is not defined.
AddStage(n, row) ==
  /\ n \notin DOMAIN stages
  /\ stages' = [m \in DOMAIN stages \cup {n} |-> IF m = n THEN row ELSE stages[m]]
  /\ Edit
  /\ UNCHANGED active

UpdateStage(n, row) ==
  /\ n \in DOMAIN stages
  /\ stages' = [stages EXCEPT ![n] = row]
  /\ Edit
  /\ UNCHANGED active

RemoveStage(n) ==
  /\ n \in DOMAIN stages
  /\ stages' = [m \in DOMAIN stages \ {n} |-> stages[m]]
  /\ Edit
  /\ UNCHANGED active

DeactivateWorkflow ==
  /\ active' = FALSE
  /\ Edit
  /\ UNCHANGED stages

\* PATCH /workflows/{id} with a status.
UpdateWorkflow(status) ==
  /\ active' = status
  /\ Edit
  /\ UNCHANGED stages

AdminNext ==
  \/ Next /\ UNCHANGED edits
  \/ \E n \in StageNumbers :
       \/ \E row \in StageRows : AddStage(n, row) \/ UpdateStage(n, row)
       \/ RemoveStage(n)
  \/ DeactivateWorkflow
  \/ \E status \in BOOLEAN : UpdateWorkflow(status)

AdminSpec == AdminInit /\ [][AdminNext]_adminVars

-----------------------------------------------------------------------------
(* Properties.  The gates of ApprovalWorkflow do not hold under edits.       *)

\* Types of what the edits change.
AdminTypeOK ==
  /\ DOMAIN stages \subseteq StageNumbers \cup UNION {DOMAIN t : t \in Templates}
  /\ \A n \in DOMAIN stages : StageRecord(stages[n])
  /\ active \in BOOLEAN
  /\ edits \in 0 .. MaxEdits

\* A stage that has its approvals and keeps them is left, or the instance
\* decided, as long as one of the calls that acted has still to look and does
\* not die before it has: which of the racing calls looks last makes no
\* difference (_advance), whatever an administrator changes meanwhile.  Only a
\* change that takes the stage away, or asks more of it than it has, excuses.
\* It speaks of the stage numbers the template started with.
Ready(i, n) == n \in DOMAIN stages /\ Satisfied(i, n)
IsAt(i, n) == instance[i].status = "IN_PROGRESS" /\ instance[i].current_stage_number = n
SatisfiedStageIsLeft ==
  \A r \in Requests, i \in Instances, n \in UNION {DOMAIN t : t \in Templates} :
    (req[r].pc = "acted" /\ req[r].inst = i /\ IsAt(i, n) /\ Ready(i, n))
    ~> (~IsAt(i, n) \/ ~Ready(i, n) \/ req[r].pc = "aborted")
=============================================================================
