-------------------------- MODULE ApprovalWorkflow --------------------------
(***************************************************************************)
(* The multi-stage approval engine of backend/app/services/                *)
(* workflow_engine.py: start_workflow, perform_action (with _advance) and  *)
(* check_timeouts, each running in a request of its own against one        *)
(* PostgreSQL database at READ COMMITTED.                                  *)
(*                                                                         *)
(* One TLA+ action is what one request does between two points at which    *)
(* another request can get in: a read whose result is kept in a Python     *)
(* variable, or a db.commit().  SessionLocal keeps SQLAlchemy's default    *)
(* expire_on_commit, so an ORM row read before a commit is read AGAIN at   *)
(* its first use after it; between two commits the first value stays.      *)
(***************************************************************************)
EXTENDS Naturals, FiniteSets

CONSTANTS
  Instances,      \* ids of WorkflowInstance rows that may be created
  Requests,       \* calls of POST /instances/{id}/action, each made once
  Users,          \* User rows
  Role,           \* User.role, a function on Users
  AnyRole,        \* WorkflowStage.required_role = None
  Templates,      \* what the WorkflowStage rows may be at the start: each a
                  \* function from stage_number to row
  MaxNow,         \* bound: the clock stops here
  MaxAborts       \* bound: requests that die between two of their commits

StageRecord(s) ==
  /\ s.required_count \in Nat
  /\ s.require_signature \in BOOLEAN
  /\ s.timeout_hours \in Nat

Template(t) ==
  /\ DOMAIN t \subseteq Nat
  /\ IsFiniteSet(DOMAIN t)
  /\ \A n \in DOMAIN t : StageRecord(t[n])

ASSUME StagesAssumption == \A t \in Templates : Template(t)
ASSUME BoundsAssumption == MaxNow \in Nat /\ MaxAborts \in Nat

Closed   == {"APPROVED", "REJECTED", "TIMED_OUT"}
Statuses == {"absent", "IN_PROGRESS"} \cup Closed
Verbs    == {"approved", "rejected", "reviewed"}
Verdicts == {"reject", "approve", "next"}
Pcs      == {"idle", "checked", "signed", "ready", "acted", "decided",
             "done", "aborted"}

VARIABLES
  stages,      \* the template's WorkflowStage rows: stage_number -> row
  active,      \* ApprovalWorkflow.status = ACTIVE
  starting,    \* start_workflow calls between their checks and their commit
  instance,    \* WorkflowInstance rows: status, current_stage_number, time
  actions,     \* StageAction rows; "id" is the request that wrote the row
  signatures,  \* ElectronicSignature rows
  req,         \* the local variables of each perform_action call
  sweep,       \* the local variables of check_timeouts
  now          \* datetime.utcnow(), in hours

vars == <<stages, active, starting, instance, actions, signatures, req,
          sweep, now>>

Init ==
  /\ stages \in Templates
  /\ active = TRUE
  /\ starting = {}
  /\ instance = [i \in Instances |->
       [status |-> "absent", current_stage_number |-> 1, submitted_at |-> 0]]
  /\ actions = {}
  /\ signatures = {}
  /\ req = [r \in Requests |-> [pc |-> "idle"]]
  /\ sweep = [pc |-> "idle"]
  /\ now = 0

-----------------------------------------------------------------------------
(* start_workflow: the template is validated, then the instance committed. *)

StartWorkflow_Check(i) ==
  /\ instance[i].status = "absent"
  /\ i \notin starting
  /\ active
  /\ DOMAIN stages # {}
  /\ starting' = starting \cup {i}
  /\ UNCHANGED <<stages, active, instance, actions, signatures, req, sweep, now>>

StartWorkflow_Commit(i) ==
  /\ i \in starting
  /\ starting' = starting \ {i}
  /\ instance' = [instance EXCEPT ![i] =
       [status |-> "IN_PROGRESS", current_stage_number |-> 1, submitted_at |-> now]]
  /\ UNCHANGED <<stages, active, actions, signatures, req, sweep, now>>

-----------------------------------------------------------------------------
(* perform_action *)

MayActOn(u, stage) == stage.required_role \in {AnyRole, Role[u]}

StageActions(i, n) == {a \in actions : a.instance_id = i /\ a.stage_number = n}

\* Every check of perform_action up to the signature.  The instance row stays
\* in the session, so "stage" is the stage number the call goes on using.
PerformAction_Check(r, i, u, verb) ==
  LET n == instance[i].current_stage_number IN
  /\ req[r].pc = "idle"
  /\ instance[i].status = "IN_PROGRESS"
  /\ n \in DOMAIN stages
  /\ MayActOn(u, stages[n])
  /\ \A a \in StageActions(i, n) : a.user_id # u
  /\ req' = [req EXCEPT ![r] =
       [pc |-> "checked", inst |-> i, user |-> u, verb |-> verb, stage |-> n,
        checked_stage |-> n, sign |-> stages[n].require_signature]]
  /\ UNCHANGED <<stages, active, starting, instance, actions, signatures, sweep, now>>

\* request_signature succeeds and COMMITS: the instance row is expired.  The
\* statement sealed in the signature names the stage that was checked.
RequestSignature(r) ==
  /\ req[r].pc = "checked"
  /\ req[r].sign
  /\ signatures' = signatures \cup
       {[id |-> r, user_id |-> req[r].user, entity |-> req[r].inst,
         meaning |-> req[r].verb, stage |-> req[r].checked_stage]}
  /\ req' = [req EXCEPT ![r].pc = "signed"]
  /\ UNCHANGED <<stages, active, starting, instance, actions, sweep, now>>

\* request_signature returns None (credentials, missing entity, no hasher).
SignatureRejected(r) ==
  /\ req[r].pc = "checked"
  /\ req[r].sign
  /\ req' = [req EXCEPT ![r] = [pc |-> "done"]]
  /\ UNCHANGED <<stages, active, starting, instance, actions, signatures, sweep, now>>

\* StageAction(stage_number=instance.current_stage_number): after a signature
\* the expired row is read again, and nothing that was checked is re-checked.
ReloadInstance(r) ==
  /\ req[r].pc = "signed"
  /\ req' = [req EXCEPT
       ![r].pc = "ready",
       ![r].stage = instance[req[r].inst].current_stage_number]
  /\ UNCHANGED <<stages, active, starting, instance, actions, signatures, sweep, now>>

StageActionRow(r) ==
  [id |-> r, instance_id |-> req[r].inst, stage_number |-> req[r].stage,
   user_id |-> req[r].user, action |-> req[r].verb,
   signed |-> req[r].sign, acted_at |-> now]

RecordAction(r) ==
  /\ \/ req[r].pc = "checked" /\ ~req[r].sign
     \/ req[r].pc = "ready"
  /\ actions' = actions \cup {StageActionRow(r)}
  /\ req' = [req EXCEPT ![r].pc = "acted"]
  /\ UNCHANGED <<stages, active, starting, instance, signatures, sweep, now>>

-----------------------------------------------------------------------------
(* _advance, called after the action's commit: the instance is read again. *)

Approvals(i, n)  == {a \in StageActions(i, n) : a.action = "approved"}

Rejections(i, n) == {a \in StageActions(i, n) : a.action = "rejected"}
Satisfied(i, n)  == Cardinality(Approvals(i, n)) >= stages[n].required_count

\* Mutant: compares with the first stage number.
IsLastStage_First(n) == \E m \in DOMAIN stages : m <= n

IsLastStage(n) == \A m \in DOMAIN stages : m <= n

Verdict(i, n) ==
  IF Rejections(i, n) # {} THEN "reject"
  ELSE IF IsLastStage(n) THEN "approve" ELSE "next"

Advance_Read(r) ==
  LET i == req[r].inst
      n == instance[i].current_stage_number IN
  /\ req[r].pc = "acted"
  /\ req' = [req EXCEPT ![r] =
       IF n \in DOMAIN stages /\ (Rejections(i, n) # {} \/ Satisfied(i, n))
         THEN [pc |-> "decided", inst |-> i, stage |-> n,
               seen |-> instance[i].status, verdict |-> Verdict(i, n)]
         ELSE [pc |-> "done"]]
  /\ UNCHANGED <<stages, active, starting, instance, actions, signatures, sweep, now>>

\* Mutant: the stage it is at.
NextStage_Stays(n) == n

NextStage(n) == n + 1

MovePointer(row, n) == [row EXCEPT !.current_stage_number = n]

\* The UPDATE names only the columns whose value differs from the one loaded,
\* and has no WHERE clause but the primary key.
SetStatus(row, seen, status) ==
  IF seen = status THEN row ELSE [row EXCEPT !.status = status]

Advance_Commit(r) ==
  LET i == req[r].inst IN
  /\ req[r].pc = "decided"
  /\ \/ /\ req[r].verdict = "reject"
        /\ instance' = [instance EXCEPT ![i] = SetStatus(@, req[r].seen, "REJECTED")]
     \/ /\ req[r].verdict = "approve"
        /\ instance' = [instance EXCEPT ![i] = SetStatus(@, req[r].seen, "APPROVED")]
     \/ /\ req[r].verdict = "next"
        /\ instance' = [instance EXCEPT ![i] = MovePointer(@, NextStage(req[r].stage))]
  /\ req' = [req EXCEPT ![r] = [pc |-> "done"]]
  /\ UNCHANGED <<stages, active, starting, actions, signatures, sweep, now>>

\* The call ends between two commits: the process stops, or the record_event
\* that follows a commit raises (workflow_engine calls it outside any try).
Abort(r) ==
  /\ req[r].pc \in {"checked", "signed", "ready", "acted", "decided"}
  /\ Cardinality({q \in Requests : req[q].pc = "aborted"}) < MaxAborts
  /\ req' = [req EXCEPT ![r] = [pc |-> "aborted"]]
  /\ UNCHANGED <<stages, active, starting, instance, actions, signatures, sweep, now>>

-----------------------------------------------------------------------------
(* check_timeouts, one POST /instances/check-timeouts at a time.  It loads   *)
(* every running instance, examines them one by one and commits once.        *)

Sweep_Load ==
  /\ sweep.pc = "idle"
  /\ sweep' = [pc |-> "examining", due |-> {},
       loaded |-> [i \in {j \in Instances : instance[j].status = "IN_PROGRESS"} |->
                     instance[i]]]
  /\ UNCHANGED <<stages, active, starting, instance, actions, signatures, req, now>>

Overdue(t, hours) == now > t + hours

\* The reference time is the newest action at the loaded stage, or else the
\* submission; a stage without a row or without a timeout is never due.
IsDue(i, row) ==
  LET n == row.current_stage_number
      reference == {a.acted_at : a \in StageActions(i, n)} IN
  /\ n \in DOMAIN stages
  /\ stages[n].timeout_hours > 0
  /\ \A t \in IF reference = {} THEN {row.submitted_at} ELSE reference :
       Overdue(t, stages[n].timeout_hours)

Sweep_Examine(i) ==
  /\ sweep.pc = "examining"
  /\ i \in DOMAIN sweep.loaded
  /\ sweep' = [sweep EXCEPT
       !.loaded = [j \in DOMAIN sweep.loaded \ {i} |-> sweep.loaded[j]],
       !.due = IF IsDue(i, sweep.loaded[i]) THEN @ \cup {i} ELSE @]
  /\ UNCHANGED <<stages, active, starting, instance, actions, signatures, req, now>>

\* One commit writes TIMED_OUT into every due row, whatever it holds by now.
Sweep_Commit ==
  /\ sweep.pc = "examining"
  /\ DOMAIN sweep.loaded = {}
  /\ sweep' = [pc |-> "idle"]
  /\ instance' = [i \in Instances |->
       IF i \in sweep.due THEN [instance[i] EXCEPT !.status = "TIMED_OUT"]
                          ELSE instance[i]]
  /\ UNCHANGED <<stages, active, starting, actions, signatures, req, now>>

Tick ==
  /\ now < MaxNow
  /\ now' = now + 1
  /\ UNCHANGED <<stages, active, starting, instance, actions, signatures, req, sweep>>

-----------------------------------------------------------------------------
CallStep(r) ==
  \/ RequestSignature(r) \/ SignatureRejected(r) \/ ReloadInstance(r)
  \/ RecordAction(r) \/ Advance_Read(r) \/ Advance_Commit(r)

SweepStep == Sweep_Load \/ Sweep_Commit \/ \E i \in Instances : Sweep_Examine(i)

Next ==
  \/ \E i \in Instances : StartWorkflow_Check(i) \/ StartWorkflow_Commit(i)
  \/ \E r \in Requests, i \in Instances, u \in Users, verb \in Verbs :
       PerformAction_Check(r, i, u, verb)
  \/ \E r \in Requests : CallStep(r) \/ Abort(r)
  \/ SweepStep
  \/ Tick

Spec == Init /\ [][Next]_vars

\* A call that has begun keeps running unless it aborts; nothing makes a user
\* call, an instance start, or an operator trigger the sweep.
FairSpec == Spec /\ \A r \in Requests : WF_vars(CallStep(r))

-----------------------------------------------------------------------------
(* Properties *)

\* Types of the tables and of the local variables of the calls.
TypeOK ==
  /\ stages \in Templates
  /\ active = TRUE
  /\ starting \subseteq Instances
  /\ instance \in [Instances -> [status : Statuses, current_stage_number : Nat,
                                 submitted_at : Nat]]
  /\ actions \subseteq [id : Requests, instance_id : Instances, stage_number : Nat,
                        user_id : Users, action : Verbs, signed : BOOLEAN,
                        acted_at : Nat]
  /\ signatures \subseteq [id : Requests, user_id : Users, entity : Instances,
                           meaning : Verbs, stage : Nat]
  /\ req \in [Requests ->
       [pc : {"idle", "done", "aborted"}]
       \cup [pc : {"checked", "signed", "ready", "acted"}, inst : Instances,
             user : Users, verb : Verbs, stage : Nat, checked_stage : Nat,
             sign : BOOLEAN]
       \cup [pc : {"decided"}, inst : Instances, stage : Nat, seen : Statuses,
             verdict : Verdicts]]
  /\ \/ sweep = [pc |-> "idle"]
     \/ /\ sweep.pc = "examining"
        /\ sweep.due \subseteq Instances
        /\ DOMAIN sweep.loaded \subseteq Instances
  /\ now \in Nat

\* No instance gets past a stage, or is APPROVED, without required_count
\* approvals recorded at every stage on the way, whatever the interleaving of
\* calls that each read, decided and wrote with no lock (_advance).
Gated(i, n) == \A m \in DOMAIN stages : 1 <= m /\ m < n => Satisfied(i, m)
ApprovalsGateStages ==
  \A i \in Instances :
    /\ Gated(i, instance[i].current_stage_number)
    /\ instance[i].status = "APPROVED" =>
         \A m \in DOMAIN stages : 1 <= m => Satisfied(i, m)

\* The strengthening that makes ApprovalsGateStages inductive: a call that has
\* decided, and not yet written, has read approvals that can only grow.
Backed(d) ==
  /\ d.verdict \in {"next", "approve"} =>
       /\ Gated(d.inst, d.stage)
       /\ d.stage \in DOMAIN stages
       /\ Satisfied(d.inst, d.stage)
  /\ d.verdict = "approve" => IsLastStage(d.stage)
DecisionBacked == \A r \in Requests : req[r].pc = "decided" => Backed(req[r])
GateInvariant == TypeOK /\ IsFiniteSet(actions) /\ ApprovalsGateStages /\ DecisionBacked

\* What the code's own comments and docstrings say, and it does not do.

\* "Rejection at any stage rejects the whole workflow" (_advance): once no
\* call is running, a recorded rejection has made the instance REJECTED.
Quiescent == \A r \in Requests : req[r].pc \in {"idle", "done"}
RejectionRejects ==
  Quiescent => \A a \in actions :
    a.action = "rejected" => instance[a.instance_id].status = "REJECTED"
=============================================================================
