-------------------------- MODULE TraceabilityProofs --------------------------
(***************************************************************************)
(* Theorems about ApprovalWorkflow, for any number of users, requests,     *)
(* instances and stages; and about CoverageExceptions, ContractSources,    *)
(* RequirementExchange, SourceCoverage and TraceGraph, for any number of   *)
(* requirements, filings, co-signs, administrators, reasons, expiry dates, *)
(* artifacts, edits, deletions, syncs with an external tool and items in   *)
(* it, links between requirements, verifications and hops of a search.     *)
(***************************************************************************)
EXTENDS ApprovalWorkflow, CoverageExceptions, ContractSources, RequirementExchange,
        SourceCoverage, TraceGraph, Induction, FiniteSetTheorems, FunctionTheorems,
        SequenceTheorems, TLAPS
---------------------------------------------------------------------------
(* Approvals *)

\* The local variables of a call, by what it has reached.
Idle    == [pc : {"idle", "done", "aborted"}]
Acting  == [pc : {"checked", "signed", "ready", "acted"}, inst : Instances,
            user : Users, verb : Verbs, stage : Nat, checked_stage : Nat,
            sign : BOOLEAN]
Deciding == [pc : {"decided"}, inst : Instances, stage : Nat, seen : Statuses,
             verdict : Verdicts]

\* What a call knows is decided by how far it has got.
LEMMA CallTypes ==
  ASSUME TypeOK, NEW r \in Requests
  PROVE  /\ req[r].pc \in {"checked", "signed", "ready", "acted"} => req[r] \in Acting
         /\ req[r].pc = "decided" => req[r] \in Deciding
<1>1. req[r] \in Idle \cup Acting \cup Deciding
  BY DEF TypeOK, Idle, Acting, Deciding
<1>2. CASE req[r] \in Idle
  BY <1>2 DEF Idle, Deciding
<1>3. CASE req[r] \in Acting
  BY <1>3 DEF Acting, Deciding
<1>4. CASE req[r] \in Deciding
  BY <1>4 DEF Acting, Deciding
<1> QED BY <1>1, <1>2, <1>3, <1>4

\* TypeOK is inductive: every step of start_workflow, perform_action, _advance
\* and check_timeouts keeps the tables and the local variables in their types.
THEOREM TypeCorrect == Spec => []TypeOK
<1>1. Init => TypeOK
  BY StagesAssumption DEF Template, Init, TypeOK, Statuses
<1>2. TypeOK /\ [Next]_vars => TypeOK'
  <2> SUFFICES ASSUME TypeOK, [Next]_vars PROVE TypeOK'
    OBVIOUS
  <2>1. ASSUME NEW i \in Instances, StartWorkflow_Check(i) PROVE TypeOK'
    BY <2>1 DEF TypeOK, StartWorkflow_Check
  <2>2. ASSUME NEW i \in Instances, StartWorkflow_Commit(i) PROVE TypeOK'
    BY <2>2 DEF TypeOK, StartWorkflow_Commit, Statuses
  <2>3. ASSUME NEW r \in Requests, NEW i \in Instances, NEW u \in Users,
               NEW verb \in Verbs, PerformAction_Check(r, i, u, verb)
        PROVE  TypeOK'
    <3>1. stages[instance[i].current_stage_number].require_signature \in BOOLEAN
      BY <2>3, StagesAssumption DEF Template, TypeOK, PerformAction_Check, StageRecord
    <3> QED BY <2>3, <3>1 DEF TypeOK, PerformAction_Check
  <2>4. ASSUME NEW r \in Requests, RequestSignature(r) PROVE TypeOK'
    <3>1. req[r] \in Acting
      BY <2>4, CallTypes DEF RequestSignature
    <3>2. [req[r] EXCEPT !.pc = "signed"] \in Acting
      BY <3>1 DEF Acting
    <3> QED BY <2>4, <3>1, <3>2 DEF TypeOK, RequestSignature, Acting
  <2>5. ASSUME NEW r \in Requests, SignatureRejected(r) PROVE TypeOK'
    BY <2>5 DEF TypeOK, SignatureRejected
  <2>6. ASSUME NEW r \in Requests, ReloadInstance(r) PROVE TypeOK'
    <3>1. req[r] \in Acting
      BY <2>6, CallTypes DEF ReloadInstance
    <3>2. [req[r] EXCEPT !.pc = "ready",
                         !.stage = instance[req[r].inst].current_stage_number] \in Acting
      BY <3>1 DEF Acting, TypeOK
    <3> QED BY <2>6, <3>2 DEF TypeOK, ReloadInstance, Acting
  <2>7. ASSUME NEW r \in Requests, RecordAction(r) PROVE TypeOK'
    <3>1. req[r] \in Acting
      BY <2>7, CallTypes DEF RecordAction
    <3>2. [req[r] EXCEPT !.pc = "acted"] \in Acting
      BY <3>1 DEF Acting
    <3> QED BY <2>7, <3>1, <3>2 DEF TypeOK, RecordAction, StageActionRow, Acting
  <2>8. ASSUME NEW r \in Requests, Advance_Read(r) PROVE TypeOK'
    <3>1. req[r] \in Acting
      BY <2>8, CallTypes DEF Advance_Read
    <3>2. Verdict(req[r].inst, instance[req[r].inst].current_stage_number) \in Verdicts
      BY DEF Verdict, Verdicts
    <3> QED BY <2>8, <3>1, <3>2 DEF TypeOK, Advance_Read, Acting
  <2>9. ASSUME NEW r \in Requests, Advance_Commit(r) PROVE TypeOK'
    <3>1. req[r] \in Deciding
      BY <2>9, CallTypes DEF Advance_Commit
    <3>2. instance' \in [Instances -> [status : Statuses, current_stage_number : Nat,
                                       submitted_at : Nat]]
      BY <2>9, <3>1 DEF TypeOK, Advance_Commit, Deciding, SetStatus, MovePointer,
         NextStage, Statuses, Closed
    <3> QED BY <2>9, <3>2 DEF TypeOK, Advance_Commit
  <2>10. ASSUME NEW r \in Requests, Abort(r) PROVE TypeOK'
    BY <2>10 DEF TypeOK, Abort
  <2>11. CASE Sweep_Load
    BY <2>11 DEF TypeOK, Sweep_Load
  <2>12. ASSUME NEW i \in Instances, Sweep_Examine(i) PROVE TypeOK'
    BY <2>12 DEF TypeOK, Sweep_Examine
  <2>13. CASE Sweep_Commit
    <3>1. instance' \in [Instances -> [status : Statuses, current_stage_number : Nat,
                                       submitted_at : Nat]]
      BY <2>13 DEF TypeOK, Sweep_Commit, Statuses, Closed
    <3> QED BY <2>13, <3>1 DEF TypeOK, Sweep_Commit
  <2>14. CASE Tick
    BY <2>14 DEF TypeOK, Tick
  <2>15. CASE UNCHANGED vars
    BY <2>15 DEF TypeOK, vars
  <2> QED BY <2>1, <2>2, <2>3, <2>4, <2>5, <2>6, <2>7, <2>8, <2>9, <2>10, <2>11,
             <2>12, <2>13, <2>14, <2>15 DEF Next, CallStep, SweepStep
<1> QED BY <1>1, <1>2, PTL DEF Spec

-----------------------------------------------------------------------------
(* Approvals are never withdrawn, so what a call has read stays true.        *)

LEMMA SatisfiedIsStable ==
  ASSUME TypeOK, actions \subseteq actions', IsFiniteSet(actions'), stages' = stages,
         NEW i \in Instances, NEW n \in DOMAIN stages, Satisfied(i, n)
  PROVE  Satisfied(i, n)'
<1>1. Approvals(i, n) \subseteq Approvals(i, n)'
  BY DEF Approvals, StageActions
<1>2. IsFiniteSet(Approvals(i, n)')
  BY FS_Subset DEF Approvals, StageActions
<1>3. /\ Cardinality(Approvals(i, n)) \in Nat
      /\ Cardinality(Approvals(i, n)') \in Nat
      /\ Cardinality(Approvals(i, n)) <= Cardinality(Approvals(i, n)')
  BY <1>1, <1>2, FS_Subset, FS_CardinalityType
<1>4. stages[n].required_count \in Nat
  BY StagesAssumption DEF Template, TypeOK, StageRecord
<1>5. Cardinality(Approvals(i, n)) >= stages[n].required_count
  BY DEF Satisfied
<1>6. Cardinality(Approvals(i, n)') >= stages'[n].required_count
  BY <1>3, <1>4, <1>5
<1> QED BY <1>6 DEF Satisfied

LEMMA GatedIsStable ==
  ASSUME TypeOK, actions \subseteq actions', IsFiniteSet(actions'), stages' = stages,
         NEW i \in Instances, NEW n \in Nat, Gated(i, n)
  PROVE  Gated(i, n)'
<1> SUFFICES ASSUME NEW m \in DOMAIN stages, 1 <= m, m < n PROVE Satisfied(i, m)'
  BY DEF Gated
<1> QED BY SatisfiedIsStable DEF Gated

LEMMA BackedIsStable ==
  ASSUME actions' = actions, stages' = stages, NEW d, Backed(d)
  PROVE  Backed(d)'
BY DEF Backed, Gated, Satisfied, Approvals, StageActions, IsLastStage

\* A step that leaves the instances alone, only adds actions and adds no
\* decision keeps the invariant.
LEMMA GateFrame ==
  ASSUME GateInvariant, TypeOK', actions \subseteq actions', IsFiniteSet(actions'),
         instance' = instance, stages' = stages,
         \A r \in Requests : req'[r].pc = "decided" => req'[r] = req[r]
  PROVE  GateInvariant'
<1>1. ApprovalsGateStages'
  <2> SUFFICES ASSUME NEW i \in Instances
      PROVE  /\ Gated(i, instance[i].current_stage_number)'
             /\ instance[i].status = "APPROVED" =>
                  \A m \in DOMAIN stages : 1 <= m => Satisfied(i, m)'
    BY DEF ApprovalsGateStages
  <2>1. instance[i].current_stage_number \in Nat
    BY DEF GateInvariant, TypeOK
  <2>2. Gated(i, instance[i].current_stage_number)'
    BY <2>1, GatedIsStable DEF GateInvariant, ApprovalsGateStages, Gated
  <2>3. ASSUME instance[i].status = "APPROVED", NEW m \in DOMAIN stages, 1 <= m
        PROVE  Satisfied(i, m)'
    BY <2>3, SatisfiedIsStable DEF GateInvariant, ApprovalsGateStages
  <2> QED BY <2>2, <2>3
<1>2. DecisionBacked'
  <2> SUFFICES ASSUME NEW r \in Requests, req'[r].pc = "decided"
      PROVE  Backed(req[r])'
    BY DEF DecisionBacked
  <2>1. req'[r] = req[r] /\ req[r] \in Deciding
    BY CallTypes DEF GateInvariant
  <2>2. PICK d : d = req[r]
    OBVIOUS
  <2>3. d.inst \in Instances /\ d.stage \in Nat /\ Backed(d)
    BY <2>1, <2>2 DEF Deciding, GateInvariant, DecisionBacked
  <2>4. d.verdict \in {"next", "approve"} =>
          Gated(d.inst, d.stage)' /\ Satisfied(d.inst, d.stage)'
    BY <2>3, GatedIsStable, SatisfiedIsStable DEF GateInvariant, Backed
  <2>5. Backed(d)'
    BY <2>3, <2>4 DEF Backed, IsLastStage
  <2> QED BY <2>1, <2>2, <2>5
<1> QED BY <1>1, <1>2 DEF GateInvariant

-----------------------------------------------------------------------------
\* The two steps of _advance are the ones the invariant is about: the read
\* establishes what the decision rests on, the commit uses it.

LEMMA AdvanceReadKeepsGates ==
  ASSUME GateInvariant, TypeOK', NEW q \in Requests, Advance_Read(q)
  PROVE  GateInvariant'
<1>1. req[q] \in Acting
  BY CallTypes DEF GateInvariant, Advance_Read
<1>2. PICK i \in Instances, n \in Nat :
        i = req[q].inst /\ n = instance[i].current_stage_number
  BY <1>1 DEF GateInvariant, TypeOK, Acting
<1>3. IsFiniteSet(actions)' /\ ApprovalsGateStages'
  BY DEF Advance_Read, GateInvariant, ApprovalsGateStages, Gated, Satisfied,
         Approvals, StageActions
<1>4. Gated(i, n)
  BY <1>2 DEF GateInvariant, ApprovalsGateStages
<1>5. req' = [req EXCEPT ![q] =
        IF n \in DOMAIN stages /\ (Rejections(i, n) # {} \/ Satisfied(i, n))
          THEN [pc |-> "decided", inst |-> i, stage |-> n,
                seen |-> instance[i].status, verdict |-> Verdict(i, n)]
          ELSE [pc |-> "done"]]
  BY <1>2 DEF Advance_Read
<1>6. DecisionBacked'
  <2> SUFFICES ASSUME NEW r \in Requests, req'[r].pc = "decided"
      PROVE  Backed(req[r])'
    BY DEF DecisionBacked
  <2>0. PICK d : d = req'[r]
    OBVIOUS
  <2>1. CASE r # q
    <3>1. d = req[r] /\ Backed(d)
      BY <2>0, <2>1, <1>5 DEF GateInvariant, DecisionBacked, TypeOK
    <3> QED BY <2>0, <3>1, BackedIsStable DEF Advance_Read
  <2>2. CASE r = q
    <3>1. /\ n \in DOMAIN stages /\ (Rejections(i, n) # {} \/ Satisfied(i, n))
          /\ d.inst = i /\ d.stage = n /\ d.verdict = Verdict(i, n)
      BY <1>5, <2>0, <2>2 DEF GateInvariant, TypeOK
    <3>2. d.verdict \in {"next", "approve"} => Satisfied(i, n)
      BY <3>1 DEF Verdict
    <3>3. d.verdict = "approve" => IsLastStage(n)
      BY <3>1 DEF Verdict
    <3>4. Backed(d)
      BY <3>1, <3>2, <3>3, <1>4 DEF Backed
    <3> QED BY <2>0, <3>4, BackedIsStable DEF Advance_Read
  <2> QED BY <2>1, <2>2
<1> QED BY <1>3, <1>6 DEF GateInvariant

LEMMA AdvanceCommitKeepsGates ==
  ASSUME GateInvariant, TypeOK', NEW q \in Requests, Advance_Commit(q)
  PROVE  GateInvariant'
<1>1. req[q] \in Deciding
  BY CallTypes DEF GateInvariant, Advance_Commit
<1>2. PICK j \in Instances, n \in Nat : j = req[q].inst /\ n = req[q].stage
  BY <1>1 DEF Deciding
<1>3. req[q].verdict \in {"next", "approve"} =>
        Gated(j, n) /\ n \in DOMAIN stages /\ Satisfied(j, n)
  BY <1>2 DEF GateInvariant, DecisionBacked, Backed, Advance_Commit
<1>4. req[q].verdict = "approve" => IsLastStage(n)
  BY <1>2 DEF GateInvariant, DecisionBacked, Backed, Advance_Commit
<1>5. \A i \in Instances, m \in DOMAIN stages : Satisfied(i, m)' <=> Satisfied(i, m)
  BY DEF Advance_Commit, Satisfied, Approvals, StageActions
<1>6. DOMAIN stages \subseteq Nat
  BY StagesAssumption DEF Template, GateInvariant, TypeOK
<1>7. ApprovalsGateStages'
  <2> SUFFICES ASSUME NEW i \in Instances
      PROVE  /\ \A m \in DOMAIN stages :
                  1 <= m /\ m < instance'[i].current_stage_number => Satisfied(i, m)
             /\ instance'[i].status = "APPROVED" =>
                  \A m \in DOMAIN stages : 1 <= m => Satisfied(i, m)
    BY <1>5 DEF ApprovalsGateStages, Gated, Advance_Commit
  <2>0. /\ \A m \in DOMAIN stages :
             1 <= m /\ m < instance[i].current_stage_number => Satisfied(i, m)
        /\ instance[i].status = "APPROVED" =>
             \A m \in DOMAIN stages : 1 <= m => Satisfied(i, m)
    BY DEF GateInvariant, ApprovalsGateStages, Gated
  <2>1. CASE i # j
    <3>1. instance'[i] = instance[i]
      BY <2>1, <1>2 DEF Advance_Commit, GateInvariant, TypeOK
    <3> QED BY <3>1, <2>0
  <2>2. CASE i = j /\ req[q].verdict = "reject"
    <3>1. /\ instance'[i].current_stage_number = instance[i].current_stage_number
          /\ instance'[i].status \in {instance[i].status, "REJECTED"}
      BY <2>2, <1>2 DEF Advance_Commit, GateInvariant, TypeOK, SetStatus
    <3> QED BY <3>1, <2>0
  <2>3. CASE i = j /\ req[q].verdict = "approve"
    <3>1. instance'[i].current_stage_number = instance[i].current_stage_number
      BY <2>3, <1>2 DEF Advance_Commit, GateInvariant, TypeOK, SetStatus
    <3>2. \A m \in DOMAIN stages : 1 <= m => Satisfied(i, m)
      BY <2>3, <1>3, <1>4, <1>6 DEF Gated, IsLastStage
    <3> QED BY <3>1, <3>2, <2>0
  <2>4. CASE i = j /\ req[q].verdict = "next"
    <3>1. /\ instance'[i].current_stage_number = n + 1
          /\ instance'[i].status = instance[i].status
      BY <2>4, <1>2 DEF Advance_Commit, GateInvariant, TypeOK, MovePointer, NextStage
    <3>2. \A m \in DOMAIN stages : 1 <= m /\ m < n + 1 => Satisfied(i, m)
      BY <2>4, <1>3, <1>6 DEF Gated
    <3> QED BY <3>1, <3>2, <2>0
  <2> QED BY <2>1, <2>2, <2>3, <2>4, <1>1 DEF Deciding, Verdicts
<1>8. DecisionBacked'
  <2> SUFFICES ASSUME NEW r \in Requests, req'[r].pc = "decided"
      PROVE  Backed(req[r])'
    BY DEF DecisionBacked
  <2>1. PICK d : d = req'[r]
    OBVIOUS
  <2>2. d = req[r] /\ Backed(d)
    BY <2>1 DEF Advance_Commit, GateInvariant, DecisionBacked, TypeOK
  <2> QED BY <2>1, <2>2, BackedIsStable DEF Advance_Commit
<1>9. IsFiniteSet(actions)'
  BY DEF GateInvariant, Advance_Commit
<1> QED BY <1>7, <1>8, <1>9 DEF GateInvariant

\* The other steps that write instances write no pointer past a stage and no
\* approval: a new instance is at stage 1, a swept one becomes TIMED_OUT.
LEMMA InstanceWritesKeepGates ==
  ASSUME GateInvariant, TypeOK', actions' = actions, stages' = stages, req' = req,
         \A i \in Instances :
           /\ instance'[i].current_stage_number \in {1, instance[i].current_stage_number}
           /\ instance'[i].status = "APPROVED" => instance[i].status = "APPROVED"
  PROVE  GateInvariant'
<1>1. ApprovalsGateStages'
  <2> SUFFICES ASSUME NEW i \in Instances
      PROVE  /\ \A m \in DOMAIN stages :
                  1 <= m /\ m < instance'[i].current_stage_number => Satisfied(i, m)
             /\ instance'[i].status = "APPROVED" =>
                  \A m \in DOMAIN stages : 1 <= m => Satisfied(i, m)
    BY DEF ApprovalsGateStages, Gated, Satisfied, Approvals, StageActions
  <2>1. DOMAIN stages \subseteq Nat
    BY StagesAssumption DEF Template, GateInvariant, TypeOK
  <2>2. /\ \A m \in DOMAIN stages :
             1 <= m /\ m < instance[i].current_stage_number => Satisfied(i, m)
        /\ instance[i].status = "APPROVED" =>
             \A m \in DOMAIN stages : 1 <= m => Satisfied(i, m)
    BY DEF GateInvariant, ApprovalsGateStages, Gated
  <2>3. \A m \in DOMAIN stages : ~(1 <= m /\ m < 1)
    BY <2>1
  <2> QED BY <2>2, <2>3
<1>2. DecisionBacked'
  BY DEF GateInvariant, DecisionBacked, Backed, Gated, Satisfied, Approvals, StageActions,
         IsLastStage
<1> QED BY <1>1, <1>2 DEF GateInvariant

\* ApprovalsGateStages: in every interleaving of approval calls, timeouts and
\* aborts, an instance has required_count approvals at every stage it has
\* passed, and at all of them when it is APPROVED.
THEOREM StagesAreGated == Spec => []ApprovalsGateStages
<1>1. Init /\ TypeOK => GateInvariant
  <2> SUFFICES ASSUME Init, TypeOK PROVE GateInvariant
    OBVIOUS
  <2>1. DOMAIN stages \subseteq Nat
    BY StagesAssumption DEF Template, Init
  <2>2. \A m \in DOMAIN stages : ~(1 <= m /\ m < 1)
    BY <2>1
  <2>3. ApprovalsGateStages
    BY <2>2 DEF Init, ApprovalsGateStages, Gated
  <2>4. IsFiniteSet(actions)
    BY FS_EmptySet DEF Init
  <2> QED BY <2>3, <2>4 DEF Init, GateInvariant, DecisionBacked
<1>2. GateInvariant /\ TypeOK' /\ [Next]_vars => GateInvariant'
  <2> SUFFICES ASSUME GateInvariant, TypeOK', [Next]_vars PROVE GateInvariant'
    OBVIOUS
  <2>0. TypeOK /\ IsFiniteSet(actions)
    BY DEF GateInvariant
  <2>1. ASSUME NEW i \in Instances, StartWorkflow_Check(i) PROVE GateInvariant'
    BY <2>0, <2>1, GateFrame DEF StartWorkflow_Check
  <2>2. ASSUME NEW i \in Instances, StartWorkflow_Commit(i) PROVE GateInvariant'
    BY <2>0, <2>2, InstanceWritesKeepGates DEF StartWorkflow_Commit, TypeOK
  <2>3. ASSUME NEW r \in Requests, NEW i \in Instances, NEW u \in Users,
               NEW verb \in Verbs, PerformAction_Check(r, i, u, verb)
        PROVE  GateInvariant'
    <3>1. \A q \in Requests : req'[q].pc = "decided" => req'[q] = req[q]
      BY <2>0, <2>3 DEF PerformAction_Check, TypeOK
    <3> QED BY <2>0, <2>3, <3>1, GateFrame DEF PerformAction_Check
  <2>4. ASSUME NEW r \in Requests,
               RequestSignature(r) \/ SignatureRejected(r) \/ ReloadInstance(r) \/ Abort(r)
        PROVE  GateInvariant'
    <3>1. req[r] \in Acting \/ Abort(r)
      BY <2>0, <2>4, CallTypes DEF RequestSignature, SignatureRejected, ReloadInstance
    <3>2. \A q \in Requests : req'[q].pc = "decided" => req'[q] = req[q]
      BY <2>0, <2>4, <3>1 DEF RequestSignature, SignatureRejected, ReloadInstance, Abort,
         TypeOK, Acting
    <3> QED BY <2>0, <2>4, <3>2, GateFrame
           DEF RequestSignature, SignatureRejected, ReloadInstance, Abort
  <2>5. ASSUME NEW r \in Requests, RecordAction(r) PROVE GateInvariant'
    <3>1. req[r] \in Acting
      BY <2>0, <2>5, CallTypes DEF RecordAction
    <3>2. \A q \in Requests : req'[q].pc = "decided" => req'[q] = req[q]
      BY <2>0, <2>5, <3>1 DEF RecordAction, TypeOK, Acting
    <3>3. IsFiniteSet(actions') /\ actions \subseteq actions'
      BY <2>0, <2>5, FS_AddElement DEF RecordAction
    <3> QED BY <2>5, <3>2, <3>3, GateFrame DEF RecordAction
  <2>6. ASSUME NEW r \in Requests, Advance_Read(r) PROVE GateInvariant'
    BY <2>6, AdvanceReadKeepsGates
  <2>7. ASSUME NEW r \in Requests, Advance_Commit(r) PROVE GateInvariant'
    BY <2>7, AdvanceCommitKeepsGates
  <2>8. CASE Sweep_Load \/ (\E i \in Instances : Sweep_Examine(i)) \/ Tick
    BY <2>0, <2>8, GateFrame DEF Sweep_Load, Sweep_Examine, Tick
  <2>9. CASE Sweep_Commit
    <3>1. \A i \in Instances :
            /\ instance'[i].current_stage_number = instance[i].current_stage_number
            /\ instance'[i].status = "APPROVED" => instance[i].status = "APPROVED"
      BY <2>0, <2>9 DEF Sweep_Commit, TypeOK
    <3> QED BY <2>9, <3>1, InstanceWritesKeepGates DEF Sweep_Commit
  <2>10. CASE UNCHANGED vars
    BY <2>0, <2>10, GateFrame DEF vars
  <2> QED BY <2>1, <2>2, <2>3, <2>4, <2>5, <2>6, <2>7, <2>8, <2>9, <2>10
         DEF Next, CallStep, SweepStep
<1>3. GateInvariant => ApprovalsGateStages
  BY DEF GateInvariant
<1> QED BY <1>1, <1>2, <1>3, TypeCorrect, PTL DEF Spec
---------------------------------------------------------------------------
(* Coverage exceptions *)

\* What a request in progress holds: the row it loaded, the text it was shown.
FilingOK(f) ==
  filing[f].pc = "loaded" =>
    /\ filing[f].req \in Excusable
    /\ filing[f].seen \in RowType \cup {NoRow}
    /\ filing[f].row \in RowType /\ filing[f].row.approved = NoAdmin
    /\ filing[f].seen # NoRow => exceptions[filing[f].req] # NoRow
CosignOK(c) ==
  cosign[c].pc \in {"listed", "loaded"} =>
    /\ cosign[c].req \in Excusable
    /\ cosign[c].admin \in Admins
    /\ cosign[c].shown \in Reasons \X Lives
    /\ exceptions[cosign[c].req] # NoRow

RowsOK == exceptions \in [Excusable -> RowType \cup {NoRow}]
CallsOK ==
  /\ DOMAIN filing = Filings /\ \A f \in Filings : FilingOK(f)
  /\ DOMAIN cosign = Cosigns /\ \A c \in Cosigns : CosignOK(c)

Signed(row) == row # NoRow /\ row.approved # NoAdmin

\* A filing that will not clear the co-sign meets none, and an administrator
\* is shown what the row still says, unless the two have met on the row.
Sincere(r) ==
  /\ Signed(exceptions[r]) => exceptions[r].reviewed = Text(exceptions[r])
  /\ \A f \in Filings :
       /\ filing[f].pc = "loaded" /\ filing[f].req = r
       /\ filing[f].seen # NoRow /\ ~Signed(filing[f].seen)
       => ~Signed(exceptions[r])
  /\ \A c \in Cosigns :
       cosign[c].pc \in {"listed", "loaded"} /\ cosign[c].req = r =>
         cosign[c].shown = Text(exceptions[r])

ExceptionsInvariant ==
  RowsOK /\ CallsOK /\ \A r \in Excusable \ raced : Sincere(r)

-----------------------------------------------------------------------------
LEMMA RowFields ==
  ASSUME NEW row \in RowType
  PROVE  /\ row.reason \in Reasons /\ row.expires \in Lives
         /\ row.approved \in Admins \cup {NoAdmin}
         /\ row.reviewed \in {NoRow} \cup (Reasons \X Lives)
         /\ DOMAIN row = {"reason", "expires", "approved", "reviewed"}
         /\ Text(row) \in Reasons \X Lives
BY DEF RowType, Text

LEMMA RefiledRow ==
  ASSUME NEW row \in RowType, NEW seen \in RowType, NEW new \in RowType
  PROVE  /\ Refiled(row, seen, new) \in RowType
         /\ Refiled(row, seen, new).approved =
              IF seen.approved = NoAdmin THEN row.approved ELSE NoAdmin
<1> DEFINE reason == IF seen.reason = new.reason THEN row.reason ELSE new.reason
           expires == IF seen.expires = new.expires THEN row.expires ELSE new.expires
           approved == IF seen.approved = NoAdmin THEN row.approved ELSE NoAdmin
           set == [row EXCEPT !.reason = reason, !.expires = expires, !.approved = approved]
<1>1. Refiled(row, seen, new) = set
  BY DEF Refiled
<1>2. reason \in Reasons /\ expires \in Lives /\ approved \in Admins \cup {NoAdmin}
  BY RowFields
<1>3. set \in RowType /\ set.approved = approved
  <2> HIDE DEF reason, expires, approved
  <2> QED BY <1>2 DEF RowType
<1> HIDE DEF set
<1> QED BY <1>1, <1>3

LEMMA ExceptionsStart == ExceptionsInit => ExceptionsInvariant
BY DEF ExceptionsInit, ExceptionsInvariant, RowsOK, CallsOK, FilingOK, CosignOK, Sincere,
       Signed

-----------------------------------------------------------------------------
\* Requests that change nothing but their own locals.
LEMMA FilingLocal ==
  ASSUME ExceptionsInvariant, NEW f \in Filings, NEW local,
         filing' = [filing EXCEPT ![f] = local],
         UNCHANGED <<exceptions, cosign, raced>>,
         local.pc = "loaded" =>
           /\ local.req \in Excusable
           /\ local.seen = exceptions[local.req]
           /\ local.row \in RowType /\ local.row.approved = NoAdmin
  PROVE  ExceptionsInvariant'
<1>1. /\ DOMAIN filing' = Filings /\ filing'[f] = local
      /\ \A g \in Filings \ {f} : filing'[g] = filing[g]
  BY DEF ExceptionsInvariant, CallsOK
<1>2. RowsOK'
  BY DEF ExceptionsInvariant, RowsOK
<1>3. CallsOK'
  BY <1>1 DEF ExceptionsInvariant, RowsOK, CallsOK, FilingOK, CosignOK
<1>4. ASSUME NEW r \in Excusable \ raced' PROVE Sincere(r)'
  BY <1>1, <1>4 DEF ExceptionsInvariant, Sincere
<1> QED BY <1>2, <1>3, <1>4 DEF ExceptionsInvariant

LEMMA CosignLocal ==
  ASSUME ExceptionsInvariant, NEW c \in Cosigns, NEW local,
         cosign' = [cosign EXCEPT ![c] = local],
         UNCHANGED <<exceptions, filing, raced>>,
         local.pc \in {"listed", "loaded"} =>
           /\ local.req \in Excusable /\ local.admin \in Admins
           /\ local.shown \in Reasons \X Lives
           /\ exceptions[local.req] # NoRow
           /\ \/ local.shown = Text(exceptions[local.req])
              \/ /\ cosign[c].pc \in {"listed", "loaded"}
                 /\ cosign[c].req = local.req /\ cosign[c].shown = local.shown
  PROVE  ExceptionsInvariant'
<1>1. /\ DOMAIN cosign' = Cosigns /\ cosign'[c] = local
      /\ \A d \in Cosigns \ {c} : cosign'[d] = cosign[d]
  BY DEF ExceptionsInvariant, CallsOK
<1>2. RowsOK'
  BY DEF ExceptionsInvariant, RowsOK
<1>3. CallsOK'
  BY <1>1 DEF ExceptionsInvariant, CallsOK, FilingOK, CosignOK
<1>4. ASSUME NEW r \in Excusable \ raced' PROVE Sincere(r)'
  BY <1>1, <1>4 DEF ExceptionsInvariant, Sincere
<1> QED BY <1>2, <1>3, <1>4 DEF ExceptionsInvariant

\* The one row of a requirement is written, by a call that ends.
LEMMA RowWritten ==
  ASSUME ExceptionsInvariant, NEW q \in Excusable, NEW row \in RowType,
         exceptions' = [exceptions EXCEPT ![q] = row]
  PROVE  RowsOK' /\ exceptions'[q] = row
         /\ \A r \in Excusable \ {q} : exceptions'[r] = exceptions[r]
BY DEF ExceptionsInvariant, RowsOK

\* A filing is committed: the row is new, or it loses its co-sign, unless a
\* co-sign met the filing.
LEMMA CommitFilingStep ==
  ASSUME ExceptionsAssumption, ExceptionsInvariant, NEW f \in Filings, CommitFiling(f)
  PROVE  ExceptionsInvariant'
<1> PICK q : q = filing[f].req
  OBVIOUS
<1> DEFINE row == exceptions'[q]
<1>1. /\ filing[f].pc = "loaded" /\ FilingOK(f) /\ q \in Excusable
      /\ exceptions[q] \in RowType \cup {NoRow}
  BY DEF CommitFiling, ExceptionsInvariant, CallsOK, FilingOK, RowsOK
<1>2. /\ DOMAIN filing' = Filings /\ filing'[f].pc = "done"
      /\ \A g \in Filings \ {f} : filing'[g] = filing[g]
      /\ cosign' = cosign /\ raced \subseteq raced' /\ (CosignOf(q) => q \in raced')
  BY <1>1 DEF CommitFiling, ExceptionsInvariant, CallsOK
<1>3. /\ row \in RowType
      /\ exceptions' = [exceptions EXCEPT ![q] = row]
      /\ \/ row = exceptions[q]
         \/ row.approved = NoAdmin
         \/ /\ filing[f].seen # NoRow /\ ~Signed(filing[f].seen)
            /\ exceptions[q] # NoRow /\ row.approved = exceptions[q].approved
  <2>1. CASE filing[f].seen = NoRow
    BY <1>1, <2>1 DEF CommitFiling, ExceptionsInvariant, RowsOK, FilingOK
  <2>2. CASE filing[f].seen # NoRow
    <3>1. /\ filing[f].seen \in RowType /\ exceptions[q] \in RowType
          /\ filing[f].row \in RowType /\ exceptions[q] # NoRow
      BY <1>1, <2>2 DEF FilingOK
    <3>2. row = Refiled(exceptions[q], filing[f].seen, filing[f].row)
          /\ exceptions' = [exceptions EXCEPT ![q] = row]
      BY <1>1, <2>2 DEF CommitFiling, ExceptionsInvariant, RowsOK
    <3> QED BY <2>2, <3>1, <3>2, RefiledRow DEF Signed
  <2> QED BY <2>1, <2>2
<1>4. RowsOK' /\ \A r \in Excusable \ {q} : exceptions'[r] = exceptions[r]
  BY <1>1, <1>3, RowWritten
<1>5. row # NoRow
  BY <1>3 DEF ExceptionsAssumption
<1>6. CallsOK'
  BY <1>2, <1>4, <1>5 DEF ExceptionsInvariant, CallsOK, FilingOK, CosignOK
<1>7. ASSUME q \notin raced' PROVE Sincere(q)'
  <2>1. Sincere(q) /\ ~CosignOf(q)
    BY <1>1, <1>2, <1>7 DEF ExceptionsInvariant
  <2>2. row = exceptions[q] \/ ~Signed(row)
    BY <1>1, <1>3, <2>1 DEF Sincere, Signed
  <2>3. Signed(row) => row = exceptions[q] /\ Signed(exceptions[q])
    BY <2>2
  <2>4. Signed(row) => row.reviewed = Text(row)
    BY <2>1, <2>3 DEF Sincere
  <2> QED BY <1>2, <2>1, <2>3, <2>4 DEF Sincere, CosignOf
<1>8. ASSUME NEW r \in Excusable \ raced', r # q PROVE Sincere(r)'
  BY <1>2, <1>4, <1>8 DEF ExceptionsInvariant, Sincere
<1> QED BY <1>4, <1>6, <1>7, <1>8 DEF ExceptionsInvariant

\* A co-sign is committed: the row says what the administrator was shown,
\* unless a filing met the co-sign.
LEMMA CommitCosignStep ==
  ASSUME ExceptionsAssumption, ExceptionsInvariant, NEW c \in Cosigns, CommitCosign(c)
  PROVE  ExceptionsInvariant'
<1> PICK q : q = cosign[c].req
  OBVIOUS
<1> DEFINE row == exceptions'[q]
<1>1. /\ cosign[c].pc = "loaded" /\ CosignOK(c) /\ q \in Excusable
      /\ exceptions[q] \in RowType
  BY DEF CommitCosign, ExceptionsInvariant, CallsOK, CosignOK, RowsOK
<1>2. /\ DOMAIN cosign' = Cosigns /\ cosign'[c].pc = "done"
      /\ \A d \in Cosigns \ {c} : cosign'[d] = cosign[d]
      /\ filing' = filing /\ raced \subseteq raced' /\ (FilingOf(q) => q \in raced')
  BY <1>1 DEF CommitCosign, ExceptionsInvariant, CallsOK
<1>3. /\ row \in RowType /\ Text(row) = Text(exceptions[q])
      /\ exceptions' = [exceptions EXCEPT ![q] = row]
      /\ row = exceptions[q] \/ row.reviewed = cosign[c].shown
  <2> DEFINE new == [reason |-> exceptions[q].reason, expires |-> exceptions[q].expires,
                     approved |-> cosign[c].admin, reviewed |-> cosign[c].shown]
  <2>1. /\ new \in RowType /\ Text(new) = Text(exceptions[q])
        /\ new.reviewed = cosign[c].shown
    BY <1>1, RowFields DEF CosignOK, RowType, Text
  <2>2. DOMAIN exceptions = Excusable
    BY DEF ExceptionsInvariant, RowsOK
  <2>3. exceptions' = [exceptions EXCEPT ![q] = Cosigned(exceptions[q], cosign[c])]
        /\ row = Cosigned(exceptions[q], cosign[c])
    BY <1>1, <2>2 DEF CommitCosign
  <2>4. CASE cosign[c].seen = cosign[c].admin
    BY <1>1, <2>3, <2>4 DEF Cosigned
  <2>5. CASE cosign[c].seen # cosign[c].admin
    <3>1. exceptions[q] =
            [reason |-> exceptions[q].reason, expires |-> exceptions[q].expires,
             approved |-> exceptions[q].approved, reviewed |-> exceptions[q].reviewed]
      BY <1>1 DEF RowType
    <3>2. row = new
      BY <2>3, <2>5, <3>1 DEF Cosigned
    <3> HIDE DEF new
    <3> QED BY <2>1, <2>3, <3>2
  <2> QED BY <2>4, <2>5
<1>4. RowsOK' /\ \A r \in Excusable \ {q} : exceptions'[r] = exceptions[r]
  BY <1>1, <1>3, RowWritten
<1>5. row # NoRow
  BY <1>3 DEF ExceptionsAssumption
<1>6. CallsOK'
  BY <1>2, <1>4, <1>5 DEF ExceptionsInvariant, CallsOK, FilingOK, CosignOK
<1>7. ASSUME q \notin raced' PROVE Sincere(q)'
  <2>1. Sincere(q) /\ ~FilingOf(q)
    BY <1>1, <1>2, <1>7 DEF ExceptionsInvariant
  <2>2. cosign[c].shown = Text(row)
    BY <1>1, <1>3, <2>1 DEF Sincere
  <2>3. Signed(row) => row.reviewed = Text(row)
    BY <1>3, <2>1, <2>2 DEF Sincere
  <2> QED BY <1>2, <1>3, <2>1, <2>3 DEF Sincere, FilingOf
<1>8. ASSUME NEW r \in Excusable \ raced', r # q PROVE Sincere(r)'
  BY <1>2, <1>4, <1>8 DEF ExceptionsInvariant, Sincere
<1> QED BY <1>4, <1>6, <1>7, <1>8 DEF ExceptionsInvariant

LEMMA ExceptionsStep ==
  ASSUME ExceptionsAssumption, ExceptionsInvariant, [ExceptionsNext]_exceptionVars
  PROVE  ExceptionsInvariant'
<1>1. ASSUME UNCHANGED <<exceptions, filing, cosign, raced>> PROVE ExceptionsInvariant'
  BY <1>1 DEF ExceptionsInvariant, RowsOK, CallsOK, FilingOK, CosignOK, Sincere
<1>2. ASSUME NEW f \in Filings, NEW r \in Excusable, NEW reason \in Reasons,
             NEW expires \in Lives, LoadFiling(f, r, reason, expires)
      PROVE  ExceptionsInvariant'
  <2> DEFINE local == [pc |-> "loaded", req |-> r, seen |-> exceptions[r],
                       row |-> Filed(reason, expires)]
  <2>1. Filed(reason, expires) \in RowType /\ Filed(reason, expires).approved = NoAdmin
    BY DEF Filed, RowType
  <2>2. filing' = [filing EXCEPT ![f] = local] /\ UNCHANGED <<exceptions, cosign, raced>>
    BY <1>2 DEF LoadFiling
  <2> QED BY <2>1, <2>2, FilingLocal
<1>3. ASSUME NEW f \in Filings, DropFiling(f) PROVE ExceptionsInvariant'
  <2> DEFINE local == [pc |-> "done"]
  <2>1. filing' = [filing EXCEPT ![f] = local] /\ UNCHANGED <<exceptions, cosign, raced>>
    BY <1>3 DEF DropFiling
  <2> QED BY <2>1, FilingLocal
<1>4. ASSUME NEW c \in Cosigns, NEW a \in Admins, NEW r \in Excusable, List(c, a, r)
      PROVE  ExceptionsInvariant'
  <2> DEFINE local == [pc |-> "listed", req |-> r, admin |-> a, shown |-> Text(exceptions[r])]
  <2>1. /\ cosign' = [cosign EXCEPT ![c] = local] /\ UNCHANGED <<exceptions, filing, raced>>
        /\ exceptions[r] # NoRow
    BY <1>4 DEF List
  <2>2. Text(exceptions[r]) \in Reasons \X Lives
    BY <2>1, RowFields DEF ExceptionsInvariant, RowsOK
  <2> QED BY <2>1, <2>2, CosignLocal
<1>5. ASSUME NEW c \in Cosigns, LoadCosign(c) PROVE ExceptionsInvariant'
  <2> DEFINE local == [pc |-> "loaded", req |-> cosign[c].req, admin |-> cosign[c].admin,
                       shown |-> cosign[c].shown, seen |-> exceptions[cosign[c].req].approved]
  <2>1. /\ cosign' = [cosign EXCEPT ![c] = local] /\ UNCHANGED <<exceptions, filing, raced>>
        /\ cosign[c].pc = "listed" /\ CosignOK(c)
    BY <1>5 DEF LoadCosign, ExceptionsInvariant, CallsOK
  <2> QED BY <2>1, CosignLocal DEF CosignOK
<1>6. ASSUME NEW c \in Cosigns, DropCosign(c) PROVE ExceptionsInvariant'
  <2> DEFINE local == [pc |-> "done"]
  <2>1. cosign' = [cosign EXCEPT ![c] = local] /\ UNCHANGED <<exceptions, filing, raced>>
    BY <1>6 DEF DropCosign
  <2> QED BY <2>1, CosignLocal
<1>7. CASE DayPasses
  BY <1>1, <1>7 DEF DayPasses
<1>8. CASE UNCHANGED exceptionVars
  BY <1>1, <1>8 DEF exceptionVars
<1> QED BY <1>2, <1>3, <1>4, <1>5, <1>6, <1>7, <1>8, CommitFilingStep, CommitCosignStep
        DEF ExceptionsNext

\* An exception that excuses a requirement carries the reason and the expiry its
\* co-signer read, however many filings and co-signs are under way, on every row
\* where no filing and co-sign overlapped (routers/coverage.py:233).
THEOREM CosignsAreInformed ==
  ASSUME ExceptionsAssumption PROVE ExceptionsSpec => []ExcusedAsReviewed
<1>1. ExceptionsInvariant => ExcusedAsReviewed
  BY DEF ExceptionsInvariant, Sincere, Signed, ExcusedAsReviewed, Excuses, Unexpired
<1> QED BY <1>1, ExceptionsStart, ExceptionsStep, PTL DEF ExceptionsSpec
---------------------------------------------------------------------------
(* Artifacts of customer requirements *)

ItemsOK ==
  /\ item \in [Items -> {Absent} \cup [level : Levels, source : Documents \cup {Unset}]]
  /\ documents \subseteq Documents

\* What an edit is going to set, and that it was ruled on: it makes a
\* requirement L0 only next to an artifact that is there or is set with it.
EditOK(e) ==
  edit[e].pc = "loaded" =>
    /\ edit[e].req \in Rows
    /\ DOMAIN edit[e].set \subseteq {"level", "source"}
    /\ "level" \in DOMAIN edit[e].set => edit[e].set.level \in Levels
    /\ "source" \in DOMAIN edit[e].set => edit[e].set.source \in Documents \cup {Unset}
    /\ /\ edit[e].req \notin loose
       /\ "level" \in DOMAIN edit[e].set /\ edit[e].set.level = "L0" /\ "source" \notin DOMAIN edit[e].set
       => item[edit[e].req].source \in documents

ContractInvariant ==
  /\ ItemsOK
  /\ DOMAIN edit = Edits /\ \A e \in Edits : EditOK(e)
  /\ ContractNamesDocument

LEMMA ContractStart == ContractInit => ContractInvariant
BY DEF ContractInit, ContractInvariant, ItemsOK, EditOK, ContractNamesDocument, Rows, Absent

\* Rows stay rows, and one that met no way around the rule keeps citing what is
\* there, or cites something else that is.
Sourced(r) == item[r].source \in documents
LEMMA EditsKept ==
  ASSUME ContractInvariant, NEW E \in SUBSET Edits,
         DOMAIN edit' = Edits, \A e \in E : edit'[e] = edit[e],
         Rows \subseteq Rows', loose \subseteq loose',
         \A r \in Rows \ loose' : Sourced(r) => Sourced(r)'
  PROVE  \A e \in E : EditOK(e)'
BY DEF ContractInvariant, EditOK, Sourced

\* A requirement is created or cloned.
LEMMA ItemAdded ==
  ASSUME ContractInvariant, NEW r \in Items, item[r] = Absent,
         NEW level \in Levels, NEW source \in Documents \cup {Unset},
         item' = [item EXCEPT ![r] = [level |-> level, source |-> source]],
         UNCHANGED <<documents, edit>>, loose \subseteq loose',
         r \in loose' \/ Named(level, source)
  PROVE  ContractInvariant'
<1>1. /\ ItemsOK' /\ item'[r].level = level /\ item'[r].source = source
      /\ \A q \in Items \ {r} : item'[q] = item[q]
  BY DEF ContractInvariant, ItemsOK
<1>2. r \notin Rows /\ Rows' \subseteq Rows \cup {r} /\ Rows \subseteq Rows'
  BY <1>1 DEF Rows
<1>3. \A e \in Edits : EditOK(e)'
  BY <1>1, <1>2, EditsKept DEF ContractInvariant, Sourced, Rows
<1>4. ContractNamesDocument'
  BY <1>1, <1>2 DEF ContractInvariant, ContractNamesDocument, Named, Rows
<1> QED BY <1>1, <1>3, <1>4 DEF ContractInvariant

LEMMA UnlinkedStep ==
  ASSUME ContractInvariant, NEW r \in Items, NEW level \in Levels, Unlinked(r, level)
  PROVE  ContractInvariant'
<1>1. r \in loose' \/ Named(level, Unset)
  BY DEF Unlinked, Named
<1> QED BY <1>1, ItemAdded DEF Unlinked

LEMMA CloneStep ==
  ASSUME ContractInvariant, NEW r \in Items, NEW from \in Items, CloneItem(r, from)
  PROVE  ContractInvariant'
<1>1. item[from].level \in Levels
  BY DEF CloneItem, Rows, ContractInvariant, ItemsOK
<1> QED BY <1>1, UnlinkedStep DEF CloneItem

\* The rule holds of the row as it was loaded.
LEMMA LoadEditStep ==
  ASSUME ContractAssumption, ContractInvariant, NEW e \in Edits, NEW r \in Items,
         NEW body \in Bodies, LoadEdit(e, r, body)
  PROVE  ContractInvariant'
<1> DEFINE set == {f \in DOMAIN body : body[f] # item[r][f]}
           new == [f \in set |-> body[f]]
<1>1. /\ edit'[e] = [pc |-> "loaded", req |-> r, set |-> new]
      /\ DOMAIN edit' = Edits /\ \A o \in Edits \ {e} : edit'[o] = edit[o]
      /\ r \in Rows /\ Ruled(body, item[r]) /\ UNCHANGED <<item, documents, loose>>
  BY DEF LoadEdit, ContractInvariant
<1>2. /\ set \subseteq {"level", "source"}
      /\ "level" \in DOMAIN body => body.level \in Levels
      /\ "source" \in DOMAIN body => body.source \in Documents \cup {Unset}
  BY DEF Bodies
<1>3. ASSUME "level" \in set, body.level = "L0", "source" \notin set
      PROVE  item[r].source \in documents
  <2>1. "level" \in DOMAIN body
    BY <1>3
  <2>2. "source" \in DOMAIN body => body.source = item[r].source
    BY <1>3
  <2> QED BY <1>1, <1>3, <2>1, <2>2 DEF Ruled, Named
<1>4. EditOK(e)'
  <2>1. r \in Rows' /\ item'[r] = item[r]
    BY <1>1 DEF Rows
  <2>2. /\ set \subseteq DOMAIN body /\ DOMAIN new = set
        /\ "level" \in set => new.level = body.level
        /\ "source" \in set => new.source = body.source
    OBVIOUS
  <2> HIDE DEF set, new
  <2>3. edit'[e].req = r /\ edit'[e].set = new
    BY <1>1
  <2> QED BY <1>1, <1>2, <1>3, <2>1, <2>2, <2>3 DEF EditOK
<1>5. \A o \in Edits \ {e} : EditOK(o)'
  BY <1>1, EditsKept DEF Rows, Sourced
<1>6. ItemsOK' /\ ContractNamesDocument'
  BY <1>1 DEF ContractInvariant, ItemsOK, ContractNamesDocument, Rows
<1> QED BY <1>1, <1>4, <1>5, <1>6 DEF ContractInvariant

LEMMA CommitEditStep ==
  ASSUME ContractAssumption, ContractInvariant, NEW e \in Edits, CommitEdit(e)
  PROVE  ContractInvariant'
<1> PICK r : r = edit[e].req
  OBVIOUS
<1> PICK new : new = Updated(item[r], edit[e])
  OBVIOUS
<1>1. /\ DOMAIN edit' = Edits /\ edit'[e].pc = "done"
      /\ \A o \in Edits \ {e} : edit'[o] = edit[o]
      /\ edit[e].pc = "loaded" /\ EditOK(e) /\ r \in Rows /\ r \in Items
      /\ item[r] \in [level : Levels, source : Documents \cup {Unset}]
      /\ documents' = documents
  BY DEF CommitEdit, ContractInvariant, ItemsOK, EditOK, Rows
<1>2. EditOK(e)'
  BY <1>1 DEF EditOK
<1>3. CASE UNCHANGED <<item, loose>>
  <2>1. \A o \in Edits \ {e} : EditOK(o)'
    BY <1>1, <1>3, EditsKept DEF Rows, Sourced
  <2> QED BY <1>1, <1>2, <1>3, <2>1 DEF ContractInvariant, ItemsOK, ContractNamesDocument, Rows
<1>4. CASE /\ "source" \in DOMAIN edit[e].set => new.source \in documents \cup {Unset}
           /\ item' = [item EXCEPT ![r] = new]
           /\ loose' = loose \cup {q \in {r} : AroundTheRule(edit[e])}
  <2>1. /\ new.level = IF "level" \in DOMAIN edit[e].set THEN edit[e].set.level ELSE item[r].level
        /\ new.source = IF "source" \in DOMAIN edit[e].set THEN edit[e].set.source ELSE item[r].source
        /\ new = [level |-> new.level, source |-> new.source]
    BY DEF Updated
  <2>2. new.level \in Levels /\ new.source \in Documents \cup {Unset}
    BY <1>1, <2>1 DEF EditOK
  <2>3. new \in [level : Levels, source : Documents \cup {Unset}] /\ new # Absent
    BY <2>1, <2>2 DEF Absent, Levels
  <2>4. /\ ItemsOK' /\ item'[r] = new /\ \A q \in Items \ {r} : item'[q] = item[q]
    BY <1>1, <1>4, <2>3 DEF ContractInvariant, ItemsOK
  <2>5. Rows' = Rows
    BY <1>1, <2>3, <2>4 DEF Rows
  <2>6. loose \subseteq loose' /\ (AroundTheRule(edit[e]) => r \in loose')
    BY <1>4
  <2>7. ASSUME r \notin loose'
        PROVE  /\ Sourced(r) => Sourced(r)'
               /\ new.level = "L0" => Sourced(r)'
    <3>1. CASE "source" \in DOMAIN edit[e].set
      BY <1>1, <1>4, <2>1, <2>4, <2>6, <2>7, <3>1 DEF AroundTheRule, Sourced
    <3>2. CASE "source" \notin DOMAIN edit[e].set
      <4>1. item'[r].source = item[r].source /\ r \in Rows \ loose
        BY <1>1, <2>1, <2>4, <2>6, <2>7, <3>2
      <4>2. new.level = "L0" => item[r].source \in documents
        BY <1>1, <2>1, <3>2, <4>1 DEF EditOK, ContractInvariant, ContractNamesDocument
      <4> QED BY <1>1, <4>1, <4>2 DEF Sourced
    <3> QED BY <3>1, <3>2
  <2>8. \A q \in Rows \ loose' : Sourced(q) => Sourced(q)'
    <3>1. \A q \in Rows \ {r} : Sourced(q) => Sourced(q)'
      BY <1>1, <2>4 DEF Sourced, Rows
    <3> QED BY <2>7, <3>1
  <2>9. \A o \in Edits \ {e} : EditOK(o)'
    BY <1>1, <2>5, <2>6, <2>8, EditsKept
  <2>10. ContractNamesDocument'
    BY <1>1, <2>4, <2>5, <2>6, <2>7 DEF ContractInvariant, ContractNamesDocument, Sourced, Rows
  <2> QED BY <1>1, <1>2, <2>4, <2>9, <2>10 DEF ContractInvariant
<1> QED BY <1>3, <1>4 DEF CommitEdit

\* An artifact goes, and whoever cites it has met a way around the rule.
LEMMA FinishRemovalStep ==
  ASSUME ContractInvariant, NEW x \in Removals, FinishRemoval(x)
  PROVE  ContractInvariant'
<1> PICK d : d = removal[x].doc
  OBVIOUS
<1>1. /\ edit' = edit /\ documents' = documents \ {d} /\ loose' = loose \cup Citing(d)
      /\ item' = [r \in Items |->
           IF r \in Citing(d) THEN [item[r] EXCEPT !.source = Unset] ELSE item[r]]
  BY DEF FinishRemoval
<1>2. ASSUME NEW r \in Items
      PROVE  /\ item'[r] \in {Absent} \cup [level : Levels, source : Documents \cup {Unset}]
             /\ item'[r] = Absent <=> item[r] = Absent
             /\ r \notin Citing(d) => item'[r] = item[r]
  <2>1. CASE r \notin Citing(d)
    BY <1>1, <2>1 DEF ContractInvariant, ItemsOK
  <2>2. CASE r \in Citing(d)
    <3>1. item[r] \in [level : Levels, source : Documents \cup {Unset}] /\ item[r] # Absent
      BY <2>2 DEF Citing, Rows, ContractInvariant, ItemsOK
    <3>2. item'[r] = [item[r] EXCEPT !.source = Unset]
      BY <1>1, <2>2
    <3>3. item'[r] \in [level : Levels, source : Documents \cup {Unset}]
      BY <3>1, <3>2
    <3> QED BY <2>2, <3>1, <3>3 DEF Absent, Levels
  <2> QED BY <2>1, <2>2
<1>3. Rows' = Rows
  BY <1>2 DEF Rows
<1>4. \A r \in Rows \ loose' : item'[r] = item[r] /\ item[r].source # d
  BY <1>1, <1>2 DEF Citing, Rows
<1>5. ASSUME NEW r \in Rows, r \notin loose' PROVE (Sourced(r) => Sourced(r)') /\ r \notin loose
  <2>1. documents' = documents \ {d} /\ loose \subseteq loose'
    BY <1>1
  <2>2. item'[r] = item[r] /\ item[r].source # d
    BY <1>4, <1>5
  <2> QED BY <1>5, <2>1, <2>2 DEF Sourced
<1>6. ItemsOK'
  BY <1>1, <1>2 DEF ContractInvariant, ItemsOK
<1>7. ContractNamesDocument'
  <2>1. \A r \in Rows \ loose' : item'[r].level = "L0" => Sourced(r)
    BY <1>4, <1>5 DEF ContractInvariant, ContractNamesDocument, Sourced
  <2> QED BY <1>3, <1>5, <2>1 DEF ContractNamesDocument, Sourced
<1>8. \A e \in Edits : EditOK(e)'
  <2>1. /\ DOMAIN edit' = Edits /\ \A e \in Edits : edit'[e] = edit[e]
        /\ Rows \subseteq Rows' /\ loose \subseteq loose'
    BY <1>1, <1>3 DEF ContractInvariant
  <2> QED BY <1>5, <2>1, EditsKept
<1> QED BY <1>1, <1>6, <1>7, <1>8 DEF ContractInvariant

LEMMA ContractStep ==
  ASSUME ContractAssumption, ContractInvariant, [ContractNext]_contractVars
  PROVE  ContractInvariant'
<1>1. ASSUME UNCHANGED <<item, edit, loose>>, documents' = documents \/
             \E d \in Documents : documents' = documents \cup {d}
      PROVE  ContractInvariant'
  <2>1. documents \subseteq documents' /\ documents' \subseteq Documents /\ Rows' = Rows
    BY <1>1 DEF ContractInvariant, ItemsOK, Rows
  <2>2. \A e \in Edits : EditOK(e)'
    BY <1>1, <2>1, EditsKept DEF ContractInvariant, Sourced
  <2> QED BY <1>1, <2>1, <2>2 DEF ContractInvariant, ItemsOK, ContractNamesDocument
<1>2. ASSUME NEW r \in Items, NEW level \in Levels, NEW source \in Documents \cup {Unset},
             CreateItem(r, level, source)
      PROVE  ContractInvariant'
  BY <1>2, ItemAdded DEF CreateItem
<1>3. CASE \E d \in Documents :
             CreateDocument(d) \/ \E x \in Removals : BeginRemoval(x, d)
  BY <1>1, <1>3 DEF CreateDocument, BeginRemoval
<1>4. CASE Drop
  <2>1. CASE UNCHANGED edit
    BY <1>1, <1>4, <2>1 DEF Drop
  <2>2. ASSUME NEW e \in Edits, edit' = [edit EXCEPT ![e] = [pc |-> "done"]]
        PROVE  ContractInvariant'
    <3>1. UNCHANGED <<item, documents, loose>> /\ Rows' = Rows
      BY <1>4 DEF Drop, Rows
    <3>2. /\ DOMAIN edit' = Edits /\ edit'[e].pc = "done"
          /\ \A o \in Edits \ {e} : edit'[o] = edit[o]
      BY <2>2 DEF ContractInvariant
    <3>3. EditOK(e)' /\ \A o \in Edits \ {e} : EditOK(o)'
      BY <3>1, <3>2, EditsKept DEF EditOK, Sourced
    <3> QED BY <3>1, <3>2, <3>3 DEF ContractInvariant, ItemsOK, ContractNamesDocument
  <2> QED BY <1>4, <2>1, <2>2 DEF Drop
<1>5. CASE UNCHANGED contractVars
  BY <1>1, <1>5 DEF contractVars
<1> QED BY <1>2, <1>3, <1>4, <1>5, CloneStep, UnlinkedStep, LoadEditStep, CommitEditStep,
           FinishRemovalStep
        DEF ContractNext, ConfirmImport

\* Every customer requirement names an artifact that exists, for any number of
\* requirements, artifacts and overlapping edits and deletions, but those that a
\* clone or an import of L0, a null or a citation of an artifact under deletion
\* has touched (services/level_validator.py, models/__init__.py:222).
THEOREM CustomersAreSourced ==
  ASSUME ContractAssumption PROVE ContractSpec => []ContractNamesDocument
<1>1. ContractInvariant => ContractNamesDocument
  BY DEF ContractInvariant
<1> QED BY <1>1, ContractStart, ContractStep, PTL DEF ContractSpec

-------------------------------------------------------------------------------
(* Requirements exchanged with an external tool *)

IsSeq(s) == \E S : s \in Seq(S)

Examining(v) == v.pc = "examine"
Pushing(v) == v.pc \in {"push", "send"}

\* A tag is on a requirement, in the rationale an export is about to write, on
\* a requirement an import is about to insert.
Tagged(r, x) == Tag(x) \in rows[r].tags
Told(v, r, x) == Tag(x) \in v.own[r].now.tags
TakenIn(v, x) == Examining(v) /\ \E f \in v.fresh : f.item = x
Sends(v, r) == v.pc = "send" /\ First(v.todo) = r

RowsOnRecord ==
  /\ IsSeq(rows)
  /\ \A r \in DOMAIN rows :
       /\ {"status", "tags", "last"} \subseteq DOMAIN rows[r]
       /\ \A n : Tagged(r, n) => n \in DOMAIN items
ItemsOnRecord ==
  /\ IsSeq(items)
  /\ \A x \in DOMAIN items :
       /\ {"status", "of", "gone"} \subseteq DOMAIN items[x]
       /\ items[x].of \in DOMAIN rows \cup {None}

\* A session refers to rows and items that exist, once to each item.
ImportOK(v) ==
  /\ v.todo \subseteq DOMAIN items
  /\ IsFiniteSet(v.fresh)
  /\ \A f \in v.fresh : f.item \in DOMAIN items /\ f.item \notin v.todo
  /\ \A f, g \in v.fresh : f.item = g.item => f = g
ExportOK(v) ==
  /\ v.todo \subseteq DOMAIN v.own /\ DOMAIN v.own \subseteq DOMAIN rows
  /\ v.pc = "push" => v.found = {}
  /\ v.pc = "send" =>
       v.todo # {} /\ \A x \in v.found : x \in DOMAIN items /\ items[x].of = First(v.todo)
  /\ \A r \in DOMAIN v.own :
       /\ "now" \in DOMAIN v.own[r]
       /\ {"tags", "last"} \subseteq DOMAIN v.own[r].now
       /\ \A n : Told(v, r, n) => n \in DOMAIN items
SessionOK(v) ==
  /\ "pc" \in DOMAIN v
  /\ Examining(v) \/ Pushing(v) => {"todo", "own", "fresh", "found"} \subseteq DOMAIN v
  /\ Examining(v) => ImportOK(v)
  /\ Pushing(v) => ExportOK(v)
SessionsOK == DOMAIN sync = Syncs /\ \A s \in Syncs : SessionOK(sync[s])

\* An item an export made belongs to its requirement. One it did not make is
\* tagged once, and its tag is in every rationale that was loaded.
KnowsItem(v, x) ==
  /\ TakenIn(v, x) => items[x].of = None /\ \A r \in DOMAIN rows : ~Tagged(r, x)
  /\ Pushing(v) => \A r \in DOMAIN v.own :
       IF items[x].of = None THEN Told(v, r, x) <=> Tagged(r, x)
       ELSE Told(v, r, x) => r = items[x].of
TaggedOnce(x) ==
  IF items[x].of = None
  THEN \A q, r \in DOMAIN rows : Tagged(q, x) /\ Tagged(r, x) => q = r
  ELSE \A r \in DOMAIN rows : Tagged(r, x) => r = items[x].of
ItemsMatched ==
  \A x \in DOMAIN items : <<"item", x>> \notin overlapped =>
    /\ TaggedOnce(x)
    /\ \A s \in Syncs : KnowsItem(sync[s], x)
    /\ \A s, t \in Syncs : TakenIn(sync[s], x) /\ TakenIn(sync[t], x) => s = t

\* A search that found no issue has found so still.
KnowsIssue(v, r) == Sends(v, r) /\ v.found = {} => Labelled(r) = {}
IssuesMatched ==
  tool = "jira" =>
    \A r \in DOMAIN rows : <<"row", r>> \notin overlapped =>
      /\ \A x, y \in Labelled(r) : x = y
      /\ \A s \in Syncs : KnowsIssue(sync[s], r)
      /\ \A s, t \in Syncs : Sends(sync[s], r) /\ Sends(sync[t], r) => s = t

ExchangeInvariant ==
  RowsOnRecord /\ ItemsOnRecord /\ SessionsOK /\ ItemsMatched /\ IssuesMatched

-----------------------------------------------------------------------------
LEMMA SessionStep ==
  ASSUME ExchangeInvariant, NEW s \in Syncs, NEW w,
         UNCHANGED <<tool, rows, items>>, overlapped \subseteq overlapped',
         sync' = [sync EXCEPT ![s] = w],
         SessionOK(w),
         \A x \in DOMAIN items : <<"item", x>> \notin overlapped' =>
           /\ KnowsItem(w, x)
           /\ \A t \in Syncs \ {s} : ~(TakenIn(w, x) /\ TakenIn(sync[t], x)),
         tool = "jira" => \A r \in DOMAIN rows : <<"row", r>> \notin overlapped' =>
           /\ KnowsIssue(w, r)
           /\ \A t \in Syncs \ {s} : ~(Sends(w, r) /\ Sends(sync[t], r))
  PROVE  ExchangeInvariant'
<1>1. RowsOnRecord' /\ ItemsOnRecord'
  BY DEF ExchangeInvariant, RowsOnRecord, ItemsOnRecord, Tagged
<1>2. /\ DOMAIN sync' = Syncs
      /\ \A t \in Syncs : sync'[t] = IF t = s THEN w ELSE sync[t]
  BY DEF ExchangeInvariant, SessionsOK
<1>3. SessionsOK'
  <2>1. \A v : SessionOK(v) => SessionOK(v)'
    BY DEF SessionOK, ImportOK, ExportOK, Examining, Pushing, Told
  <2>2. \A t \in Syncs : SessionOK(sync'[t])
    BY <1>2 DEF ExchangeInvariant, SessionsOK
  <2> QED BY <1>2, <2>1, <2>2 DEF SessionsOK
<1>4. ItemsMatched'
  <2>1. \A v, x : KnowsItem(v, x) => KnowsItem(v, x)'
    BY DEF KnowsItem, TakenIn, Tagged, Told
  <2>2. \A x : TaggedOnce(x) => TaggedOnce(x)'
    BY DEF TaggedOnce, Tagged
  <2> SUFFICES ASSUME NEW x \in DOMAIN items, <<"item", x>> \notin overlapped'
               PROVE  /\ TaggedOnce(x)'
                      /\ \A t \in Syncs : KnowsItem(sync[t], x)'
                      /\ \A t, u \in Syncs :
                           TakenIn(sync[t], x)' /\ TakenIn(sync[u], x)' => t = u
    BY DEF ItemsMatched
  <2>3. /\ TaggedOnce(x) /\ \A t \in Syncs : KnowsItem(sync[t], x)
        /\ \A t, u \in Syncs : TakenIn(sync[t], x) /\ TakenIn(sync[u], x) => t = u
    BY DEF ExchangeInvariant, ItemsMatched
  <2>4. \A t \in Syncs : KnowsItem(sync'[t], x)
    BY <1>2, <2>3
  <2>5. \A t \in Syncs : KnowsItem(sync[t], x)'
    BY <2>1, <2>4
  <2>6. \A t, u \in Syncs : TakenIn(sync'[t], x) /\ TakenIn(sync'[u], x) => t = u
    BY <1>2, <2>3
  <2> QED BY <2>2, <2>3, <2>5, <2>6 DEF TakenIn
<1>5. IssuesMatched'
  <2>1. \A r : Labelled(r)' = Labelled(r)
    BY DEF Labelled
  <2> SUFFICES ASSUME tool = "jira", NEW r \in DOMAIN rows, <<"row", r>> \notin overlapped'
               PROVE  /\ \A x, y \in Labelled(r) : x = y
                      /\ \A t \in Syncs : KnowsIssue(sync'[t], r)
                      /\ \A t, u \in Syncs : Sends(sync'[t], r) /\ Sends(sync'[u], r) => t = u
    BY <2>1 DEF IssuesMatched, KnowsIssue, Sends
  <2>2. /\ \A x, y \in Labelled(r) : x = y
        /\ \A t \in Syncs : KnowsIssue(sync[t], r)
        /\ \A t, u \in Syncs : Sends(sync[t], r) /\ Sends(sync[u], r) => t = u
    BY DEF ExchangeInvariant, IssuesMatched
  <2> QED BY <1>2, <2>2
<1> QED BY <1>1, <1>3, <1>4, <1>5 DEF ExchangeInvariant

LEMMA SeqFacts ==
  ASSUME NEW s, IsSeq(s)
  PROVE  /\ Len(s) \in Nat /\ DOMAIN s = 1 .. Len(s)
         /\ s = [x \in DOMAIN s |-> s[x]]
BY LenProperties DEF IsSeq

LEMMA SeqBuilt ==
  ASSUME NEW n \in Nat, NEW s, s = [x \in 1 .. n |-> s[x]]
  PROVE  IsSeq(s) /\ Len(s) = n
<1> DEFINE S == {s[x] : x \in 1 .. n}
<1>1. s \in [1 .. n -> S]
  OBVIOUS
<1>2. s \in Seq(S)
  BY <1>1, SeqDef
<1>3. DOMAIN s = 1 .. n
  BY <1>1
<1>4. Len(s) \in Nat /\ DOMAIN s = 1 .. Len(s)
  BY <1>2, LenProperties
<1>5. Len(s) = n
  BY <1>3, <1>4
<1>6. IsSeq(s)
  BY <1>2 DEF IsSeq
<1> QED BY <1>5, <1>6

LEMMA Appended ==
  ASSUME NEW s, IsSeq(s), NEW e
  PROVE  /\ IsSeq(Append(s, e)) /\ DOMAIN Append(s, e) = DOMAIN s \cup {Len(s) + 1}
         /\ Len(s) + 1 \notin DOMAIN s /\ Append(s, e)[Len(s) + 1] = e
         /\ \A x \in DOMAIN s : Append(s, e)[x] = s[x]
<1> DEFINE S == {s[x] : x \in DOMAIN s} \cup {e}
           n == Len(s)
           t == Append(s, e)
<1>1. s \in Seq(S)
  BY SeqMonotonic DEF IsSeq
<1>2. /\ t \in Seq(S) /\ Len(t) = n + 1 /\ t[n + 1] = e
      /\ \A x \in 1 .. n : t[x] = s[x]
  BY <1>1, AppendProperties
<1>3. n \in Nat /\ DOMAIN s = 1 .. n
  BY SeqFacts
<1>4. t \in [1 .. n + 1 -> S]
  BY <1>2, LenProperties
<1>5. IsSeq(t)
  <2>1. t = [x \in 1 .. n + 1 |-> t[x]]
    BY <1>4
  <2> HIDE DEF t
  <2> QED BY <1>3, <2>1, SeqBuilt
<1>6. DOMAIN t = 1 .. n + 1
  BY <1>4
<1> HIDE DEF t, n
<1>7. 1 .. n + 1 = 1 .. n \cup {n + 1} /\ n + 1 \notin 1 .. n
  BY <1>3
<1> QED BY <1>2, <1>3, <1>5, <1>6, <1>7 DEF t, n

LEMMA Replaced ==
  ASSUME NEW s, IsSeq(s), NEW k, NEW e
  PROVE  IsSeq([s EXCEPT ![k] = e])
<1>1. Len(s) \in Nat /\ DOMAIN s = 1 .. Len(s)
  BY SeqFacts
<1> PICK t : t = [s EXCEPT ![k] = e]
  OBVIOUS
<1>2. t = [x \in 1 .. Len(s) |-> t[x]]
  BY <1>1
<1> QED BY <1>1, <1>2, SeqBuilt

LEMMA FirstOf ==
  ASSUME NEW n \in Nat, NEW S, S \subseteq 1 .. n, S # {}
  PROVE  First(S) \in S
<1>1. S \subseteq Nat
  OBVIOUS
<1>2. \E x \in S : \A y \in S : x <= y
  BY <1>1, LeastOf
<1> QED BY <1>2 DEF First

\* A session that knows nothing yet, or nothing any more.
LEMMA Quiet ==
  ASSUME ExchangeInvariant, NEW s \in Syncs, NEW w, "pc" \in DOMAIN w,
         w.pc \notin {"examine", "push", "send"},
         UNCHANGED <<tool, rows, items>>, overlapped' = overlapped, Set(s, w)
  PROVE  ExchangeInvariant'
<1>1. SessionOK(w)
  BY DEF SessionOK, Examining, Pushing
<1>2. \A x : KnowsItem(w, x) /\ ~TakenIn(w, x)
  BY DEF KnowsItem, TakenIn, Examining, Pushing
<1>3. \A r : KnowsIssue(w, r) /\ ~Sends(w, r)
  BY DEF KnowsIssue, Sends
<1> QED BY <1>1, <1>2, <1>3, SessionStep DEF Set

LEMMA TriggerKeeps ==
  ASSUME ExchangeInvariant, NEW s \in Syncs, NEW d \in {"import", "export"}, Trigger(s, d)
  PROVE  ExchangeInvariant'
<1> DEFINE w == Session(d, {})
<1>1. "pc" \in DOMAIN w /\ w.pc \notin {"examine", "push", "send"}
  BY DEF Session
<1>2. UNCHANGED <<tool, rows, items>> /\ overlapped' = overlapped /\ Set(s, w)
  BY DEF Trigger
<1> HIDE DEF w
<1> QED BY <1>1, <1>2, Quiet

LEMMA DoneKeeps ==
  ASSUME ExchangeInvariant, NEW s \in Syncs, Done(s),
         UNCHANGED <<tool, rows, items>>, overlapped' = overlapped
  PROVE  ExchangeInvariant'
BY Quiet DEF Done

LEMMA FetchKeeps ==
  ASSUME ExchangeInvariant, NEW s \in Syncs, Fetch(s)
  PROVE  ExchangeInvariant'
<1> PICK v : v = Session("examine", Fetched)
  OBVIOUS
<1> PICK w : w = [v EXCEPT !.found = [x \in Fetched |-> items[x]]]
  OBVIOUS
<1>1. /\ w.pc = "examine" /\ w.todo = Fetched /\ w.fresh = {}
      /\ {"pc", "todo", "own", "fresh", "found"} \subseteq DOMAIN w
  BY DEF Session
<1>2. SessionOK(w)
  BY <1>1, FS_EmptySet DEF SessionOK, ImportOK, Examining, Pushing, Fetched
<1>3. \A x : KnowsItem(w, x) /\ ~TakenIn(w, x)
  BY <1>1 DEF KnowsItem, TakenIn, Pushing
<1>4. \A r : KnowsIssue(w, r) /\ ~Sends(w, r)
  BY <1>1 DEF KnowsIssue, Sends
<1>5. /\ UNCHANGED <<tool, rows, items>> /\ overlapped' = overlapped
      /\ sync' = [sync EXCEPT ![s] = w]
  BY DEF Fetch, Set
<1> QED BY <1>2, <1>3, <1>4, <1>5, SessionStep

LEMMA LoadKeeps ==
  ASSUME ExchangeInvariant, NEW s \in Syncs, Load(s)
  PROVE  ExchangeInvariant'
<1> DEFINE live == {r \in DOMAIN rows : rows[r].status # "deleted"}
           rationale(r) == [tags |-> rows[r].tags, last |-> rows[r].last]
<1> PICK v : v = Session("push", live)
  OBVIOUS
<1> PICK w : w = [v EXCEPT
                    !.own = [r \in live |-> [was |-> rationale(r), now |-> rationale(r)]]]
  OBVIOUS
<1>1. /\ w.pc = "push" /\ w.todo = live /\ w.found = {}
      /\ DOMAIN w.own = live
      /\ \A r \in live : w.own[r] = [was |-> rationale(r), now |-> rationale(r)]
      /\ {"pc", "todo", "own", "fresh", "found"} \subseteq DOMAIN w
  BY DEF Session
<1>2. \A r \in live : /\ "now" \in DOMAIN w.own[r]
                      /\ {"tags", "last"} \subseteq DOMAIN w.own[r].now
                      /\ w.own[r].now.tags = rows[r].tags
  BY <1>1
<1>3. \A r \in live : \A x : Told(w, r, x) <=> Tagged(r, x)
  BY <1>2 DEF Told, Tagged
<1>4. SessionOK(w)
  BY <1>1, <1>2, <1>3 DEF SessionOK, ExportOK, Examining, Pushing,
     ExchangeInvariant, RowsOnRecord
<1>5. \A x \in DOMAIN items : <<"item", x>> \notin overlapped => KnowsItem(w, x)
  BY <1>1, <1>3 DEF KnowsItem, TakenIn, Examining, ExchangeInvariant, ItemsMatched, TaggedOnce
<1>6. \A x : ~TakenIn(w, x)
  BY <1>1 DEF TakenIn, Examining
<1>7. \A r : KnowsIssue(w, r) /\ ~Sends(w, r)
  BY <1>1 DEF KnowsIssue, Sends
<1>8. /\ UNCHANGED <<tool, rows, items>> /\ overlapped' = overlapped
      /\ sync' = [sync EXCEPT ![s] = w]
  BY DEF Load, Set
<1> QED BY <1>4, <1>5, <1>6, <1>7, <1>8, SessionStep

LEMMA TakeOverKeeps ==
  ASSUME ExchangeInvariant, NEW s \in Syncs, NEW x, sync[s].pc = "examine",
         TakeOver(s, x), UNCHANGED <<tool, rows, items>>
  PROVE  ExchangeInvariant'
<1> PICK v : v = sync[s]
  OBVIOUS
<1>1. SessionOK(v) /\ Examining(v)
  BY DEF ExchangeInvariant, SessionsOK, Examining
<1>2. PICK own : sync' = [sync EXCEPT ![s] = [v EXCEPT !.todo = @ \ {x}, !.own = own]]
  BY DEF TakeOver, Set
<1> PICK w : w = [v EXCEPT !.todo = @ \ {x}, !.own = own]
  OBVIOUS
<1>3. /\ w.pc = "examine" /\ w.todo = v.todo \ {x} /\ w.fresh = v.fresh
      /\ {"pc", "todo", "own", "fresh", "found"} \subseteq DOMAIN w
  BY <1>1 DEF SessionOK, Examining
<1>4. SessionOK(w)
  BY <1>1, <1>3 DEF SessionOK, ImportOK, Examining, Pushing
<1>5. \A y : TakenIn(w, y) <=> TakenIn(v, y)
  BY <1>1, <1>3 DEF TakenIn, Examining
<1>6. \A y \in DOMAIN items : <<"item", y>> \notin overlapped =>
        KnowsItem(w, y) /\ \A t \in Syncs \ {s} : ~(TakenIn(w, y) /\ TakenIn(sync[t], y))
  BY <1>3, <1>5 DEF KnowsItem, Pushing, ExchangeInvariant, ItemsMatched
<1>7. \A r : KnowsIssue(w, r) /\ ~Sends(w, r)
  BY <1>3 DEF KnowsIssue, Sends
<1>8. overlapped' = overlapped /\ sync' = [sync EXCEPT ![s] = w]
  BY <1>2 DEF TakeOver
<1> QED BY <1>4, <1>6, <1>7, <1>8, SessionStep

LEMMA TakeInKeeps ==
  ASSUME ExchangeInvariant, NEW s \in Syncs, sync[s].pc = "examine", NEW x \in sync[s].todo,
         TakeIn(s, x), UNCHANGED <<tool, rows, items>>
  PROVE  ExchangeInvariant'
<1> PICK v : v = sync[s]
  OBVIOUS
<1>1. SessionOK(v) /\ Examining(v) /\ \A t \in Syncs : SessionOK(sync[t])
  BY DEF ExchangeInvariant, SessionsOK, Examining
<1>2. PICK type, number :
        sync' = [sync EXCEPT ![s] = [v EXCEPT !.todo = @ \ {x},
                   !.fresh = @ \cup {[item |-> x, type |-> type, number |-> number]}]]
  BY DEF TakeIn, Set
<1> PICK new : new = [item |-> x, type |-> type, number |-> number]
  OBVIOUS
<1> PICK w : w = [v EXCEPT !.todo = @ \ {x}, !.fresh = @ \cup {new}]
  OBVIOUS
<1>3. /\ w.pc = "examine" /\ w.todo = v.todo \ {x} /\ w.fresh = v.fresh \cup {new}
      /\ {"pc", "todo", "own", "fresh", "found"} \subseteq DOMAIN w
      /\ new.item = x
  BY <1>1 DEF SessionOK, Examining
<1>4. SessionOK(w)
  <2>1. ImportOK(v) /\ x \in v.todo
    BY <1>1 DEF SessionOK
  <2>2. IsFiniteSet(w.fresh)
    BY <1>3, <2>1, FS_AddElement DEF ImportOK
  <2>3. ImportOK(w)
    BY <1>3, <2>1, <2>2 DEF ImportOK
  <2> QED BY <1>3, <2>3 DEF SessionOK, Examining, Pushing
<1>5. \A y : TakenIn(w, y) <=> TakenIn(v, y) \/ y = x
  BY <1>1, <1>3 DEF TakenIn, Examining
<1>6. /\ overlapped \subseteq overlapped'
      /\ Imported(x) = {}
      /\ Untold(x) => <<"item", x>> \in overlapped'
      /\ \A t \in Syncs \ {s} : TakenIn(sync[t], x) => <<"item", x>> \in overlapped'
  BY DEF TakeIn, TakenIn, Examining
<1>7. \A y \in DOMAIN items : <<"item", y>> \notin overlapped' =>
        KnowsItem(w, y) /\ \A t \in Syncs \ {s} : ~(TakenIn(w, y) /\ TakenIn(sync[t], y))
  <2> SUFFICES ASSUME NEW y \in DOMAIN items, <<"item", y>> \notin overlapped'
               PROVE  /\ KnowsItem(w, y)
                      /\ \A t \in Syncs \ {s} : ~(TakenIn(w, y) /\ TakenIn(sync[t], y))
    OBVIOUS
  <2>1. /\ KnowsItem(v, y)
        /\ \A t \in Syncs \ {s} : ~(TakenIn(v, y) /\ TakenIn(sync[t], y))
    BY <1>6 DEF ExchangeInvariant, ItemsMatched
  <2>2. y = x => items[y].of = None /\ \A r \in DOMAIN rows : ~Tagged(r, y)
    BY <1>6 DEF Untold, Imported, Tagged
  <2> QED BY <1>3, <1>5, <1>6, <2>1, <2>2 DEF KnowsItem, Pushing
<1>8. \A r : KnowsIssue(w, r) /\ ~Sends(w, r)
  BY <1>3 DEF KnowsIssue, Sends
<1>9. sync' = [sync EXCEPT ![s] = w]
  BY <1>2
<1> QED BY <1>4, <1>6, <1>7, <1>8, <1>9, SessionStep

LEMMA ExamineKeeps ==
  ASSUME ExchangeInvariant, NEW s \in Syncs, Examine(s)
  PROVE  ExchangeInvariant'
<1> DEFINE x == First(sync[s].todo)
<1>1. x \in sync[s].todo
  <2>1. ImportOK(sync[s]) /\ sync[s].todo # {}
    BY DEF Examine, ExchangeInvariant, SessionsOK, SessionOK, Examining
  <2>2. Len(items) \in Nat /\ DOMAIN items = 1 .. Len(items)
    BY SeqFacts DEF ExchangeInvariant, ItemsOnRecord
  <2> QED BY <2>1, <2>2, FirstOf DEF ImportOK
<1>2. /\ sync[s].pc = "examine" /\ UNCHANGED <<tool, rows, items>>
      /\ TakeOver(s, x) \/ TakeIn(s, x)
  BY DEF Examine
<1> HIDE DEF x
<1> QED BY <1>1, <1>2, TakeOverKeeps, TakeInKeeps

\* What pushing a requirement leaves in the session.
SentTo(v, w, tag) ==
  /\ w.pc = "push" /\ w.found = {} /\ w.todo \subseteq v.todo
  /\ {"pc", "todo", "own", "fresh", "found"} \subseteq DOMAIN w
  /\ DOMAIN w.own = DOMAIN v.own
  /\ \A r \in DOMAIN v.own :
       /\ "now" \in DOMAIN w.own[r] /\ {"tags", "last"} \subseteq DOMAIN w.own[r].now
       /\ \A x : Told(w, r, x) => Told(v, r, x) \/ (r = First(v.todo) /\ tag = Tag(x) /\ tag # None)
       /\ \A x : Told(v, r, x) => Told(w, r, x)

LEMMA SendsFirst ==
  ASSUME ExchangeInvariant, NEW s \in Syncs, Pushing(sync[s]), sync[s].todo # {}
  PROVE  /\ First(sync[s].todo) \in sync[s].todo
         /\ First(sync[s].todo) \in DOMAIN rows /\ First(sync[s].todo) \in DOMAIN sync[s].own
         /\ First(sync[s].todo) \in Nat
<1>1. ExportOK(sync[s])
  BY DEF ExchangeInvariant, SessionsOK, SessionOK
<1>2. Len(rows) \in Nat /\ DOMAIN rows = 1 .. Len(rows)
  BY SeqFacts DEF ExchangeInvariant, RowsOnRecord
<1> QED BY <1>1, <1>2, FirstOf DEF ExportOK

LEMMA SentFields ==
  ASSUME ExchangeInvariant, NEW s \in Syncs, Pushing(sync[s]), sync[s].todo # {},
         NEW tag, Sent(s, tag)
  PROVE  \E w : sync' = [sync EXCEPT ![s] = w] /\ SentTo(sync[s], w, tag)
<1> PICK v : v = sync[s]
  OBVIOUS
<1> PICK r : r = First(v.todo)
  OBVIOUS
<1>1. SessionOK(v) /\ ExportOK(v)
  BY DEF ExchangeInvariant, SessionsOK, SessionOK
<1>2. r \in DOMAIN v.own
  BY SendsFirst
<1> PICK old : old = v.own[r]
  OBVIOUS
<1>3. PICK text : text = IF tag = None THEN old.now
                     ELSE [tags |-> old.now.tags \cup {tag}, last |-> tag]
  OBVIOUS
<1>4. /\ "now" \in DOMAIN old /\ {"tags", "last"} \subseteq DOMAIN text
      /\ old.now.tags \subseteq text.tags /\ text.tags \subseteq old.now.tags \cup ({tag} \ {None})
  BY <1>1, <1>2, <1>3 DEF ExportOK
<1>5. PICK one : one = [old EXCEPT !.now = text]
  OBVIOUS
<1>6. "now" \in DOMAIN one /\ one.now = text
  BY <1>4, <1>5
<1>7. PICK own : own = [v.own EXCEPT ![r] = one]
  OBVIOUS
<1>8. /\ DOMAIN own = DOMAIN v.own /\ own[r] = one
      /\ \A q \in DOMAIN v.own : q # r => own[q] = v.own[q]
  BY <1>2, <1>7
<1>9. PICK w : w = [v EXCEPT !.pc = "push", !.todo = @ \ {r}, !.found = {}, !.own = own]
  OBVIOUS
<1>10. /\ w.pc = "push" /\ w.todo = v.todo \ {r} /\ w.found = {} /\ w.own = own
      /\ {"pc", "todo", "own", "fresh", "found"} \subseteq DOMAIN w
  BY <1>1, <1>9 DEF SessionOK
<1>11. sync' = [sync EXCEPT ![s] = w]
  BY <1>3, <1>5, <1>7, <1>9 DEF Sent, Set
<1>12. ASSUME NEW q \in DOMAIN v.own
      PROVE  /\ "now" \in DOMAIN w.own[q] /\ {"tags", "last"} \subseteq DOMAIN w.own[q].now
             /\ v.own[q].now.tags \subseteq w.own[q].now.tags
             /\ \A x : Tag(x) \in w.own[q].now.tags =>
                         Tag(x) \in v.own[q].now.tags \/ (q = r /\ tag = Tag(x) /\ tag # None)
  <2>1. CASE q = r
    BY <1>4, <1>6, <1>8, <1>10, <2>1
  <2>2. CASE q # r
    BY <1>1, <1>8, <1>10, <2>2 DEF ExportOK
  <2> QED BY <2>1, <2>2
<1>13. SentTo(v, w, tag)
  BY <1>8, <1>10, <1>12 DEF SentTo, Told
<1> QED BY <1>11, <1>13

\* A push that tags its requirement with an item of its own, or with nothing.
LEMMA SentKeeps ==
  ASSUME ExchangeInvariant, ExchangeAssumption,
         NEW s \in Syncs, Pushing(sync[s]), sync[s].todo # {},
         NEW tag, Sent(s, tag),
         \A x : tag = Tag(x) /\ tag # None =>
           x \in DOMAIN items /\ items[x].of = First(sync[s].todo),
         UNCHANGED <<tool, rows, items, overlapped>>
  PROVE  ExchangeInvariant'
<1> PICK v : v = sync[s]
  OBVIOUS
<1> PICK w : sync' = [sync EXCEPT ![s] = w] /\ SentTo(v, w, tag)
  BY SentFields
<1>1. SessionOK(v) /\ ExportOK(v) /\ Pushing(v)
  BY DEF ExchangeInvariant, SessionsOK, SessionOK
<1>2. First(v.todo) # None
  BY SendsFirst DEF ExchangeAssumption
<1>3. SessionOK(w)
  BY <1>1 DEF SentTo, SessionOK, ExportOK, Examining, Pushing
<1>4. \A x \in DOMAIN items : <<"item", x>> \notin overlapped => KnowsItem(w, x)
  <2> SUFFICES ASSUME NEW x \in DOMAIN items, KnowsItem(v, x)
               PROVE  KnowsItem(w, x)
    BY DEF ExchangeInvariant, ItemsMatched
  <2>1. \A r \in DOMAIN v.own : Told(w, r, x) <=>
          Told(v, r, x) \/ (r = First(v.todo) /\ tag = Tag(x) /\ tag # None /\ Told(w, r, x))
    BY DEF SentTo
  <2>2. tag = Tag(x) /\ tag # None => items[x].of = First(v.todo)
    OBVIOUS
  <2>3. DOMAIN w.own = DOMAIN v.own /\ w.pc = "push"
    BY DEF SentTo
  <2> QED BY <1>1, <1>2, <2>1, <2>2, <2>3 DEF KnowsItem, TakenIn, Examining
<1>5. \A x : ~TakenIn(w, x)
  BY DEF TakenIn, Examining, SentTo
<1>6. \A r : KnowsIssue(w, r) /\ ~Sends(w, r)
  BY DEF KnowsIssue, Sends, SentTo
<1> QED BY <1>3, <1>4, <1>5, <1>6, SessionStep

LEMMA PushFailsKeeps ==
  ASSUME ExchangeInvariant, ExchangeAssumption, NEW s \in Syncs, PushFails(s)
  PROVE  ExchangeInvariant'
<1>1. /\ Pushing(sync[s]) /\ sync[s].todo # {} /\ UNCHANGED <<tool, rows, items, overlapped>>
      /\ Sent(s, None)
  BY DEF PushFails, Pushing
<1> QED BY <1>1, SentKeeps

LEMMA TagsDiffer == \A x, y : Answer(x) = Tag(y) => x = y
BY DEF Answer, Tag

LEMMA UpdateKeeps ==
  ASSUME ExchangeInvariant, ExchangeAssumption, NEW s \in Syncs, Update(s)
  PROVE  ExchangeInvariant'
<1>1. /\ Pushing(sync[s]) /\ sync[s].todo # {} /\ sync[s].found # {}
      /\ UNCHANGED <<tool, rows, items, overlapped>>
  BY DEF Update, Sending, Pushing
<1>2. PICK x \in sync[s].found : Sent(s, Answer(x))
  BY DEF Update
<1>3. x \in DOMAIN items /\ items[x].of = First(sync[s].todo)
  BY <1>1, <1>2 DEF ExchangeInvariant, SessionsOK, SessionOK, ExportOK, Pushing
<1>4. \A y : Answer(x) = Tag(y) /\ Answer(x) # None =>
        y \in DOMAIN items /\ items[y].of = First(sync[s].todo)
  BY <1>3, TagsDiffer
<1> QED BY <1>1, <1>2, <1>4, SentKeeps

LEMMA SearchKeeps ==
  ASSUME ExchangeInvariant, NEW s \in Syncs, Search(s)
  PROVE  ExchangeInvariant'
<1> PICK v : v = sync[s]
  OBVIOUS
<1> PICK r : r = First(v.todo)
  OBVIOUS
<1> PICK w : w = [v EXCEPT !.pc = "send", !.found = Labelled(r)]
  OBVIOUS
<1>1. SessionOK(v) /\ ExportOK(v) /\ Pushing(v) /\ v.todo # {} /\ v.pc = "push"
  BY DEF Search, ExchangeInvariant, SessionsOK, SessionOK, Pushing
<1>2. /\ w.pc = "send" /\ w.todo = v.todo /\ w.found = Labelled(r) /\ w.own = v.own
      /\ {"pc", "todo", "own", "fresh", "found"} \subseteq DOMAIN w
  BY <1>1 DEF SessionOK
<1>3. /\ sync' = [sync EXCEPT ![s] = w] /\ UNCHANGED <<tool, rows, items>>
      /\ overlapped \subseteq overlapped'
      /\ \A t \in Syncs \ {s} : Sends(sync[t], r) => <<"row", r>> \in overlapped'
  BY DEF Search, Set, Sends
<1>4. SessionOK(w)
  BY <1>1, <1>2 DEF SessionOK, ExportOK, Examining, Pushing, Told, Labelled
<1>5. \A x \in DOMAIN items : <<"item", x>> \notin overlapped' => KnowsItem(w, x)
  BY <1>1, <1>2, <1>3 DEF ExchangeInvariant, ItemsMatched, KnowsItem, TakenIn, Examining,
     Pushing, Told
<1>6. \A x : ~TakenIn(w, x)
  BY <1>2 DEF TakenIn, Examining
<1>7. \A q : /\ KnowsIssue(w, q)
             /\ Sends(w, q) => q = r
  BY <1>2 DEF KnowsIssue, Sends
<1>8. \A q \in DOMAIN rows : <<"row", q>> \notin overlapped' =>
        \A t \in Syncs \ {s} : ~(Sends(w, q) /\ Sends(sync[t], q))
  BY <1>3, <1>7
<1> QED BY <1>3, <1>4, <1>5, <1>6, <1>7, <1>8, SessionStep

LEMMA CreateKeeps ==
  ASSUME ExchangeInvariant, ExchangeAssumption, NEW s \in Syncs, NEW a \in BOOLEAN,
         Create(s, a)
  PROVE  ExchangeInvariant'
<1> PICK v : v = sync[s]
  OBVIOUS
<1> PICK r : r = First(v.todo)
  OBVIOUS
<1> PICK n : n = Len(items) + 1
  OBVIOUS
<1> PICK tag : tag = IF a THEN Answer(n) ELSE None
  OBVIOUS
<1>1. /\ Pushing(v) /\ v.todo # {} /\ v.found = {} /\ Sent(s, tag)
      /\ tool = "jira" => v.pc = "send"
      /\ items' = Append(items, Item("functional", r))
      /\ UNCHANGED <<tool, rows, overlapped>>
  BY DEF Create, Sending, Pushing
<1>2. PICK w : sync' = [sync EXCEPT ![s] = w] /\ SentTo(v, w, tag)
  BY <1>1, SentFields
<1>3. r \in DOMAIN rows /\ r \in DOMAIN v.own /\ r # None
  BY <1>1, SendsFirst DEF ExchangeAssumption
<1>4. /\ IsSeq(items') /\ DOMAIN items' = DOMAIN items \cup {n} /\ n \notin DOMAIN items
      /\ items'[n].of = r /\ items'[n].gone = FALSE
      /\ {"status", "of", "gone"} \subseteq DOMAIN items'[n]
      /\ \A x \in DOMAIN items : items'[x] = items[x]
  <2>1. IsSeq(items)
    BY DEF ExchangeInvariant, ItemsOnRecord
  <2>2. PICK e : e = Item("functional", r)
    OBVIOUS
  <2>3. e.of = r /\ e.gone = FALSE /\ {"status", "of", "gone"} \subseteq DOMAIN e
    BY <2>2 DEF Item
  <2> QED BY <1>1, <2>1, <2>2, <2>3, Appended
<1>5. /\ DOMAIN sync' = Syncs
      /\ \A t \in Syncs : sync'[t] = IF t = s THEN w ELSE sync[t]
  BY <1>2 DEF ExchangeInvariant, SessionsOK
<1>6. \A y : tag = Tag(y) /\ tag # None => y = n
  BY TagsDiffer
<1>7. SessionOK(v) /\ ExportOK(v)
  BY <1>1 DEF ExchangeInvariant, SessionsOK, SessionOK
<1>8. RowsOnRecord'
  BY <1>1, <1>4 DEF ExchangeInvariant, RowsOnRecord, Tagged
<1>9. ItemsOnRecord'
  BY <1>1, <1>3, <1>4 DEF ExchangeInvariant, ItemsOnRecord
<1>10. SessionsOK'
  <2>1. \A t \in Syncs : t # s => SessionOK(sync[t])'
    BY <1>1, <1>4, <1>5 DEF ExchangeInvariant, SessionsOK, SessionOK, ImportOK, ExportOK,
       Examining, Pushing, Told
  <2>2. SessionOK(w)'
    BY <1>1, <1>2, <1>4, <1>6, <1>7 DEF SessionOK, ExportOK, SentTo, Examining, Pushing, Told
  <2>3. SessionOK(sync[s])'
    BY <1>5, <2>2 DEF SessionOK, ImportOK, ExportOK, Examining, Pushing, Told
  <2> QED BY <1>5, <2>1, <2>3 DEF SessionsOK
<1>11. ItemsMatched'
  <2> SUFFICES ASSUME NEW x \in DOMAIN items', <<"item", x>> \notin overlapped
               PROVE  /\ TaggedOnce(x)'
                      /\ \A t \in Syncs : KnowsItem(sync[t], x)'
                      /\ \A t, u \in Syncs :
                           TakenIn(sync[t], x)' /\ TakenIn(sync[u], x)' => t = u
    BY <1>1 DEF ItemsMatched
  <2>1. CASE x # n
    <3>1. /\ x \in DOMAIN items /\ items'[x] = items[x]
          /\ TaggedOnce(x) /\ \A t \in Syncs : KnowsItem(sync[t], x)
          /\ \A t, u \in Syncs : TakenIn(sync[t], x) /\ TakenIn(sync[u], x) => t = u
      BY <1>4, <2>1 DEF ExchangeInvariant, ItemsMatched
    <3>2. TaggedOnce(x)'
      BY <1>1, <3>1 DEF TaggedOnce, Tagged
    <3>3. KnowsItem(w, x) /\ ~TakenIn(w, x)
      BY <1>1, <1>2, <1>6, <2>1, <3>1 DEF KnowsItem, TakenIn, SentTo, Examining, Pushing
    <3>4. \A t \in Syncs : KnowsItem(sync'[t], x)
      BY <1>5, <3>1, <3>3
    <3>5. \A t \in Syncs : KnowsItem(sync[t], x)'
      BY <1>1, <3>1, <3>4 DEF KnowsItem, TakenIn, Tagged, Told
    <3>6. \A t, u \in Syncs : TakenIn(sync'[t], x) /\ TakenIn(sync'[u], x) => t = u
      BY <1>5, <3>1, <3>3
    <3> QED BY <3>2, <3>5, <3>6 DEF TakenIn
  <2>2. CASE x = n
    <3>1. \A q \in DOMAIN rows : ~Tagged(q, n)
      BY <1>4 DEF ExchangeInvariant, RowsOnRecord
    <3>2. TaggedOnce(x)'
      BY <1>1, <1>3, <1>4, <2>2, <3>1 DEF TaggedOnce, Tagged
    <3>3. \A t \in Syncs : ~TakenIn(sync'[t], n)
      <4>1. ~TakenIn(w, n)
        BY <1>2 DEF TakenIn, SentTo, Examining
      <4>2. \A t \in Syncs : ~TakenIn(sync[t], n)
        BY <1>4 DEF TakenIn, ExchangeInvariant, SessionsOK, SessionOK, ImportOK
      <4> QED BY <1>5, <4>1, <4>2
    <3>4. \A t \in Syncs : Pushing(sync'[t]) =>
            \A q \in DOMAIN sync'[t].own : Told(sync'[t], q, n) => q = r
      <4>1. \A q \in DOMAIN w.own : Told(w, q, n) => q = r
        BY <1>2, <1>4, <1>7 DEF SentTo, ExportOK
      <4>2. \A t \in Syncs : Pushing(sync[t]) =>
              \A q \in DOMAIN sync[t].own : ~Told(sync[t], q, n)
        BY <1>4 DEF ExchangeInvariant, SessionsOK, SessionOK, ExportOK
      <4> QED BY <1>5, <4>1, <4>2
    <3>5. \A t \in Syncs : KnowsItem(sync[t], x)'
      BY <1>3, <1>4, <2>2, <3>3, <3>4 DEF KnowsItem, TakenIn, Told
    <3> QED BY <2>2, <3>2, <3>3, <3>5 DEF TakenIn
  <2> QED BY <2>1, <2>2
<1>12. IssuesMatched'
  <2> SUFFICES ASSUME tool = "jira", NEW q \in DOMAIN rows, <<"row", q>> \notin overlapped
               PROVE  /\ \A x, y \in Labelled(q)' : x = y
                      /\ \A t \in Syncs : KnowsIssue(sync[t], q)'
                      /\ \A t, u \in Syncs : Sends(sync[t], q)' /\ Sends(sync[u], q)' => t = u
    BY <1>1 DEF IssuesMatched
  <2>1. /\ \A x, y \in Labelled(q) : x = y
        /\ \A t \in Syncs : KnowsIssue(sync[t], q)
        /\ \A t, u \in Syncs : Sends(sync[t], q) /\ Sends(sync[u], q) => t = u
    BY DEF ExchangeInvariant, IssuesMatched
  <2>2. ~Sends(w, q)
    BY <1>2 DEF Sends, SentTo
  <2>3. \A t, u \in Syncs : Sends(sync'[t], q) /\ Sends(sync'[u], q) => t = u
    BY <1>5, <2>1, <2>2
  <2>4. CASE q = r
    <3>1. Sends(v, r) /\ Labelled(r) = {}
      BY <1>1, <2>1, <2>4 DEF KnowsIssue, Sends
    <3>2. Labelled(q)' \subseteq {n}
      BY <1>4, <2>4, <3>1 DEF Labelled
    <3>3. \A t \in Syncs : ~Sends(sync'[t], q)
      BY <1>5, <2>1, <2>2, <2>4, <3>1
    <3> QED BY <3>2, <3>3 DEF KnowsIssue, Sends
  <2>5. CASE q # r
    <3>1. Labelled(q)' = Labelled(q)
      BY <1>4, <2>5 DEF Labelled
    <3>2. \A t \in Syncs : KnowsIssue(sync'[t], q)
      BY <1>5, <2>1, <2>2 DEF KnowsIssue
    <3> QED BY <2>1, <2>3, <3>1, <3>2 DEF KnowsIssue, Sends
  <2> QED BY <2>4, <2>5
<1> QED BY <1>8, <1>9, <1>10, <1>11, <1>12 DEF ExchangeInvariant

\* Rows are written, and at most one session ends.
Ended(v) == "pc" \in DOMAIN v /\ v.pc \notin {"examine", "push", "send"}
RowsKept ==
  /\ IsSeq(rows') /\ DOMAIN rows \subseteq DOMAIN rows'
  /\ \A r \in DOMAIN rows' :
       /\ {"status", "tags", "last"} \subseteq DOMAIN rows'[r]
       /\ \A x : Tag(x) \in rows'[r].tags => x \in DOMAIN items
SyncKept ==
  /\ DOMAIN sync' = Syncs
  /\ \A t \in Syncs : sync'[t] = sync[t] \/ Ended(sync'[t])

LEMMA RowsStep ==
  ASSUME ExchangeInvariant, ExchangeAssumption, UNCHANGED <<tool, items, overlapped>>,
         RowsKept, SyncKept,
         \A x \in DOMAIN items : <<"item", x>> \notin overlapped =>
           TaggedOnce(x)' /\ \A t \in Syncs : KnowsItem(sync[t], x)'
  PROVE  ExchangeInvariant'
<1>1. RowsOnRecord' /\ ItemsOnRecord'
  BY DEF ExchangeInvariant, RowsOnRecord, ItemsOnRecord, RowsKept, Tagged
<1>2. SessionsOK'
  <2> SUFFICES ASSUME NEW t \in Syncs
               PROVE  SessionOK(sync[t])'
    BY DEF SessionsOK, SyncKept
  <2>1. CASE sync'[t] = sync[t]
    BY <2>1 DEF RowsKept, ExchangeInvariant, SessionsOK, SessionOK, ImportOK, ExportOK,
       Examining, Pushing, Told
  <2>2. CASE Ended(sync'[t])
    BY <2>2 DEF Ended, SessionOK, Examining, Pushing
  <2> QED BY <2>1, <2>2 DEF SyncKept
<1>3. ItemsMatched'
  <2> SUFFICES ASSUME NEW x \in DOMAIN items, <<"item", x>> \notin overlapped,
                      NEW t \in Syncs, NEW u \in Syncs,
                      TakenIn(sync'[t], x), TakenIn(sync'[u], x)
               PROVE  t = u
    BY DEF ItemsMatched, TakenIn
  <2>1. sync'[t] = sync[t] /\ sync'[u] = sync[u]
    BY DEF SyncKept, Ended, TakenIn, Examining
  <2> QED BY <2>1 DEF ExchangeInvariant, ItemsMatched
<1>4. IssuesMatched'
  <2> SUFFICES ASSUME tool = "jira", NEW r \in DOMAIN rows', <<"row", r>> \notin overlapped
               PROVE  /\ \A x, y \in Labelled(r) : x = y
                      /\ \A t \in Syncs : KnowsIssue(sync'[t], r)
                      /\ \A t, u \in Syncs : Sends(sync'[t], r) /\ Sends(sync'[u], r) => t = u
    BY DEF IssuesMatched, Labelled, KnowsIssue, Sends
  <2>1. \A t \in Syncs : Sends(sync'[t], r) => sync'[t] = sync[t]
    BY DEF SyncKept, Ended, Sends
  <2>2. CASE r \in DOMAIN rows
    <3>1. /\ \A x, y \in Labelled(r) : x = y
          /\ \A t \in Syncs : KnowsIssue(sync[t], r)
          /\ \A t, u \in Syncs : Sends(sync[t], r) /\ Sends(sync[u], r) => t = u
      BY <2>2 DEF ExchangeInvariant, IssuesMatched
    <3> QED BY <2>1, <3>1 DEF KnowsIssue
  <2>3. CASE r \notin DOMAIN rows
    <3>1. r # None
      BY SeqFacts DEF RowsKept, ExchangeAssumption
    <3>2. Labelled(r) = {}
      BY <2>3, <3>1 DEF Labelled, ExchangeInvariant, ItemsOnRecord
    <3>3. \A t \in Syncs : ~Sends(sync[t], r)
      <4> SUFFICES ASSUME NEW t \in Syncs, Sends(sync[t], r)
                   PROVE  FALSE
        OBVIOUS
      <4>1. Pushing(sync[t]) /\ sync[t].todo # {}
        BY DEF Sends, Pushing, ExchangeInvariant, SessionsOK, SessionOK, ExportOK
      <4> QED BY <2>3, <4>1, SendsFirst DEF Sends
    <3> QED BY <2>1, <3>2, <3>3 DEF KnowsIssue
  <2> QED BY <2>2, <2>3
<1> QED BY <1>1, <1>2, <1>3, <1>4 DEF ExchangeInvariant

\* Tags of items that no export made stay as they are, on every requirement;
\* others come only to the requirement their item was made for.
LEMMA TagsStep ==
  ASSUME ExchangeInvariant, ExchangeAssumption, UNCHANGED <<tool, items, overlapped>>,
         RowsKept, SyncKept,
         \A x \in DOMAIN items : <<"item", x>> \notin overlapped =>
           \A r \in DOMAIN rows' :
             IF items[x].of = None
             THEN Tag(x) \in rows'[r].tags <=> r \in DOMAIN rows /\ Tag(x) \in rows[r].tags
             ELSE Tag(x) \in rows'[r].tags => r = items[x].of
  PROVE  ExchangeInvariant'
<1> SUFFICES ASSUME NEW x \in DOMAIN items, <<"item", x>> \notin overlapped
             PROVE  TaggedOnce(x)' /\ \A t \in Syncs : KnowsItem(sync[t], x)'
  BY RowsStep
<1>1. TaggedOnce(x) /\ \A t \in Syncs : KnowsItem(sync[t], x)
  BY DEF ExchangeInvariant, ItemsMatched
<1>2. TaggedOnce(x)'
  BY <1>1 DEF TaggedOnce, Tagged
<1> SUFFICES ASSUME NEW t \in Syncs
             PROVE  KnowsItem(sync[t], x)'
  BY <1>2
<1>3. CASE sync'[t] = sync[t]
  <2>1. Pushing(sync[t]) => DOMAIN sync[t].own \subseteq DOMAIN rows
    BY DEF ExchangeInvariant, SessionsOK, SessionOK, ExportOK
  <2> QED BY <1>1, <1>3, <2>1 DEF KnowsItem, TakenIn, Tagged, Told, RowsKept
<1>4. CASE Ended(sync'[t])
  BY <1>4 DEF Ended, KnowsItem, TakenIn, Examining, Pushing
<1> QED BY <1>3, <1>4 DEF SyncKept

LEMMA ExportCommitKeeps ==
  ASSUME ExchangeInvariant, ExchangeAssumption, NEW s \in Syncs, ExportCommit(s)
  PROVE  ExchangeInvariant'
<1> PICK v : v = sync[s]
  OBVIOUS
<1> DEFINE Changed(r) == r \in DOMAIN v.own /\ v.own[r].now # v.own[r].was
           Write(r) == [rows[r] EXCEPT !.tags = v.own[r].now.tags, !.last = v.own[r].now.last]
<1>1. /\ Pushing(v) /\ Done(s) /\ UNCHANGED <<tool, items, overlapped>>
      /\ rows' = [r \in DOMAIN rows |-> IF Changed(r) THEN Write(r) ELSE rows[r]]
  BY DEF ExportCommit, Pushing
<1>2. ExportOK(v)
  BY <1>1 DEF ExchangeInvariant, SessionsOK, SessionOK
<1>3. \A r \in DOMAIN rows :
        /\ {"status", "tags", "last"} \subseteq DOMAIN rows[r]
        /\ {"status", "tags", "last"} \subseteq DOMAIN Write(r)
        /\ Write(r).tags = v.own[r].now.tags
  BY DEF ExchangeInvariant, RowsOnRecord
<1> HIDE DEF Changed, Write
<1>4. \A r \in DOMAIN rows :
        /\ {"status", "tags", "last"} \subseteq DOMAIN rows'[r]
        /\ \/ rows'[r].tags = rows[r].tags
           \/ r \in DOMAIN v.own /\ rows'[r].tags = v.own[r].now.tags
  BY <1>1, <1>3 DEF Changed
<1>5. IsSeq(rows') /\ DOMAIN rows' = DOMAIN rows
  <2>1. Len(rows) \in Nat /\ DOMAIN rows = 1 .. Len(rows)
    BY SeqFacts DEF ExchangeInvariant, RowsOnRecord
  <2>2. DOMAIN rows' = DOMAIN rows /\ rows' = [r \in 1 .. Len(rows) |-> rows'[r]]
    BY <1>1, <2>1
  <2> QED BY <2>1, <2>2, SeqBuilt
<1>6. RowsKept
  BY <1>2, <1>4, <1>5 DEF RowsKept, ExportOK, Told, ExchangeInvariant, RowsOnRecord, Tagged
<1>7. SyncKept
  BY <1>1 DEF SyncKept, Done, Set, Ended, ExchangeInvariant, SessionsOK
<1>8. ASSUME NEW x \in DOMAIN items, <<"item", x>> \notin overlapped, NEW r \in DOMAIN rows
      PROVE  IF items[x].of = None
             THEN Tag(x) \in rows'[r].tags <=> Tag(x) \in rows[r].tags
             ELSE Tag(x) \in rows'[r].tags => r = items[x].of
  <2>1. TaggedOnce(x) /\ KnowsItem(v, x)
    BY <1>8 DEF ExchangeInvariant, ItemsMatched
  <2> QED BY <1>1, <1>4, <2>1 DEF TaggedOnce, KnowsItem, Tagged, Told
<1> QED BY <1>1, <1>5, <1>6, <1>7, <1>8, TagsStep

\* A finite set is put in sequence without repeating an element.
LEMMA SetToSeqInjects ==
  ASSUME NEW S, IsFiniteSet(S)
  PROVE  \E n \in Nat : /\ SetToSeq(S) \in [1 .. n -> S]
                        /\ \A i, j \in 1 .. n : SetToSeq(S)[i] = SetToSeq(S)[j] => i = j
<1> DEFINE n == Cardinality(S)
<1>1. n \in Nat /\ ExistsBijection(1 .. n, S)
  BY FS_CardinalityType
<1>2. PICK f \in Bijection(1 .. n, S) : TRUE
  BY <1>1 DEF ExistsBijection
<1>3. f \in [1 .. n -> S] /\ IsInjective(f)
  BY <1>2 DEF Bijection, Injection, IsInjective
<1>4. SetToSeq(S) \in [1 .. n -> S] /\ IsInjective(SetToSeq(S))
  BY <1>3 DEF SetToSeq
<1> HIDE DEF n
<1> QED BY <1>1, <1>4 DEF IsInjective

LEMMA ImportCommitKeeps ==
  ASSUME ExchangeInvariant, ExchangeAssumption, NEW s \in Syncs, ImportCommit(s)
  PROVE  ExchangeInvariant'
<1> PICK v : v = sync[s]
  OBVIOUS
<1> DEFINE Row(f) == NewRow(f.type, f.number, {Tag(f.item)})
           S == {Row(f) : f \in v.fresh}
           old == [r \in DOMAIN rows |-> Written(r, v.own)]
<1>1. /\ Examining(v) /\ Done(s) /\ UNCHANGED <<tool, items, overlapped>>
      /\ rows' = rows \/ rows' = old \o SetToSeq(S)
  BY DEF ImportCommit, Examining
<1>2. CASE rows' = rows
  BY <1>1, <1>2, DoneKeeps
<1>0. SUFFICES ASSUME rows' = old \o SetToSeq(S)
               PROVE  ExchangeInvariant'
  BY <1>1, <1>2
<1>3. ImportOK(v)
  BY <1>1 DEF ExchangeInvariant, SessionsOK, SessionOK
<1>4. \A f \in v.fresh : /\ {"status", "tags", "last"} \subseteq DOMAIN Row(f)
                         /\ Row(f).tags = {Tag(f.item)}
  BY DEF NewRow
<1>5. IsFiniteSet(S)
  <2> PICK g : g = [f \in v.fresh |-> Row(f)]
    OBVIOUS
  <2>1. g \in Surjection(v.fresh, S)
    BY DEF Surjection
  <2> QED BY <1>3, <2>1, FS_Surjection DEF ImportOK
<1>6. PICK n \in Nat : /\ SetToSeq(S) \in [1 .. n -> S]
                       /\ \A i, j \in 1 .. n : SetToSeq(S)[i] = SetToSeq(S)[j] => i = j
  BY <1>5, SetToSeqInjects
<1> PICK m : m = Len(rows)
  OBVIOUS
<1>7. m \in Nat /\ DOMAIN rows = 1 .. m
  BY SeqFacts DEF ExchangeInvariant, RowsOnRecord
<1>8. \A r \in DOMAIN rows : /\ {"status", "tags", "last"} \subseteq DOMAIN old[r]
                             /\ old[r].tags = rows[r].tags
  BY DEF Written, ExchangeInvariant, RowsOnRecord
<1>9. DOMAIN old = 1 .. m /\ old = [r \in 1 .. m |-> old[r]]
  BY <1>7
<1> HIDE DEF Row, S, old
<1>10. /\ IsSeq(rows') /\ DOMAIN rows' = 1 .. m + n
       /\ \A r \in 1 .. m : rows'[r] = old[r]
       /\ \A r \in m + 1 .. m + n : rows'[r] = SetToSeq(S)[r - m]
  <2> PICK t : t = SetToSeq(S)
    OBVIOUS
  <2>1. t \in [1 .. n -> S]
    BY <1>6
  <2> PICK u : u = old
    OBVIOUS
  <2> PICK T : T = {u[r] : r \in 1 .. m} \cup S
    OBVIOUS
  <2>2. u \in [1 .. m -> T] /\ t \in [1 .. n -> T] /\ m \in Nat /\ n \in Nat
    BY <1>6, <1>7, <1>9, <2>1
  <2>3. u \in Seq(T) /\ t \in Seq(T)
    <3>1. Seq(T) = UNION {[1 .. k -> T] : k \in Nat}
      BY SeqDef
    <3> QED BY <2>2, <3>1
  <2>4. Len(u) = m /\ Len(t) = n
    BY <2>2, <2>3, LenProperties
  <2> PICK ut : ut = u \o t
    OBVIOUS
  <2>5. /\ ut \in Seq(T) /\ Len(ut) = m + n
        /\ \A i \in 1 .. m + n : ut[i] = IF i <= m THEN u[i] ELSE t[i - m]
    <3>1. /\ u \o t \in Seq(T) /\ Len(u \o t) = Len(u) + Len(t)
          /\ \A i \in 1 .. Len(u) + Len(t) :
               (u \o t)[i] = IF i <= Len(u) THEN u[i] ELSE t[i - Len(u)]
      BY <2>3, ConcatProperties, Zenon
    <3> QED BY <2>4, <3>1
  <2>6. DOMAIN ut = 1 .. m + n /\ IsSeq(ut)
    BY <2>5, LenProperties DEF IsSeq
  <2>7. rows' = ut
    BY <1>0
  <2> QED BY <2>2, <2>5, <2>6, <2>7
<1> DEFINE New == m + 1 .. m + n
<1>11. \A r \in DOMAIN rows' : r \in DOMAIN rows \/ r \in New
  BY <1>6, <1>7, <1>10
<1>12. \A r \in New : \E f \in v.fresh : rows'[r] = Row(f)
  <2> SUFFICES ASSUME NEW r \in New
               PROVE  rows'[r] \in S
    BY DEF S
  <2>1. r - m \in 1 .. n
    BY <1>6, <1>7
  <2> QED BY <1>6, <1>10, <2>1
<1>13. \A q, r \in New : rows'[q] = rows'[r] => q = r
  <2> SUFFICES ASSUME NEW q \in New, NEW r \in New, rows'[q] = rows'[r]
               PROVE  q = r
    OBVIOUS
  <2>1. q - m \in 1 .. n /\ r - m \in 1 .. n /\ (q - m = r - m => q = r)
    BY <1>6, <1>7
  <2> QED BY <1>6, <1>10, <2>1
<1>14. \A r \in DOMAIN rows : /\ r \in DOMAIN rows' /\ rows'[r].tags = rows[r].tags
                              /\ {"status", "tags", "last"} \subseteq DOMAIN rows'[r]
  BY <1>6, <1>7, <1>8, <1>10
<1> HIDE DEF New
<1>15. /\ \A r \in New : {"status", "tags", "last"} \subseteq DOMAIN rows'[r]
       /\ \A r \in New : \A x : Tag(x) \in rows'[r].tags =>
            \E f \in v.fresh : f.item = x /\ rows'[r] = Row(f)
  <2> SUFFICES ASSUME NEW r \in New
               PROVE  /\ {"status", "tags", "last"} \subseteq DOMAIN rows'[r]
                      /\ \A x : Tag(x) \in rows'[r].tags =>
                           \E f \in v.fresh : f.item = x /\ rows'[r] = Row(f)
    OBVIOUS
  <2>1. PICK f \in v.fresh : rows'[r] = Row(f)
    BY <1>12
  <2>2. {"status", "tags", "last"} \subseteq DOMAIN rows'[r] /\ rows'[r].tags = {Tag(f.item)}
    BY <1>4, <2>1
  <2>3. \A x : Tag(x) \in rows'[r].tags => f.item = x
    BY <2>2 DEF Tag
  <2> QED BY <2>1, <2>2, <2>3
<1>16. RowsKept
  BY <1>3, <1>10, <1>11, <1>14, <1>15 DEF RowsKept, ImportOK, ExchangeInvariant, RowsOnRecord,
     Tagged
<1>17. SyncKept
  BY <1>1 DEF SyncKept, Done, Set, Ended, ExchangeInvariant, SessionsOK
<1>18. ASSUME NEW x \in DOMAIN items, <<"item", x>> \notin overlapped
       PROVE  TaggedOnce(x)' /\ \A t \in Syncs : KnowsItem(sync[t], x)'
  <2>1. /\ TaggedOnce(x) /\ \A t \in Syncs : KnowsItem(sync[t], x)
        /\ \A t, u \in Syncs : TakenIn(sync[t], x) /\ TakenIn(sync[u], x) => t = u
    BY <1>18 DEF ExchangeInvariant, ItemsMatched
  <2>2. \A r \in New : Tag(x) \in rows'[r].tags => TakenIn(v, x)
    BY <1>1, <1>15 DEF TakenIn
  <2>3. \A q, r \in New : Tag(x) \in rows'[q].tags /\ Tag(x) \in rows'[r].tags => q = r
    <3> SUFFICES ASSUME NEW q \in New, NEW r \in New,
                        Tag(x) \in rows'[q].tags, Tag(x) \in rows'[r].tags
                 PROVE  q = r
      OBVIOUS
    <3>1. PICK f \in v.fresh : f.item = x /\ rows'[q] = Row(f)
      BY <1>15
    <3>2. PICK g \in v.fresh : g.item = x /\ rows'[r] = Row(g)
      BY <1>15
    <3>3. f = g
      BY <1>3, <3>1, <3>2 DEF ImportOK
    <3> QED BY <1>13, <3>1, <3>2, <3>3
  <2>4. TaggedOnce(x)'
    <3>1. TakenIn(v, x) => items[x].of = None /\ \A r \in DOMAIN rows : ~Tagged(r, x)
      BY <2>1 DEF KnowsItem
    <3>2. \A r \in DOMAIN rows' : Tag(x) \in rows'[r].tags =>
            (r \in DOMAIN rows /\ Tagged(r, x)) \/ (r \in New /\ TakenIn(v, x))
      BY <1>11, <1>14, <2>2 DEF Tagged
    <3>3. CASE items[x].of = None
      BY <1>1, <2>1, <2>3, <3>1, <3>2, <3>3 DEF TaggedOnce, Tagged
    <3>4. CASE items[x].of # None
      BY <1>1, <2>1, <3>1, <3>2, <3>4 DEF TaggedOnce, Tagged
    <3> QED BY <3>3, <3>4
  <2>5. ASSUME NEW t \in Syncs
        PROVE  KnowsItem(sync[t], x)'
    <3>1. CASE Ended(sync'[t])
      BY <3>1 DEF Ended, KnowsItem, TakenIn, Examining, Pushing
    <3>2. CASE t # s /\ sync'[t] = sync[t]
      <4>1. Pushing(sync[t]) => DOMAIN sync[t].own \subseteq DOMAIN rows
        BY DEF ExchangeInvariant, SessionsOK, SessionOK, ExportOK
      <4>2. TakenIn(sync[t], x) => ~TakenIn(v, x)
        BY <2>1, <3>2
      <4> QED BY <1>1, <1>11, <1>14, <2>1, <2>2, <3>2, <4>1, <4>2
          DEF KnowsItem, TakenIn, Tagged, Told
    <3>3. Ended(sync'[t]) \/ (t # s /\ sync'[t] = sync[t])
      BY <1>1 DEF Done, Set, Ended, ExchangeInvariant, SessionsOK
    <3> QED BY <3>1, <3>2, <3>3
  <2> QED BY <2>4, <2>5
<1> QED BY <1>1, <1>16, <1>17, <1>18, RowsStep

\* Users write no tag, and take no item away from its requirement.
LEMMA ItemsStep ==
  ASSUME ExchangeInvariant, ExchangeAssumption, UNCHANGED <<tool, rows, sync, overlapped>>,
         IsSeq(items'), DOMAIN items \subseteq DOMAIN items',
         \A x \in DOMAIN items' :
           /\ {"status", "of", "gone"} \subseteq DOMAIN items'[x]
           /\ items'[x].of = IF x \in DOMAIN items THEN items[x].of ELSE None
           /\ x \in DOMAIN items /\ items[x].gone => items'[x].gone
  PROVE  ExchangeInvariant'
<1>1. RowsOnRecord' /\ ItemsOnRecord'
  BY DEF ExchangeInvariant, RowsOnRecord, ItemsOnRecord, Tagged
<1>2. SessionsOK'
  <2> SUFFICES ASSUME NEW t \in Syncs
               PROVE  SessionOK(sync[t])'
    BY DEF ExchangeInvariant, SessionsOK
  <2> QED BY DEF ExchangeInvariant, SessionsOK, SessionOK, ImportOK, ExportOK,
       Examining, Pushing, Told
<1>3. ItemsMatched'
  <2> SUFFICES ASSUME NEW x \in DOMAIN items', <<"item", x>> \notin overlapped
               PROVE  /\ TaggedOnce(x)'
                      /\ \A t \in Syncs : KnowsItem(sync[t], x)'
                      /\ \A t, u \in Syncs :
                           TakenIn(sync[t], x)' /\ TakenIn(sync[u], x)' => t = u
    BY DEF ItemsMatched
  <2>1. CASE x \in DOMAIN items
    <3>1. /\ TaggedOnce(x) /\ \A t \in Syncs : KnowsItem(sync[t], x)
          /\ \A t, u \in Syncs : TakenIn(sync[t], x) /\ TakenIn(sync[u], x) => t = u
      BY <2>1 DEF ExchangeInvariant, ItemsMatched
    <3>2. TaggedOnce(x)'
      BY <2>1, <3>1 DEF TaggedOnce, Tagged
    <3>3. \A t \in Syncs : KnowsItem(sync[t], x)'
      BY <2>1, <3>1 DEF KnowsItem, TakenIn, Tagged, Told
    <3> QED BY <3>1, <3>2, <3>3 DEF TakenIn
  <2>2. CASE x \notin DOMAIN items
    <3>1. \A r \in DOMAIN rows : ~Tagged(r, x)
      BY <2>2 DEF ExchangeInvariant, RowsOnRecord
    <3>2. \A t \in Syncs : ~TakenIn(sync[t], x)
      BY <2>2 DEF TakenIn, ExchangeInvariant, SessionsOK, SessionOK, ImportOK
    <3>3. \A t \in Syncs : Pushing(sync[t]) =>
            \A r \in DOMAIN sync[t].own : r \in DOMAIN rows /\ ~Told(sync[t], r, x)
      BY <2>2 DEF ExchangeInvariant, SessionsOK, SessionOK, ExportOK
    <3>4. TaggedOnce(x)'
      BY <2>2, <3>1 DEF TaggedOnce, Tagged
    <3>5. \A t \in Syncs : KnowsItem(sync[t], x)'
      BY <2>2, <3>1, <3>2, <3>3 DEF KnowsItem, TakenIn, Tagged, Told
    <3> QED BY <3>2, <3>4, <3>5 DEF TakenIn
  <2> QED BY <2>1, <2>2
<1>4. IssuesMatched'
  <2>1. \A r \in DOMAIN rows : Labelled(r)' \subseteq Labelled(r)
    <3>1. None \notin DOMAIN rows
      BY SeqFacts DEF ExchangeInvariant, RowsOnRecord, ExchangeAssumption
    <3> QED BY <3>1 DEF Labelled
  <2> SUFFICES ASSUME tool = "jira", NEW r \in DOMAIN rows, <<"row", r>> \notin overlapped
               PROVE  /\ \A x, y \in Labelled(r)' : x = y
                      /\ \A t \in Syncs :
                           Sends(sync[t], r) /\ sync[t].found = {} => Labelled(r)' = {}
                      /\ \A t, u \in Syncs : Sends(sync[t], r) /\ Sends(sync[u], r) => t = u
    BY DEF IssuesMatched, KnowsIssue, Sends
  <2> QED BY <2>1 DEF ExchangeInvariant, IssuesMatched, KnowsIssue
<1> QED BY <1>1, <1>2, <1>3, <1>4 DEF ExchangeInvariant

LEMMA ItemEditsKeep ==
  ASSUME ExchangeInvariant, ExchangeAssumption, UNCHANGED <<tool, sync, overlapped>>,
         \/ SetActive \/ DeleteConfig
         \/ \E type : AddItem(type)
         \/ \E x \in DOMAIN items : RemoveItem(x) \/ \E state : ChangeItem(x, state)
  PROVE  ExchangeInvariant'
<1>1. /\ IsSeq(items)
      /\ \A x \in DOMAIN items : {"status", "of", "gone"} \subseteq DOMAIN items[x]
  BY DEF ExchangeInvariant, ItemsOnRecord
<1>2. CASE SetActive \/ DeleteConfig
  BY <1>1, <1>2, ItemsStep DEF SetActive, DeleteConfig
<1>3. CASE \E type : AddItem(type)
  <2> PICK type : AddItem(type)
    BY <1>3
  <2> PICK e : e = Item(type, None)
    OBVIOUS
  <2>1. e.of = None /\ e.gone = FALSE /\ {"status", "of", "gone"} \subseteq DOMAIN e
    BY DEF Item
  <2>2. UNCHANGED rows /\ items' = Append(items, e)
    BY DEF AddItem
  <2>3. /\ IsSeq(items') /\ DOMAIN items' = DOMAIN items \cup {Len(items) + 1}
        /\ Len(items) + 1 \notin DOMAIN items /\ items'[Len(items) + 1] = e
        /\ \A x \in DOMAIN items : items'[x] = items[x]
    BY <1>1, <2>2, Appended
  <2> QED BY <1>1, <2>1, <2>2, <2>3, ItemsStep
<1>4. CASE \E x \in DOMAIN items : RemoveItem(x) \/ \E state : ChangeItem(x, state)
  <2> PICK x \in DOMAIN items : RemoveItem(x) \/ \E state : ChangeItem(x, state)
    BY <1>4
  <2>1. PICK e : /\ UNCHANGED rows /\ items' = [items EXCEPT ![x] = e]
                 /\ e.of = items[x].of /\ (items[x].gone => e.gone)
                 /\ {"status", "of", "gone"} \subseteq DOMAIN e
    <3>1. CASE RemoveItem(x)
      <4> PICK e : e = [items[x] EXCEPT !.gone = TRUE]
        OBVIOUS
      <4>1. /\ e.of = items[x].of /\ e.gone = TRUE
            /\ {"status", "of", "gone"} \subseteq DOMAIN e
        BY <1>1
      <4> QED BY <3>1, <4>1 DEF RemoveItem
    <3>2. CASE \E state : ChangeItem(x, state)
      <4> PICK state : ChangeItem(x, state)
        BY <3>2
      <4> PICK e : e = [items[x] EXCEPT !.status = state]
        OBVIOUS
      <4>1. /\ e.of = items[x].of /\ e.gone = items[x].gone
            /\ {"status", "of", "gone"} \subseteq DOMAIN e
        BY <1>1
      <4> QED BY <4>1 DEF ChangeItem
    <3> QED BY <3>1, <3>2
  <2>2. IsSeq(items') /\ DOMAIN items' = DOMAIN items
    BY <1>1, <2>1, Replaced
  <2>3. /\ UNCHANGED <<tool, rows, sync, overlapped>>
        /\ \A y \in DOMAIN items' :
             /\ {"status", "of", "gone"} \subseteq DOMAIN items'[y]
             /\ items'[y].of = items[y].of
             /\ items[y].gone => items'[y].gone
    BY <1>1, <2>1
  <2> QED BY <2>2, <2>3, ItemsStep
<1> QED BY <1>2, <1>3, <1>4

LEMMA RowEditsKeep ==
  ASSUME ExchangeInvariant, ExchangeAssumption, UNCHANGED <<tool, sync, overlapped>>,
         \/ \E type : CreateRow(type)
         \/ \E r \in DOMAIN rows : DeleteRow(r) \/ RestoreRow(r) \/ NoteRow(r)
  PROVE  ExchangeInvariant'
<1>1. /\ IsSeq(rows) /\ SyncKept
      /\ \A r \in DOMAIN rows :
           /\ {"status", "tags", "last"} \subseteq DOMAIN rows[r]
           /\ \A x : Tag(x) \in rows[r].tags => x \in DOMAIN items
  BY DEF ExchangeInvariant, RowsOnRecord, Tagged, SessionsOK, SyncKept
<1>2. ASSUME UNCHANGED items, IsSeq(rows'), DOMAIN rows \subseteq DOMAIN rows',
             \A r \in DOMAIN rows' :
               /\ {"status", "tags", "last"} \subseteq DOMAIN rows'[r]
               /\ rows'[r].tags = IF r \in DOMAIN rows THEN rows[r].tags ELSE {}
      PROVE  ExchangeInvariant'
  <2>1. RowsKept
    BY <1>1, <1>2 DEF RowsKept
  <2>2. ASSUME NEW x \in DOMAIN items, <<"item", x>> \notin overlapped, NEW r \in DOMAIN rows'
        PROVE  IF items[x].of = None
               THEN Tag(x) \in rows'[r].tags <=> r \in DOMAIN rows /\ Tag(x) \in rows[r].tags
               ELSE Tag(x) \in rows'[r].tags => r = items[x].of
    <3>1. TaggedOnce(x)
      BY <2>2 DEF ExchangeInvariant, ItemsMatched
    <3> QED BY <1>2, <3>1 DEF TaggedOnce, Tagged
  <2> QED BY <1>1, <1>2, <2>1, <2>2, TagsStep
<1>3. CASE \E type : CreateRow(type)
  <2>1. PICK type, n : UNCHANGED items /\ rows' = Append(rows, NewRow(type, n, {}))
    BY <1>3 DEF CreateRow
  <2> PICK e : e = NewRow(type, n, {})
    OBVIOUS
  <2>2. e.tags = {} /\ {"status", "tags", "last"} \subseteq DOMAIN e
    BY DEF NewRow
  <2>3. /\ IsSeq(rows') /\ DOMAIN rows' = DOMAIN rows \cup {Len(rows) + 1}
        /\ Len(rows) + 1 \notin DOMAIN rows /\ rows'[Len(rows) + 1] = e
        /\ \A r \in DOMAIN rows : rows'[r] = rows[r]
    BY <1>1, <2>1, Appended
  <2> QED BY <1>1, <1>2, <2>1, <2>2, <2>3
<1>4. CASE \E r \in DOMAIN rows : DeleteRow(r) \/ RestoreRow(r) \/ NoteRow(r)
  <2> PICK r \in DOMAIN rows : DeleteRow(r) \/ RestoreRow(r) \/ NoteRow(r)
    BY <1>4
  <2>1. PICK e : /\ UNCHANGED items /\ rows' = [rows EXCEPT ![r] = e]
                 /\ e.tags = rows[r].tags /\ {"status", "tags", "last"} \subseteq DOMAIN e
    <3>1. \A state : LET e == [rows[r] EXCEPT !.status = state] IN
            e.tags = rows[r].tags /\ {"status", "tags", "last"} \subseteq DOMAIN e
      BY <1>1
    <3>2. LET e == [rows[r] EXCEPT !.last = None] IN
            e.tags = rows[r].tags /\ {"status", "tags", "last"} \subseteq DOMAIN e
      BY <1>1
    <3>3. CASE DeleteRow(r)
      BY <3>1, <3>3 DEF DeleteRow, ChangeRow
    <3>4. CASE RestoreRow(r)
      BY <3>1, <3>4 DEF RestoreRow, ChangeRow
    <3>5. CASE NoteRow(r)
      BY <3>2, <3>5 DEF NoteRow, ChangeRow
    <3> QED BY <3>3, <3>4, <3>5
  <2>2. IsSeq(rows') /\ DOMAIN rows' = DOMAIN rows
    BY <1>1, <2>1, Replaced
  <2>3. UNCHANGED items /\ \A q \in DOMAIN rows' :
          /\ {"status", "tags", "last"} \subseteq DOMAIN rows'[q]
          /\ rows'[q].tags = rows[q].tags
    BY <1>1, <2>1
  <2> QED BY <1>2, <2>2, <2>3
<1> QED BY <1>3, <1>4

LEMMA ExchangeStarts ==
  ASSUME ExchangeInit, ExchangeAssumption
  PROVE  ExchangeInvariant
<1>1. /\ DOMAIN sync = Syncs
      /\ \A s \in Syncs : "pc" \in DOMAIN sync[s] /\ sync[s].pc = "idle"
  BY DEF ExchangeInit
<1>2. SessionsOK
  BY <1>1 DEF SessionsOK, SessionOK, Examining, Pushing
<1> PICK row : row = NewRow("functional", 1, {})
  OBVIOUS
<1>3. row.tags = {} /\ {"status", "tags", "last"} \subseteq DOMAIN row
  BY DEF NewRow
<1>4. IsSeq(rows) /\ DOMAIN rows = {1} /\ rows[1] = row
  <2>1. rows = <<row>>
    BY DEF ExchangeInit
  <2>2. DOMAIN rows = 1 .. 1 /\ rows[1] = row /\ rows = [r \in 1 .. 1 |-> rows[r]]
    BY <2>1
  <2>3. IsSeq(rows)
    BY <2>2, SeqBuilt
  <2> QED BY <2>2, <2>3
<1>5. \A x : Item(Native[x], None).of = None
             /\ {"status", "of", "gone"} \subseteq DOMAIN Item(Native[x], None)
  BY DEF Item
<1>6. /\ IsSeq(items)
      /\ \A x \in DOMAIN items :
           items[x].of = None /\ {"status", "of", "gone"} \subseteq DOMAIN items[x]
  <2>1. Len(Native) \in Nat /\ DOMAIN Native = 1 .. Len(Native)
    BY LenProperties DEF ExchangeAssumption
  <2>2. items = [x \in 1 .. Len(Native) |-> Item(Native[x], None)]
    BY <2>1 DEF ExchangeInit
  <2>3. items = [x \in 1 .. Len(Native) |-> items[x]]
    BY <2>2
  <2> QED BY <1>5, <2>1, <2>2, <2>3, SeqBuilt
<1>7. RowsOnRecord /\ ItemsOnRecord
  BY <1>3, <1>4, <1>6 DEF RowsOnRecord, ItemsOnRecord, Tagged
<1>8. ItemsMatched
  BY <1>1, <1>3, <1>4, <1>6 DEF ItemsMatched, TaggedOnce, KnowsItem, TakenIn, Tagged,
     Examining, Pushing
<1>9. IssuesMatched
  BY <1>1, <1>4, <1>6 DEF IssuesMatched, KnowsIssue, Sends, Labelled, ExchangeAssumption
<1> QED BY <1>2, <1>7, <1>8, <1>9 DEF ExchangeInvariant

LEMMA ExchangeKeeps ==
  ASSUME ExchangeInvariant, ExchangeAssumption, [ExchangeNext]_exchangeVars
  PROVE  ExchangeInvariant'
<1>1. CASE UNCHANGED exchangeVars
  BY <1>1, ItemsStep DEF exchangeVars, ExchangeInvariant, ItemsOnRecord
<1>2. CASE \E s \in Syncs : SyncStep(s)
  <2> PICK s \in Syncs : SyncStep(s)
    BY <1>2
  <2>1. CASE \E d \in {"import", "export"} : Trigger(s, d)
    BY <2>1, TriggerKeeps
  <2>2. CASE Dies(s)
    BY <2>2, DoneKeeps DEF Dies
  <2>3. CASE Fetch(s)
    BY <2>3, FetchKeeps
  <2>4. CASE FetchFails(s) \/ ExamineFails(s)
    BY <2>4, DoneKeeps DEF FetchFails, ExamineFails, Fails
  <2>5. CASE Examine(s)
    BY <2>5, ExamineKeeps
  <2>6. CASE ImportCommit(s)
    BY <2>6, ImportCommitKeeps
  <2>7. CASE Load(s)
    BY <2>7, LoadKeeps
  <2>8. CASE Search(s)
    BY <2>8, SearchKeeps
  <2>9. CASE Update(s)
    BY <2>9, UpdateKeeps
  <2>10. CASE \E a \in BOOLEAN : Create(s, a)
    BY <2>10, CreateKeeps
  <2>11. CASE PushFails(s)
    BY <2>11, PushFailsKeeps
  <2>12. CASE ExportCommit(s)
    BY <2>12, ExportCommitKeeps
  <2> QED BY <2>1, <2>2, <2>3, <2>4, <2>5, <2>6, <2>7, <2>8, <2>9, <2>10, <2>11, <2>12
      DEF SyncStep
<1>3. CASE Edit /\ UserEdits
  BY <1>3, ItemEditsKeep, RowEditsKeep DEF Edit, UserEdits
<1> QED BY <1>1, <1>2, <1>3 DEF ExchangeNext

LEMMA AtMostOne ==
  ASSUME NEW S, \A x, y \in S : x = y
  PROVE  Cardinality(S) <= 1
<1>1. CASE S = {}
  BY <1>1, FS_EmptySet
<1>2. CASE S # {}
  <2>1. PICK x : S = {x}
    BY <1>2
  <2> QED BY <2>1, FS_Singleton
<1> QED BY <1>1, <1>2

\* Items of the external tool and requirements stay matched one to one by the
\* marks that imports and exports leave, whatever fails, dies or is repeated,
\* except where two sessions met on the item or on the requirement.
THEOREM ItemsAndRowsMatch ==
  ASSUME ExchangeAssumption PROVE ExchangeSpec => []MatchedOneToOne
<1>1. ExchangeInvariant => MatchedOneToOne
  <2> SUFFICES ASSUME ExchangeInvariant
               PROVE  MatchedOneToOne
    OBVIOUS
  <2>1. ASSUME NEW x \in DOMAIN items, <<"item", x>> \notin overlapped
        PROVE  Cardinality({r \in DOMAIN rows : Tag(x) \in rows[r].tags}) <= 1
    BY <2>1, AtMostOne DEF ExchangeInvariant, ItemsMatched, TaggedOnce, Tagged
  <2>2. ASSUME NEW r \in DOMAIN rows, tool = "jira", <<"row", r>> \notin overlapped
        PROVE  Cardinality({x \in DOMAIN items : items[x].of = r /\ ~items[x].gone}) <= 1
    BY <2>2, AtMostOne DEF ExchangeInvariant, IssuesMatched, Labelled
  <2> QED BY <2>1, <2>2 DEF MatchedOneToOne
<1>2. ExchangeInit => ExchangeInvariant
  BY ExchangeStarts
<1>3. ExchangeInvariant /\ [ExchangeNext]_exchangeVars => ExchangeInvariant'
  BY ExchangeKeeps
<1> QED BY <1>1, <1>2, <1>3, PTL DEF ExchangeSpec
---------------------------------------------------------------------------
(* Requirements and their sources *)

CoverageTyped ==
  /\ need \in [Needs -> States]
  /\ above \in [Needs -> Needs \cup {NoParent}]
  /\ traces \subseteq Needs \X Needs
  /\ sourced \subseteq Needs
  /\ excuse \in [Needs -> {"none", "pending", "cosigned"}]

\* The view is what its query gives on the tables until they change, and a
\* source belongs to a row that is there.
CoverageInvariant ==
  /\ CoverageTyped
  /\ \A r \in sourced : need[r] # "absent"
  /\ ~stale => view = ViewRows

LEMMA CoverageStart ==
  ASSUME CoverageAssumption, CoverageInit PROVE CoverageInvariant
<1>1. PICK w \in Worlds : /\ need = w.need /\ above = w.above /\ traces = w.traces
                          /\ sourced = w.sourced /\ excuse = w.excuse
  BY DEF CoverageInit
<1>2. w \in [need : [Needs -> States], above : [Needs -> Needs \cup {NoParent}],
             traces : SUBSET (Needs \X Needs), sourced : SUBSET Needs,
             excuse : [Needs -> {"none", "pending", "cosigned"}]]
      /\ \A r \in w.sourced : w.need[r] # "absent"
  BY DEF CoverageAssumption
<1>3. CoverageTyped /\ \A r \in sourced : need[r] # "absent"
  BY <1>1, <1>2 DEF CoverageTyped
<1> QED BY <1>3 DEF CoverageInit, CoverageInvariant

LEMMA CoverageStep ==
  ASSUME CoverageInvariant, [CoverageNext]_coverageVars PROVE CoverageInvariant'
<1> DEFINE There == \A r \in sourced : need[r] # "absent"
<1> USE DEF CoverageInvariant
<1>1. ASSUME Edited, CoverageTyped', There' PROVE CoverageInvariant'
  BY <1>1 DEF Edited
<1> USE DEF CoverageTyped, States
<1>2. ASSUME NEW r \in Needs, NEW p \in Needs \cup {NoParent},
             CreateNeed(r, p) \/ MoveNeed(r, p)
      PROVE  CoverageInvariant'
  <2>1. Edited /\ CoverageTyped' /\ There'
    BY <1>2 DEF CreateNeed, MoveNeed
  <2> QED BY <1>1, <2>1
<1>3. ASSUME NEW r \in Needs, DeleteNeed(r) \/ RestoreNeed(r) \/ GenerateNeed(r)
      PROVE  CoverageInvariant'
  <2>1. Edited /\ CoverageTyped' /\ There'
    BY <1>3 DEF DeleteNeed, RestoreNeed, GenerateNeed
  <2> QED BY <1>1, <2>1
<1>4. ASSUME NEW r \in Needs, NEW p \in Needs, LinkNeeds(r, p) PROVE CoverageInvariant'
  <2>1. Edited /\ CoverageTyped' /\ There'
    BY <1>4 DEF LinkNeeds
  <2> QED BY <1>1, <2>1
<1>5. ASSUME NEW r \in Needs, FileExcuse(r) \/ CosignExcuse(r) \/ ExpireExcuse(r)
      PROVE  CoverageInvariant'
  <2>1. Edited /\ CoverageTyped' /\ There'
    BY <1>5 DEF FileExcuse, CosignExcuse, ExpireExcuse
  <2> QED BY <1>1, <2>1
<1>6. ASSUME NEW t \in traces, UnlinkNeeds(t) PROVE CoverageInvariant'
  <2>1. Edited /\ CoverageTyped' /\ There'
    BY <1>6 DEF UnlinkNeeds
  <2> QED BY <1>1, <2>1
<1>7. ASSUME UNCHANGED <<need, above, traces, sourced, excuse>> PROVE ViewRows' = ViewRows
  BY <1>7 DEF ViewRows, LiveNeeds, ViewTraced, CosignedNeeds
<1>8. CASE Refresh
  BY <1>7, <1>8 DEF Refresh
<1>9. CASE UNCHANGED coverageVars
  BY <1>7, <1>9 DEF coverageVars
<1> QED BY <1>2, <1>3, <1>4, <1>5, <1>6, <1>8, <1>9 DEF CoverageNext

-----------------------------------------------------------------------------
\* What the passes compute.
LEMMA CoveredGrows ==
  ASSUME CoverageTyped
  PROVE  /\ CoveredAfter[0] = Direct \cup CosignedNeeds
         /\ \A n \in Nat : /\ CoveredAfter[n] \subseteq Needs
                           /\ CoveredAfter[n + 1] = Pass(CoveredAfter[n])
<1> DEFINE covered == Direct \cup CosignedNeeds
           Step == [x \in Nat \X SUBSET Needs |-> Pass(x[2])]
<1>1. covered \in SUBSET Needs
  BY DEF Direct, CosignedNeeds, CoverageTyped, LiveNeeds
<1>2. Step \in Maps(SUBSET Needs)
  BY DEF Pass, Maps
<1>3. Orbits(SUBSET Needs, Step, covered) # {}
  <2> HIDE DEF Step, covered
  <2> QED BY <1>1, <1>2, Iterates
<1>4. PICK g \in [Nat -> SUBSET Needs] :
        g = [n \in Nat |-> IF n = 0 THEN covered ELSE Pass(g[n - 1])]
  <2>1. PICK g \in [Nat -> SUBSET Needs] :
          g = [n \in Nat |-> IF n = 0 THEN covered ELSE Step[<<n, g[n - 1]>>]]
    <3> HIDE DEF Step, covered
    <3> QED BY <1>3 DEF Orbits
  <2>2. ASSUME NEW n \in Nat, n # 0 PROVE Step[<<n, g[n - 1]>>] = Pass(g[n - 1])
    <3>1. n - 1 \in Nat
      BY <2>2
    <3> QED BY <3>1
  <2> HIDE DEF Step, covered
  <2> QED BY <2>1, <2>2
<1>5. CoveredAfter = [n \in Nat |-> IF n = 0 THEN covered ELSE Pass(CoveredAfter[n - 1])]
  BY <1>4, Zenon DEF CoveredAfter
<1>6. CoveredAfter[0] = covered
  BY <1>5
<1>7. ASSUME NEW n \in Nat PROVE CoveredAfter[n + 1] = Pass(CoveredAfter[n])
  <2>1. n + 1 \in Nat /\ n + 1 # 0 /\ (n + 1) - 1 = n
    OBVIOUS
  <2> HIDE DEF covered
  <2> QED BY <2>1, <1>5
<1>8. \A n \in Nat : CoveredAfter[n] \subseteq Needs
  <2> DEFINE T == {n \in Nat : CoveredAfter[n] \subseteq Needs}
  <2>1. 0 \in T
    BY <1>1, <1>6
  <2>2. ASSUME NEW n \in Nat, n \in T PROVE n + 1 \in T
    BY <1>7, <2>2 DEF Pass
  <2>3. Nat \subseteq T
    <3> HIDE DEF T
    <3> QED BY <2>1, <2>2, AllNumbers
  <2> QED BY <2>3
<1> QED BY <1>6, <1>7, <1>8

\* No pass leaves what has a covered ancestor.
LEMMA CoveredIsDue ==
  ASSUME CoverageTyped, NEW S \in SUBSET Needs, ClosedBelow(S)
  PROVE  \A n \in Nat : CoveredAfter[n] \subseteq S
<1> DEFINE T == {n \in Nat : CoveredAfter[n] \subseteq S}
<1>1. 0 \in T
  BY CoveredGrows DEF ClosedBelow
<1>2. ASSUME NEW n \in Nat, n \in T PROVE n + 1 \in T
  <2>1. CoveredAfter[n + 1] = Pass(CoveredAfter[n])
    BY CoveredGrows
  <2>2. ASSUME NEW r \in Needs, NEW p \in CoveredAfter[n], <<r, p>> \in ParentsMap
        PROVE  r \in S
    BY <1>2, <2>2 DEF ClosedBelow
  <2>3. CoveredAfter[n + 1] \subseteq S
    BY <1>2, <2>1, <2>2 DEF Pass
  <2> QED BY <2>3
<1>3. Nat \subseteq T
  <2> HIDE DEF T
  <2> QED BY <1>1, <1>2, AllNumbers
<1> QED BY <1>3

\* Edges join requirements.
LEMMA EdgesUp ==
  ASSUME CoverageTyped, NEW edge \in ParentsMap
  PROVE  edge[1] \in Needs /\ edge[2] \in Needs /\ edge = <<edge[1], edge[2]>>
BY DEF CoverageTyped, ParentsMap, LiveNeeds

\* A pass takes nothing away.
LEMMA CoveredStays ==
  ASSUME CoverageTyped, NEW n \in Nat
  PROVE  CoveredAfter[n] \subseteq CoveredAfter[n + 1]
BY CoveredGrows DEF Pass

LEMMA FirstStays ==
  ASSUME CoverageTyped, NEW m \in Nat
  PROVE  \A n \in Nat : m <= n => CoveredAfter[m] \subseteq CoveredAfter[n]
<1> DEFINE T == {n \in Nat : m <= n => CoveredAfter[m] \subseteq CoveredAfter[n]}
<1>1. 0 \in T
  <2>1. m <= 0 => m = 0
    OBVIOUS
  <2> QED BY <2>1
<1>2. ASSUME NEW n \in Nat, n \in T PROVE n + 1 \in T
  <2>1. n + 1 \in Nat /\ (m <= n + 1 => m <= n \/ m = n + 1)
    OBVIOUS
  <2> QED BY <1>2, <2>1, CoveredStays
<1>3. Nat \subseteq T
  <2> HIDE DEF T
  <2> QED BY <1>1, <1>2, AllNumbers
<1> QED BY <1>3

LEMMA FromTheFirst ==
  ASSUME CoverageTyped, NEW n \in Nat
  PROVE  Direct \cup CosignedNeeds \subseteq CoveredAfter[n]
<1>1. 0 \in Nat /\ 0 <= n
  OBVIOUS
<1>2. CoveredAfter[0] \subseteq CoveredAfter[n]
  BY <1>1, FirstStays
<1> QED BY <1>2, CoveredGrows

\* A pass that adds nothing has reached everyone; one that adds something takes
\* a row that was waiting.
LEMMA PassReaches ==
  ASSUME CoverageAssumption, CoverageTyped, NEW n \in Nat
  PROVE  \/ ClosedBelow(CoveredAfter[n]) /\ CoveredAfter[n + 1] = CoveredAfter[n]
         \/ Cardinality(CoveredAfter[n + 1] \cap Waiting)
              >= Cardinality(CoveredAfter[n] \cap Waiting) + 1
<1> DEFINE here == CoveredAfter[n] \cap Waiting
           next == CoveredAfter[n + 1] \cap Waiting
<1>1. /\ CoveredAfter[n + 1] = Pass(CoveredAfter[n]) /\ CoveredAfter[n] \subseteq Needs
      /\ CoveredAfter[n + 1] \subseteq Needs
  <2>1. n + 1 \in Nat
    OBVIOUS
  <2>2. CoveredAfter[n + 1] \subseteq Needs
    BY <2>1, CoveredGrows
  <2> QED BY <2>2, CoveredGrows
<1>2. Direct \cup CosignedNeeds \subseteq CoveredAfter[n]
  BY FromTheFirst
<1>3. CASE \A edge \in ParentsMap : edge[2] \in CoveredAfter[n] => edge[1] \in CoveredAfter[n]
  <2>1. ClosedBelow(CoveredAfter[n])
    BY <1>2, <1>3 DEF ClosedBelow
  <2>2. ASSUME NEW r \in Needs, NEW p \in CoveredAfter[n], <<r, p>> \in ParentsMap
        PROVE  r \in CoveredAfter[n]
    BY <1>3, <2>2
  <2>3. Pass(CoveredAfter[n]) = CoveredAfter[n]
    BY <2>2 DEF Pass
  <2> QED BY <1>1, <2>1, <2>3
<1>4. ASSUME NEW edge \in ParentsMap, edge[2] \in CoveredAfter[n],
             edge[1] \notin CoveredAfter[n]
      PROVE  Cardinality(next) >= Cardinality(here) + 1
  <2>1. edge[1] \in CoveredAfter[n + 1]
    BY <1>1, <1>4, EdgesUp DEF Pass
  <2>2. edge[1] \in Waiting
    BY <1>2, <1>4 DEF Waiting
  <2>3. here \subseteq next /\ here # next
    BY <1>4, <2>1, <2>2, CoveredStays
  <2>4. IsFiniteSet(next)
    BY <1>1, FS_Subset DEF CoverageAssumption
  <2>5. /\ IsFiniteSet(here) /\ Cardinality(here) <= Cardinality(next)
        /\ Cardinality(here) # Cardinality(next)
    BY <2>3, <2>4, FS_Subset
  <2>6. Cardinality(here) \in Nat /\ Cardinality(next) \in Nat
    BY <2>4, <2>5, FS_CardinalityType
  <2> HIDE DEF here, next
  <2> QED BY <2>5, <2>6
<1> QED BY <1>3, <1>4

\* So after n passes everyone is reached or n rows no longer wait.
LEMMA PassesReach ==
  ASSUME CoverageAssumption, CoverageTyped
  PROVE  \A n \in Nat : \/ ClosedBelow(CoveredAfter[n])
                        \/ Cardinality(CoveredAfter[n] \cap Waiting) >= n
<1> DEFINE T == {n \in Nat : \/ ClosedBelow(CoveredAfter[n])
                             \/ Cardinality(CoveredAfter[n] \cap Waiting) >= n}
<1>1. ASSUME NEW n \in Nat PROVE Cardinality(CoveredAfter[n] \cap Waiting) \in Nat
  <2>1. CoveredAfter[n] \cap Waiting \subseteq Needs
    BY CoveredGrows
  <2> QED BY <2>1, FS_Subset, FS_CardinalityType DEF CoverageAssumption
<1>2. 0 \in T
  BY <1>1
<1>3. ASSUME NEW n \in Nat, n \in T PROVE n + 1 \in T
  <2>1. CASE ClosedBelow(CoveredAfter[n]) /\ CoveredAfter[n + 1] = CoveredAfter[n]
    BY <2>1
  <2>2. CASE ~(ClosedBelow(CoveredAfter[n]) /\ CoveredAfter[n + 1] = CoveredAfter[n])
    <3>1. Cardinality(CoveredAfter[n + 1] \cap Waiting)
            >= Cardinality(CoveredAfter[n] \cap Waiting) + 1
      BY <2>2, PassReaches
    <3>2. CASE ClosedBelow(CoveredAfter[n])
      <4>1. CoveredAfter[n + 1] = Pass(CoveredAfter[n])
        BY CoveredGrows
      <4>2. Pass(CoveredAfter[n]) = CoveredAfter[n]
        BY <3>2 DEF Pass, ClosedBelow
      <4> QED BY <2>2, <3>2, <4>1, <4>2
    <3>3. CASE Cardinality(CoveredAfter[n] \cap Waiting) >= n
      <4>1. n + 1 \in Nat /\ Cardinality(CoveredAfter[n] \cap Waiting) \in Nat
            /\ Cardinality(CoveredAfter[n + 1] \cap Waiting) \in Nat
        BY <1>1
      <4>2. Cardinality(CoveredAfter[n + 1] \cap Waiting) >= n + 1
        BY <3>1, <3>3, <4>1
      <4> QED BY <4>2
    <3> QED BY <1>3, <3>2, <3>3
  <2> QED BY <2>1, <2>2
<1>4. Nat \subseteq T
  <2> HIDE DEF T
  <2> QED BY <1>2, <1>3, AllNumbers
<1> QED BY <1>4

\* As many passes as rows can wait reach everyone.
LEMMA FindsAncestors ==
  ASSUME CoverageAssumption, CoverageTyped PROVE LiveFindsAncestors
<1>1. IsFiniteSet(LiveNeeds) /\ IsFiniteSet(Waiting)
  <2>1. LiveNeeds \subseteq Needs /\ Waiting \subseteq Needs
    BY EdgesUp DEF LiveNeeds, Waiting
  <2> QED BY <2>1, FS_Subset DEF CoverageAssumption
<1>2. Cardinality(LiveNeeds) \in Nat /\ Cardinality(Waiting) \in Nat /\ Rounds \in Nat
  <2>1. Cardinality(LiveNeeds) \in Nat /\ Cardinality(Waiting) \in Nat
    BY <1>1, FS_CardinalityType
  <2> QED BY <2>1 DEF Rounds
<1>3. SUFFICES ASSUME Cardinality(Waiting) <= Cardinality(LiveNeeds) + 1
               PROVE  Covered = Descendants
  BY DEF LiveFindsAncestors
<1>4. Covered \subseteq Needs /\ Covered = CoveredAfter[Rounds]
  BY <1>2, CoveredGrows DEF Covered
<1>5. ClosedBelow(Covered)
  <2>1. CASE Cardinality(Covered \cap Waiting) >= Rounds
    <3> DEFINE met == Covered \cap Waiting
    <3>1. /\ IsFiniteSet(met) /\ Cardinality(met) <= Cardinality(Waiting)
          /\ Cardinality(met) = Cardinality(Waiting) => met = Waiting
      BY <1>1, FS_Subset
    <3>2. Cardinality(met) = Cardinality(Waiting)
      <4>1. Cardinality(met) \in Nat
        BY <3>1, FS_CardinalityType
      <4> HIDE DEF met
      <4> QED BY <1>2, <1>3, <2>1, <3>1, <4>1 DEF Rounds, met
    <3>3. Waiting \subseteq Covered
      BY <3>1, <3>2
    <3>4. Direct \cup CosignedNeeds \subseteq Covered
      BY <1>2, <1>4, FromTheFirst
    <3> QED BY <3>3, <3>4 DEF ClosedBelow, Waiting
  <2> QED BY <1>2, <1>4, <2>1, PassesReach
<1>6. Descendants \subseteq Covered
  BY <1>4, <1>5 DEF Descendants
<1>7. ASSUME NEW S \in SUBSET Needs, ClosedBelow(S) PROVE Covered \subseteq S
  BY <1>2, <1>4, <1>7, CoveredIsDue
<1>8. Covered \subseteq Descendants
  BY <1>4, <1>7 DEF Descendants
<1> QED BY <1>6, <1>8

\* A row of the view is never better than the live report of the row.
LEMMA Cautious ==
  ASSUME CoverageAssumption, CoverageInvariant PROVE ReportIsCautious
<1> SUFFICES ASSUME ~stale PROVE /\ DOMAIN ViewRows = LiveNeeds
                                 /\ \A r \in LiveNeeds :
                                      \/ Rank[ViewRows[r]] >= Rank[LiveSeverity(r)]
                                      \/ \E p \in sourced : need[p] = "deleted" /\ <<r, p>> \in traces
  BY DEF CoverageInvariant, ReportIsCautious
<1>1. CoverageTyped /\ \A r \in sourced : need[r] # "absent"
  BY DEF CoverageInvariant
<1>2. DOMAIN ViewRows = LiveNeeds
  BY DEF ViewRows
<1>3. Rounds \in Nat /\ 1 <= Rounds /\ 1 \in Nat
  <2>1. IsFiniteSet(LiveNeeds)
    BY FS_Subset DEF CoverageAssumption, LiveNeeds
  <2> QED BY <2>1, FS_CardinalityType DEF Rounds
<1>4. ASSUME NEW r \in LiveNeeds,
             ~\E p \in sourced : need[p] = "deleted" /\ <<r, p>> \in traces
      PROVE  Rank[ViewRows[r]] >= Rank[LiveSeverity(r)]
  <2> DEFINE direct == r \in Direct
             cosigned == r \in CosignedNeeds
             pending == excuse[r] = "pending"
             traced == r \in Covered \ (Direct \cup CosignedNeeds)
  <2>1. (r \in sourced) <=> direct
    BY DEF Direct
  <2>2. ViewRows[r] = Severity(Level[r], r \in sourced, ViewTraced(r), cosigned, pending)
    BY DEF ViewRows
  <2>3. LiveSeverity(r) = Severity(Level[r], direct, traced, cosigned, pending)
    BY DEF LiveSeverity
  <2>4. ViewTraced(r) /\ ~direct /\ ~cosigned => traced
    <3> SUFFICES ASSUME NEW p \in Needs, <<r, p>> \in traces,
                        p \in sourced \/ p \in CosignedNeeds
                 PROVE  r \in Covered
      BY DEF ViewTraced
    <3>1. p \in Direct \cup CosignedNeeds
      BY <1>1, <1>4 DEF CoverageTyped, States, Direct, LiveNeeds
    <3>2. r \in CoveredAfter[1]
      <4>1. CoveredAfter[0 + 1] = Pass(CoveredAfter[0]) /\ 0 + 1 = 1
            /\ CoveredAfter[0] = Direct \cup CosignedNeeds
        BY <1>1, CoveredGrows
      <4> QED BY <3>1, <4>1 DEF Pass, ParentsMap, LiveNeeds
    <3> QED BY <1>1, <1>3, <3>2, FirstStays DEF Covered
  <2> QED BY <2>1, <2>2, <2>3, <2>4 DEF Severity, Rank
<1> QED BY <1>2, <1>4

\* Over whatever chains and cycles of links and parents, of any length, the live
\* report covers the requirements below a covered one and no others, unless more
\* rows wait for their ancestors than it makes passes (source_validator.py:245).
THEOREM AncestorsAreFound ==
  ASSUME CoverageAssumption PROVE CoverageSpec => []LiveFindsAncestors
<1>1. CoverageInvariant => LiveFindsAncestors
  BY FindsAncestors DEF CoverageInvariant
<1> QED BY <1>1, CoverageStart, CoverageStep, PTL DEF CoverageSpec

\* No row of an up-to-date view is better than what the tables say at the time,
\* except over a link to a deleted requirement that has its source: the SQL of
\* migration 0025 and the rule of source_validator.py differ on the safe side.
THEOREM ReportsAreCautious ==
  ASSUME CoverageAssumption PROVE CoverageSpec => []ReportIsCautious
BY Cautious, CoverageStart, CoverageStep, PTL DEF CoverageSpec
---------------------------------------------------------------------------
(* The graph of trace links *)

GraphInvariant ==
  /\ status \in [Reqs -> {"absent", "live", "deleted"}]
  /\ parent \in [Reqs -> Reqs \cup {NoReq}]

LEMMA GraphStart == GraphInit => GraphInvariant
BY DEF GraphInit, GraphInvariant

LEMMA GraphStep == GraphInvariant /\ [GraphNext]_graphVars => GraphInvariant'
BY DEF GraphInvariant, GraphNext, graphVars, CreateRequirement, MoveRequirement,
       DeleteRequirement, RestoreRequirement, ChangeStatus, CreateVerification,
       CreateArtifact, DeleteArtifact, CreateLink, DeleteLink, Recorded

\* The first ring of the search is what an edge of the start leads to.
LEMMA FirstRing ==
  ASSUME GraphAssumption, NEW start, NEW edges, NEW q \in Reqs, q # start,
         <<start, q>> \in edges
  PROVE  <<q, 1>> \in BreadthFirst(start, edges)
<1> PICK Nodes : Nodes = {start} \cup {e[2] : e \in edges}
  OBVIOUS
<1> PICK U : U = [ring : SUBSET Nodes, visited : SUBSET Nodes]
  OBVIOUS
<1> DEFINE first == [ring |-> {start}, visited |-> {start}]
           Step == [x \in Nat \X U |-> Hop(x[2], edges)]
           at == Hops(start, edges)
<1>1. first \in U
  OBVIOUS
<1>2. Step \in Maps(U)
  <2>1. ASSUME NEW last \in U PROVE Hop(last, edges) \in U
    <3> DEFINE ring == {e[2] : e \in {f \in edges : f[1] \in last.ring}} \ last.visited
    <3>1. ring \subseteq Nodes /\ last.visited \subseteq Nodes
      OBVIOUS
    <3> HIDE DEF ring
    <3>2. [ring |-> ring, visited |-> last.visited \cup ring] \in U
      BY <3>1
    <3> QED BY <3>2 DEF Hop, ring
  <2> QED BY <2>1 DEF Maps
<1>3. Orbits(U, Step, first) # {}
  <2> HIDE DEF Step, first
  <2> QED BY <1>1, <1>2, Iterates
<1>4. PICK g \in [Nat -> U] :
        g = [n \in Nat |-> IF n = 0 THEN first ELSE Step[<<n, g[n - 1]>>]]
  <2> HIDE DEF Step, first
  <2> QED BY <1>3 DEF Orbits
<1>5. g = [n \in Nat |-> IF n = 0 THEN first ELSE Hop(g[n - 1], edges)]
  <2>1. ASSUME NEW n \in Nat, n # 0 PROVE Step[<<n, g[n - 1]>>] = Hop(g[n - 1], edges)
    <3>1. n - 1 \in Nat
      BY <2>1
    <3> QED BY <3>1
  <2> HIDE DEF first, Step
  <2> QED BY <1>4, <2>1
<1>6. at = [n \in Nat |-> IF n = 0 THEN first ELSE Hop(at[n - 1], edges)]
  BY <1>5, Zenon DEF Hops
<1>7. q \in at[1].ring
  <2> HIDE DEF at
  <2>1. at[1] = Hop(at[0], edges) /\ at[0] = first
    <3> HIDE DEF first
    <3>1. 1 \in Nat /\ 0 \in Nat /\ 1 # 0 /\ 1 - 1 = 0
      OBVIOUS
    <3> QED BY <1>6, <3>1
  <2>2. at[0].ring = {start} /\ at[0].visited = {start}
    BY <2>1
  <2>3. q \in {e[2] : e \in {f \in edges : f[1] \in at[0].ring}} \ at[0].visited
    BY <2>2
  <2> QED BY <2>1, <2>3 DEF Hop
<1>8. 1 \in 1 .. Depth
  BY DEF GraphAssumption
<1>9. <<q, 1>> \in UNION {at[n].ring \X {n} : n \in 1 .. Depth}
  <2> HIDE DEF at
  <2>1. <<q, 1>> \in at[1].ring \X {1}
    BY <1>7
  <2> QED BY <1>8, <2>1
<1>10. <<q, 1>> \in {<<node, n>> : node \in Reqs \cup Verifs \cup Arts, n \in 1 .. Depth}
  BY <1>8
<1> QED BY <1>9, <1>10 DEF BreadthFirst

\* What a deletion does to the coverage of another requirement reaches it over
\* one edge of the graph, from its parent or from its child.
LEMMA LossIsAdjacent ==
  ASSUME GraphInvariant, NEW r \in Reqs, DeleteRequirement(r), NEW q \in Live \ {r},
         Coverage(q)' # Coverage(q)
  PROVE  <<r, q>> \in TraceEdges \cup Reversed(TraceEdges)
<1>1. /\ status' = [status EXCEPT ![r] = "deleted"] /\ r \in Live /\ q \in Reqs
      /\ UNCHANGED <<parent, checks, links>>
  BY DEF DeleteRequirement, ChangeStatus, Live
<1>2. q \in Live' /\ Live' = Live \ {r} /\ Recorded' = Recorded
  BY <1>1 DEF GraphInvariant, Live, Recorded
<1>3. SUFFICES ASSUME ~(parent[q] = r \/ parent[r] = q) PROVE FALSE
  <2>1. CASE parent[q] = r
    BY <1>1, <2>1 DEF TraceEdges
  <2>2. CASE parent[r] = q
    <3>1. <<q, r>> \in TraceEdges
      BY <1>1, <2>2 DEF TraceEdges
    <3> QED BY <3>1 DEF Reversed
  <2> QED BY <2>1, <2>2
<1>4. (Children(q) \cap Live)' = Children(q) \cap Live /\ (parent[q] \in Live)' = (parent[q] \in Live)
  BY <1>1, <1>2, <1>3 DEF Children
<1>5. (q \in WithSource)' = (q \in WithSource)
  BY <1>1, <1>2 DEF WithSource
<1>6. (q \in WithChildren)' = (q \in WithChildren)
  BY <1>1, <1>2, <1>4 DEF WithChildren
<1>7. (q \in Verified)' = (q \in Verified)
  BY <1>1, <1>2 DEF Verified
<1>8. (q \in Linked)' = (q \in Linked)
  BY <1>1, <1>2 DEF Linked
<1>9. (q \in Orphans)' = (q \in Orphans)
  BY <1>2, <1>4, <1>7, <1>8 DEF Orphans
<1> QED BY <1>5, <1>6, <1>7, <1>9 DEF Coverage

\* In whatever graph of links, parents and verifications, what a deletion changes
\* in the coverage statistics of another requirement is one hop away in the
\* preview of it (routers/impact.py:174), and a child of it is listed as orphaned.
THEOREM DeletionsPreviewed ==
  ASSUME GraphAssumption PROVE GraphSpec => DeletionsArePreviewed
<1>1. ASSUME GraphInvariant, [GraphNext]_graphVars, NEW r \in Reqs, DeleteRequirement(r),
             NEW q \in Live \ {r}, Coverage(q)' # Coverage(q)
      PROVE  q \in PreviewDirect(r) /\ (parent[q] = r => q \in PreviewOrphaned(r))
  <2>1. <<r, q>> \in TraceEdges \cup Reversed(TraceEdges) /\ q \in Reqs
    BY <1>1, LossIsAdjacent DEF Live
  <2>2. <<q, 1>> \in Affected(r)
    BY <1>1, <2>1, FirstRing DEF Affected
  <2>3. q \in PreviewDirect(r)
    BY <2>2 DEF PreviewDirect
  <2>4. parent[q] = r => q \in PreviewOrphaned(r)
    BY <1>1 DEF PreviewOrphaned, Children, Live, Recorded
  <2> QED BY <2>3, <2>4
<1>2. GraphInvariant /\ [GraphNext]_graphVars =>
        [\A r \in Reqs : DeleteRequirement(r) =>
           \A q \in Live \ {r} :
             Coverage(q)' # Coverage(q) =>
               /\ q \in PreviewDirect(r)
               /\ parent[q] = r => q \in PreviewOrphaned(r)]_graphVars
  BY <1>1
<1> QED BY <1>2, GraphStart, GraphStep, PTL DEF GraphSpec, DeletionsArePreviewed
===============================================================================
