------------------------- MODULE MCApprovalWorkflow -------------------------
(* An instance of one of several templates, and the calls that race on it.   *)
EXTENDS ApprovalWorkflow, TLC

CONSTANTS i1, r1, r2, r3, eng, pm

Row(role, count, sign, hours) ==
  [required_role |-> role, required_count |-> count,
   require_signature |-> sign, timeout_hours |-> hours]

MCUsers == {eng, pm}
MCRole == (eng :> "engineer") @@ (pm :> "pm")

\* seed_default_workflow: an unsigned and a signed stage of one role, then
\* another role.
Seeded       == <<Row("engineer", 1, FALSE, 0), Row("engineer", 1, TRUE, 0),
                  Row("pm", 1, FALSE, 0)>>
TwoApprovers == <<Row(AnyRole, 2, FALSE, 0), Row("pm", 1, TRUE, 0)>>
ThreeStages  == <<Row(AnyRole, 1, FALSE, 0), Row(AnyRole, 1, FALSE, 0),
                  Row(AnyRole, 2, FALSE, 0)>>
Timed        == <<Row("engineer", 1, TRUE, 1), Row("pm", 1, FALSE, 1)>>

AllTemplates == {Seeded, TwoApprovers, Timed}
AnyThree   == {ThreeStages}
Interchangeable == Permutations(Requests)
=============================================================================
