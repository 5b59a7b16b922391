-------------------------------- MODULE ReqSync --------------------------------
(***************************************************************************)
(* Reactive requirement sync: the listener and the fan-out service of      *)
(* backend/app/services/req_sync, the review endpoints of                  *)
(* backend/app/routers/req_sync.py, and the sources of requirements - the  *)
(* mechanical joints of routers/mechanical_joints.py, which generate their *)
(* requirements when they are approved, and wires, whose requirements and  *)
(* links a migration brought in.                                           *)
(*                                                                         *)
(* Every request is a session of its own at READ COMMITTED: it loads rows, *)
(* decides from what it loaded, and commits. An UPDATE or DELETE of a row  *)
(* waits for the transaction that changed it last, and fails when the row  *)
(* is gone. The listener runs inside the flush of a source; what becomes   *)
(* of its work there is FlushEffects.                                      *)
(***************************************************************************)
EXTENDS Naturals, Sequences, FiniteSets, SequencesExt

CONSTANTS
  Reqs,          \* ids of Requirement rows
  Wires, Joints, \* ids of the two kinds of source entities
  Texts,         \* what a source says, and the statement rendered from it
  Calls,         \* requests, each made once
  Seeds,         \* databases to start from: [source, requirement, proposals]
  Edits,         \* changes users make to a requirement: records of columns
  FlushEffects   \* subset of {"all", "additions"}: SQLAlchemy inside a flush

Sources == Wires \cup Joints
Gone == [status |-> "gone"]

VARIABLES
  source,       \* the Wire and MechanicalJoint rows
  requirement,  \* the Requirement rows that exist, each with its source link
  proposals,    \* RequirementSyncProposal rows, in the order of their ids
  history,      \* RequirementHistory rows
  call,         \* the local variables of each request
  acts          \* what requests decided: for the properties only

syncVars == <<source, requirement, proposals, history, call, acts>>

\* The tables are what their keys make them, and every requirement comes from a
\* source.
Tables(db) ==
  /\ DOMAIN db.source = Sources
  /\ \A s \in Sources : "status" \in DOMAIN db.source[s]
  /\ DOMAIN db.requirement \subseteq Reqs
  /\ \A r \in DOMAIN db.requirement :
       "link" \in DOMAIN db.requirement[r] /\ db.requirement[r].link \in Sources
  /\ Len(db.proposals) \in Nat /\ DOMAIN db.proposals = 1 .. Len(db.proposals)
  /\ \A i \in DOMAIN db.proposals :
       /\ {"req", "type", "status"} \subseteq DOMAIN db.proposals[i]
       /\ db.proposals[i].req \in DOMAIN db.requirement

\* The database a behaviour starts from owes nothing to an earlier deletion, and
\* no edit of a requirement moves it to another source.
ASSUME SyncAssumption ==
  /\ IsFiniteSet(Reqs)
  /\ \A seed \in Seeds :
       /\ Tables(seed)
       /\ \A r \in DOMAIN seed.requirement :
            seed.source[seed.requirement[r].link].status = "gone" =>
              \E i \in DOMAIN seed.proposals :
                seed.proposals[i].req = r /\ seed.proposals[i].type = "obsolete"
  /\ \A edit \in Edits : "link" \notin DOMAIN edit

Init ==
  /\ \E seed \in Seeds : /\ source = seed.source
                         /\ requirement = seed.requirement
                         /\ proposals = seed.proposals
  /\ history = {}
  /\ call = [c \in Calls |-> [pc |-> "idle"]]
  /\ acts = {}

Exists(s) == source[s].status # "gone"
Linked(s) == {r \in DOMAIN requirement : requirement[r].link = s}
PendingOf(r) ==
  {i \in DOMAIN proposals : proposals[i].req = r /\ proposals[i].status = "pending"}

Active == {"editing", "flushed", "accepting", "rejecting", "approving", "bulk", "applying"}
\* The row of s is written by a transaction that is still open.
RowLocked(s) == \E c \in Calls : call[c].pc = "flushed" /\ call[c].on = s

\* A request that commits overtakes every other that is under way.
Finish(c, result) ==
  call' = [d \in Calls |->
    IF d = c THEN result
    ELSE IF call[d].pc \in Active THEN [call[d] EXCEPT !.overtaken = TRUE] ELSE call[d]]
Proceed(c, local) == call' = [call EXCEPT ![c] = local]
Done == [pc |-> "done", skipped |-> {}]
Failed == [pc |-> "failed"]

\* An UPDATE sets the columns that were given a value other than the loaded one.
Updated(row, seen, set) ==
  [f \in DOMAIN row |-> IF f \in DOMAIN set /\ set[f] # seen[f] THEN set[f] ELSE row[f]]
Told(r, old, new, version) == [req |-> r, old |-> old, new |-> new, version |-> version]
Act(c, what, on, forced) ==
  [call |-> c, what |-> what, on |-> on, forced |-> forced, overtaken |-> call[c].overtaken]

-----------------------------------------------------------------------------
(* fan_out_for_entity, inside the flush that writes the source.              *)

\* Mutant: a delete is like any other edit, and leaves approved text alone.
decide_action_DeletionSkipped(status, type) ==
  CASE status \in {"deleted", "deferred"} -> "skip"
    [] type = "obsolete" /\ status = "approved" -> "skip"
    [] type = "update_statement" /\ status \in {"draft", "auto_generated"} -> "auto_apply"
    [] OTHER -> "proposal_pending"

decide_action(status, type) ==
  CASE status \in {"deleted", "deferred"} -> "skip"
    [] type = "update_statement" /\ status \in {"draft", "auto_generated"} -> "auto_apply"
    [] OTHER -> "proposal_pending"

\* The renderer knows the templates of wires, and none of those of joints.
Type(row, after) ==
  CASE after = Gone -> "obsolete"
    [] after # Gone /\ row.template = "mechanical" -> "regenerate"
    [] OTHER -> "update_statement"
Rendered(row, after) ==
  IF Type(row, after) = "update_statement" /\ row.template # "none" THEN after.text ELSE "none"

Concerned(row, after) ==
  /\ ~row.locked
  /\ row.status # "deleted"
  /\ Type(row, after) = "update_statement" =>
       row.template # "none" /\ Rendered(row, after) # row.statement
  /\ decide_action(row.status, Type(row, after)) # "skip"

Proposed(r, row, s, after) ==
  [req |-> r, by |-> s, type |-> Type(row, after), old |-> row.statement,
   new |-> Rendered(row, after),
   status |-> IF decide_action(row.status, Type(row, after)) = "auto_apply"
              THEN "auto_applied" ELSE "pending"]

\* The proposals that the fan-out makes of a source that becomes after, of the
\* requirements among rows that are linked to it.
FanOut(s, rows, after) ==
  LET concerned == {r \in DOMAIN rows : rows[r].link = s /\ Concerned(rows[r], after)} IN
  [r \in concerned |-> Proposed(r, rows[r], s, after)]
Prior(raised) == UNION {PendingOf(r) : r \in DOMAIN raised}

\* What the listener adds to the session is inserted by the commit. What it
\* changes on rows it loaded may reach the database too ("all"), or be reset
\* when the flush ends, as SQLAlchemy warns ("additions").
WithRaised(raised, prior, effect) ==
  [i \in 1 .. Len(proposals) + Cardinality(DOMAIN raised) |->
     IF i > Len(proposals) THEN raised[SetToSeq(DOMAIN raised)[i - Len(proposals)]]
     ELSE IF effect = "all" /\ i \in prior
       THEN [proposals[i] EXCEPT !.status = "superseded"] ELSE proposals[i]]

-----------------------------------------------------------------------------
(* Sources: a user edits or deletes one, joints are created and approved.    *)

CreateJoint(c, s, text) ==
  /\ call[c].pc = "idle"
  /\ s \in Joints /\ source[s].status = "none"
  /\ source' = [source EXCEPT ![s] = [status |-> "draft", text |-> text]]
  /\ Finish(c, Done)
  /\ UNCHANGED <<requirement, proposals, history, acts>>

Load(c, s, change) ==
  /\ call[c].pc = "idle"
  /\ call' = [call EXCEPT ![c] = [pc |-> "editing", on |-> s, seen |-> source[s],
                                 change |-> change, overtaken |-> FALSE]]
  /\ UNCHANGED <<source, requirement, proposals, history, acts>>

UpdateSource(c, s, text) ==
  /\ source[s].status \in {"present", "draft", "active"}
  /\ Load(c, s, [source[s] EXCEPT !.text = text])

\* A wire, and a joint nobody approved, is deleted; an approved one becomes
\* superseded, on the word of an administrator.
DeleteSource(c, s) ==
  \/ source[s].status \in {"present", "draft"} /\ Load(c, s, Gone)
  \/ source[s].status = "active" /\ Load(c, s, [source[s] EXCEPT !.status = "superseded"])

\* approve_joint renders its templates from the joint it loaded.
ApproveJoint(c, s) ==
  /\ call[c].pc = "idle"
  /\ s \in Joints /\ source[s].status = "draft"
  /\ Proceed(c, [pc |-> "approving", on |-> s, seen |-> source[s], overtaken |-> FALSE])
  /\ UNCHANGED <<source, requirement, proposals, history, acts>>

Generated(s, text) ==
  [status |-> "auto_generated", statement |-> text, version |-> 1, locked |-> FALSE,
   link |-> s, template |-> "mechanical"]

\* One commit writes the requirement and the joint. The listener hears the
\* joint's UPDATE in that flush: of a requirement an overlapping approval
\* generated and, when the link was inserted before the UPDATE (heard), of this
\* one, whose template the renderer does not know.
ApproveJoint_Commit(c, r, heard, effect) ==
  LET s == call[c].on
      after == [source[s] EXCEPT !.status = "active"]
      rows == [q \in DOMAIN requirement \cup {r} |->
                 IF q = r THEN Generated(s, call[c].seen.text) ELSE requirement[q]]
      raised == FanOut(s, IF heard THEN rows ELSE requirement, after) IN
  /\ call[c].pc = "approving"
  /\ ~RowLocked(s)
  /\ Exists(s)
  /\ r \in Reqs \ DOMAIN requirement
  /\ source' = [source EXCEPT ![s] = after]
  /\ requirement' = rows
  /\ proposals' = WithRaised(raised, Prior(raised), effect)
  /\ acts' = acts \cup {Act(c, "approve", s, FALSE)}
  /\ Finish(c, Done)
  /\ UNCHANGED history

\* StaleDataError: the UPDATE or DELETE finds no row; the request is rolled back.
Stale(c) ==
  /\ call[c].pc \in {"editing", "approving"}
  /\ ~RowLocked(call[c].on) /\ ~Exists(call[c].on)
  /\ Proceed(c, Failed)
  /\ UNCHANGED <<source, requirement, proposals, history, acts>>

-----------------------------------------------------------------------------
(* The flush of an edit, and its commit.                                     *)

Flush(c) ==
  LET s == call[c].on
      after == IF call[c].change = Gone THEN Gone
               ELSE Updated(source[s], call[c].seen, call[c].change)
      raised == FanOut(s, requirement, after) IN
  /\ call[c].pc = "editing"
  /\ ~RowLocked(s) /\ Exists(s)
  /\ Proceed(c, [pc |-> "flushed", on |-> s, after |-> after, overtaken |-> FALSE,
                 raised |-> raised, prior |-> Prior(raised),
                 skipped |-> {r \in Linked(s) :
                   requirement[r].locked \/ requirement[r].status \in {"deleted", "deferred"}}])
  /\ UNCHANGED <<source, requirement, proposals, history, acts>>

\* The audit event of a text the fan-out applies by itself.
AuditsInFlush(raised) == \E r \in DOMAIN raised : raised[r].status = "auto_applied"

Commit(c, effect) ==
  LET local == call[c] IN
  /\ local.pc = "flushed"
  /\ ~AuditsInFlush(local.raised)
  /\ source' = [source EXCEPT ![local.on] = local.after]
  /\ proposals' = WithRaised(local.raised, local.prior, effect)
  /\ Finish(c, [pc |-> "done", skipped |-> local.skipped])
  /\ UNCHANGED <<requirement, history, acts>>

\* record_event commits the session, here inside the flush: the UPDATE of the
\* source, which is all that was sent, stays; the flush then fails on the closed
\* transaction, and the applied text, its history, every proposal and the event
\* are lost with it.
Commit_InFlush(c) ==
  LET local == call[c] IN
  /\ local.pc = "flushed"
  /\ AuditsInFlush(local.raised)
  /\ source' = [source EXCEPT ![local.on] = local.after]
  /\ Finish(c, Failed)
  /\ UNCHANGED <<requirement, proposals, history, acts>>

-----------------------------------------------------------------------------
(* Review of proposals.                                                      *)

\* Mutant: a proposal is applied whatever became of it.
Applicable_NotPending(i, row, forced) == ~row.locked \/ forced
\* Mutant: a lock keeps nobody from accepting.
Applicable_LockIgnored(i, row, forced) == proposals[i].status = "pending"

Applicable(i, row, forced) ==
  /\ proposals[i].status = "pending"
  /\ ~row.locked \/ forced

AcceptProposal(c, i, forced) ==
  LET row == requirement[proposals[i].req] IN
  /\ call[c].pc = "idle"
  /\ Applicable(i, row, forced)
  /\ Proceed(c, [pc |-> "accepting", on |-> i, forced |-> forced, seen |-> row,
                 overtaken |-> FALSE])
  /\ UNCHANGED <<source, requirement, proposals, history, acts>>

ToldOf(r, old, new, version) == {Told(r, old, new, version)}

\* _apply_proposal: the audit event at its end commits all of it.
Apply(c, i, seen, result) ==
  LET p == proposals[i]
      text == IF p.new = "none" THEN seen.statement ELSE p.new IN
  /\ requirement' = [requirement EXCEPT
       ![p.req] = Updated(@, seen, [statement |-> text, version |-> seen.version + 1])]
  /\ proposals' = [proposals EXCEPT ![i].status = "accepted"]
  /\ history' = history \cup ToldOf(p.req, seen.statement, text, seen.version + 1)
  /\ acts' = acts \cup {Act(c, "decide", i, call[c].forced)}
  /\ Finish(c, result)
  /\ UNCHANGED source

AcceptProposal_Commit(c) ==
  /\ call[c].pc = "accepting"
  /\ Apply(c, call[c].on, call[c].seen, Done)

RejectProposal(c, i) ==
  /\ call[c].pc = "idle"
  /\ proposals[i].status = "pending"
  /\ Proceed(c, [pc |-> "rejecting", on |-> i, forced |-> FALSE, overtaken |-> FALSE])
  /\ UNCHANGED <<source, requirement, proposals, history, acts>>

RejectProposal_Commit(c) ==
  /\ call[c].pc = "rejecting"
  /\ proposals' = [proposals EXCEPT ![call[c].on].status = "rejected"]
  /\ acts' = acts \cup {Act(c, "decide", call[c].on, FALSE)}
  /\ Finish(c, Done)
  /\ UNCHANGED <<source, requirement, history>>

\* bulk_accept_proposals: each proposal is read again after the commit of the
\* one before; the first that cannot be applied ends the request.
BulkAccept(c, ids) ==
  /\ call[c].pc = "idle"
  /\ Proceed(c, [pc |-> "bulk", left |-> ids, applied |-> {}, forced |-> FALSE,
                 overtaken |-> FALSE])
  /\ UNCHANGED <<source, requirement, proposals, history, acts>>

BulkAccept_Load(c, i) ==
  LET row == requirement[proposals[i].req] IN
  /\ call[c].pc = "bulk"
  /\ i \in call[c].left
  /\ Proceed(c, IF Applicable(i, row, FALSE)
       THEN [pc |-> "applying", on |-> i, seen |-> row, left |-> call[c].left,
             applied |-> call[c].applied, forced |-> FALSE, overtaken |-> FALSE]
       ELSE [pc |-> "refused", applied |-> call[c].applied])
  /\ UNCHANGED <<source, requirement, proposals, history, acts>>

BulkAccept_Apply(c) ==
  LET left == call[c].left \ {call[c].on} IN
  /\ call[c].pc = "applying"
  /\ Apply(c, call[c].on, call[c].seen,
           IF left = {} THEN Done
           ELSE [pc |-> "bulk", left |-> left, applied |-> call[c].applied \cup {call[c].on},
                 forced |-> FALSE, overtaken |-> FALSE])

-----------------------------------------------------------------------------
(* Locks, and the edits of users through routers/requirements.py.            *)

SetLock(c, r, locked) ==
  /\ call[c].pc = "idle"
  /\ r \in DOMAIN requirement
  /\ requirement' = [requirement EXCEPT ![r].locked = locked]
  /\ Finish(c, Done)
  /\ UNCHANGED <<source, proposals, history, acts>>

LockRequirement(c, r) == SetLock(c, r, TRUE)
UnlockRequirement(c, r) == SetLock(c, r, FALSE)

\* External to this module: one commit of RequirementLifecycle.
EditRequirement(c, r, edit) ==
  LET row == requirement[r]
      new == Updated(row, row, edit) IN
  /\ call[c].pc = "idle"
  /\ r \in DOMAIN requirement /\ new # row
  /\ requirement' = [requirement EXCEPT ![r] = [new EXCEPT !.version = @ + 1]]
  /\ history' = history \cup
       (IF new.statement # row.statement THEN {Told(r, row.statement, new.statement, row.version)}
                                         ELSE {})
  /\ Finish(c, Done)
  /\ UNCHANGED <<source, proposals, acts>>

-----------------------------------------------------------------------------
SourceStep(c) ==
  \/ \E s \in Sources :
       \/ \E text \in Texts : CreateJoint(c, s, text) \/ UpdateSource(c, s, text)
       \/ DeleteSource(c, s) \/ ApproveJoint(c, s)
  \/ \E r \in Reqs, heard \in BOOLEAN, effect \in FlushEffects :
       ApproveJoint_Commit(c, r, heard, effect)
  \/ Stale(c) \/ Flush(c)
  \/ \E effect \in FlushEffects : Commit(c, effect)
  \/ Commit_InFlush(c)

ReviewStep(c) ==
  \/ \E i \in DOMAIN proposals :
       \/ \E forced \in BOOLEAN : AcceptProposal(c, i, forced)
       \/ RejectProposal(c, i) \/ BulkAccept_Load(c, i)
       \/ \E j \in DOMAIN proposals : i # j /\ BulkAccept(c, {i, j})
  \/ AcceptProposal_Commit(c) \/ RejectProposal_Commit(c) \/ BulkAccept_Apply(c)

UserStep(c) ==
  \E r \in Reqs :
    \/ LockRequirement(c, r) \/ UnlockRequirement(c, r)
    \/ \E edit \in Edits : EditRequirement(c, r, edit)

Next == \E c \in Calls : SourceStep(c) \/ ReviewStep(c) \/ UserStep(c)

Spec == Init /\ [][Next]_syncVars

-----------------------------------------------------------------------------
(* Properties *)

\* A proposal is accepted or rejected, and a joint approved, once: a second
\* decision on the same row is made only by a request that another one
\* overtook between its check and its commit.
DecidedOnce ==
  \A a, b \in acts :
    a # b /\ a.what = b.what /\ a.on = b.on =>
      a.overtaken \/ b.overtaken

\* sync_locked and review: the statement of a locked requirement changes only by
\* an acceptance that was forced, or that another request overtook since it
\* read the row, or by a user's own edit; and no request that writes a source
\* changes the statement of any requirement.
ProtectedTextStays ==
  [][\A r \in DOMAIN requirement :
       requirement'[r].statement # requirement[r].statement =>
         /\ source' = source
         /\ requirement[r].locked => \A a \in acts' \ acts : a.forced \/ a.overtaken]_syncVars

\* A requirement never outlives its source unnoticed: once the source row is
\* gone, there is an "obsolete" proposal for every requirement generated from
\* it, except one the deletion found locked, deleted or deferred - also when
\* the approval that generated it raced the deletion.
OrphansAreRaised ==
  \A r \in DOMAIN requirement :
    ~Exists(requirement[r].link) =>
      \/ \E i \in DOMAIN proposals :
           proposals[i].req = r /\ proposals[i].type = "obsolete"
      \/ \E c \in Calls : call[c].pc = "done" /\ r \in call[c].skipped

=============================================================================
