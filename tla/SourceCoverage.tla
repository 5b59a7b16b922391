---------------------------- MODULE SourceCoverage ----------------------------
(***************************************************************************)
(* Which requirements have an architectural source                         *)
(* (backend/app/services/coverage/): a link to one, an exception, or an    *)
(* ancestor that has. The rule is written twice: in Python over the tables *)
(* (source_validator.py, ?live=true), and in the SQL of a materialized     *)
(* view (migration 0025), which a report reads by default and which is     *)
(* recomputed after a bulk acceptance and, where APScheduler is installed, *)
(* every ten minutes.                                                      *)
(***************************************************************************)
EXTENDS Naturals, FiniteSets

CONSTANTS
  Needs,       \* ids of Requirement rows
  Level,       \* level of each
  Worlds,      \* rows and links when the system starts
  NoParent,
  MaxEdits     \* bound: requests after that

States == {"absent", "live", "deleted"}
CoverageAssumption ==
  /\ IsFiniteSet(Needs)
  /\ Worlds \subseteq [need : [Needs -> States], above : [Needs -> Needs \cup {NoParent}],
                      traces : SUBSET (Needs \X Needs), sourced : SUBSET Needs,
                      excuse : [Needs -> {"none", "pending", "cosigned"}]]
  /\ \A w \in Worlds : \A r \in w.sourced : w.need[r] # "absent"

VARIABLES
  need,        \* status: "absent", "live" or "deleted", by requirement
  above,       \* parent_id
  traces,      \* decomposition and satisfaction links <<source_id, target_id>>
  sourced,     \* requirements that a RequirementSourceLink names
  excuse,      \* exceptions in force: "none", "pending" or "cosigned"
  view,        \* severities in mv_requirement_source_coverage
  stale,       \* history: the tables have changed since the last refresh
  edits

coverageVars ==
  <<need, above, traces, sourced, excuse, view, stale, edits>>

LiveNeeds == {r \in Needs : need[r] = "live"}

-----------------------------------------------------------------------------
(* _compute_severity, and the CASE of the view.                              *)

Severity(level, direct, traced, cosigned, pending) ==
  IF level = "L1" \/ direct \/ cosigned \/ (level \in {"L2", "L4", "L5"} /\ traced) THEN "ok"
  ELSE IF level = "L2" \/ (level = "L5" /\ pending) THEN "warning"
  ELSE "error"

Rank == [ok |-> 0, warning |-> 1, error |-> 2]

-----------------------------------------------------------------------------
(* _live_coverage_state                                                      *)

\* Source links of a deleted requirement are not looked up, its exception is.
Direct == LiveNeeds \cap sourced
CosignedNeeds == {r \in Needs : excuse[r] = "cosigned"}

\* From child to parent: the source of a trace link is the child.
ParentsMap ==
  traces \cup {<<r, above[r]>> : r \in {q \in LiveNeeds : above[q] # NoParent}}

\* One pass over parents_map, in the order that covers least: no requirement
\* is visited after a parent that the same pass covers.
Pass(covered) ==
  covered \cup {r \in Needs : \E p \in covered : <<r, p>> \in ParentsMap}

\* Mutant: one pass, as in the view.
Rounds_One == 1

\* len(reqs) + 1, "to guarantee termination even on a cycle".
Rounds == Cardinality(LiveNeeds) + 1

CoveredAfter[n \in Nat] ==
  IF n = 0 THEN Direct \cup CosignedNeeds ELSE Pass(CoveredAfter[n - 1])
Covered == CoveredAfter[Rounds]

LiveSeverity(r) ==
  Severity(Level[r], r \in Direct,
           r \in Covered \ (Direct \cup CosignedNeeds),
           r \in CosignedNeeds, excuse[r] = "pending")

-----------------------------------------------------------------------------
(* The view: one hop, along trace links only, to whatever row they name.     *)

\* Mutant: the view takes the target of a link for the child.
ViewTraced_Reversed(r) ==
  \E p \in Needs : <<p, r>> \in traces /\ (p \in sourced \/ p \in CosignedNeeds)

ViewTraced(r) ==
  \E p \in Needs : <<r, p>> \in traces /\ (p \in sourced \/ p \in CosignedNeeds)

ViewRows ==
  [r \in LiveNeeds |->
     Severity(Level[r], r \in sourced, ViewTraced(r),
              r \in CosignedNeeds, excuse[r] = "pending")]

-----------------------------------------------------------------------------
CoverageInit ==
  /\ \E w \in Worlds :
       /\ need = w.need
       /\ above = w.above
       /\ traces = w.traces
       /\ sourced = w.sourced
       /\ excuse = w.excuse
  /\ view = ViewRows
  /\ stale = FALSE
  /\ edits = 0

Edited ==
  /\ edits < MaxEdits
  /\ edits' = edits + 1
  /\ stale' = TRUE
  /\ UNCHANGED view

\* The parent is given when the requirement is created.
CreateNeed(r, p) ==
  /\ Edited
  /\ need[r] = "absent"
  /\ p # NoParent => need[p] # "absent"
  /\ need' = [need EXCEPT ![r] = "live"]
  /\ above' = [above EXCEPT ![r] = p]
  /\ UNCHANGED <<traces, sourced, excuse>>

\* Deleting is soft and leaves links, sources and exceptions alone.
DeleteNeed(r) ==
  /\ Edited
  /\ need[r] = "live"
  /\ need' = [need EXCEPT ![r] = "deleted"]
  /\ UNCHANGED <<above, traces, sourced, excuse>>

RestoreNeed(r) ==
  /\ Edited
  /\ need[r] = "deleted"
  /\ need' = [need EXCEPT ![r] = "live"]
  /\ UNCHANGED <<above, traces, sourced, excuse>>

\* PATCH parent_id.
MoveNeed(r, p) ==
  /\ Edited
  /\ need[r] # "absent"
  /\ p # NoParent => need[p] # "absent"
  /\ above' = [above EXCEPT ![r] = p]
  /\ UNCHANGED <<need, traces, sourced, excuse>>

\* create_trace_link asks that both rows exist, deleted or not.
LinkNeeds(r, p) ==
  /\ Edited
  /\ need[r] # "absent" /\ need[p] # "absent"
  /\ traces' = traces \cup {<<r, p>>}
  /\ UNCHANGED <<need, above, sourced, excuse>>

UnlinkNeeds(t) ==
  /\ Edited
  /\ traces' = traces \ {t}
  /\ UNCHANGED <<need, above, sourced, excuse>>

\* approve_joint makes requirements that have their source; nothing ever takes
\* a source away. Other sources are older: migration 0023 copied them.
GenerateNeed(r) ==
  /\ Edited
  /\ need[r] = "absent" /\ Level[r] = "L3"
  /\ need' = [need EXCEPT ![r] = "live"]
  /\ sourced' = sourced \cup {r}
  /\ UNCHANGED <<above, traces, excuse>>

\* Filing (again), co-signing, and the passing of expires_at.
FileExcuse(r) ==
  /\ Edited
  /\ need[r] # "absent"
  /\ excuse' = [excuse EXCEPT ![r] = "pending"]
  /\ UNCHANGED <<need, above, traces, sourced>>

CosignExcuse(r) ==
  /\ Edited
  /\ excuse[r] = "pending"
  /\ excuse' = [excuse EXCEPT ![r] = "cosigned"]
  /\ UNCHANGED <<need, above, traces, sourced>>

ExpireExcuse(r) ==
  /\ Edited
  /\ excuse[r] # "none"
  /\ excuse' = [excuse EXCEPT ![r] = "none"]
  /\ UNCHANGED <<need, above, traces, sourced>>

\* refresh_coverage_mv: concurrently, or blocking if that fails; one that
\* fails both ways is no step.
Refresh ==
  /\ view' = ViewRows
  /\ stale' = FALSE
  /\ UNCHANGED <<need, above, traces, sourced, excuse, edits>>

CoverageNext ==
  \/ \E r \in Needs :
       \/ \E p \in Needs \cup {NoParent} : CreateNeed(r, p) \/ MoveNeed(r, p)
       \/ DeleteNeed(r)
       \/ RestoreNeed(r)
       \/ \E p \in Needs : LinkNeeds(r, p)
       \/ GenerateNeed(r)
       \/ FileExcuse(r)
       \/ CosignExcuse(r)
       \/ ExpireExcuse(r)
  \/ \E t \in traces : UnlinkNeeds(t)
  \/ Refresh

CoverageSpec == CoverageInit /\ [][CoverageNext]_coverageVars

-----------------------------------------------------------------------------
\* The least set with the requirements covered by themselves and the children
\* of its members.
ClosedBelow(S) ==
  /\ Direct \cup CosignedNeeds \subseteq S
  /\ \A edge \in ParentsMap : edge[2] \in S => edge[1] \in S

Descendants == LET closed == {S \in SUBSET Needs : ClosedBelow(S)}
               IN  {r \in Needs : \A S \in closed : r \in S}

\* Rows of parents_map a pass may have to wait for, deleted ones included.
Waiting == {edge[1] : edge \in ParentsMap} \ (Direct \cup CosignedNeeds)

(* The live report finds every covered ancestor, however far up and over     *)
(* whatever cycles of links and parents (source_validator.py:10-17), and no  *)
(* other: the bound on its passes never cuts a chain short, unless more than *)
(* one deleted requirement is linked into it.                                *)
LiveFindsAncestors ==
  Cardinality(Waiting) <= Cardinality(LiveNeeds) + 1 =>
    LiveNeeds \cap Covered = LiveNeeds \cap Descendants

(* A report read from a view that is up to date has a row for every          *)
(* requirement that is not deleted, and no row is better than the tables     *)
(* say: the two versions of the rule differ on the side of caution. The one  *)
(* exception is a link to a deleted requirement that still has its source,   *)
(* which the view counts and the tables do not.                              *)
ReportIsCautious ==
  ~stale =>
    /\ DOMAIN view = LiveNeeds
    /\ \A r \in LiveNeeds :
         \/ Rank[view[r]] >= Rank[LiveSeverity(r)]
         \/ \E p \in sourced : need[p] = "deleted" /\ <<r, p>> \in traces
===============================================================================
