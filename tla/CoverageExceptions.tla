-------------------------- MODULE CoverageExceptions --------------------------
(***************************************************************************)
(* The coverage exceptions of backend/app/routers/coverage.py: a project   *)
(* manager files "this requirement has no source", an administrator reads  *)
(* the list and co-signs. There is one row per requirement, overwritten by *)
(* a new filing. Neither request locks the row or names the filing it is   *)
(* about, and an UPDATE sets only the columns whose value differs from the *)
(* one that was loaded.                                                    *)
(***************************************************************************)
EXTENDS Naturals

CONSTANTS
  Excusable,   \* requirements of the project
  Filings,     \* requests to file an exception, each made once
  Cosigns,     \* decisions to co-sign, each from the list to the commit
  Reasons,     \* texts of an exception
  Admins,
  Lives,       \* expiry dates, as ticks of the clock
  NoRow, NoAdmin,
  MaxDays       \* bound: the clock

\* Rows of the table; no row is one, and nobody signs as no administrator.
RowType == [reason : Reasons, expires : Lives, approved : Admins \cup {NoAdmin},
            reviewed : {NoRow} \cup (Reasons \X Lives)]
ExceptionsAssumption == NoRow \notin RowType /\ NoAdmin \notin Admins

VARIABLES
  exceptions,  \* CoverageException rows, by requirement
  filing,      \* file_coverage_exception, one per request
  cosign,      \* list_coverage_exceptions, then cosign_coverage_exception
  raced,       \* history: rows a filing and a co-sign have met on
  clock

exceptionVars == <<exceptions, filing, cosign, raced, clock>>

\* "reviewed" is what the co-signer was shown; no column holds it.
Filed(reason, expires) ==
  [reason |-> reason, expires |-> expires,
   approved |-> NoAdmin, reviewed |-> NoRow]

Text(row) == <<row.reason, row.expires>>

ExceptionsInit ==
  /\ exceptions = [r \in Excusable |-> NoRow]
  /\ filing = [f \in Filings |-> [pc |-> "idle"]]
  /\ cosign = [c \in Cosigns |-> [pc |-> "idle"]]
  /\ raced = {}
  /\ clock = 0

FilingOf(r) == \E f \in Filings : filing[f].pc = "loaded" /\ filing[f].req = r
CosignOf(r) ==
  \E c \in Cosigns : cosign[c].pc \in {"listed", "loaded"} /\ cosign[c].req = r

-----------------------------------------------------------------------------
(* file_coverage_exception: SELECT, then INSERT or UPDATE, then commit.      *)

LoadFiling(f, r, reason, expires) ==
  /\ filing[f].pc = "idle"
  /\ filing' = [filing EXCEPT ![f] =
       [pc |-> "loaded", req |-> r, seen |-> exceptions[r],
        row |-> Filed(reason, expires)]]
  /\ UNCHANGED <<exceptions, cosign, raced, clock>>

\* Mutant: the co-sign of the old reason is left where it is.
Refiled_KeepsCosign(row, seen, new) ==
  [row EXCEPT
     !.reason = IF seen.reason = new.reason THEN @ ELSE new.reason,
     !.expires = IF seen.expires = new.expires THEN @ ELSE new.expires]

\* The columns that differ from the loaded row: the co-sign is cleared only
\* if the filing saw one.
Refiled(row, seen, new) ==
  [row EXCEPT
     !.reason = IF seen.reason = new.reason THEN @ ELSE new.reason,
     !.expires = IF seen.expires = new.expires THEN @ ELSE new.expires,
     !.approved = IF seen.approved = NoAdmin THEN @ ELSE NoAdmin]

\* uq_coverage_exception_req refuses the second of two first filings.
CommitFiling(f) ==
  LET call == filing[f]
      r    == call.req IN
  /\ call.pc = "loaded"
  /\ filing' = [filing EXCEPT ![f] = [pc |-> "done"]]
  /\ IF call.seen # NoRow
     THEN exceptions' = [exceptions EXCEPT ![r] = Refiled(@, call.seen, call.row)]
     ELSE exceptions' = [exceptions EXCEPT ![r] = IF @ = NoRow THEN call.row ELSE @]
  /\ raced' = raced \cup {q \in {r} : CosignOf(q)}
  /\ UNCHANGED <<cosign, clock>>

-----------------------------------------------------------------------------
(* An administrator reads GET /coverage/exceptions and decides; the request  *)
(* carries the id of the row and nothing of what was read.                   *)

List(c, a, r) ==
  /\ cosign[c].pc = "idle"
  /\ exceptions[r] # NoRow
  /\ cosign' = [cosign EXCEPT ![c] =
       [pc |-> "listed", req |-> r, admin |-> a, shown |-> Text(exceptions[r])]]
  /\ UNCHANGED <<exceptions, filing, raced, clock>>

\* is_active is never set to FALSE: the check of it refuses nothing.
LoadCosign(c) ==
  /\ cosign[c].pc = "listed"
  /\ cosign' = [cosign EXCEPT ![c] =
       [pc |-> "loaded", req |-> @.req, admin |-> @.admin, shown |-> @.shown,
        seen |-> exceptions[@.req].approved]]
  /\ UNCHANGED <<exceptions, filing, raced, clock>>

\* approved_by_id is written unless the loaded row has this administrator.
Cosigned(row, call) ==
  IF call.seen = call.admin THEN row
  ELSE [row EXCEPT !.approved = call.admin, !.reviewed = call.shown]

CommitCosign(c) ==
  LET call == cosign[c]
      r    == call.req IN
  /\ call.pc = "loaded"
  /\ cosign' = [cosign EXCEPT ![c] = [pc |-> "done"]]
  /\ exceptions' = [exceptions EXCEPT ![r] = Cosigned(@, call)]
  /\ raced' = raced \cup {q \in {r} : FilingOf(q)}
  /\ UNCHANGED <<filing, clock>>

\* A request that dies before its commit leaves the row as it was.
DropFiling(f) ==
  /\ filing[f].pc = "loaded"
  /\ filing' = [filing EXCEPT ![f] = [pc |-> "done"]]
  /\ UNCHANGED <<exceptions, cosign, raced, clock>>

DropCosign(c) ==
  /\ cosign[c].pc \in {"listed", "loaded"}
  /\ cosign' = [cosign EXCEPT ![c] = [pc |-> "done"]]
  /\ UNCHANGED <<exceptions, filing, raced, clock>>

DayPasses ==
  /\ clock < MaxDays
  /\ clock' = clock + 1
  /\ UNCHANGED <<exceptions, filing, cosign, raced>>

ExceptionsNext ==
  \/ \E f \in Filings :
       \/ \E r \in Excusable, reason \in Reasons, expires \in Lives :
            LoadFiling(f, r, reason, expires)
       \/ CommitFiling(f)
       \/ DropFiling(f)
  \/ \E c \in Cosigns :
       \/ \E a \in Admins, r \in Excusable : List(c, a, r)
       \/ LoadCosign(c)
       \/ CommitCosign(c)
       \/ DropCosign(c)
  \/ DayPasses

ExceptionsSpec == ExceptionsInit /\ [][ExceptionsNext]_exceptionVars

-----------------------------------------------------------------------------
\* expires_at <= now ends an exception, whatever was signed.
Unexpired(row) == row # NoRow /\ row.expires > clock
Excuses(r) == Unexpired(exceptions[r]) /\ exceptions[r].approved # NoAdmin

(* An exception that excuses a requirement has the reason and the expiry     *)
(* that its co-signer read: filing it again takes the co-sign back           *)
(* (routers/coverage.py:233), unless the filing and the co-sign met on the   *)
(* row, between the list the administrator read and the commit.              *)
ExcusedAsReviewed ==
  \A r \in Excusable \ raced :
    Excuses(r) => exceptions[r].reviewed = Text(exceptions[r])
===============================================================================
