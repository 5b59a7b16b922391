------------------------------ MODULE PartNumbers ------------------------------
(***************************************************************************)
(* Part numbers (WPNs): the catalog's approvals and reconciles             *)
(* (routers/catalog.py, services/harold/service.py) and the engineering    *)
(* configurations (services/harold_naming/service.py), which both take     *)
(* numbers from HAROLD, a separate service with its own ledger.            *)
(*                                                                         *)
(* The handlers are coroutines: one event loop per worker process, left    *)
(* only at an "await" of HAROLD.  Their database calls are synchronous, so *)
(* that a statement which waits for a row lock stops the whole worker.     *)
(* Each HAROLD request is two steps: HAROLD acts, the coroutine resumes.   *)
(***************************************************************************)
EXTENDS Naturals, FiniteSets

CONSTANTS
  Imports,     \* pending catalog imports, each of a part of its own
  Configs,     \* engineering configurations
  WpnCalls,    \* requests
  Workers,     \* worker processes
  NoNumber,    \* no number was typed in, or answered
  Typed,       \* user_supplied_wpn of an approval, or NoNumber
  supplierOf,  \* the supplier an import names
  workerOf,    \* the worker that serves a request
  MaxIndex,    \* bound: indexes and revisions HAROLD gives out
  MaxOutages   \* bound: HAROLD outages, failed commits, restarts

PartNumber == [code : {"PART", "CONFIG"}, index : Nat, rev : Nat]

PartAssumption ==
  /\ NoNumber \notin PartNumber
  /\ Typed \subseteq PartNumber \cup {NoNumber}
  /\ workerOf \in [WpnCalls -> Workers]
  /\ MaxIndex \in Nat /\ MaxOutages \in Nat

VARIABLES
  ledger,     \* HAROLD: the numbers that are issued
  suppliers,  \* committed Supplier rows
  imports,    \* PendingCatalogImport.status
  parts,      \* CatalogPart rows: internal_part_number, wpn_pending_sync
  fallback,   \* next_index of the local sequence
  revisions,  \* engineering revision rows: [config, wpn]
  wpnCall,    \* local variables of the requests
  orphans,    \* numbers logged as ORPHAN WPN
  dropped,    \* numbers whose request was lost or rolled back, by cause
  outages

wpnVars == <<ledger, suppliers, imports, parts, fallback, revisions, wpnCall,
             orphans, dropped, outages>>
database == <<suppliers, imports, parts, fallback, revisions>>

AtRest(pc) ==
  [op |-> "none", pc |-> pc, target |-> "none", fresh |-> FALSE,
   typed |-> NoNumber, ask |-> "none", arg |-> NoNumber,
   answer |-> "none", wpn |-> NoNumber]

\* An approval inserts "fresh" suppliers; "ask", "arg": the request to HAROLD.
WpnInit ==
  /\ ledger = {}
  /\ suppliers = {}
  /\ imports = [i \in Imports |-> "pending"]
  /\ parts = {}
  /\ fallback = 1
  /\ revisions = {}
  /\ wpnCall = [c \in WpnCalls |-> AtRest("new")]
  /\ orphans = {}
  /\ dropped = {}
  /\ outages = 0

-----------------------------------------------------------------------------
(* The event loop                                                            *)

Blocked(c) == wpnCall[c].pc = "blocked"
Running(c) == \A d \in WpnCalls : workerOf[d] = workerOf[c] => ~Blocked(d)

\* Approvals whose uncommitted rows an approval of i has to wait for: the
\* part and the import, or the supplier that both insert.
Holders(c, i) ==
  {d \in WpnCalls \ {c} :
     /\ wpnCall[d].op = "approve" /\ wpnCall[d].pc \in {"asking", "answered"}
     /\ \/ wpnCall[d].target = i
        \/ /\ wpnCall[d].fresh /\ supplierOf[i] \notin suppliers
           /\ supplierOf[wpnCall[d].target] = supplierOf[i]}

Active == {c \in WpnCalls : wpnCall[c].pc \notin {"new", "ended"}}

Ask(c, request, arg) ==
  [wpnCall[c] EXCEPT !.pc = "asking", !.ask = request, !.arg = arg,
                  !.answer = "none", !.wpn = NoNumber]
End(c) == wpnCall' = [wpnCall EXCEPT ![c] = AtRest("ended")]

-----------------------------------------------------------------------------
(* HAROLD, as client.py sees it.                                             *)

\* Numbers that HAROLD may issue for a request: the next index of the code,
\* the next letter of an index, or the one that is asked for.
Issuable(request, arg) ==
  LET Indexes(code) == {n.index : n \in {m \in ledger : m.code = code}}
      Next1(S) == {k \in 1 .. MaxIndex : k - 1 \in S \cup {0} /\ \A x \in S : x < k}
      Letters(n) == {m.rev : m \in {x \in ledger : x.code = n.code /\ x.index = n.index}} IN
  CASE request = "issue" ->
         {[code |-> "PART", index |-> k, rev |-> 1] : k \in Next1(Indexes("PART"))}
    [] request = "allocate_next" ->
         {[code |-> "CONFIG", index |-> k, rev |-> 1] : k \in Next1(Indexes("CONFIG"))}
    [] request = "issue_revision" ->
         {[arg EXCEPT !.rev = k] : k \in Next1(Letters(arg))}
    [] request = "issue_specific" -> {arg} \ ledger
    [] OTHER -> {}

Answered(c, answer, wpn) ==
  wpnCall' = [wpnCall EXCEPT ![c].pc = "answered", ![c].answer = answer, ![c].wpn = wpn]

HaroldIssues(c) ==
  /\ wpnCall[c].pc = "asking"
  /\ \E n \in Issuable(wpnCall[c].ask, wpnCall[c].arg) :
       /\ ledger' = ledger \cup {n}
       /\ Answered(c, "ok", n)
  /\ UNCHANGED <<database, orphans, dropped, outages>>

HaroldRefuses(c) ==
  /\ wpnCall[c].pc = "asking"
  /\ wpnCall[c].ask = "issue_specific"
  /\ wpnCall[c].arg \in ledger
  /\ Answered(c, "duplicate", NoNumber)
  /\ UNCHANGED <<ledger, database, orphans, dropped, outages>>

HaroldReleases(c) ==
  /\ wpnCall[c].pc = "asking"
  /\ wpnCall[c].ask = "release"
  /\ ledger' = ledger \ {wpnCall[c].arg}
  /\ Answered(c, "ok", NoNumber)
  /\ UNCHANGED <<database, orphans, dropped, outages>>

\* Refused connection, or an error: nothing was done.
HaroldUnavailable(c) ==
  /\ wpnCall[c].pc = "asking"
  /\ outages < MaxOutages
  /\ outages' = outages + 1
  /\ Answered(c, "unavailable", NoNumber)
  /\ UNCHANGED <<ledger, database, orphans, dropped>>

\* A timeout after HAROLD acted looks the same: HaroldUnavailableError.
HaroldAnswerLost(c) ==
  /\ wpnCall[c].pc = "asking"
  /\ outages < MaxOutages
  /\ outages' = outages + 1
  /\ IF wpnCall[c].ask = "release"
     THEN ledger' = ledger \ {wpnCall[c].arg} /\ UNCHANGED dropped
     ELSE \E n \in Issuable(wpnCall[c].ask, wpnCall[c].arg) :
            /\ ledger' = ledger \cup {n}
            /\ dropped' = dropped \cup {[wpn |-> n, cause |-> "answer"]}
  /\ Answered(c, "unavailable", NoNumber)
  /\ UNCHANGED <<database, orphans>>

-----------------------------------------------------------------------------
(* approve_pending_import                                                    *)

Approve_Read(c, i, typed) ==
  /\ wpnCall[c].pc = "new" /\ Running(c)
  /\ imports[i] = "pending"
  /\ wpnCall' = [wpnCall EXCEPT ![c] =
       [AtRest("read") EXCEPT !.op = "approve", !.target = i, !.typed = typed,
                            !.fresh = supplierOf[i] \notin suppliers]]
  /\ UNCHANGED <<ledger, database, orphans, dropped, outages>>

\* The supplier or the part exists by now: a duplicate part (409), or a unique
\* constraint (500).
ImportTaken(c) ==
  LET i == wpnCall[c].target IN
  \/ \E p \in parts : p.import = i
  \/ wpnCall[c].fresh /\ supplierOf[i] \in suppliers

Ask_Part(c) ==
  IF wpnCall[c].typed = NoNumber THEN Ask(c, "issue", NoNumber)
                              ELSE Ask(c, "issue_specific", wpnCall[c].typed)

\* _approve_pending_import: Supplier, CatalogPart, connectors, pins and the
\* import's new status are flushed in one go, then HAROLD is awaited.
Approve_Insert(c) ==
  LET i == wpnCall[c].target IN
  /\ wpnCall[c].op = "approve" /\ wpnCall[c].pc \in {"read", "blocked"}
  /\ Blocked(c) \/ Running(c)
  /\ ~ImportTaken(c)
  /\ Holders(c, i) = {}
  /\ wpnCall' = [wpnCall EXCEPT ![c] = Ask_Part(c)]
  /\ UNCHANGED <<ledger, database, orphans, dropped, outages>>

Approve_Wait(c) ==
  /\ wpnCall[c].op = "approve" /\ wpnCall[c].pc = "read"
  /\ Running(c) /\ ~ImportTaken(c)
  /\ Holders(c, wpnCall[c].target) # {}
  /\ wpnCall' = [wpnCall EXCEPT ![c].pc = "blocked"]
  /\ UNCHANGED <<ledger, database, orphans, dropped, outages>>

Approve_Taken(c) ==
  /\ wpnCall[c].op = "approve" /\ wpnCall[c].pc \in {"read", "blocked"}
  /\ Blocked(c) \/ Running(c)
  /\ ImportTaken(c)
  /\ End(c)
  /\ UNCHANGED <<ledger, database, orphans, dropped, outages>>

\* issue_wpn_for_catalog_part: an unreachable HAROLD leaves the number that was
\* typed in, or the next one of the local sequence, to be registered later.
Number(c) ==
  IF wpnCall[c].answer = "ok" THEN wpnCall[c].wpn
  ELSE IF wpnCall[c].typed # NoNumber THEN wpnCall[c].typed
  ELSE [code |-> "PART", index |-> fallback, rev |-> 1]

Pending(c) == wpnCall[c].answer # "ok"
UsesFallback(c) == wpnCall[c].answer # "ok" /\ wpnCall[c].typed = NoNumber

\* internal_part_number is unique.
NumberTaken(n, i) == \E p \in parts : p.wpn = n /\ p.import # i

Resumes(c, op) == wpnCall[c].op = op /\ wpnCall[c].pc = "answered" /\ Running(c)

Approve_Commit(c) ==
  LET i == wpnCall[c].target IN
  /\ Resumes(c, "approve") /\ wpnCall[c].answer # "duplicate"
  /\ ~NumberTaken(Number(c), i)
  /\ fallback' = IF UsesFallback(c) THEN fallback + 1 ELSE fallback
  /\ suppliers' = suppliers \cup {supplierOf[i]}
  /\ imports' = [imports EXCEPT ![i] = "approved"]
  /\ parts' = parts \cup
       {[import |-> i, wpn |-> Number(c), pending |-> Pending(c)]}
  /\ End(c)
  /\ UNCHANGED <<ledger, revisions, orphans, dropped, outages>>

\* The number is taken: everything is rolled back, the local sequence with it.
\* What HAROLD issued is not released.
Drop(c) ==
  dropped' = dropped \cup
    {[wpn |-> n, cause |-> "rollback"] : n \in {wpnCall[c].wpn} \ {NoNumber}}

Approve_Rollback(c) ==
  /\ Resumes(c, "approve")
  /\ \/ wpnCall[c].answer = "duplicate" /\ UNCHANGED outages
     \/ /\ wpnCall[c].answer # "duplicate" /\ NumberTaken(Number(c), wpnCall[c].target)
        /\ UNCHANGED outages
     \/ outages < MaxOutages /\ outages' = outages + 1
  /\ Drop(c)
  /\ End(c)
  /\ UNCHANGED <<ledger, database, orphans>>

-----------------------------------------------------------------------------
(* reject_pending_import: in a thread of its own, with no await.             *)

Reject_Read(c, i) ==
  /\ wpnCall[c].pc = "new"
  /\ imports[i] = "pending"
  /\ wpnCall' = [wpnCall EXCEPT ![c] =
       [AtRest("read") EXCEPT !.op = "reject", !.target = i]]
  /\ UNCHANGED <<ledger, database, orphans, dropped, outages>>

\* Its UPDATE waits for that of an approval.
Reject_Commit(c) ==
  LET i == wpnCall[c].target IN
  /\ wpnCall[c].op = "reject" /\ wpnCall[c].pc = "read"
  /\ \A d \in Holders(c, i) : wpnCall[d].target # i
  /\ imports' = [imports EXCEPT ![i] = "rejected"]
  /\ End(c)
  /\ UNCHANGED <<ledger, suppliers, parts, fallback, revisions, orphans, dropped, outages>>

-----------------------------------------------------------------------------
(* post_reconcile                                                            *)

Reconcile_Begin(c, p) ==
  /\ wpnCall[c].pc = "new" /\ Running(c)
  /\ p.pending
  /\ wpnCall' = [wpnCall EXCEPT ![c] =
       [AtRest("asking") EXCEPT !.op = "reconcile", !.target = p.import,
                              !.ask = "issue_specific", !.arg = p.wpn]]
  /\ UNCHANGED <<ledger, database, orphans, dropped, outages>>

\* Registered as it is: only the flag is written, over whatever number the
\* row has by now.
Reconcile_Registered(c) ==
  /\ Resumes(c, "reconcile")
  /\ wpnCall[c].answer = "ok" /\ wpnCall[c].ask = "issue_specific"
  /\ parts' = {IF p.import = wpnCall[c].target THEN [p EXCEPT !.pending = FALSE] ELSE p :
                 p \in parts}
  /\ End(c)
  /\ UNCHANGED <<ledger, suppliers, imports, fallback, revisions, orphans, dropped, outages>>

\* 409: "someone else got there first".
Reconcile_Reissue(c) ==
  /\ Resumes(c, "reconcile") /\ wpnCall[c].answer = "duplicate"
  /\ wpnCall' = [wpnCall EXCEPT ![c] = Ask(c, "issue", NoNumber)]
  /\ UNCHANGED <<ledger, database, orphans, dropped, outages>>

Reconcile_Renumber(c) ==
  /\ Resumes(c, "reconcile")
  /\ wpnCall[c].answer = "ok" /\ wpnCall[c].ask = "issue"
  /\ ~NumberTaken(wpnCall[c].wpn, wpnCall[c].target)
  /\ parts' = {IF p.import = wpnCall[c].target
               THEN [p EXCEPT !.pending = FALSE, !.wpn = wpnCall[c].wpn] ELSE p :
                 p \in parts}
  /\ End(c)
  /\ UNCHANGED <<ledger, suppliers, imports, fallback, revisions, orphans, dropped, outages>>

\* HAROLD is down, or the commit fails.
Reconcile_GiveUp(c) ==
  /\ Resumes(c, "reconcile")
  /\ \/ wpnCall[c].answer = "unavailable" /\ UNCHANGED outages
     \/ wpnCall[c].ask = "issue" /\ wpnCall[c].answer = "ok"
        /\ NumberTaken(wpnCall[c].wpn, wpnCall[c].target) /\ UNCHANGED outages
     \/ wpnCall[c].answer = "ok" /\ outages < MaxOutages /\ outages' = outages + 1
  /\ Drop(c)
  /\ End(c)
  /\ UNCHANGED <<ledger, database, orphans>>

-----------------------------------------------------------------------------
(* create_config and create_config_revision                                  *)

\* Every create makes a configuration of its own.
Config_Create(c, g) ==
  /\ wpnCall[c].pc = "new" /\ Running(c)
  /\ \A r \in revisions : r.config # g
  /\ \A d \in WpnCalls : wpnCall[d].op = "persist" => wpnCall[d].target # g
  /\ wpnCall' = [wpnCall EXCEPT ![c] =
       [AtRest("asking") EXCEPT !.op = "persist", !.target = g, !.ask = "allocate_next"]]
  /\ UNCHANGED <<ledger, database, orphans, dropped, outages>>

LatestRevision(r) == \A q \in revisions : q.config = r.config => q.wpn.rev <= r.wpn.rev

Config_Revise(c, r) ==
  /\ wpnCall[c].pc = "new" /\ Running(c)
  /\ LatestRevision(r)
  /\ wpnCall' = [wpnCall EXCEPT ![c] =
       [AtRest("asking") EXCEPT !.op = "persist", !.target = r.config,
                              !.ask = "issue_revision", !.arg = r.wpn]]
  /\ UNCHANGED <<ledger, database, orphans, dropped, outages>>

\* allocate_and_persist: HAROLD first, then the row.
Persist_Commit(c) ==
  /\ Resumes(c, "persist") /\ wpnCall[c].ask # "release" /\ wpnCall[c].answer = "ok"
  /\ revisions' = revisions \cup {[config |-> wpnCall[c].target, wpn |-> wpnCall[c].wpn]}
  /\ End(c)
  /\ UNCHANGED <<ledger, suppliers, imports, parts, fallback, orphans, dropped, outages>>

\* HAROLD was down: nothing was allocated, as far as ASTRA knows.
Persist_NoNumber(c) ==
  /\ Resumes(c, "persist") /\ wpnCall[c].ask # "release"
  /\ wpnCall[c].answer = "unavailable"
  /\ End(c)
  /\ UNCHANGED <<ledger, database, orphans, dropped, outages>>

\* Mutant: the number is not given back.
Release_Forgets(c) == AtRest("ended")

Release(c) == Ask(c, "release", wpnCall[c].wpn)

Persist_Fail(c) ==
  /\ Resumes(c, "persist") /\ wpnCall[c].ask # "release" /\ wpnCall[c].answer = "ok"
  /\ outages < MaxOutages
  /\ outages' = outages + 1
  /\ wpnCall' = [wpnCall EXCEPT ![c] = Release(c)]
  /\ UNCHANGED <<ledger, database, orphans, dropped>>

\* HaroldOrphanWpnError and the CRITICAL log entry when even that fails.
Persist_Released(c) ==
  /\ Resumes(c, "persist") /\ wpnCall[c].ask = "release"
  /\ orphans' = IF wpnCall[c].answer = "ok" THEN orphans ELSE orphans \cup {wpnCall[c].arg}
  /\ End(c)
  /\ UNCHANGED <<ledger, database, dropped, outages>>

-----------------------------------------------------------------------------
\* A worker is restarted: its requests are gone, its transactions rolled back.
InHand(c) == {wpnCall[c].wpn} \cup (IF wpnCall[c].ask = "release" THEN {wpnCall[c].arg} ELSE {})

Restart(w) ==
  LET gone == {c \in Active : workerOf[c] = w} IN
  /\ gone # {}
  /\ outages < MaxOutages
  /\ outages' = outages + 1
  /\ wpnCall' = [c \in WpnCalls |-> IF c \in gone THEN AtRest("ended") ELSE wpnCall[c]]
  /\ dropped' = dropped \cup
       {[wpn |-> n, cause |-> "restart"] :
          n \in (UNION {InHand(c) : c \in gone}) \ {NoNumber}}
  /\ UNCHANGED <<ledger, database, orphans>>

HaroldStep(c) ==
  \/ HaroldIssues(c) \/ HaroldRefuses(c) \/ HaroldReleases(c)

WpnCallStep(c) ==
  \/ Approve_Insert(c) \/ Approve_Wait(c) \/ Approve_Taken(c) \/ Approve_Commit(c)
  \/ Approve_Rollback(c)
  \/ Reject_Commit(c)
  \/ Reconcile_Registered(c) \/ Reconcile_Reissue(c) \/ Reconcile_Renumber(c)
  \/ Reconcile_GiveUp(c)
  \/ Persist_Commit(c) \/ Persist_NoNumber(c) \/ Persist_Fail(c) \/ Persist_Released(c)

WpnNext ==
  \/ \E c \in WpnCalls :
       \/ \E i \in Imports, typed \in Typed : Approve_Read(c, i, typed)
       \/ \E i \in Imports : Reject_Read(c, i)
       \/ \E p \in parts : Reconcile_Begin(c, p)
       \/ \E g \in Configs : Config_Create(c, g)
       \/ \E r \in revisions : Config_Revise(c, r)
       \/ WpnCallStep(c) \/ HaroldStep(c) \/ HaroldUnavailable(c) \/ HaroldAnswerLost(c)
  \/ \E w \in Workers : Restart(w)

WpnSpec == WpnInit /\ [][WpnNext]_wpnVars

-----------------------------------------------------------------------------
(* Properties *)

\* "The ledger must never drift silently" (allocate_and_persist). What ASTRA
\* takes for issued is in it: the number of every part that is not flagged
\* wpn_pending_sync, and of every revision. And an engineering number of it that
\* nobody typed in for a part is that of a revision or of a request in progress,
\* was reported as an orphan, or went with an answer that was lost or a worker
\* that died.
LedgerIsAccounted ==
  /\ \A p \in parts : p.pending \/ p.wpn \in ledger
  /\ \A r \in revisions : r.wpn \in ledger
  /\ \A n \in ledger : n.code = "CONFIG" /\ n \notin Typed =>
       \/ n \in {r.wpn : r \in revisions} \cup orphans
       \/ \E c \in WpnCalls : n \in InHand(c)
       \/ \E d \in dropped : d.wpn = n /\ d.cause \in {"answer", "restart"}
=============================================================================
