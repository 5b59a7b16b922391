------------------------- MODULE RequirementLifecycle -------------------------
(***************************************************************************)
(* The requirement records of backend/app/routers/requirements.py (create, *)
(* update, delete, bulk-delete, restore, clone) and the baselines of       *)
(* backend/app/routers/baselines.py, with each request in a thread of its  *)
(* own against one database at READ COMMITTED.                             *)
(*                                                                         *)
(* A request loads Requirement rows, decides from them, and commits once.  *)
(* Nothing locks a row or compares its version between the two, and the    *)
(* UPDATE that SQLAlchemy emits sets only the columns that were assigned a *)
(* new value: a stale writer leaves the other columns alone.               *)
(*                                                                         *)
(* The synchronisations of services/integrations/base.py write the same    *)
(* rows, and no history.  The other writers (req_sync, auto_requirements,  *)
(* interface) commit what update_requirement does: the columns, a version  *)
(* one up and a history row for each.  Title and statement are one text.   *)
(***************************************************************************)
EXTENDS Naturals, FiniteSets

CONSTANTS
  Reqs,          \* ids of Requirement rows, present or yet to be created
  Calls,         \* requests to the two routers, each made once
  Statements,    \* texts of requirements: statements and rationales
  Texts,         \* what a new requirement is made of
  InitialRows,   \* Requirement rows when the system starts, by id
  Patches,       \* bodies of PATCH /requirements/{id}, by field
  Batches,       \* bodies of POST /requirements/bulk-delete
  Fetches,       \* requirements whose items an import may fetch together
  Names,         \* baseline names
  MaxAborts      \* bound: requests that die before they commit

\* RequirementUpdate.status may name any status; these nine have a row here.
ALLOWED_TRANSITIONS ==
  [draft        |-> {"under_review", "deleted"},
   under_review |-> {"approved", "draft", "deleted"},
   approved     |-> {"baselined", "under_review", "deleted"},
   baselined    |-> {"approved", "deleted"},
   implemented  |-> {"verified", "approved", "deleted"},
   verified     |-> {"validated", "approved", "deleted"},
   validated    |-> {"approved", "deleted"},
   deferred     |-> {"draft", "deleted"},
   deleted      |-> {"draft"}]

Statuses == DOMAIN ALLOWED_TRANSITIONS
Fields   == {"status", "statement", "rationale"}
Row      == [status : Statuses, statement : Statements, rationale : Statements,
             version : Nat]

\* Bodies name columns of a requirement, and values they can have.
ASSUME RecordsAssumption ==
  /\ DOMAIN InitialRows \subseteq Reqs
  /\ \A r \in DOMAIN InitialRows : InitialRows[r] \in Row
  /\ \A patch \in Patches :
       /\ DOMAIN patch \subseteq Fields
       /\ "status" \in DOMAIN patch => patch.status \in Statuses
       /\ \A f \in DOMAIN patch \ {"status"} : patch[f] \in Statements
  /\ Texts \subseteq [statement : Statements, rationale : Statements]

VARIABLES
  requirement,  \* the Requirement rows that exist, by id
  history,      \* RequirementHistory rows; "at" is the commit that wrote one
  untold,       \* the rows a synchronisation would have written, had it any
  baselines,    \* Baseline rows, each with its BaselineRequirement rows
  call,         \* the local variables of each request
  commits       \* commits so far: the order of changed_at

recordVars == <<requirement, history, untold, baselines, call, commits>>

Init ==
  /\ requirement = InitialRows
  /\ history = {}
  /\ untold = {}
  /\ baselines = {}
  /\ call = [c \in Calls |-> [pc |-> "idle"]]
  /\ commits = 0

-----------------------------------------------------------------------------
(* update_requirement, delete_requirement, restore_requirement: the row is   *)
(* loaded and the change worked out from it.                                 *)

\* A requirement the call is going to change: the row it loaded and the
\* columns it assigned.
Change(seen, set) == [seen |-> seen, set |-> set]

\* Fields whose new value equals the loaded one are skipped.
Changed(row, patch) ==
  [f \in {g \in DOMAIN patch : patch[g] # row[g]} |-> patch[f]]

StatusAllowed(row, patch) ==
  "status" \in DOMAIN patch =>
    patch.status \in {row.status} \cup ALLOWED_TRANSITIONS[row.status]

Load(c, r, change) ==
  /\ call[c].pc = "idle"
  /\ call' = [call EXCEPT ![c] =
       [pc |-> "writing", changes |-> [q \in {r} |-> change]]]
  /\ UNCHANGED <<requirement, history, untold, baselines, commits>>

UpdateRequirement(c, r, patch) ==
  /\ r \in DOMAIN requirement
  /\ StatusAllowed(requirement[r], patch)
  /\ Load(c, r, Change(requirement[r], Changed(requirement[r], patch)))

\* Requirements are only ever soft-deleted.
SoftDelete == [status |-> "deleted"]

DeleteRequirement(c, r) ==
  /\ r \in DOMAIN requirement
  /\ requirement[r].status # "deleted"
  /\ Load(c, r, Change(requirement[r], SoftDelete))

RestoreRequirement(c, r) ==
  /\ r \in DOMAIN requirement
  /\ requirement[r].status = "deleted"
  /\ Load(c, r, Change(requirement[r], [status |-> "draft"]))

-----------------------------------------------------------------------------
(* bulk_delete_requirements loads its rows one after the other, skips those  *)
(* that are missing or deleted already, and commits once.                    *)

BulkDelete_Begin(c, batch) ==
  /\ call[c].pc = "idle"
  /\ call' = [call EXCEPT ![c] =
       [pc |-> "examining", todo |-> batch, changes |-> [q \in {} |-> {}]]]
  /\ UNCHANGED <<requirement, history, untold, baselines, commits>>

Deletable(r) == r \in DOMAIN requirement /\ requirement[r].status # "deleted"

BulkDelete_Examine(c, r) ==
  LET known == call[c].changes
      todo == call[c].todo \ {r} IN
  /\ call[c].pc = "examining"
  /\ r \in call[c].todo
  /\ call' = [call EXCEPT ![c] =
       [pc |-> IF todo = {} THEN "writing" ELSE "examining", todo |-> todo,
        changes |-> [q \in DOMAIN known \cup {s \in {r} : Deletable(s)} |->
                       IF q = r THEN Change(requirement[r], SoftDelete)
                                ELSE known[q]]]]
  /\ UNCHANGED <<requirement, history, untold, baselines, commits>>

-----------------------------------------------------------------------------
(* The commit of update, delete, bulk-delete and restore.                    *)

\* Mutant: the UPDATE sets every column, with the values that were loaded.
Apply_WholeRow(row, change) ==
  [f \in DOMAIN row |->
     IF f = "version" THEN change.seen.version + 1
     ELSE IF f \in DOMAIN change.set THEN change.set[f] ELSE change.seen[f]]

\* The assigned columns, and the loaded version plus one, always assigned.
Apply(row, change) ==
  [f \in DOMAIN row |->
     IF f = "version" THEN change.seen.version + 1
     ELSE IF f \in DOMAIN change.set THEN change.set[f] ELSE row[f]]

HistoryRow(c, r, f, old, new, version) ==
  [call |-> c, req |-> r, field |-> f, old |-> old, new |-> new,
   version |-> version, at |-> commits + 1]

\* One row per changed field, with the value and the version that were loaded.
HistoryOf(c, r, change) ==
  {HistoryRow(c, r, f, change.seen[f], change.set[f], change.seen.version) :
     f \in DOMAIN change.set}

Commit(c) ==
  LET changes == call[c].changes IN
  /\ call[c].pc = "writing"
  /\ requirement' = [r \in DOMAIN requirement |->
       IF r \in DOMAIN changes THEN Apply(requirement[r], changes[r])
                               ELSE requirement[r]]
  /\ history' = history \cup UNION {HistoryOf(c, r, changes[r]) : r \in DOMAIN changes}
  /\ commits' = commits + 1
  /\ call' = [call EXCEPT ![c] = [pc |-> "done"]]
  /\ UNCHANGED <<untold, baselines>>

-----------------------------------------------------------------------------
(* create_requirement commits the row and then, again, its history row;      *)
(* clone_requirement commits both at once.                                   *)

NewRow(text) == [status |-> "draft", statement |-> text.statement,
                 rationale |-> text.rationale, version |-> 1]

CreateRequirement(c, r, text) ==
  /\ call[c].pc = "idle"
  /\ r \in Reqs \ DOMAIN requirement
  /\ requirement' = [q \in DOMAIN requirement \cup {r} |->
       IF q = r THEN NewRow(text) ELSE requirement[q]]
  /\ commits' = commits + 1
  /\ call' = [call EXCEPT ![c] = [pc |-> "created", req |-> r]]
  /\ UNCHANGED <<history, untold, baselines>>

CreateRequirement_History(c) ==
  /\ call[c].pc = "created"
  /\ history' = history \cup {HistoryRow(c, call[c].req, "created", "", "", 1)}
  /\ commits' = commits + 1
  /\ call' = [call EXCEPT ![c] = [pc |-> "done"]]
  /\ UNCHANGED <<requirement, untold, baselines>>

CloneRequirement(c, source) ==
  /\ call[c].pc = "idle"
  /\ source \in DOMAIN requirement
  /\ call' = [call EXCEPT ![c] =
       [pc |-> "cloning", text |-> [statement |-> requirement[source].statement,
                                    rationale |-> requirement[source].rationale]]]
  /\ UNCHANGED <<requirement, history, untold, baselines, commits>>

CloneRequirement_Commit(c, r) ==
  /\ call[c].pc = "cloning"
  /\ r \in Reqs \ DOMAIN requirement
  /\ requirement' = [q \in DOMAIN requirement \cup {r} |->
       IF q = r THEN NewRow(call[c].text) ELSE requirement[q]]
  /\ history' = history \cup {HistoryRow(c, r, "created", "", "", 1)}
  /\ commits' = commits + 1
  /\ call' = [call EXCEPT ![c] = [pc |-> "done"]]
  /\ UNCHANGED <<untold, baselines>>

-----------------------------------------------------------------------------
(* create_baseline: the name is looked up, every live requirement is read by *)
(* one SELECT, and the baseline is committed with its snapshots.             *)

CreateBaseline_Check(c, name) ==
  /\ call[c].pc = "idle"
  /\ \A b \in baselines : b.name # name
  /\ call' = [call EXCEPT ![c] = [pc |-> "named", name |-> name, rows |-> <<>>]]
  /\ UNCHANGED <<requirement, history, untold, baselines, commits>>

\* Mutant: soft-deleted requirements are snapshotted with the rest.
Live_All == DOMAIN requirement

Live == {r \in DOMAIN requirement : requirement[r].status # "deleted"}

CreateBaseline_Snapshot(c) ==
  /\ call[c].pc = "named"
  /\ Live # {}
  /\ call' = [call EXCEPT ![c] =
       [pc |-> "snapshot", name |-> call[c].name,
        rows |-> [r \in Live |-> requirement[r]]]]
  /\ UNCHANGED <<requirement, history, untold, baselines, commits>>

CreateBaseline_Commit(c) ==
  /\ call[c].pc = "snapshot"
  /\ baselines' = baselines \cup
       {[id |-> c, name |-> call[c].name, rows |-> call[c].rows]}
  /\ commits' = commits + 1
  /\ call' = [call EXCEPT ![c] = [pc |-> "done"]]
  /\ UNCHANGED <<requirement, history, untold>>

\* The snapshots go with their baseline (cascade "all, delete-orphan").
DeleteBaseline(c, b) ==
  /\ call[c].pc = "idle"
  /\ b \in baselines
  /\ baselines' = baselines \ {b}
  /\ commits' = commits + 1
  /\ call' = [call EXCEPT ![c] = [pc |-> "done"]]
  /\ UNCHANGED <<requirement, history, untold>>

-----------------------------------------------------------------------------
(* sync_requirements_to reads all live requirements by one SELECT, pushes    *)
(* them, and appends the tag of the item to the rationale unless it ends     *)
(* with it: neither a version nor a history row goes with that.              *)

Tagging(row, text) == Change(row, [rationale |-> text])

Export(c, tagged) ==
  /\ call[c].pc = "idle"
  /\ DOMAIN tagged \subseteq Live /\ DOMAIN tagged # {}
  /\ \A r \in DOMAIN tagged : tagged[r] # requirement[r].rationale
  /\ call' = [call EXCEPT ![c] =
       [pc |-> "exporting",
        changes |-> [r \in DOMAIN tagged |-> Tagging(requirement[r], tagged[r])]]]
  /\ UNCHANGED <<requirement, history, untold, baselines, commits>>

(* sync_requirements_from looks the items up one after the other, deleted    *)
(* requirements too, and commits once: rows that differ and new ones.        *)

Import_Begin(c, items) ==
  /\ call[c].pc = "idle"
  /\ call' = [call EXCEPT ![c] =
       [pc |-> "fetching", todo |-> items, new |-> 0, changes |-> [q \in {} |-> {}]]]
  /\ UNCHANGED <<requirement, history, untold, baselines, commits>>

Import_Item(c, r, patch) ==
  LET known   == call[c].changes
      todo    == call[c].todo \ {r}
      differs == {q \in {r} \cap DOMAIN requirement :
                    DOMAIN Changed(requirement[q], patch) # {}} IN
  /\ call[c].pc = "fetching"
  /\ r \in call[c].todo
  /\ "rationale" \notin DOMAIN patch
  /\ call' = [call EXCEPT ![c] =
       [pc |-> IF todo = {} THEN "importing" ELSE "fetching", todo |-> todo,
        new |-> IF r \in DOMAIN requirement THEN call[c].new ELSE call[c].new + 1,
        changes |-> [q \in DOMAIN known \cup differs |->
                       IF q = r THEN Change(requirement[r], Changed(requirement[r], patch))
                                ELSE known[q]]]]
  /\ UNCHANGED <<requirement, history, untold, baselines, commits>>

\* Only an import counts the version up, from the one it has loaded.
Synced(c, row, change) ==
  [Apply(row, change) EXCEPT
     !.version = IF call[c].pc = "importing" THEN change.seen.version + 1 ELSE row.version]

Sync_Commit(c, made, text) ==
  LET changes == call[c].changes IN
  /\ call[c].pc \in {"exporting", "importing"}
  /\ made \subseteq Reqs \ DOMAIN requirement
  /\ Cardinality(made) = IF call[c].pc = "importing" THEN call[c].new ELSE 0
  /\ requirement' = [r \in DOMAIN requirement \cup made |->
       IF r \in made THEN NewRow(text)
       ELSE IF r \in DOMAIN changes THEN Synced(c, requirement[r], changes[r])
                                    ELSE requirement[r]]
  /\ untold' = untold \cup UNION {HistoryOf(c, r, changes[r]) : r \in DOMAIN changes}
  /\ commits' = commits + 1
  /\ call' = [call EXCEPT ![c] = [pc |-> "done"]]
  /\ UNCHANGED <<history, baselines>>

\* The process dies, or a query raises: what was not committed is rolled back.
Abort(c) ==
  /\ call[c].pc \notin {"idle", "done", "aborted"}
  /\ Cardinality({d \in Calls : call[d].pc = "aborted"}) < MaxAborts
  /\ call' = [call EXCEPT ![c] = [pc |-> "aborted"]]
  /\ UNCHANGED <<requirement, history, untold, baselines, commits>>

-----------------------------------------------------------------------------
RequirementStep(c) ==
  \/ \E r \in Reqs :
       \/ \E patch \in Patches : UpdateRequirement(c, r, patch)
       \/ DeleteRequirement(c, r) \/ RestoreRequirement(c, r)
       \/ BulkDelete_Examine(c, r)
       \/ \E text \in Texts : CreateRequirement(c, r, text)
       \/ CloneRequirement(c, r) \/ CloneRequirement_Commit(c, r)
  \/ \E batch \in Batches : BulkDelete_Begin(c, batch)
  \/ Commit(c) \/ CreateRequirement_History(c)

SyncStep(c) ==
  \/ \E live \in SUBSET Live : \E tagged \in [live -> Statements] : Export(c, tagged)
  \/ \E items \in Fetches : Import_Begin(c, items)
  \/ \E r \in Reqs, patch \in Patches : Import_Item(c, r, patch)
  \/ \E made \in SUBSET Reqs, text \in Texts : Sync_Commit(c, made, text)

BaselineStep(c) ==
  \/ \E name \in Names : CreateBaseline_Check(c, name)
  \/ CreateBaseline_Snapshot(c) \/ CreateBaseline_Commit(c)
  \/ \E b \in baselines : DeleteBaseline(c, b)

Next == \E c \in Calls : RequirementStep(c) \/ SyncStep(c) \/ BaselineStep(c) \/ Abort(c)

Spec == Init /\ [][Next]_recordVars

-----------------------------------------------------------------------------
(* Properties *)

\* Types of the tables; a call writes only requirements that exist.
ChangeOK(change) ==
  /\ change.seen \in Row
  /\ DOMAIN change.set \subseteq Fields
  /\ "status" \in DOMAIN change.set => change.set.status \in Statuses
  /\ \A f \in DOMAIN change.set \ {"status"} : change.set[f] \in Statements
CallOK(c) ==
  /\ call[c].pc \in {"idle", "examining", "writing", "created", "cloning", "fetching",
                     "importing", "exporting", "named", "snapshot", "done", "aborted"}
  /\ call[c].pc \in {"examining", "writing", "fetching", "importing", "exporting"} =>
       /\ DOMAIN call[c].changes \subseteq DOMAIN requirement
       /\ \A r \in DOMAIN call[c].changes : ChangeOK(call[c].changes[r])
  /\ call[c].pc = "created" => call[c].req \in DOMAIN requirement
  /\ call[c].pc = "cloning" => call[c].text \in [statement : Statements, rationale : Statements]
TypeOK ==
  /\ DOMAIN requirement \subseteq Reqs
  /\ \A r \in DOMAIN requirement : requirement[r] \in Row
  /\ commits \in Nat
  /\ \A h \in history \cup untold : /\ h.req \in DOMAIN requirement
                        /\ h.field \in Fields \cup {"created"}
                        /\ h.at \in 1 .. commits
  /\ \A b \in baselines : b.name \in Names
  /\ \A c \in Calls : CallOK(c)

\* The history is the whole story of a field: its value is what the newest
\* history row for it says, and a field with no history row was never changed,
\* unless a synchronisation wrote it since. Requests that lose a race, write
\* back stale rows or die leave no value behind that neither a history row nor
\* a synchronisation accounts for (column-wise UPDATEs, one commit).
NewestFor(h) ==
  \A other \in history \cup untold :
    other.req = h.req /\ other.field = h.field => other.at <= h.at
HistoryIsCurrent ==
  \A h \in history \cup untold :
    h.field \in Fields /\ NewestFor(h) => requirement[h.req][h.field] = h.new
UntoldIsOriginal ==
  \A r \in DOMAIN InitialRows, f \in Fields :
    (\A h \in history \cup untold : h.req = r => h.field # f) =>
      requirement[r][f] = InitialRows[r][f]
HistoryTellsAll == HistoryIsCurrent /\ UntoldIsOriginal

\* A baseline never holds a deleted requirement or a value nobody committed:
\* each field of a snapshot is the requirement's original value or one that a
\* history row or a synchronisation accounts for, though edits commit between the SELECT of
\* create_baseline and its own commit.
SnapshotAccounted ==
  \A b \in baselines : \A r \in DOMAIN b.rows \cap DOMAIN InitialRows :
    /\ b.rows[r].status # "deleted"
    /\ \A f \in Fields :
         \/ b.rows[r][f] = InitialRows[r][f]
         \/ \E h \in history \cup untold : h.req = r /\ h.field = f /\ h.new = b.rows[r][f]
=============================================================================
