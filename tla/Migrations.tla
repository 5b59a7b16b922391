------------------------------- MODULE Migrations -------------------------------
(***************************************************************************)
(* alembic upgrade and downgrade over the revisions of MigrationSteps, as  *)
(* backend/alembic/env.py runs them: one transaction for a whole run, which *)
(* the autocommit block of a revision ends and begins anew. The container  *)
(* upgrades each time it starts, so a run that died is followed by another. *)
(***************************************************************************)
EXTENDS MigrationSteps, SequencesExt, FiniteSets

CONSTANTS
  Targets    \* the numbers in Chain a downgrade may be asked for

VARIABLES
  db,        \* what is committed: [schema, version]
  run,       \* the run: [mode, at, schema, half, target, why]
  rows       \* facts about rows a statement may trip over

migrationVars == <<db, run, rows>>
Latest == Len(Chain)
---------------------------------------------------------------------------
(* Statements *)

Owners(schema) == {o[1] : o \in {p \in schema : p[2] = "" /\ p[3] = ""}}
\* DROP without CASCADE: nothing else may refer to what goes.
Held(schema, cut) ==
  LET gone == {o[1] : o \in {p \in cut : p[2] = "" /\ p[3] = ""}} IN
  \E o \in schema : o[3] \in gone /\ o[1] \notin gone

Refused(schema, s) ==
  \/ ~s.lax /\ (s.put \cap schema # {} \/ ~(s.cut \subseteq schema))
  \/ LET known == Owners(schema \cup s.put) \cup {""} IN
     \E o \in s.put : {o[1], o[3]} \ known # {}
  \/ Held(schema, s.cut)

After(schema, s) ==
  (schema \cup s.put) \
    {o \in schema : o \in s.cut \/ <<o[1], "", "">> \in s.cut}

\* The schema after the statements; the empty set of schemas if one is refused.
Executed(schema, statements) ==
  FoldLeft(LAMBDA possible, s :
             {After(x, s) : x \in {y \in possible : ~Refused(y, s)}},
           {schema}, statements)
---------------------------------------------------------------------------
(* Rows that the constraints of a revision do not admit *)

At(revision) == CHOOSE v \in DOMAIN Chain : Chain[v] = revision
\* The rows that can be there with a schema, and the revision that trips over
\* them on its way up, or down.
Facts == {"link without a project", "two equal links", "two equal ids", "wide number",
          "two harnesses of a pair", "no owner", "part of Wardstone",
          "two lines of a part", "line without a library part"}
Possible(fact, schema) ==
  CASE fact \in {"link without a project", "two equal links"} ->
         Rel("trace_links") \in schema /\ ~(LinkUnique \subseteq schema)
    [] fact = "two equal ids" ->
         Rel("requirements") \in schema /\ ~(ReqUnique \subseteq schema)
    [] fact = "wide number" ->
         Rel("message_fields") \in schema /\ ~(NumericFields \subseteq schema)
    [] fact = "two harnesses of a pair" ->
         Rel("wire_harnesses") \in schema /\ ~(HarnessUnique \subseteq schema)
    [] fact = "no owner" -> OwnerNullable \subseteq schema
    [] fact = "part of Wardstone" -> Wardstone \subseteq schema
    [] fact = "two lines of a part" ->
         Rel("project_parts") \in schema /\ ~(LineUnique \subseteq schema)
    [] fact = "line without a library part" -> LibraryNullable \subseteq schema

TripsUp(revision, facts) ==
  \/ revision = M0012 /\ facts \cap {"link without a project", "two equal links"} # {}
  \/ revision = M0017 /\ "two equal ids" \in facts
  \/ revision = M0021 /\ "wide number" \in facts
TripsDown(revision, facts) ==
  \/ revision = M0013 /\ "two harnesses of a pair" \in facts
  \/ revision = M0018 /\ "no owner" \in facts
  \/ revision = M0029 /\ "part of Wardstone" \in facts
  \/ revision = M0030 /\ "two lines of a part" \in facts
  \/ revision = M0031 /\ "line without a library part" \in facts
---------------------------------------------------------------------------
(* Runs *)

Idle(why) == [mode |-> "idle", at |-> 0, schema |-> {}, half |-> FALSE, target |-> 0,
              why |-> why]
Started(mode, target) ==
  [mode |-> mode, at |-> db.version, schema |-> db.schema, half |-> FALSE,
   target |-> target, why |-> <<>>]

SchemaInit ==
  /\ db = [schema |-> {}, version |-> 0]
  /\ run = Idle(<<>>) /\ rows = {}

Upgrade ==
  /\ run.mode = "idle" /\ db.version < Latest
  /\ run' = Started("up", Latest)
  /\ UNCHANGED <<db, rows>>

Downgrade(target) ==
  /\ run.mode = "idle" /\ target < db.version
  /\ run' = Started("down", target)
  /\ UNCHANGED <<db, rows>>

Coming == Chain[run.at + 1]
\* Entering the autocommit block commits what the run has done, with the number
\* of the last whole revision.
EnterBlock ==
  /\ run.mode = "up" /\ run.at < Latest /\ ~run.half /\ Coming.labels # {}
  /\ \E schema \in Executed(run.schema, Coming.first) :
       /\ db' = [schema |-> schema, version |-> run.at]
       /\ run' = [run EXCEPT !.schema = schema, !.half = TRUE]
  /\ UNCHANGED rows

\* Each label is on disk at once.
AddLabels ==
  /\ run.mode = "up" /\ run.half /\ ~(Coming.labels \subseteq run.schema)
  /\ db' = [db EXCEPT !.schema = @ \cup Coming.labels]
  /\ run' = [run EXCEPT !.schema = @ \cup Coming.labels]
  /\ UNCHANGED rows

\* The revision's own transaction is not there yet.
Blocked == IF run.half THEN ~(Coming.labels \subseteq run.schema) ELSE Coming.labels # {}
StepUp ==
  /\ run.mode = "up" /\ run.at < Latest /\ ~Blocked /\ ~TripsUp(Coming, rows)
  /\ \E schema \in Executed(run.schema, Coming.up) :
       run' = [run EXCEPT !.schema = schema, !.at = @ + 1, !.half = FALSE]
  /\ UNCHANGED <<db, rows>>

Leaving == Chain[run.at]
StepDown ==
  /\ run.mode = "down" /\ run.at > run.target /\ ~TripsDown(Leaving, rows)
  /\ \E schema \in Executed(run.schema, Leaving.down) :
       run' = [run EXCEPT !.schema = schema, !.at = @ - 1]
  /\ UNCHANGED <<db, rows>>

Commit ==
  /\ run.mode # "idle" /\ run.at = run.target
  /\ db' = [schema |-> run.schema, version |-> run.at]
  /\ run' = Idle(<<run.mode, "done">>)
  /\ rows' = {f \in rows : Possible(f, run.schema)}

\* A statement that is refused, or a production server, ends the run: what is
\* not committed is rolled back.
Fail(why) == run' = Idle(<<run.mode, why>>) /\ UNCHANGED <<db, rows>>
StopUp ==
  /\ run.mode = "up" /\ run.at < Latest
  /\ \/ ~run.half /\ Executed(run.schema, Coming.first) = {} /\ Fail("schema")
     \/ ~Blocked /\ Executed(run.schema, Coming.up) = {} /\ Fail("schema")
     \/ ~Blocked /\ TripsUp(Coming, rows) /\ Fail("rows")
StopDown ==
  /\ run.mode = "down" /\ run.at > run.target
  /\ \/ Executed(run.schema, Leaving.down) = {} /\ Fail("schema")
     \/ TripsDown(Leaving, rows) /\ Fail("rows")
     \/ Leaving.guarded /\ Fail("production")
RunDies == run.mode # "idle" /\ Fail("crash")
---------------------------------------------------------------------------
(* The application and its operators, between runs *)

\* One fact at a time.
Arise(fact) ==
  /\ run.mode = "idle" /\ rows = {} /\ Possible(fact, db.schema)
  /\ rows' = {fact}
  /\ UNCHANGED <<db, run>>
Cleanse == run.mode = "idle" /\ rows # {} /\ rows' = {} /\ UNCHANGED <<db, run>>

\* database/migrations: the two scripts that are also applied by hand.
ApplyScript(objs) ==
  /\ run.mode = "idle" /\ Executed(db.schema, <<Ensure(objs)>>) # {}
  /\ ~(objs \subseteq db.schema)
  /\ db' = [db EXCEPT !.schema = @ \cup objs]
  /\ UNCHANGED <<run, rows>>
LevelScript == LevelZero \cup ArtifactColumn \cup ArtifactIndex
AuditScript == AppendOnly

SchemaNext ==
  \/ Upgrade \/ (\E target \in Targets : Downgrade(target))
  \/ EnterBlock \/ AddLabels \/ StepUp \/ StepDown \/ Commit
  \/ StopUp \/ StopDown \/ RunDies
  \/ (\E fact \in Facts : Arise(fact)) \/ Cleanse
  \/ ApplyScript(LevelScript) \/ ApplyScript(AuditScript)
---------------------------------------------------------------------------
\* What upgrading an empty database to a version makes.
Schemas == FoldLeft(LAMBDA made, r : Append(made,
    CHOOSE s \in Executed(Last(made), r.first \o <<Ensure(r.labels)>> \o r.up) : TRUE),
  <<{}>>, Chain)
SchemaAt(v) == Schemas[v + 1]

\* What the revisions beyond a version commit before their end.
Halves(v) == UNION {UNION {s.put : s \in ToSet(Chain[w].first)} : w \in v + 1 .. Latest}

(* The version tells the schema (env.py, and main.py:184, which looks at the *)
(* version alone): whatever runs failed, died in the middle or went down,    *)
(* the database has all that its version promises, and nothing else but what *)
(* later revisions commit before their end, what downgrades leave by their   *)
(* comments (enum labels, a nullable column), and the scripts' own objects.  *)
VersionTellsSchema ==
  LET labels == UNION {r.labels : r \in ToSet(Chain)} \cup JointLabel
  IN /\ SchemaAt(db.version) \subseteq db.schema
     /\ db.schema \ SchemaAt(db.version) \subseteq
          Halves(db.version) \cup labels \cup SupplierNullable
            \cup LevelScript \cup AuditScript

(* An upgrade stops on rows that somebody must repair, never on the schema   *)
(* that earlier runs left: one that died, also after it had committed half   *)
(* of a revision, can be repeated, and so can one that follows a downgrade.  *)
(* A downgrade stops on the schema only where an upgrade that died, or the   *)
(* level script, had put a reference to a table that it goes back beyond.    *)
NeverStuckOnSchema ==
  /\ run.why # <<"up", "schema">>
  /\ run.why = <<"down", "schema">> =>
       \E o \in Halves(db.version) \cup LevelScript : o[3] # "" /\ o \in db.schema
=============================================================================
