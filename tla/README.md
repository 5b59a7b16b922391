# ASTRA in TLA+

A TLA+ verification project for the ASTRA backend (`src/backend/app`): a FastAPI
application over PostgreSQL that keeps requirements, interfaces, parts and
engineering data of aerospace projects, with approval workflows, electronic
signatures, a hash-chained audit log and synchronisation with external tools.

Paths below are relative to `src/backend/app` unless they begin with `src/`.

## How the code runs, and how the models read it

A request is a thread of its own (most handlers are plain `def`) or a coroutine on the
event loop of one of several worker processes (`async def`), with a database session of
its own (`database.py`: `SessionLocal`, `autoflush=False`, SQLAlchemy's default
`expire_on_commit`). PostgreSQL runs at READ COMMITTED. Nothing else synchronises two
requests. From this follow the rules that all modules share:

- **What one action is.** What a request does between two points at which another
  request can change what it sees: a `SELECT` whose result is kept in a Python variable,
  a lock it may have to wait for, an `await`, or a `db.commit()`.
- **Stale rows.** Between two commits a loaded ORM row keeps the values it had when
  it was loaded. After a commit it is expired and read again at its next use.
- **Column-wise writes.** An ORM `UPDATE` sets only the columns whose value was changed,
  and its only condition is the primary key. A stale writer overwrites these columns and
  leaves the others alone.
- **Row locks.** `SELECT .. FOR UPDATE` waits for the holder's transaction. It locks
  nothing if no row is there, and with `ORDER BY .. LIMIT 1` it chooses its row before
  it waits. A written row is locked until its transaction ends, and so is a unique value
  that was inserted.
- **`record_event` commits.** It is called in the middle of handlers and splits them:
  what comes before it is durable although what follows may fail.
- **`autoflush=False`.** A query does not see what its own transaction has deleted or
  added and not flushed.
- **Crashes.** A process or connection may die at any point of a request. What it has
  not committed is rolled back, its locks are released, nothing is retried.
- **Calls to other services** (HAROLD, CADPORT, Jira, Azure DevOps, DOORS) may fail, or
  act and lose the answer.

Many properties except an *overtaken* request: one whose rows another request committed
to between its read and its own commit. The code has no locks or version checks that
would prevent it, so a property without the exception is false. The exception is kept
as small as the code allows, by variables that record who met whom (`raced`, `late`,
`drift`, `excused`, `overtaken`); no guard reads them.

## Components and modules

`PROJECT.json` lists every component with its sources and what of it is left out, the
source lines of every definition (`map`), and under `hazards` what is hard to test, at
its line.

| Part of the system | Its state and what is hard | Module |
|---|---|---|
| Approval engine: `services/workflow_engine.py` | Instances with a stage pointer, stage actions. Calls read, decide and write with commits in between; a signature's commit expires what was checked; a sweep writes over everything. | `ApprovalWorkflow` |
| Workflow templates: `routers/workflows.py` | Stages edited while instances run. | `WorkflowAdmin` (extends `ApprovalWorkflow`) |
| Audit log: `services/audit_service.py` | Append-only rows chained by hashes; empty table, conflicts, waiters that get the row they chose. | `AuditChain`, implements `EventLog` |
| Migrations: `src/backend/alembic` | 48 revisions, one transaction broken by autocommit blocks; runs that die and are repeated. | `MigrationSteps`, `Migrations` |
| Report jobs: `routers/reports.py`, `services/reports/jobs.py` | Background tasks of a process that may stop. | `ReportJobs` |
| Ids: `services/id_sequence.py` | A locked counter row, savepoints, rollbacks, writers that count instead. | `IdSequence` |
| Requirements, baselines: `routers/requirements.py`, `baselines.py` | Check-then-write on stale rows; history; snapshots while others commit. | `RequirementLifecycle` |
| Signatures: `services/signature_service.py` | One-time tokens, sealed hashes, edits between hash and commit. | `SignedRecords` (extends `RequirementLifecycle`) |
| Part numbers: `services/harold`, `services/harold_naming`, `routers/catalog.py` | An external ledger, a local fallback, coroutines that block their worker on a row lock. | `PartNumbers` |
| Parts library: `routers/parts_library.py` | Revisions in a chain; a parser task that runs while its import is open to review. | `PartsLibrary` |
| Engineering: `routers/engineering_*.py`, `services/engineering` | Immutable revisions, one active; masses copied to the catalog; files written before their row. | `EngineeringRevisions` |
| Workbooks: `routers/interface_import.py` | A preview and a confirmation written apart. | `WorkbookImport` |
| Interface model: `routers/interface.py` | Tables with four kinds of foreign key; deletions in two transactions, gated by a check before. | `InterfaceTables`, `InterfaceTopology` |
| Harnesses: `services/interface/auto_grow.py` and the wiring handlers | Picking, extending, merging harnesses; roll-up rows. | `HarnessWiring`, `TopologyProofs` |
| Requirement sync: `services/req_sync`, `routers/req_sync.py`, `mechanical_joints.py` | A fan-out inside a flush; proposals reviewed while their sources change. | `ReqSync` |
| Auto-requirements, interface impact: `services/interface/auto_requirements.py`, `impact_analyzer.py` | Generation that must be idempotent; previews of a deletion. | `AutoRequirements` |
| Catalog documents and imports: `routers/catalog.py`, `cadport.py` | Uploads, background extraction, review, clearing. | `CatalogImports` |
| CADPORT: `services/cadport`, `cadport_outbound.py` | Two copies edited on two sides; derived masses, files and totals. | `CadportSync` |
| Project parts: `services/catalog/placement.py`, `routers/project_parts.py` | Deletion of what others are about to use. | `ProjectParts` |
| Coverage: `routers/coverage.py`, `services/coverage` | Exceptions filed and co-signed at once; one rule written in Python and in SQL. | `CoverageExceptions`, `SourceCoverage` |
| Trace links, impact: `routers/projects.py`, `services/ai/impact_analyzer.py` | Links no foreign key cleans up; two readers of one graph. | `TraceGraph` |
| Artifacts and the L0 rule: `services/level_validator.py` | A rule two handlers check on stale rows. | `ContractSources` |
| Integrations: `routers/integrations.py`, `services/integrations` | Items matched by marks in texts; lost answers; a savepoint closed by a commit inside it. | `RequirementExchange` |

How they interact: handlers of requirements, interfaces and parts call `record_event`
(`AuditChain`) and are split by its commit; create handlers call `next_human_id`
(`IdSequence`) in their transaction; `perform_action` calls `request_signature`, whose
commit makes the engine read its instance again; `request_signature` reads requirements
others edit; edits of wires and joints fan out, inside their flush, into proposals about
requirements (`ReqSync`); approvals of imports and configurations take numbers from
HAROLD (`PartNumbers`); motors keep a catalog part (`EngineeringRevisions`) that
projects use (`ProjectParts`) and CADPORT edits (`CadportSync`).

How state and actions correspond to the code, in general: a table is a set, a sequence
(row ids are positions) or a function from ids to rows; `call[q]` (or `req`, `filing`,
`edit`, `request`) holds the Python locals of request q, with `op` or `pc` naming the
point it has reached; an action is named after the handler or the step of it that it
is. What needs more words:

- `ApprovalWorkflow`: `PerformAction_Check` is every check up to the signature,
  `RequestSignature` commits, `ReloadInstance` is the re-read in
  `stage_number=instance.current_stage_number`, `RecordAction` the action's commit,
  `Advance_Read/Commit` are `_advance`, `Sweep_*` are `check_timeouts`.
- `AuditChain`: `ReadLast` chooses the row, `AcquireRowLock` ends the wait, `Append` is
  the insert with its commit, `AppendConflict` the unique constraint.
- `RequirementLifecycle`: a call keeps what it read and the columns it is going to set
  (`Change`); `Commit` applies exactly these. `commits` numbers the commits. Imports and
  exports of `services/integrations/base.py` write columns, also the sealed rationale,
  without version and history row; `untold` records what they wrote.
- `SignedRecords`: `ConsumeToken_Read/_Commit` are the two statements of
  `_consume_step_up_token`; `LoadEntity` hashes the row, `CommitSignature` writes later.
- `ReqSync`: `Flush` is the listener with the fan-out; what SQLAlchemy keeps of the
  changes a listener makes inside a flush is left open (`FlushEffects`, a set). If it
  applies a text by itself, `record_event` commits inside the flush (`Commit_InFlush`):
  the source is written, the request fails, and the rest is lost. The approval of a joint
  is heard too: it makes proposals about what it, or an overlapping approval, generated.
- `CatalogImports`: an approval inserts its part as "new" (locked, not visible as live)
  and `Commit` or `RollBack` ends it.
- `EngineeringRevisions`: a bundle is named by a hash of its content; `manifest` is who
  wrote the files, `filling` the request that is writing the zip, which is there, and
  served, before it is whole. A motor takes a part the catalog already has under its
  number (`PersistItem`).
- `PartsLibrary`: `CommitApproval` takes the reviewer's overrides, which may set the
  pointer to the next revision.
- `ContractSources`: `ConfirmImport` writes rows of any level without artifact or rule.
- `WorkbookImport`: `Previewed` counts the rows of the buses sheet one by one, as the
  preview does; the import merges rows that name one bus of one unit.
- `CadportSync`: rewriting the YAML file of a part is best effort: the file may be missing
  or unreadable, and the row is committed all the same (`Weigh`). `EraseCatalogPart` is an
  administrator's deletion of the row, of which CADPORT is not told.
- `ProjectParts`: a part is deleted after a count of its uses, by the force of an
  administrator, or by a call of CADPORT that counts nothing (`DeleteUnasked`).
- `Migrations`: a schema is a set of named objects, a revision a list of statements over
  them; `MigrationSteps` is that list, one definition per revision.

The `MC` modules bind the constants. To keep the runs few, some hold several systems side
by side, each with variables of its own, and choose one of them in `Init` (`view`,
`part`, `area`); the others stay as they are.

## Runs

`tlc -config X.cfg M` for each. Every property of a passing run has a mutant in its
module: a definition with a plausible bug (`<name>_<what>`), used nowhere else, under
which the property fails.

| Run | Instance | Properties |
|---|---|---|
| `workflow` (`MCTraceability`, `MCWorkflow.cfg`) | Approvals: the default template, one wanting two approvals, one with deadlines; three calls, one may die, the sweep and the clock. Three calls let one be stale while two others move the instance. | `ApprovalsGateStages` |
| | Two filings and two co-signs of one exception. | `ExcusedAsReviewed` |
| | Four requirements linked in four ways, three edits. | `LiveFindsAncestors`, `ReportIsCautious` |
| | Four changes to three requirements, a verification, an artifact. | `DeletionsArePreviewed` |
| | Two requirements, two artifacts, two edits and a removal. | `ContractNamesDocument` |
| | Three imports or exports between a requirement and an item, an edit on either side, lost answers, workers that die. | `MatchedOneToOne` |
| `workflow_changes` (`MCWorkflowAdmin`) | Two calls and either the clock with the sweep, or two edits of the template. | `SatisfiedStageIsLeft` |
| | Four calls of `record_event` on an empty log: two rows to fight over, a waiter and a crash. | `ChainIntact`, `ImplementsEventLog` |
| | All 48 migrations, runs that die or stop anywhere, downgrades to four versions. | `VersionTellsSchema`, `NeverStuckOnSchema` |
| | Three reports, failures, restarts. | `JobsEnd` |
| `numbers` (`MCIdSequence`, `MCIds.cfg`) | Ids: two creates, a batch of two, a counting writer, one fault; with and without the unique constraint. | `MintedOnce`, `CallsEnd` |
| | Part numbers: two imports, one configuration, two workers, two faults. | `LedgerIsAccounted` |
| | Parts library: four requests on one file and its parser. | `RevisionsChain` |
| | Engineering: three requests on nothing or on one motor, deck and configuration; two faults, so that a worker can die while it renders lost files again. | `BundleOnDisk`, `CatalogMassIsActive` |
| | Workbooks: all sheets of up to three messages on two buses, all pairs of sheets of up to two units and pins, imported twice. | `ImportedAsPreviewed` |
| `records` (`MCSignedRecords`) | Two signers, a token, two editors or baselines, one may die; the clock passes the token's expiry (`signers`). One signer and two requests that may also import or export (`synchronisation`). | `HistoryTellsAll`, `SnapshotAccounted`, `SignaturesAuthenticated`, `AlarmsAreExplained` |
| `interface` (`MCInterface`) | Edits and deletions around a wired pair of units, a bus, empty systems; wiring three units; merging two harnesses. | `RemovalsAnnounced`, `UnforcedSparesWiring`, `ConnectionsFollowWires` |
| `req_sync` (`MCRequirementSync`) | Three requests of any kind on a wire or a joint and what it generated. | `DecidedOnce`, `OrphansAreRaised`, `ProtectedTextStays` |
| | Two requests that generate, review, preview or delete, from four databases. | `OneLivePerSource`, `HistoryChains`, `NothingDangles` |
| `catalog` (`MCCatalog`) | Imports: three requests over a datasheet, a STEP file and two CADPORT contents, from four databases. | `OneOutcome`, `KeepsSource` |
| | CADPORT: three requests, on either side, on two parts that are in one assembly from the start; failed commits, lost calls, files that cannot be rewritten, parts erased by an administrator. | `DerivedFollowsMass`, `TotalsAreCurrent`, `SidesAgree` |
| | Use: three requests over suppliers, parts, units, lines, joints, and deletions by CADPORT, from three databases. | `DeletedPartsWereUnused` |

What each property says is written above it, with the lines it is about.

Five runs end in a violation on purpose: they check what a comment or docstring says of
the code, and TLC shows a behaviour of the code that contradicts it.

| Run | Said | Done |
|---|---|---|
| `workflow_rejection` | "Rejection at any stage rejects the whole workflow" (`workflow_engine.py:224`) | a rejection recorded under a stage that another call is leaving is never looked at again; the workflow ends approved |
| `signatures_tokens` | a step-up token is "consumed atomically; further attempts fail" (`signature_service.py:176`; `:128`) | the SELECT takes no lock and the UPDATE has no condition: two calls that overlap both find the token unspent, and both sign |
| `ids_foreign` | `next_human_id` "replaces the race-prone count + 1" | two modules still count, take the number the sequence gives next, and later creates of that type fail |
| `auto_requirements_traces` | an approval traces the requirement (`interface.py:3448`) | the `TraceLink` lacks a NOT NULL column and has a type the enum lacks: the request fails |
| `catalog_extraction` | poll "to watch the extraction_status move" (`catalog.py:2383`) | the handler sets EXTRACTING before the task that only runs on UPLOADED or FAILED |

**Bounds.** The sets of calls bound the runs, with `MaxNow`, `MaxAborts`, `MaxEdits`,
`MaxFaults` and the like, which stand in guards. They limit how much happens, never what
one step does, and the theorems do not depend on them. Two overlapping requests show a
lost update and three show one that is stale twice, which is why nearly every instance has
three; starting databases (`Seeds`) stand for what earlier requests left.

**Deadlock** is not checked (`CHECK_DEADLOCK FALSE`): calls are made once each, and every
model stops when they are used up. That requests do not wait for each other for ever is
liveness and is claimed for the sequence of ids alone (`CallsEnd`): two approvals of
imports can wait for each other for ever (Findings), and `record_event` is only shown to
be safe.

**Fairness.** A request that has begun runs on, and a task that was queued is run: its
thread does not stop between two statements, except by a crash that the models have as an
action. So the fairness is weak fairness of each call's own steps once it has begun
(`CallStep`, `JobStep`, `Going`). Nothing makes a user act, a
call begin, a clock tick or an operator start a sweep, and none of these is fair. A call
that waits for a row lock is not enabled meanwhile; weak fairness is enough, since holders
end and queues are finite in these models. Fairness is used by `SatisfiedStageIsLeft`,
`CallsEnd`, `JobsEnd` and `ExtractionEnds`. `ImplementsEventLog` is safety: `EventLog` has
no fairness, and neither has `AuditChain`.

## Proofs

TLAPS checks, for every value of the constants (any number of calls, users, rows), the
theorems below. Each module's invariant was also checked by TLC as an invariant of the
run's instance before it was proved. An invariant named below implies the property; the
property alone is not inductive, because what a request writes depends on what it read
before. The invariants say what a request in progress knows, and why that is still so.

| Theorem (module) | Says | Inductive invariant, and the argument |
|---|---|---|
| `TypeCorrect`, `StagesAreGated` (`TraceabilityProofs`) | No instance passes a stage or is approved without `required_count` approvals at every stage on the way. | `GateInvariant`: what a call has decided was backed by approvals (`DecisionBacked`); actions are never deleted, so it still is. |
| `ChainVerifies`, `ChainTypes` (`AuditChainProofs`) | The walk accepts the log up to any row. | `ChainInvariant`: numbers are unique and without a gap, each row follows the one before. Uniqueness is the constraint's, the link is the read row's: the row lock is not needed. |
| `ChainImplementsEventLog` | `AuditChain` implements `EventLog`. | The same invariant: the appended row is the newest, so `Append` maps to `Record`, a conflict or crash to `Drop`, the rest to stuttering. |
| `HolderHasTheNumbers`, `NumbersAreMintedOnce` (`NumbersProofs`) | No number is committed by two calls, with no unique constraint. | `IdInvariant`: only the holder of the row has uncommitted numbers, past `next_value` and all committed ones. |
| `RevisionsFollow` | Revisions of a library part follow one another without a gap, and only the last is in force; a pointer an approval brought is replaced by the part's own revision. | `LibraryInvariant`: a row is superseded together with the row of its next number, so an edit that read it earlier finds that number taken; the unique constraint is the only guard. |
| `LedgerDoesNotDrift` | What counts as issued is in HAROLD's ledger, and an engineering number that lost its revision is accounted for. | `WpnInvariant`: what HAROLD issued to a request is in the ledger, and no other request or row has it, until it is written or given back; an import makes one part, whose number stays its own while its registration is pending; every number is settled or in the hands of a request. |
| `HistoryIsWhole`, `BaselinesAreAccounted` (`SignedRecordsProofs`) | A field has the value its newest history row tells, unless an import or export wrote it since; snapshots hold no deleted requirement and no value that nothing committed accounts for. | `RecordsInvariant`: rows typed, history within the commits made, every value told or original, also those in the hands of a baseline in progress. |
| `AlarmsExplained` | A signature that fails to verify at its own version has an edit in the history, or a write by an import or export, later than the load it sealed. | `RecordsInvariant` and `SealsOK`: for calls and signatures alike, the sealed text is the row's, or a row of `history` or `untold` is later. |
| `SignersAreAuthenticated` | Behind an external user's signature is a token of that user, spent while it was good. | `EvidenceInvariant`: tokens are unique, a call about to spend one read the clock before its expiry, and what it spends stays spent. |
| `CosignsAreInformed` | An exception that counts has the text its co-signer was shown, unless a filing and a co-sign met. | `ExceptionsInvariant`: unless met, a filing that saw no co-sign meets none, and what an administrator is shown is what the row says. |
| `CustomersAreSourced` | A live customer requirement cites an artifact on record, unless it met one of the ways around the rule, which the property names. | `ContractInvariant`: while an edit that sets L0 and names no artifact is under way, the artifact of its row is still on record, unless the row met one of those ways. |
| `ItemsAndRowsMatch` | Items of an external tool and requirements are matched one to one, unless two sessions met on the item or the row. | `ExchangeInvariant`: the tag of an item that an export made is only ever on its own requirement; the tag of any other item is on every rationale an export loaded as on the row, so writing a rationale back loses and moves none; an item about to be taken in is tagged nowhere; a search for an issue that found none has found so still. |
| `AncestorsAreFound` | The live coverage report covers the requirements below a covered one and no others, unless more rows wait for an ancestor than it makes passes. | `CoverageInvariant` (links and parents join requirements), and induction over the passes: each leaves nothing to cover or takes a waiting row. |
| `ReportsAreCautious` | No row of an up-to-date view is better than the live report, except over a link to a deleted requirement that has its source. | `CoverageInvariant`: until the tables change, the view is what its query gives; a source belongs to a row that is there. What the view reaches, the first pass does. |
| `DeletionsPreviewed` | What a deletion changes in the coverage of another requirement is one hop away in its preview (an action property). | `GraphInvariant` (types): only a parent or a child can notice, and the graph has an edge for either; the first ring of the search is what edges lead to. |
| `DecisionsAreMadeOnce`, `OrphansRaised`, `ProtectedTextIsKept` (`ReqSyncProofs`) | Proposals and joints are decided once; orphans are raised; the statement of a locked requirement changes only by a user's own edit or an acceptance that was forced or overtaken, and no writer of a source changes any statement (an action property). | `SyncInvariant`: tables refer to rows that exist; a flush has its source row alone and what it found is still so; what a request that was not overtaken checked still holds; decisions leave a mark. |
| `OneLiveRequirement` | However often requirements are generated, reviewed, deleted and generated again, a source has one live requirement, unless a check was overtaken or a review brought a deleted row back. | `AutoInvariant`: a row that a generation has written has its source to itself and its link in the same transaction, and while nobody else commits its source has no live requirement; reviews in progress hold disjoint rows and links, and a link they stamp replaces one for the same row and source. |
| `HistoriesChain` | The history rows of a requirement lead from each status to the next and to the one it has. | The same invariant: rows in the hands of a request chain already. A decision that wrote over a row committed after it had read it leaves a gap on either side, and only there. |
| `PreviewsAreComplete` | When the requirements that the preview of a wire or bus lists are deleted, and then it, nothing live is linked to what went with it (an action property). | `RemovalInvariant`: a resolution that nobody overtook has what the preview listed in its queue or among the rows it deleted, and touches no link; previews only shrink while rows and links go. |
| `DeletionsAreAnnounced` (`TopologyProofs`) | What a deletion takes had its audit event, or hung on a row that had (an action property). | `TopologyInvariant`: foreign keys are null or refer to a row of their table, and the target of every deletion under way is announced. |
| `UnforcedDeletionsSpare` | A deletion without force takes nothing that was there, unchanged, when its check passed, but its target (an action property). | `TopologyInvariant`: around the target of such a deletion lies a set of rows, closed under the foreign keys along which deletions go, in which no row that the check saw and that is still there lies but the target; rows made later may join it. Rows form a hierarchy of tables, so that the five rounds of `Falls` are closed. |
| `ConnectionsTellWires` | Two units have a Connection row if and only if a wire joins them, unless a request left the pair behind or a deletion under way is about to change it. | `WiringInvariant`: rows are orderly (harnesses plug into units, a Connection row has the key of its pair, foreign keys refer to rows), keys of wires and harnesses do not come back, and the rows tell the wires that no deletion in progress was asked for. Induction over a batch: after each pair, the wires made so far join the pairs of units the batch has touched. |
| `WiringDeletionsAreAnnounced` | `DeletionsAreAnnounced` for the deletions of wires, harnesses and LRU connectors among everything `HarnessWiring` adds. | `WiringInvariant`, and that the target of every deletion under way is announced. |
| `BundlesMatchTheirRows` (`NumbersProofs`) | What is on disk for a recorded export was made from its manifest, and is whole unless lost files are being rendered again or a worker died over that; unless two new exports of one bundle overlapped. | `BundleInvariant`: a lone writer of a bundle finds no row, once written the files are its own, and it records them only when it has filled them. |
| `MotorsWeighTheirRevision` | A motor weighs in the catalog what its active revision says, if its part was made for it or since a selection. | `MotorInvariant`: a selection alone with its motor has seen what is stored; a part that two motors may share is marked, and revisions are never changed. |
| `ImportsMatchPreviews` | The first import of a workbook that its preview calls valid makes the systems and units the preview counted and of other things no more; of a regular workbook it makes exactly what was counted, but for buses that two rows name, and each field in the message its row continues. | `WorkbookInvariant` (types), and induction over the rows of the messages sheet: after each, the messages are those named so far, the current one is that of the nearest row above that names one (`RowRead`), and so the function that reads the sheet is this one (`SheetRead`). |
| `ImportsHaveOneOutcome`, `SourcesAreKept` (`CatalogProofs`) | An import has one outcome unless decided twice at once; clearing the queue takes no document of a live part. | `ImportsInvariant`: an approval that has inserted its part is the only one of its import, which is still there and undecided; the part it would reuse has the same content. |
| `DeletedPartsUnused` | A part deleted softly was used nowhere when its deletion began, and what names it now took it since, or had it when CADPORT deleted it. | `ProjectInvariant`: from the count of a deletion on, every unit and line that names the part is marked as having taken it late; a row that goes takes only its own marks. |
| `MassesAreDerived` | Inertia and hash of a part are those of its mass, and so is its file, unless a request could not rewrite it. | `CadportInvariant`: a request that will set the mass of a part has loaded the row that is there, unless the part is excused, and its file, written ahead, is that of the row it will commit. |
| `TotalsCurrent` | Assemblies weigh what their parts weigh. | `TotalsInvariant`: totals in the hands of a request are those of the rows as it leaves them, unless it was overtaken; the sum itself is only needed as a function of the masses and inertias of the parts. |
| `SidesConverge` | When nothing is under way, ASTRA and CADPORT agree, also on whether a part exists, unless an administrator erased it. | `CadportInvariant`: where the sides differ on a field, a request that carries it is under way, or the field was crossed or lost. |

How the proofs are laid out: in the larger modules a frame lemma says what a step may do
without disturbing other requests (`QuietStep`, `NoBundle`, `Kept`, `StepKeeps`,
`PartsSame`, `ContinueStep`, `UncommittedStep`, `StaysSpared`), there is one lemma per action, and the temporal theorem joins them. Tables
that are sequences need a few facts about `Append` and `EXCEPT` (`SeqFacts`, `Appended`,
`Replaced`). Functions defined by recursion over numbers (passes, hops, rows of a sheet) are reasoned about
with the module `Induction`: induction said of a set (`AllNumbers`, from the well-foundedness of
`<`) and `Iterates`, which shows that such a function exists; the library's induction theorems
cannot be used, since they take an operator as a parameter.

**Assumptions.** `StagesAssumption`, `BoundsAssumption`, `IdAssumption`,
`RecordsAssumption`, `SignAssumption`, `ContractAssumption`, `LibraryAssumption`,
`PartAssumption`, `ExchangeAssumption`, `GraphAssumption`, `WorkbookAssumption`: types of the constants; null is
neither a number nor an artifact; a search goes one hop at least.
`SyncAssumption`, `ExceptionsAssumption`, `EngineeringAssumption`, `ImportsAssumption`,
`ProjectAssumption`, `CadportAssumption`, `AutoAssumption`, `TopologyAssumption`,
`CoverageAssumption`, `WiringAssumption`: also that the databases to start from are as earlier requests leave them, with foreign
keys that refer to rows and nothing owed (an orphan has its proposal, a motor its
revision's mass, an import its outcome, a part the file and hash of its mass, a source at
most one live requirement, and a row; no unit or line names a deleted part), and that a key names a
row of one table. `BundlesMatchTheirRows` needs no assumption. TLC evaluates them all in
the runs. They say nothing about how requests overlap or fail.

**Only model-checked.**

- Liveness: `SatisfiedStageIsLeft`, `CallsEnd`, `JobsEnd`.
- What a fold over a sequence of statements computes: the interpretation of the
  migrations (`VersionTellsSchema`, `NeverStuckOnSchema`).
- `UnforcedDeletionsSpare` is a theorem about the steps of `InterfaceTopology`; that the
  steps `HarnessWiring` adds keep the property is what the run `interface` shows.

## Findings

Beside the four violated runs, reading and checking turned up the following. No run is
spent on them; the passing properties are stated so that they hold in spite of them.

*Workflows, audit, ids, requirements.* A late writer moves the stage pointer back to a
stage that was left (`workflow_engine.py:258`). A call that read IN_PROGRESS writes APPROVED over
TIMED_OUT (`workflow_engine.py:325`); the role of a signed action is checked for another
stage than it is recorded under (`:167`). A waiting `record_event` conflicts and loses its
event (`audit_service.py:105`). The status of a requirement is checked on a stale row
(`requirements.py:435`). `clone_requirement` makes a customer requirement without an
artifact, `confirm_import` takes a level from the client without looking at rule or preview
(`imports.py:422`; `VALID_LEVELS` is only used by the preview), and a PATCH to null passes the
rule. A spent token can sign twice (the run `signatures_tokens`). An export tags the rationale,
a sealed text, without a new version or a history row (`integrations/base.py:233`), and an
import replaces it so (`:169`): a signature then fails to verify at the version it sealed. The delta of an asynchronous change-history
report gets dates as strings; PENDING report jobs are never retried.

*Migrations.* 0007a swallows an error although its transaction is aborted; `/dev/reset`
fails on any database from 0025 on; the SET NULL of 0018 on `audit_log` is blocked by the
trigger of 0010; the downgrade of 0029 fails when a Wardstone part exists; `env.py` takes no
lock against a second upgrade.

*Requirement sync and auto-requirements.* A text that the fan-out applies by itself never
arrives: `_emit_audit` commits inside the flush (`fan_out.py:362`, `audit_service.py:137`), the
edit of the source is stored, the request answers 500, and the text, its history and every
proposal are lost, although the docstring says that the function "only `db.add(...)` and never
commits" (`fan_out.py:205`). Approving a joint raises "regenerate" proposals about
requirements just generated. A pending proposal survives when its source
reverts; bulk acceptance is not all or none (`req_sync.py:461`); generating again adds
verifications, though `auto_requirements.py:1148` says it does nothing; parents are looked up
without regard to deletion; `mark_for_review` revives rejected requirements.

*Interfaces.* Forced deletion of a wired unit fails after its event was written
(`interface.py:936`); `cb_commit` creates no Connection row (`:5171`); auto-grow can give two
wires one pin (`auto_grow.py:829`). Workbooks: rows continue the message made last, not the
one named; pins without a connector and references out of the workbook pass the preview and
are dropped; rows that name one bus twice are merged although the preview counts both, and a
row that names another bus and no message makes a message it has not counted; a second import of a workbook with connectors fails, one without duplicates
buses and messages.

*Catalog, CADPORT, parts, projects.* A reclaimed number collides with a deleted part
(`catalog.py:1790`); a generic PATCH of the mass rescales nothing (`:1093`); CADPORT is told of
a part before it is committed (`:2606`); a file that cannot be rewritten keeps the older mass
while the row gets the new one (`:1217`); an administrator erases a part without telling CADPORT
(`:1861`), and CADPORT's deletion of a part counts no uses (`:1754`); two approvals that flushed
a part and wait for one worker and for each other's rows wait until it is restarted (`:2672`); duplicate files are checked before they are stored, and
the index is not unique (`:3056`); HAROLD's fallback allocator collides
(`harold/service.py:329`). Library: overrides of an approval may set
`superseded_by_id` (`parts_library.py:582`); a DRAFT part can never become APPROVED; a parser that fails
late reopens a decided import. Placement and bills of material ignore `deleted_at`; parent
lines are checked for themselves only; an update can clear both part references of a line; a
forced removal of a line is still refused for any joint; a forced deletion of a supplier
commits the deletion of its parts before it may fail.

*Engineering.* A zip that a worker left half rendered when it died is served from then on:
reuse only asks whether it is there (`bundle_export.py:487`). A motor whose number a catalog part
already carries takes that part with its mass (`engineering_motors.py:241`). The slower of two exports of one bundle leaves its files behind
(`bundle_export.py:484`); an export of the same revision has another hash after a component's
mass was edited; overlapping selections leave another revision's mass; two ingests of one
name make two motors.

*Traces and coverage.* Generated interface requirements get no source link, so the report
counts them as unsourced; the matrix compares ids of different kinds of entity; deleting an
artifact leaves its links, and they still count; decompositions are read in both directions
by different readers; the coverage docstring and the view differ on level 3; APScheduler is not
installed, so the view is refreshed by bulk acceptance only; the bound on the passes can cut
a chain short.

*Integrations.* With SQLAlchemy 2 the connector's `db.commit()` inside `begin_nested` closes
the savepoint: every sync that reaches it answers 500 and its log stays "running", against the
comment at `integrations.py:401`. Two new items of one type in an import take one number and
fail; an import revives deleted requirements and demotes approved ones without history;
Azure and DOORS exports create again each time; DOORS identifiers differ between push and
fetch; webhooks only log.

## Not modelled

Parsing of STEP files and spreadsheets of requirements, numerical decks and ballistics
(floating point), heuristics that only propose pins, calls to language models, accounts and
cryptography, constant role tables, dashboards, middleware, the frontend and the
deployment. What they produce is an input of the models where it matters. Inside modelled
parts: two stages of one template with one number, two concurrent migrations, descriptive
columns, texts of templates, and readers that only format. `PROJECT.json` has the list.

## Plan

1. *Done*: the modules and runs above.
2. *Done*: the theorems above.
3. Left: the properties under "Only model-checked".
