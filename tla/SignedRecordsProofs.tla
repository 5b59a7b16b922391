-------------------------- MODULE SignedRecordsProofs --------------------------
(***************************************************************************)
(* Theorems about RequirementLifecycle and SignedRecords, for any number   *)
(* of requests, requirements, signers and tokens.                          *)
(***************************************************************************)
EXTENDS SignedRecords, TLAPS

\* Everything that was written, be it told by the history or not.
Tale == history \cup untold

\* The value v of field f of requirement r is accounted for.
Told(r, f, v) ==
  \/ v = InitialRows[r][f]
  \/ \E h \in Tale : h.req = r /\ h.field = f /\ h.new = v

Snapshot(rows) ==
  \A r \in DOMAIN rows \cap DOMAIN InitialRows :
    rows[r].status # "deleted" /\ \A f \in Fields : Told(r, f, rows[r][f])

RowsOK ==
  /\ DOMAIN InitialRows \subseteq DOMAIN requirement
  /\ DOMAIN requirement \subseteq Reqs
  /\ \A r \in DOMAIN requirement : requirement[r] \in Row
HistoryOK ==
  /\ commits \in Nat
  /\ \A h \in Tale : h.req \in DOMAIN requirement /\ h.at \in Nat /\ h.at <= commits
CallsOK ==
  /\ DOMAIN call = Calls
  /\ \A c \in Calls : CallOK(c) /\ (call[c].pc = "snapshot" => Snapshot(call[c].rows))
Accounted == \A r \in DOMAIN InitialRows, f \in Fields : Told(r, f, requirement[r][f])

RecordsInvariant ==
  RowsOK /\ HistoryOK /\ CallsOK /\ Accounted /\ HistoryTellsAll /\ SnapshotAccounted

LEMMA RowType ==
  ASSUME NEW row \in Row
  PROVE  /\ DOMAIN row = {"status", "statement", "rationale", "version"}
         /\ row.status \in Statuses /\ row.version \in Nat
         /\ row.statement \in Statements /\ row.rationale \in Statements
         /\ \A f \in Fields : f \in DOMAIN row
BY DEF Row, Fields

LEMMA ApplyType ==
  ASSUME NEW row \in Row, NEW change, ChangeOK(change)
  PROVE  /\ Apply(row, change) \in Row
         /\ \A f \in Fields : Apply(row, change)[f] =
              IF f \in DOMAIN change.set THEN change.set[f] ELSE row[f]
<1>1. change.seen.version + 1 \in Nat
  BY RowType DEF ChangeOK
<1>2. DOMAIN row = {"status", "statement", "rationale", "version"}
  BY RowType
<1>3. Apply(row, change) =
        [status |-> IF "status" \in DOMAIN change.set THEN change.set.status ELSE row.status,
         statement |-> IF "statement" \in DOMAIN change.set
                       THEN change.set.statement ELSE row.statement,
         rationale |-> IF "rationale" \in DOMAIN change.set
                       THEN change.set.rationale ELSE row.rationale,
         version |-> change.seen.version + 1]
  BY <1>2 DEF Apply
<1>4. Apply(row, change) \in Row
  BY <1>1, <1>3, RowType DEF ChangeOK, Row
<1>5. \A f \in Fields : Apply(row, change)[f] =
        IF f \in DOMAIN change.set THEN change.set[f] ELSE row[f]
  BY <1>3 DEF Fields
<1> QED BY <1>4, <1>5

-----------------------------------------------------------------------------
(* Steps that change nothing but the local variables of their request.       *)

\* What a request may know of the database, in the words of its own record.
Knows(local) ==
  /\ local.pc \in {"idle", "examining", "writing", "created", "cloning", "fetching",
                   "importing", "exporting", "named", "snapshot", "done", "aborted"}
  /\ local.pc \in {"examining", "writing", "fetching", "importing", "exporting"} =>
       /\ DOMAIN local.changes \subseteq DOMAIN requirement
       /\ \A r \in DOMAIN local.changes : ChangeOK(local.changes[r])
  /\ local.pc = "created" => local.req \in DOMAIN requirement
  /\ local.pc = "cloning" => local.text \in [statement : Statements, rationale : Statements]
  /\ local.pc = "snapshot" => Snapshot(local.rows)

LEMMA QuietStep ==
  ASSUME RecordsInvariant, NEW c \in Calls, NEW local, Knows(local),
         call' = [call EXCEPT ![c] = local],
         UNCHANGED <<requirement, history, untold, baselines, commits>>
  PROVE  RecordsInvariant'
<1>1. RowsOK' /\ HistoryOK' /\ Accounted' /\ HistoryTellsAll' /\ SnapshotAccounted'
  BY DEF RecordsInvariant, RowsOK, HistoryOK, Accounted, Told, HistoryTellsAll,
         HistoryIsCurrent, NewestFor, UntoldIsOriginal, SnapshotAccounted, Tale
<1>2. CallsOK'
  BY DEF RecordsInvariant, CallsOK, CallOK, Knows, Snapshot, Told, Tale, ChangeOK
<1> QED BY <1>1, <1>2 DEF RecordsInvariant

\* The change of an update, a deletion or a restoration has the columns' types.
LEMMA ChangesTyped ==
  ASSUME RowsOK, NEW r \in DOMAIN requirement
  PROVE  /\ \A patch \in Patches :
              ChangeOK(Change(requirement[r], Changed(requirement[r], patch)))
         /\ \A status \in Statuses : ChangeOK(Change(requirement[r], [status |-> status]))
         /\ \A text \in Statements : ChangeOK(Change(requirement[r], [rationale |-> text]))
<1>1. ASSUME NEW patch \in Patches
      PROVE  ChangeOK(Change(requirement[r], Changed(requirement[r], patch)))
  BY <1>1, RecordsAssumption DEF RowsOK, Change, Changed, ChangeOK, Fields
<1>2. ASSUME NEW status \in Statuses
      PROVE  ChangeOK(Change(requirement[r], [status |-> status]))
  BY <1>2 DEF RowsOK, Change, ChangeOK, Fields
<1>3. ASSUME NEW text \in Statements
      PROVE  ChangeOK(Change(requirement[r], [rationale |-> text]))
  BY <1>3 DEF RowsOK, Change, ChangeOK, Fields
<1> QED BY <1>1, <1>2, <1>3

LEMMA LoadStep ==
  ASSUME RecordsInvariant, NEW c \in Calls, NEW r \in Reqs,
         \/ \E patch \in Patches : UpdateRequirement(c, r, patch)
         \/ DeleteRequirement(c, r) \/ RestoreRequirement(c, r)
  PROVE  RecordsInvariant'
<1>1. PICK change : r \in DOMAIN requirement /\ ChangeOK(change) /\ Load(c, r, change)
  <2>1. {"deleted", "draft"} \subseteq Statuses
    BY DEF Statuses, ALLOWED_TRANSITIONS
  <2> QED BY <2>1, ChangesTyped
          DEF RecordsInvariant, UpdateRequirement, DeleteRequirement, RestoreRequirement,
              SoftDelete
<1> DEFINE local == [pc |-> "writing", changes |-> [q \in {r} |-> change]]
<1>2. Knows(local)
  BY <1>1 DEF Knows
<1>3. /\ call' = [call EXCEPT ![c] = local]
      /\ UNCHANGED <<requirement, history, untold, baselines, commits>>
  BY <1>1 DEF Load
<1> QED BY <1>2, <1>3, QuietStep

LEMMA ReadStep ==
  ASSUME RecordsInvariant, NEW c \in Calls,
         \/ \E batch \in Batches : BulkDelete_Begin(c, batch)
         \/ \E r \in Reqs : BulkDelete_Examine(c, r) \/ CloneRequirement(c, r)
         \/ \E name \in Names : CreateBaseline_Check(c, name)
         \/ CreateBaseline_Snapshot(c) \/ Abort(c)
         \/ \E live \in SUBSET Live : \E tagged \in [live -> Statements] : Export(c, tagged)
         \/ \E items \in Fetches : Import_Begin(c, items)
         \/ \E r \in Reqs, patch \in Patches : Import_Item(c, r, patch)
  PROVE  RecordsInvariant'
<1>1. ASSUME NEW batch \in Batches, BulkDelete_Begin(c, batch) PROVE RecordsInvariant'
  <2> DEFINE local == [pc |-> "examining", todo |-> batch, changes |-> [q \in {} |-> {}]]
  <2>1. Knows(local)
    BY DEF Knows
  <2> QED BY <1>1, <2>1, QuietStep DEF BulkDelete_Begin
<1>2. ASSUME NEW r \in Reqs, BulkDelete_Examine(c, r) PROVE RecordsInvariant'
  <2> DEFINE known == call[c].changes
             found == DOMAIN known \cup {s \in {r} : Deletable(s)}
             changes == [q \in found |->
                           IF q = r THEN Change(requirement[r], SoftDelete) ELSE known[q]]
             todo == call[c].todo \ {r}
             local == [pc |-> IF todo = {} THEN "writing" ELSE "examining",
                       todo |-> todo, changes |-> changes]
  <2>1. DOMAIN known \subseteq DOMAIN requirement /\ \A q \in DOMAIN known : ChangeOK(known[q])
    BY <1>2 DEF RecordsInvariant, CallsOK, CallOK, BulkDelete_Examine
  <2>2. r \in found => r \in DOMAIN requirement
    BY <2>1 DEF Deletable
  <2>3. r \in found => ChangeOK(Change(requirement[r], SoftDelete))
    BY <2>2, ChangesTyped DEF RecordsInvariant, SoftDelete, Statuses, ALLOWED_TRANSITIONS
  <2>4. DOMAIN changes \subseteq DOMAIN requirement /\ \A q \in DOMAIN changes : ChangeOK(changes[q])
    BY <2>1, <2>2, <2>3
  <2>5. Knows(local)
    BY <2>4 DEF Knows
  <2>6. /\ call' = [call EXCEPT ![c] = local]
        /\ UNCHANGED <<requirement, history, untold, baselines, commits>>
    BY <1>2 DEF BulkDelete_Examine
  <2> QED BY <2>5, <2>6, QuietStep
<1>3. ASSUME NEW r \in Reqs, CloneRequirement(c, r) PROVE RecordsInvariant'
  <2> DEFINE local == [pc |-> "cloning",
                       text |-> [statement |-> requirement[r].statement,
                                 rationale |-> requirement[r].rationale]]
  <2>1. Knows(local)
    BY <1>3, RowType DEF Knows, CloneRequirement, RecordsInvariant, RowsOK
  <2> QED BY <1>3, <2>1, QuietStep DEF CloneRequirement
<1>4. ASSUME NEW name \in Names, CreateBaseline_Check(c, name) PROVE RecordsInvariant'
  <2> DEFINE local == [pc |-> "named", name |-> name, rows |-> <<>>]
  <2>1. Knows(local)
    BY DEF Knows
  <2> QED BY <1>4, <2>1, QuietStep DEF CreateBaseline_Check
<1>5. CASE CreateBaseline_Snapshot(c)
  <2> DEFINE local == [pc |-> "snapshot", name |-> call[c].name,
                       rows |-> [r \in Live |-> requirement[r]]]
  <2>1. Snapshot([r \in Live |-> requirement[r]])
    BY DEF Snapshot, Live, RecordsInvariant, Accounted
  <2>2. Knows(local)
    BY <2>1 DEF Knows
  <2> QED BY <1>5, <2>2, QuietStep DEF CreateBaseline_Snapshot
<1>6. CASE Abort(c)
  <2>1. Knows([pc |-> "aborted"])
    BY DEF Knows
  <2> QED BY <1>6, <2>1, QuietStep DEF Abort
<1>7. ASSUME NEW live \in SUBSET Live, NEW tagged \in [live -> Statements], Export(c, tagged)
      PROVE  RecordsInvariant'
  <2> DEFINE changes == [r \in DOMAIN tagged |-> Tagging(requirement[r], tagged[r])]
             local == [pc |-> "exporting", changes |-> changes]
  <2>1. DOMAIN changes \subseteq DOMAIN requirement
    BY DEF Live
  <2>2. \A r \in DOMAIN changes : ChangeOK(changes[r])
    BY <2>1, ChangesTyped DEF RecordsInvariant, Tagging
  <2>3. Knows(local)
    BY <2>1, <2>2 DEF Knows
  <2>4. /\ call' = [call EXCEPT ![c] = local]
        /\ UNCHANGED <<requirement, history, untold, baselines, commits>>
    BY <1>7 DEF Export
  <2> QED BY <2>3, <2>4, QuietStep
<1>8. ASSUME NEW items \in Fetches, Import_Begin(c, items) PROVE RecordsInvariant'
  <2> DEFINE local == [pc |-> "fetching", todo |-> items, new |-> 0,
                       changes |-> [q \in {} |-> {}]]
  <2>1. Knows(local)
    BY DEF Knows
  <2> QED BY <1>8, <2>1, QuietStep DEF Import_Begin
<1>9. ASSUME NEW r \in Reqs, NEW patch \in Patches, Import_Item(c, r, patch)
      PROVE  RecordsInvariant'
  <2> DEFINE known == call[c].changes
             differs == {q \in {r} \cap DOMAIN requirement :
                           DOMAIN Changed(requirement[q], patch) # {}}
             changes == [q \in DOMAIN known \cup differs |->
                           IF q = r THEN Change(requirement[r], Changed(requirement[r], patch))
                                    ELSE known[q]]
             todo == call[c].todo \ {r}
             local == [pc |-> IF todo = {} THEN "importing" ELSE "fetching", todo |-> todo,
                       new |-> IF r \in DOMAIN requirement THEN call[c].new
                                                           ELSE call[c].new + 1,
                       changes |-> changes]
  <2>1. DOMAIN known \subseteq DOMAIN requirement /\ \A q \in DOMAIN known : ChangeOK(known[q])
    BY <1>9 DEF RecordsInvariant, CallsOK, CallOK, Import_Item
  <2>2. differs \subseteq DOMAIN requirement /\ differs \subseteq {r}
    OBVIOUS
  <2>3. r \in DOMAIN requirement =>
          ChangeOK(Change(requirement[r], Changed(requirement[r], patch)))
    BY ChangesTyped DEF RecordsInvariant
  <2>4. DOMAIN changes \subseteq DOMAIN requirement /\ \A q \in DOMAIN changes : ChangeOK(changes[q])
    <3> HIDE DEF differs
    <3> QED BY <2>1, <2>2, <2>3
  <2>5. Knows(local)
    <3> HIDE DEF changes
    <3> QED BY <2>4 DEF Knows
  <2>6. /\ call' = [call EXCEPT ![c] = local]
        /\ UNCHANGED <<requirement, history, untold, baselines, commits>>
    BY <1>9 DEF Import_Item
  <2> QED BY <2>5, <2>6, QuietStep
<1> QED BY <1>1, <1>2, <1>3, <1>4, <1>5, <1>6, <1>7, <1>8, <1>9

-----------------------------------------------------------------------------
(* Commits.                                                                  *)

\* History rows are only ever added, and what they account for stays so.
LEMMA ToldStays ==
  ASSUME Tale \subseteq Tale', NEW r, NEW f, NEW v, Told(r, f, v)
  PROVE  Told(r, f, v)'
BY DEF Told

LEMMA SnapshotStays ==
  ASSUME Tale \subseteq Tale', NEW rows, Snapshot(rows)
  PROVE  Snapshot(rows)'
BY ToldStays DEF Snapshot

LEMMA NewRowType ==
  ASSUME NEW text \in [statement : Statements, rationale : Statements]
  PROVE  NewRow(text) \in Row
BY DEF NewRow, Row, Statuses, ALLOWED_TRANSITIONS

\* What a commit of the changes that a request has worked out does: the columns that
\* were assigned take their values and no other does; each is told, by the history
\* or as a synchronisation, under a date of its own, and nothing else is.
Writes(c) ==
  LET changes == call[c].changes IN
  /\ DOMAIN changes \subseteq DOMAIN requirement
  /\ \A r \in DOMAIN changes : ChangeOK(changes[r])
  /\ DOMAIN requirement \subseteq DOMAIN requirement'
  /\ DOMAIN requirement' \subseteq Reqs
  /\ \A r \in DOMAIN requirement' : requirement'[r] \in Row
  /\ Tale \subseteq Tale'
  /\ \A h \in Tale' \ Tale : \E r \in DOMAIN changes : \E f \in DOMAIN changes[r].set :
       h.req = r /\ h.field = f /\ h.new = changes[r].set[f] /\ h.at = commits + 1
  /\ \A r \in DOMAIN requirement : \A f \in Fields :
       \/ /\ r \in DOMAIN changes /\ f \in DOMAIN changes[r].set
          /\ requirement'[r][f] = changes[r].set[f]
          /\ \E h \in Tale' : /\ h.req = r /\ h.field = f /\ h.at = commits + 1
                              /\ h.new = requirement'[r][f]
       \/ /\ requirement'[r][f] = requirement[r][f]
          /\ \A h \in Tale' : h.req = r /\ h.field = f => h \in Tale
  /\ commits' = commits + 1
  /\ call' = [call EXCEPT ![c] = [pc |-> "done"]]
  /\ UNCHANGED baselines

\* The rows that tell a set of changes.
TellsOf(c, changes) == UNION {HistoryOf(c, r, changes[r]) : r \in DOMAIN changes}

\* One for each column that a change assigns, with the new value and the date.
LEMMA HistoryTold ==
  ASSUME NEW c, NEW changes
  PROVE  /\ \A h \in TellsOf(c, changes) : \E r \in DOMAIN changes : \E f \in DOMAIN changes[r].set :
              h.req = r /\ h.field = f /\ h.new = changes[r].set[f] /\ h.at = commits + 1
         /\ \A r \in DOMAIN changes : \A f \in DOMAIN changes[r].set :
              \E h \in TellsOf(c, changes) :
              h.req = r /\ h.field = f /\ h.new = changes[r].set[f] /\ h.at = commits + 1
<1> DEFINE told(r, f) == HistoryRow(c, r, f, changes[r].seen[f], changes[r].set[f],
                                    changes[r].seen.version)
<1>1. \A r, f : /\ told(r, f).req = r /\ told(r, f).field = f
                /\ told(r, f).new = changes[r].set[f] /\ told(r, f).at = commits + 1
  BY DEF HistoryRow
<1>2. \A h : h \in TellsOf(c, changes) <=>
        \E r \in DOMAIN changes : \E f \in DOMAIN changes[r].set : h = told(r, f)
  BY DEF TellsOf, HistoryOf
<1> HIDE DEF told
<1> QED BY <1>1, <1>2

\* The same of what a synchronisation writes, but for the version.
LEMMA SyncedType ==
  ASSUME NEW c, NEW row \in Row, NEW change, ChangeOK(change)
  PROVE  /\ Synced(c, row, change) \in Row
         /\ \A f \in Fields : Synced(c, row, change)[f] =
              IF f \in DOMAIN change.set THEN change.set[f] ELSE row[f]
<1>1. Apply(row, change) \in Row
  BY ApplyType
<1>2. PICK v \in Nat : Synced(c, row, change) = [Apply(row, change) EXCEPT !.version = v]
  BY RowType DEF Synced, ChangeOK
<1>3. Synced(c, row, change) \in Row
  BY <1>1, <1>2 DEF Row
<1>4. \A f \in Fields : Synced(c, row, change)[f] = Apply(row, change)[f]
  BY <1>1, <1>2 DEF Fields, Row
<1> QED BY <1>3, <1>4, ApplyType

LEMMA WritesHold ==
  ASSUME RecordsInvariant, NEW c \in Calls,
         Commit(c) \/ \E made \in SUBSET Reqs, text \in Texts : Sync_Commit(c, made, text)
  PROVE  Writes(c)
<1> DEFINE changes == call[c].changes
           rows == TellsOf(c, changes)
<1>1. /\ call[c].pc \in {"writing", "exporting", "importing"}
      /\ commits' = commits + 1
      /\ call' = [call EXCEPT ![c] = [pc |-> "done"]]
      /\ UNCHANGED baselines
  BY DEF Commit, Sync_Commit
<1>2. DOMAIN changes \subseteq DOMAIN requirement /\ \A r \in DOMAIN changes : ChangeOK(changes[r])
  BY <1>1 DEF RecordsInvariant, CallsOK, CallOK
<1>3. Tale' = Tale \cup rows
  BY DEF Commit, Sync_Commit, Tale, TellsOf
<1>4. PICK made \in SUBSET Reqs :
        /\ DOMAIN requirement' = DOMAIN requirement \cup made
        /\ made \cap DOMAIN requirement = {}
        /\ \A r \in made : requirement'[r] \in Row
        /\ \A r \in DOMAIN requirement :
             \/ r \notin DOMAIN changes /\ requirement'[r] = requirement[r]
             \/ /\ r \in DOMAIN changes
                /\ \/ requirement'[r] = Apply(requirement[r], changes[r])
                   \/ requirement'[r] = Synced(c, requirement[r], changes[r])
  <2>1. CASE Commit(c)
    <3>1. PICK none \in SUBSET Reqs : none = {}
      OBVIOUS
    <3> QED BY <2>1, <3>1 DEF Commit
  <2>2. ASSUME NEW made \in SUBSET Reqs, NEW text \in Texts, Sync_Commit(c, made, text)
        PROVE  /\ DOMAIN requirement' = DOMAIN requirement \cup made
               /\ made \cap DOMAIN requirement = {}
               /\ \A r \in made : requirement'[r] \in Row
               /\ \A r \in DOMAIN requirement :
                    \/ r \notin DOMAIN changes /\ requirement'[r] = requirement[r]
                    \/ /\ r \in DOMAIN changes
                       /\ \/ requirement'[r] = Apply(requirement[r], changes[r])
                          \/ requirement'[r] = Synced(c, requirement[r], changes[r])
    <3>1. NewRow(text) \in Row
      BY NewRowType, RecordsAssumption
    <3> QED BY <2>2, <3>1 DEF Sync_Commit
  <2> QED BY <2>1, <2>2
<1>5. \A r \in DOMAIN requirement : requirement[r] \in Row
  BY DEF RecordsInvariant, RowsOK
<1>6. ASSUME NEW r \in DOMAIN requirement
      PROVE  /\ requirement'[r] \in Row
             /\ \A f \in Fields : requirement'[r][f] =
                  IF r \in DOMAIN changes /\ f \in DOMAIN changes[r].set
                    THEN changes[r].set[f] ELSE requirement[r][f]
  <2>1. CASE r \notin DOMAIN changes
    BY <1>4, <1>5, <2>1
  <2>2. CASE r \in DOMAIN changes
    <3>1. requirement[r] \in Row /\ ChangeOK(changes[r])
      BY <1>2, <1>5, <2>2
    <3>2. CASE requirement'[r] = Apply(requirement[r], changes[r])
      BY <2>2, <3>1, <3>2, ApplyType
    <3>3. CASE requirement'[r] = Synced(c, requirement[r], changes[r])
      BY <2>2, <3>1, <3>3, SyncedType
    <3> QED BY <1>4, <2>2, <3>2, <3>3
  <2> QED BY <2>1, <2>2
<1>7. /\ \A h \in rows : \E r \in DOMAIN changes : \E f \in DOMAIN changes[r].set :
           h.req = r /\ h.field = f /\ h.new = changes[r].set[f] /\ h.at = commits + 1
      /\ \A r \in DOMAIN changes : \A f \in DOMAIN changes[r].set : \E h \in rows :
           h.req = r /\ h.field = f /\ h.new = changes[r].set[f] /\ h.at = commits + 1
  BY HistoryTold
<1> HIDE DEF rows
<1>8. ASSUME NEW r \in DOMAIN requirement, NEW f \in Fields
      PROVE  \/ /\ r \in DOMAIN changes /\ f \in DOMAIN changes[r].set
                /\ requirement'[r][f] = changes[r].set[f]
                /\ \E h \in Tale' : /\ h.req = r /\ h.field = f /\ h.at = commits + 1
                                    /\ h.new = requirement'[r][f]
             \/ /\ requirement'[r][f] = requirement[r][f]
                /\ \A h \in Tale' : h.req = r /\ h.field = f => h \in Tale
  BY <1>3, <1>6, <1>7
<1>9. DOMAIN requirement' \subseteq Reqs /\ \A r \in DOMAIN requirement' : requirement'[r] \in Row
  BY <1>4, <1>6 DEF RecordsInvariant, RowsOK
<1> QED BY <1>1, <1>2, <1>3, <1>4, <1>7, <1>8, <1>9 DEF Writes

LEMMA CommitStep ==
  ASSUME RecordsInvariant, NEW c \in Calls, Writes(c)
  PROVE  RecordsInvariant'
<1> DEFINE changes == call[c].changes
<1>3. /\ Tale \subseteq Tale'
      /\ \A h \in Tale' \ Tale : \E r \in DOMAIN changes : \E f \in DOMAIN changes[r].set :
           h.req = r /\ h.field = f /\ h.new = changes[r].set[f] /\ h.at = commits + 1
      /\ DOMAIN changes \subseteq DOMAIN requirement
  BY DEF Writes
<1>4. ASSUME NEW r \in DOMAIN requirement, NEW f \in Fields
      PROVE  \/ /\ r \in DOMAIN changes /\ f \in DOMAIN changes[r].set
                /\ requirement'[r][f] = changes[r].set[f]
                /\ \E h \in Tale' : /\ h.req = r /\ h.field = f /\ h.at = commits + 1
                                    /\ h.new = requirement'[r][f]
             \/ /\ requirement'[r][f] = requirement[r][f]
                /\ \A h \in Tale' : h.req = r /\ h.field = f => h \in Tale
  BY DEF Writes
<1>5. RowsOK' /\ DOMAIN requirement \subseteq DOMAIN requirement'
  BY DEF Writes, RecordsInvariant, RowsOK
<1>6. commits \in Nat /\ commits' = commits + 1
  BY DEF Writes, RecordsInvariant, HistoryOK
<1>7. HistoryOK'
  BY <1>3, <1>5, <1>6 DEF RecordsInvariant, HistoryOK
<1>8. CallsOK'
  <2>1. ASSUME NEW d \in Calls, d # c
        PROVE  CallOK(d)' /\ (call[d].pc = "snapshot" => Snapshot(call[d].rows))'
    <3>1. call'[d] = call[d] /\ CallOK(d) /\ (call[d].pc = "snapshot" => Snapshot(call[d].rows))
      BY <2>1 DEF RecordsInvariant, CallsOK, Writes
    <3>2. CallOK(d)'
      BY <1>5, <3>1 DEF CallOK, ChangeOK
    <3>3. PICK rows : rows = call[d].rows
      OBVIOUS
    <3>4. Snapshot(rows) => Snapshot(rows)'
      BY <1>3, SnapshotStays
    <3>5. (call[d].pc = "snapshot" => Snapshot(call[d].rows))'
      BY <3>1, <3>3, <3>4
    <3> QED BY <3>2, <3>5
  <2>2. DOMAIN call' = Calls /\ call'[c] = [pc |-> "done"]
    BY DEF RecordsInvariant, CallsOK, Writes
  <2>3. CallOK(c)'
    BY <2>2 DEF CallOK
  <2> QED BY <2>1, <2>2, <2>3 DEF CallsOK
<1>9. Accounted'
  BY <1>3, <1>4 DEF RecordsInvariant, Accounted, RowsOK, Told
<1>10. HistoryIsCurrent'
  <2> SUFFICES ASSUME NEW h \in Tale', h.field \in Fields, NewestFor(h)'
               PROVE  requirement'[h.req][h.field] = h.new
    BY DEF HistoryIsCurrent, Tale
  <2>1. CASE h \in Tale
    <3>1. h.req \in DOMAIN requirement /\ h.at \in Nat /\ h.at <= commits
      BY <2>1 DEF RecordsInvariant, HistoryOK
    <3>2. /\ requirement'[h.req][h.field] = requirement[h.req][h.field]
      BY <1>4, <1>6, <3>1 DEF NewestFor, Tale
    <3>3. NewestFor(h)
      BY <1>3 DEF NewestFor, Tale
    <3> QED BY <2>1, <3>2, <3>3 DEF RecordsInvariant, HistoryTellsAll, HistoryIsCurrent, Tale
  <2>2. CASE h \notin Tale
    <3>1. PICK r \in DOMAIN changes : \E f \in DOMAIN changes[r].set :
            h.req = r /\ h.field = f /\ h.new = changes[r].set[f]
      BY <1>3, <2>2
    <3>2. PICK f \in DOMAIN changes[r].set :
            h.req = r /\ h.field = f /\ h.new = changes[r].set[f]
      BY <3>1
    <3> QED BY <1>3, <1>4, <2>2, <3>2
  <2> QED BY <2>1, <2>2
<1>11. UntoldIsOriginal'
  BY <1>3, <1>4 DEF RecordsInvariant, RowsOK, HistoryTellsAll, UntoldIsOriginal, Tale
<1>12. SnapshotAccounted'
  BY <1>3 DEF RecordsInvariant, SnapshotAccounted, Writes, Tale
<1> QED BY <1>5, <1>7, <1>8, <1>9, <1>10, <1>11, <1>12 DEF RecordsInvariant, HistoryTellsAll

\* Rows that are new have no past, and "created" is about no field.
LEMMA InsertStep ==
  ASSUME RecordsInvariant, NEW c \in Calls, NEW local,
         call' = [call EXCEPT ![c] = local],
         \/ local.pc = "done"
         \/ local.pc = "created" /\ local.req \in DOMAIN requirement',
         DOMAIN requirement \subseteq DOMAIN requirement',
         DOMAIN requirement' \subseteq Reqs,
         \A r \in DOMAIN requirement : requirement'[r] = requirement[r],
         \A r \in DOMAIN requirement' : requirement'[r] \in Row,
         Tale \subseteq Tale',
         \A h \in Tale' \ Tale :
           h.field = "created" /\ h.req \in DOMAIN requirement' /\ h.at = commits + 1,
         commits' = commits + 1, UNCHANGED baselines
  PROVE  RecordsInvariant'
<1>1. RowsOK' /\ HistoryOK'
  BY DEF RecordsInvariant, RowsOK, HistoryOK
<1>2. CallsOK'
  BY SnapshotStays DEF RecordsInvariant, CallsOK, CallOK, ChangeOK
<1>3. Accounted' /\ SnapshotAccounted'
  BY DEF RecordsInvariant, RowsOK, Accounted, Told, SnapshotAccounted, Tale
<1>4. HistoryIsCurrent' /\ UntoldIsOriginal'
  <2>1. "created" \notin Fields
    BY DEF Fields
  <2> QED BY <2>1 DEF RecordsInvariant, RowsOK, HistoryOK, HistoryTellsAll, HistoryIsCurrent,
                      NewestFor, UntoldIsOriginal, Tale
<1> QED BY <1>1, <1>2, <1>3, <1>4 DEF RecordsInvariant, HistoryTellsAll

\* create_requirement and clone_requirement.
LEMMA CreateStep ==
  ASSUME RecordsInvariant, NEW c \in Calls,
         \/ \E r \in Reqs :
              \/ \E text \in Texts : CreateRequirement(c, r, text)
              \/ CloneRequirement_Commit(c, r)
         \/ CreateRequirement_History(c)
  PROVE  RecordsInvariant'
<1> USE DEF HistoryRow
<1>1. RowsOK /\ CallOK(c)
  BY DEF RecordsInvariant, CallsOK
<1> DEFINE done == [pc |-> "done"]
<1>2. ASSUME NEW r \in Reqs, NEW text \in Texts, CreateRequirement(c, r, text)
      PROVE  RecordsInvariant'
  <2> DEFINE local == [pc |-> "created", req |-> r]
  <2>1. local.pc = "created" /\ local.req \in DOMAIN requirement'
    BY <1>2 DEF CreateRequirement
  <2>2. /\ call' = [call EXCEPT ![c] = local]
        /\ commits' = commits + 1
        /\ UNCHANGED <<history, untold, baselines>>
    BY <1>2 DEF CreateRequirement
  <2>3. /\ DOMAIN requirement \subseteq DOMAIN requirement'
        /\ DOMAIN requirement' \subseteq Reqs
        /\ \A q \in DOMAIN requirement : requirement'[q] = requirement[q]
        /\ \A q \in DOMAIN requirement' : requirement'[q] \in Row
    BY <1>1, <1>2, NewRowType, RecordsAssumption DEF CreateRequirement, RowsOK
  <2>4. Tale' = Tale
    BY <2>2 DEF Tale
  <2> QED BY <2>1, <2>2, <2>3, <2>4, InsertStep
<1>3. ASSUME NEW r \in Reqs, CloneRequirement_Commit(c, r)
      PROVE  RecordsInvariant'
  <2>1. call' = [call EXCEPT ![c] = done] /\ commits' = commits + 1 /\ UNCHANGED baselines
    BY <1>3 DEF CloneRequirement_Commit
  <2>2. call[c].text \in [statement : Statements, rationale : Statements]
    BY <1>1, <1>3 DEF CloneRequirement_Commit, CallOK
  <2>3. /\ DOMAIN requirement \subseteq DOMAIN requirement'
        /\ DOMAIN requirement' \subseteq Reqs
        /\ \A q \in DOMAIN requirement : requirement'[q] = requirement[q]
        /\ \A q \in DOMAIN requirement' : requirement'[q] \in Row
    BY <1>1, <1>3, <2>2, NewRowType DEF CloneRequirement_Commit, RowsOK
  <2>4. /\ Tale \subseteq Tale'
        /\ \A h \in Tale' \ Tale :
             h.field = "created" /\ h.req \in DOMAIN requirement' /\ h.at = commits + 1
    <3> DEFINE h == HistoryRow(c, r, "created", "", "", 1)
    <3>1. r \in DOMAIN requirement' /\ Tale' = Tale \cup {h}
      BY <1>3 DEF CloneRequirement_Commit, Tale
    <3>2. h.field = "created" /\ h.req = r /\ h.at = commits + 1
      OBVIOUS
    <3> HIDE DEF h
    <3> QED BY <3>1, <3>2
  <2> QED BY <2>1, <2>3, <2>4, InsertStep
<1>4. CASE CreateRequirement_History(c)
  <2>1. /\ call' = [call EXCEPT ![c] = done] /\ commits' = commits + 1
        /\ UNCHANGED <<requirement, untold, baselines>>
    BY <1>4 DEF CreateRequirement_History
  <2>2. /\ Tale \subseteq Tale'
        /\ \A h \in Tale' \ Tale :
             h.field = "created" /\ h.req \in DOMAIN requirement' /\ h.at = commits + 1
    <3> DEFINE h == HistoryRow(c, call[c].req, "created", "", "", 1)
    <3>1. /\ call[c].req \in DOMAIN requirement' /\ Tale' = Tale \cup {h}
      BY <1>1, <1>4, <2>1 DEF CreateRequirement_History, CallOK, Tale
    <3>2. h.field = "created" /\ h.req = call[c].req /\ h.at = commits + 1
      OBVIOUS
    <3> HIDE DEF h
    <3> QED BY <3>1, <3>2
  <2> QED BY <1>1, <2>1, <2>2, InsertStep DEF RowsOK
<1> QED BY <1>2, <1>3, <1>4

\* A baseline holds what its request has read; the rest of it is no concern.
LEMMA BaselineStepKeeps ==
  ASSUME RecordsInvariant, NEW c \in Calls,
         CreateBaseline_Commit(c) \/ \E b \in baselines : DeleteBaseline(c, b)
  PROVE  RecordsInvariant'
<1>1. /\ UNCHANGED <<requirement, history, untold>> /\ commits' = commits + 1
      /\ call' = [call EXCEPT ![c] = [pc |-> "done"]]
  BY DEF CreateBaseline_Commit, DeleteBaseline
<1>2. \A b \in baselines' : b \in baselines \/ Snapshot(b.rows)
  BY DEF CreateBaseline_Commit, DeleteBaseline, RecordsInvariant, CallsOK
<1>3. RowsOK' /\ HistoryOK' /\ Accounted' /\ HistoryTellsAll'
  BY <1>1 DEF RecordsInvariant, RowsOK, HistoryOK, Accounted, Told, HistoryTellsAll,
              HistoryIsCurrent, NewestFor, UntoldIsOriginal, Tale
<1>4. CallsOK'
  BY <1>1 DEF RecordsInvariant, CallsOK, CallOK, ChangeOK, Snapshot, Told, Tale
<1>5. SnapshotAccounted'
  BY <1>1, <1>2 DEF RecordsInvariant, SnapshotAccounted, Snapshot, Told, Tale
<1> QED BY <1>3, <1>4, <1>5 DEF RecordsInvariant

LEMMA RecordsInit == Init => RecordsInvariant
<1> SUFFICES ASSUME Init PROVE RecordsInvariant
  OBVIOUS
<1> QED BY RecordsAssumption
        DEF Init, RecordsInvariant, RowsOK, HistoryOK, CallsOK, CallOK, Accounted, Told,
            HistoryTellsAll, HistoryIsCurrent, UntoldIsOriginal, SnapshotAccounted, Tale

LEMMA RecordsStep == RecordsInvariant /\ [Next]_recordVars => RecordsInvariant'
<1>1. ASSUME RecordsInvariant, UNCHANGED recordVars PROVE RecordsInvariant'
  BY <1>1 DEF recordVars, RecordsInvariant, RowsOK, HistoryOK, CallsOK, CallOK, ChangeOK,
     Accounted, Told, Snapshot, HistoryTellsAll, HistoryIsCurrent, NewestFor,
     UntoldIsOriginal, SnapshotAccounted, Tale
<1>2. ASSUME RecordsInvariant, NEW c \in Calls, RequirementStep(c) \/ SyncStep(c) \/ BaselineStep(c) \/ Abort(c)
      PROVE  RecordsInvariant'
  BY <1>2, LoadStep, ReadStep, WritesHold, CommitStep, CreateStep, BaselineStepKeeps
  DEF RequirementStep, SyncStep, BaselineStep
<1> QED BY <1>1, <1>2 DEF Next


\* However the requests of update, delete, restore, bulk-delete, create and clone
\* interleave, lose races, write stale rows back or die: the value of a field is
\* the one its newest history row tells, or the original one if none does, unless
\* a synchronisation wrote it since.
THEOREM HistoryIsWhole == Spec => []HistoryTellsAll
<1>1. RecordsInvariant => HistoryTellsAll
  BY DEF RecordsInvariant
<1> QED BY <1>1, RecordsInit, RecordsStep, PTL DEF Spec

\* No baseline holds a deleted requirement or a value nobody has committed, though
\* requests commit between the SELECT of create_baseline and its own commit.
THEOREM BaselinesAreAccounted == Spec => []SnapshotAccounted
<1>1. RecordsInvariant => SnapshotAccounted
  BY DEF RecordsInvariant
<1> QED BY <1>1, RecordsInit, RecordsStep, PTL DEF Spec

-----------------------------------------------------------------------------
(* Signing: what it leaves alone, and what edits do to what was signed.      *)

\* What commits to a field that changes: a row of that field in the tale, later than
\* all there were.
LEMMA ChangesAreTold ==
  ASSUME RecordsInvariant, [Next]_recordVars, NEW r \in DOMAIN requirement, NEW f \in Fields
  PROVE  /\ r \in DOMAIN requirement' /\ Tale \subseteq Tale' /\ commits' >= commits
         /\ \/ requirement'[r][f] = requirement[r][f]
            \/ \E h \in Tale' : h.req = r /\ h.field = f /\ h.at > commits
<1>1. commits \in Nat
  BY DEF RecordsInvariant, HistoryOK
<1>2. ASSUME NEW c \in Calls, Writes(c)
      PROVE  /\ r \in DOMAIN requirement' /\ Tale \subseteq Tale' /\ commits' >= commits
             /\ \/ requirement'[r][f] = requirement[r][f]
                \/ \E h \in Tale' : h.req = r /\ h.field = f /\ h.at > commits
  BY <1>1, <1>2 DEF Writes
<1>3. ASSUME NEW c \in Calls, ~Writes(c),
             RequirementStep(c) \/ SyncStep(c) \/ BaselineStep(c) \/ Abort(c)
      PROVE  /\ r \in DOMAIN requirement' /\ Tale \subseteq Tale' /\ commits' >= commits
             /\ requirement'[r][f] = requirement[r][f]
  <2>1. CASE UNCHANGED <<requirement, history, untold, commits>>
    BY <1>1, <2>1 DEF Tale
  <2>2. ASSUME UNCHANGED requirement, Tale \subseteq Tale', commits' = commits + 1
        PROVE  /\ r \in DOMAIN requirement' /\ Tale \subseteq Tale' /\ commits' >= commits
               /\ requirement'[r][f] = requirement[r][f]
    BY <1>1, <2>2
  <2>3. ASSUME NEW q \in Reqs, (\E text \in Texts : CreateRequirement(c, q, text))
                               \/ CloneRequirement_Commit(c, q)
        PROVE  /\ r \in DOMAIN requirement' /\ Tale \subseteq Tale' /\ commits' >= commits
               /\ requirement'[r][f] = requirement[r][f]
    <3>1. /\ Tale \subseteq Tale' /\ commits' = commits + 1
          /\ \E row : requirement' = [p \in DOMAIN requirement \cup {q} |->
                        IF p = q THEN row ELSE requirement[p]]
          /\ q \notin DOMAIN requirement
      BY <2>3 DEF CreateRequirement, CloneRequirement_Commit, Tale
    <3> QED BY <1>1, <3>1
  <2>4. CASE CreateRequirement_History(c) \/ CreateBaseline_Commit(c)
             \/ \E b \in baselines : DeleteBaseline(c, b)
    BY <2>2, <2>4 DEF CreateRequirement_History, CreateBaseline_Commit, DeleteBaseline, Tale
  <2>5. ASSUME NEW q \in Reqs,
               \/ \E patch \in Patches : UpdateRequirement(c, q, patch)
               \/ DeleteRequirement(c, q) \/ RestoreRequirement(c, q)
               \/ BulkDelete_Examine(c, q) \/ CloneRequirement(c, q)
        PROVE  UNCHANGED <<requirement, history, untold, commits>>
    <3>1. \A change : Load(c, q, change) => UNCHANGED <<requirement, history, untold, commits>>
      BY DEF Load
    <3>2. BulkDelete_Examine(c, q) => UNCHANGED <<requirement, history, untold, commits>>
      BY DEF BulkDelete_Examine
    <3>3. CloneRequirement(c, q) => UNCHANGED <<requirement, history, untold, commits>>
      BY DEF CloneRequirement
    <3> QED BY <2>5, <3>1, <3>2, <3>3 DEF UpdateRequirement, DeleteRequirement, RestoreRequirement
  <2>6. CASE \/ \E batch \in Batches : BulkDelete_Begin(c, batch)
             \/ \E name \in Names : CreateBaseline_Check(c, name)
             \/ CreateBaseline_Snapshot(c) \/ Abort(c)
    BY <2>1, <2>6 DEF BulkDelete_Begin, CreateBaseline_Check, CreateBaseline_Snapshot, Abort
  <2>7. CASE \/ \E live \in SUBSET Live : \E tagged \in [live -> Statements] : Export(c, tagged)
             \/ \E items \in Fetches : Import_Begin(c, items)
             \/ \E q \in Reqs, patch \in Patches : Import_Item(c, q, patch)
    BY <2>1, <2>7 DEF Export, Import_Begin, Import_Item
  <2>8. ~Commit(c) /\ ~\E made \in SUBSET Reqs, text \in Texts : Sync_Commit(c, made, text)
    BY <1>3, WritesHold
  <2> QED BY <1>3, <2>1, <2>3, <2>4, <2>5, <2>6, <2>7, <2>8
          DEF RequirementStep, SyncStep, BaselineStep
<1>4. CASE UNCHANGED recordVars
  BY <1>1, <1>4 DEF recordVars, Tale
<1> QED BY <1>2, <1>3, <1>4 DEF Next

\* A signer writes no requirement, history row or baseline.
LEMMA SigningWritesNoRecord == SignSpec => Spec
<1>1. SignInit => Init
  BY DEF SignInit
<1>2. [SignNext]_allVars => [Next]_recordVars
  BY DEF SignNext, allVars, IssueToken, SignStep, ConsumeToken_Read, ConsumeToken_Commit,
         VerifyPassword, LoadEntity, EntityMissing, CommitSignature, Tick
<1> QED BY <1>1, <1>2, PTL DEF SignSpec, Spec

\* The texts that were hashed are the requirement's, or one of them was written
\* since the requirement was loaded.
Sealed(r, hash, seen) ==
  /\ r \in DOMAIN requirement
  /\ hash = [version |-> hash.version, statement |-> hash.statement,
             rationale |-> hash.rationale]
  /\ seen \in Nat /\ seen <= commits
  /\ \A f \in {"statement", "rationale"} :
       \/ requirement[r][f] = hash[f]
       \/ \E h \in Tale : h.req = r /\ h.field = f /\ h.at > seen

SealsOK ==
  /\ DOMAIN sign = Signers
  /\ \A g \in Signers : sign[g].pc = "sealing" => Sealed(sign[g].req, sign[g].hash, sign[g].seen)
  /\ \A s \in signatures : Sealed(s.entity_id, s.record_hash, s.seen)

LEMMA SealStays ==
  ASSUME RecordsInvariant, [Next]_recordVars, NEW r, NEW hash, NEW seen, Sealed(r, hash, seen)
  PROVE  Sealed(r, hash, seen)'
<1>1. r \in DOMAIN requirement /\ seen \in Nat /\ seen <= commits
  BY DEF Sealed
<1>2. RecordsInvariant'
  BY RecordsStep
<1>3. commits \in Nat /\ commits' \in Nat /\ \A h \in Tale' : h.at \in Nat
  BY <1>2 DEF RecordsInvariant, HistoryOK
<1>4. r \in DOMAIN requirement' /\ Tale \subseteq Tale' /\ commits' >= commits
  BY <1>1, ChangesAreTold DEF Fields
<1>5. ASSUME NEW f \in {"statement", "rationale"}
      PROVE  \/ requirement'[r][f] = hash[f]
             \/ \E h \in Tale' : h.req = r /\ h.field = f /\ h.at > seen
  <2>1. f \in Fields
    BY DEF Fields
  <2>2. \/ requirement'[r][f] = requirement[r][f]
        \/ \E h \in Tale' : h.req = r /\ h.field = f /\ h.at > commits
    BY <1>1, <2>1, ChangesAreTold
  <2>3. \/ requirement[r][f] = hash[f]
        \/ \E h \in Tale : h.req = r /\ h.field = f /\ h.at > seen
    BY DEF Sealed
  <2>4. CASE \E h \in Tale' : h.req = r /\ h.field = f /\ h.at > commits
    BY <1>1, <1>3, <2>4
  <2> QED BY <1>4, <2>2, <2>3, <2>4
<1>6. hash = [version |-> hash.version, statement |-> hash.statement,
             rationale |-> hash.rationale]
  BY DEF Sealed
<1> HIDE DEF Tale
<1> QED BY <1>1, <1>3, <1>4, <1>5, <1>6 DEF Sealed

LEMMA SealsStep == RecordsInvariant /\ SealsOK /\ [SignNext]_allVars => SealsOK'
<1> SUFFICES ASSUME RecordsInvariant, SealsOK, [SignNext]_allVars PROVE SealsOK'
  OBVIOUS
<1>1. CASE Next /\ UNCHANGED signVars
  BY <1>1, SealStays DEF SealsOK, signVars
<1>2. CASE UNCHANGED recordVars /\ UNCHANGED <<signatures, sign>>
  BY <1>2 DEF SealsOK, Sealed, recordVars, Tale
<1>3. ASSUME NEW g \in Signers, SignStep(g) PROVE SealsOK'
  <2>1. UNCHANGED recordVars
    BY <1>3 DEF SignStep, ConsumeToken_Read, ConsumeToken_Commit, VerifyPassword, LoadEntity,
                EntityMissing, CommitSignature
  <2>2. \A r, hash, seen : Sealed(r, hash, seen)' <=> Sealed(r, hash, seen)
    BY <2>1 DEF Sealed, recordVars, Tale
  <2>3. CASE LoadEntity(g)
    <3>1. commits \in Nat
      BY DEF RecordsInvariant, HistoryOK
    <3>2. Sealed(sign'[g].req, sign'[g].hash, sign'[g].seen)
      BY <2>3, <3>1 DEF LoadEntity, Sealed, RecordHash, SealsOK
    <3> QED BY <2>2, <2>3, <3>2 DEF LoadEntity, SealsOK
  <2>4. CASE CommitSignature(g)
    BY <2>2, <2>4 DEF CommitSignature, SealsOK
  <2>5. ASSUME UNCHANGED signatures, NEW local, local.pc # "sealing",
               sign' = [sign EXCEPT ![g] = local]
        PROVE  SealsOK'
    BY <2>2, <2>5 DEF SealsOK
  <2>6. CASE EntityMissing(g)
    BY <2>5, <2>6 DEF EntityMissing
  <2>7. CASE ConsumeToken_Commit(g)
    <3>1. sign' = [sign EXCEPT ![g] = [sign[g] EXCEPT !.pc = "authenticated"]]
      BY <2>7 DEF ConsumeToken_Commit
    <3> QED BY <2>2, <2>7, <3>1 DEF ConsumeToken_Commit, SealsOK
  <2>8. ASSUME NEW r \in Reqs, NEW u \in Users,
               VerifyPassword(g, r, u) \/ \E t \in Tokens : ConsumeToken_Read(g, r, u, t)
        PROVE  SealsOK'
    BY <2>5, <2>8 DEF VerifyPassword, ConsumeToken_Read
  <2> QED BY <1>3, <2>3, <2>4, <2>6, <2>7, <2>8 DEF SignStep
<1>4. CASE Tick \/ \E t \in Tokens, u \in Users : IssueToken(t, u)
  BY <1>2, <1>4 DEF Tick, IssueToken
<1> QED BY <1>1, <1>2, <1>3, <1>4 DEF SignNext, allVars, signVars

\* Whenever the verification of a signature fails while the version is the sealed
\* one, a sealed text was written later than the load that was signed, and the
\* history tells so, or it was a synchronisation.
THEOREM AlarmsExplained == SignSpec => []AlarmsAreExplained
<1>1. SignSpec => []RecordsInvariant
  BY SigningWritesNoRecord, RecordsInit, RecordsStep, PTL DEF Spec
<1>2. SignInit => SealsOK
  BY DEF SignInit, SealsOK
<1>3. SealsOK => AlarmsAreExplained
  BY DEF SealsOK, Sealed, AlarmsAreExplained, Valid, RecordHash, Tale
<1> QED BY <1>1, <1>2, <1>3, SealsStep, PTL DEF SignSpec

-----------------------------------------------------------------------------
(* The evidence behind a signature. Two calls can both read a token as not   *)
(* spent and both spend it, and the later commit overwrites consumed_at: the *)
(* evidence holds because what is written then is an earlier read's time.    *)

\* What a signature of user u with token t, made at the time when, rests on.
Evidence(u, t, when) ==
  IF u \in IdpUsers
    THEN \E row \in tokens : /\ row.token = t /\ row.user_id = u
                             /\ SpentInTime(row) /\ row.consumed_at <= when
    ELSE t = None

TokensOK ==
  /\ tokens \subseteq [token : Tokens, user_id : IdpUsers, expires_at : Nat,
                       consumed_at : Nat \cup {None}]
  /\ \A a, b \in tokens : a.token = b.token => a = b
  /\ now \in Nat

\* A call that is about to spend its token, which was good when it was read.
Spending(g) ==
  /\ DOMAIN sign[g] = {"pc", "req", "user", "token", "at"}
  /\ sign[g].user \in IdpUsers /\ sign[g].at \in Nat /\ sign[g].at <= now
  /\ \E row \in tokens : /\ row.token = sign[g].token /\ row.user_id = sign[g].user
                         /\ sign[g].at < row.expires_at

SignersOK ==
  /\ DOMAIN sign = Signers
  /\ \A g \in Signers :
       /\ sign[g].pc = "consuming" => Spending(g)
       /\ sign[g].pc \in {"authenticated", "sealing"} =>
            Evidence(sign[g].user, sign[g].token, now)

SignaturesOK ==
  /\ \A s \in signatures : /\ Evidence(s.user_id, s.token, s.timestamp)
                           /\ s.timestamp \in Nat /\ s.timestamp <= now
  /\ \A s \in signatures, g \in Signers :
       sign[g].pc = "consuming" /\ s.user_id \in IdpUsers /\ sign[g].token = s.token =>
         sign[g].at <= s.timestamp

EvidenceInvariant == TokensOK /\ SignersOK /\ SignaturesOK

\* Evidence lasts when token rows are only added, and with time.
LEMMA EvidenceStays ==
  ASSUME TokensOK, NEW u, NEW t, NEW when \in Nat, NEW later \in Nat, when <= later,
         tokens \subseteq tokens', Evidence(u, t, when)
  PROVE  Evidence(u, t, later)'
<1>1. CASE u \notin IdpUsers
  BY <1>1 DEF Evidence
<1>2. CASE u \in IdpUsers
  <2>1. PICK row \in tokens : /\ row.token = t /\ row.user_id = u
                              /\ SpentInTime(row) /\ row.consumed_at <= when
    BY <1>2 DEF Evidence
  <2>2. row.consumed_at \in Nat
    BY <2>1 DEF SpentInTime, TokensOK
  <2> QED BY <1>2, <2>1, <2>2 DEF Evidence
<1> QED BY <1>1, <1>2

\* Tokens are issued, time passes, requirements are edited.
LEMMA UnsignedStep ==
  ASSUME EvidenceInvariant, TokensOK', tokens \subseteq tokens', now <= now',
         UNCHANGED <<signatures, sign>>
  PROVE  EvidenceInvariant'
<1>1. now \in Nat /\ now' \in Nat
  BY DEF EvidenceInvariant, TokensOK
<1>2. SignersOK'
  <2>1. ASSUME NEW g \in Signers, sign[g].pc = "consuming" PROVE Spending(g)'
    BY <1>1, <2>1 DEF EvidenceInvariant, SignersOK, Spending
  <2>2. ASSUME NEW g \in Signers, Evidence(sign[g].user, sign[g].token, now)
        PROVE  Evidence(sign[g].user, sign[g].token, now)'
    BY <1>1, <2>2, EvidenceStays DEF EvidenceInvariant
  <2> QED BY <2>1, <2>2 DEF EvidenceInvariant, SignersOK
<1>3. SignaturesOK'
  BY <1>1, EvidenceStays DEF EvidenceInvariant, SignaturesOK
<1> QED BY <1>2, <1>3 DEF EvidenceInvariant

\* A call moves on, without spending its token or signing.
LEMMA LocalStep ==
  ASSUME EvidenceInvariant, NEW g \in Signers, NEW local,
         sign' = [sign EXCEPT ![g] = local], UNCHANGED <<tokens, signatures, now>>,
         local.pc = "consuming" =>
           /\ DOMAIN local = {"pc", "req", "user", "token", "at"}
           /\ local.user \in IdpUsers /\ local.at = now
           /\ \E row \in tokens : /\ row.token = local.token /\ row.user_id = local.user
                                  /\ Usable(row),
         local.pc \in {"authenticated", "sealing"} => Evidence(local.user, local.token, now)
  PROVE  EvidenceInvariant'
<1>1. TokensOK'
  BY DEF EvidenceInvariant, TokensOK
<1>2. \A u, t, when : Evidence(u, t, when)' <=> Evidence(u, t, when)
  BY DEF Evidence
<1>3. now \in Nat /\ DOMAIN sign = Signers
  BY DEF EvidenceInvariant, TokensOK, SignersOK
<1>4. \A d \in Signers : sign'[d] = IF d = g THEN local ELSE sign[d]
  BY <1>3
<1>5. ASSUME local.pc = "consuming" PROVE Spending(g)'
  BY <1>3, <1>4, <1>5 DEF Spending, Usable
<1>6. SignersOK'
  BY <1>2, <1>3, <1>4, <1>5 DEF EvidenceInvariant, SignersOK, Spending
<1>7. ASSUME NEW s \in signatures, local.pc = "consuming", s.user_id \in IdpUsers,
             local.token = s.token
      PROVE  FALSE
  BY <1>7 DEF EvidenceInvariant, SignaturesOK, TokensOK, Evidence, Usable, SpentInTime
<1>8. SignaturesOK'
  BY <1>2, <1>4, <1>7 DEF EvidenceInvariant, SignaturesOK
<1> QED BY <1>1, <1>6, <1>8 DEF EvidenceInvariant

\* Overwriting consumed_at keeps what has rested on it.
LEMMA SpendStep ==
  ASSUME EvidenceInvariant, NEW g \in Signers, ConsumeToken_Commit(g)
  PROVE  EvidenceInvariant'
<1> DEFINE spent(row) == IF row.token = sign[g].token
                           THEN [row EXCEPT !.consumed_at = sign[g].at] ELSE row
<1>1. /\ sign[g].pc = "consuming" /\ Spending(g)
      /\ tokens' = {spent(row) : row \in tokens}
      /\ UNCHANGED <<signatures, now>>
  BY DEF ConsumeToken_Commit, EvidenceInvariant, SignersOK
<1>2. /\ \A d \in Signers \ {g} : sign'[d] = sign[d]
      /\ sign'[g].pc = "authenticated"
      /\ sign'[g].user = sign[g].user /\ sign'[g].token = sign[g].token
  BY <1>1 DEF ConsumeToken_Commit, EvidenceInvariant, SignersOK, Spending
<1>3. sign[g].at \in Nat /\ sign[g].at # None /\ now \in Nat
  BY <1>1, SignAssumption DEF Spending, EvidenceInvariant, TokensOK
<1>4. \A row \in tokens : row \in [token : Tokens, user_id : IdpUsers, expires_at : Nat,
                                   consumed_at : Nat \cup {None}]
  BY DEF EvidenceInvariant, TokensOK
<1>5. ASSUME NEW row \in tokens
      PROVE  /\ spent(row) \in [token : Tokens, user_id : IdpUsers, expires_at : Nat,
                                consumed_at : Nat \cup {None}]
             /\ spent(row).token = row.token /\ spent(row).user_id = row.user_id
             /\ spent(row).expires_at = row.expires_at
             /\ spent(row).consumed_at = IF row.token = sign[g].token THEN sign[g].at
                                                                     ELSE row.consumed_at
  BY <1>3, <1>4
<1> HIDE DEF spent
<1>6. TokensOK'
  BY <1>1, <1>3, <1>5 DEF EvidenceInvariant, TokensOK
<1>7. ASSUME NEW u, NEW t, NEW when, Evidence(u, t, when),
             t = sign[g].token /\ u \in IdpUsers => sign[g].at <= when
      PROVE  Evidence(u, t, when)'
  <2>1. CASE u \notin IdpUsers
    BY <1>7, <2>1 DEF Evidence
  <2>2. CASE u \in IdpUsers
    <3>1. PICK row \in tokens : /\ row.token = t /\ row.user_id = u
                                /\ SpentInTime(row) /\ row.consumed_at <= when
      BY <1>7, <2>2 DEF Evidence
    <3>2. t = sign[g].token => sign[g].at < row.expires_at
      BY <1>1, <3>1 DEF Spending, EvidenceInvariant, TokensOK
    <3>3. SpentInTime(spent(row)) /\ spent(row).consumed_at <= when
      BY <1>3, <1>5, <1>7, <2>2, <3>1, <3>2 DEF SpentInTime
    <3> QED BY <1>1, <1>5, <2>2, <3>1, <3>3 DEF Evidence
  <2> QED BY <2>1, <2>2
<1>8. SignersOK'
  <2>1. Evidence(sign[g].user, sign[g].token, now)'
    <3>1. PICK row \in tokens : /\ row.token = sign[g].token /\ row.user_id = sign[g].user
                                /\ sign[g].at < row.expires_at
      BY <1>1 DEF Spending
    <3>2. SpentInTime(spent(row)) /\ spent(row).consumed_at <= now
      BY <1>1, <1>3, <1>5, <3>1 DEF SpentInTime, Spending
    <3> QED BY <1>1, <1>2, <1>5, <3>1, <3>2 DEF Evidence, Spending
  <2>2. ASSUME NEW d \in Signers, d # g, sign[d].pc = "consuming" PROVE Spending(d)'
    <3>1. PICK row \in tokens : /\ row.token = sign[d].token /\ row.user_id = sign[d].user
                                /\ sign[d].at < row.expires_at
      BY <2>2 DEF EvidenceInvariant, SignersOK, Spending
    <3> QED BY <1>1, <1>2, <1>5, <2>2, <3>1 DEF EvidenceInvariant, SignersOK, Spending
  <2>3. ASSUME NEW d \in Signers, d # g, Evidence(sign[d].user, sign[d].token, now)
        PROVE  Evidence(sign[d].user, sign[d].token, now)'
    BY <1>1, <1>2, <1>7, <2>3 DEF Spending
  <2>4. DOMAIN sign' = Signers
    BY DEF ConsumeToken_Commit, EvidenceInvariant, SignersOK
  <2> QED BY <1>2, <2>1, <2>2, <2>3, <2>4 DEF EvidenceInvariant, SignersOK
<1>9. SignaturesOK'
  <2>1. ASSUME NEW s \in signatures PROVE Evidence(s.user_id, s.token, s.timestamp)'
    BY <1>1, <1>7 DEF EvidenceInvariant, SignaturesOK
  <2>2. \A d \in Signers : sign'[d].pc = "consuming" => sign'[d] = sign[d]
    BY <1>1, <1>2
  <2> QED BY <1>1, <2>1, <2>2 DEF EvidenceInvariant, SignaturesOK
<1> QED BY <1>6, <1>8, <1>9 DEF EvidenceInvariant

\* A signature is made no earlier than any read that is still to spend its token.
LEMMA SignatureStep ==
  ASSUME EvidenceInvariant, NEW g \in Signers, CommitSignature(g)
  PROVE  EvidenceInvariant'
<1>1. now \in Nat /\ Evidence(sign[g].user, sign[g].token, now)
  BY DEF EvidenceInvariant, TokensOK, SignersOK, CommitSignature
<1>2. ASSUME NEW s \in signatures' \ signatures
      PROVE  s.user_id = sign[g].user /\ s.token = sign[g].token /\ s.timestamp = now
  BY <1>2 DEF CommitSignature
<1>3. EvidenceInvariant /\ UNCHANGED <<tokens, now>> /\ DOMAIN sign' = Signers
      /\ sign'[g].pc = "done" /\ \A d \in Signers \ {g} : sign'[d] = sign[d]
  BY DEF CommitSignature, EvidenceInvariant, SignersOK
<1>4. \A u, t, when : Evidence(u, t, when)' <=> Evidence(u, t, when)
  BY <1>3 DEF Evidence
<1>5. TokensOK' /\ SignersOK'
  BY <1>3, <1>4 DEF EvidenceInvariant, TokensOK, SignersOK, Spending
<1>6. \A d \in Signers : sign'[d].pc = "consuming" => sign'[d] = sign[d] /\ sign[d].at <= now
  BY <1>3 DEF SignersOK, EvidenceInvariant, Spending
<1>7. SignaturesOK'
  BY <1>1, <1>2, <1>3, <1>4, <1>6 DEF EvidenceInvariant, SignaturesOK
<1> QED BY <1>5, <1>7 DEF EvidenceInvariant

LEMMA EvidenceInit == SignInit => EvidenceInvariant
BY DEF SignInit, EvidenceInvariant, TokensOK, SignersOK, SignaturesOK

LEMMA EvidenceStep == EvidenceInvariant /\ [SignNext]_allVars => EvidenceInvariant'
<1> SUFFICES ASSUME EvidenceInvariant, [SignNext]_allVars PROVE EvidenceInvariant'
  OBVIOUS
<1>1. now \in Nat /\ TokensOK
  BY DEF EvidenceInvariant, TokensOK
<1>2. ASSUME UNCHANGED signVars PROVE EvidenceInvariant'
  BY <1>1, <1>2, UnsignedStep DEF signVars, TokensOK
<1>3. CASE Tick
  BY <1>1, <1>3, UnsignedStep DEF Tick, TokensOK
<1>4. ASSUME NEW t \in Tokens, NEW u \in Users, IssueToken(t, u) PROVE EvidenceInvariant'
  <2> DEFINE issued == [token |-> t, user_id |-> u, expires_at |-> now + TTL,
                        consumed_at |-> None]
  <2>1. /\ tokens' = tokens \cup {issued} /\ UNCHANGED <<signatures, sign, now>>
        /\ \A row \in tokens : row.token # t
    BY <1>4 DEF IssueToken
  <2>2. issued \in [token : Tokens, user_id : IdpUsers, expires_at : Nat,
                    consumed_at : Nat \cup {None}]
    BY <1>1, <1>4, SignAssumption DEF IssueToken
  <2>3. TokensOK'
    BY <1>1, <2>1, <2>2 DEF TokensOK
  <2> QED BY <1>1, <2>1, <2>3, UnsignedStep
<1>5. ASSUME NEW g \in Signers, SignStep(g) PROVE EvidenceInvariant'
  <2>1. ASSUME NEW r \in Reqs, NEW u \in Users, NEW t \in Tokens, ConsumeToken_Read(g, r, u, t)
        PROVE  EvidenceInvariant'
    <3> DEFINE local == [pc |-> "consuming", req |-> r, user |-> u, token |-> t, at |-> now]
    <3>1. /\ sign' = [sign EXCEPT ![g] = local] /\ UNCHANGED <<tokens, signatures, now>>
          /\ u \in IdpUsers
          /\ \E row \in tokens : row.token = t /\ row.user_id = u /\ Usable(row)
      BY <2>1 DEF ConsumeToken_Read
    <3>2. DOMAIN local = {"pc", "req", "user", "token", "at"}
      OBVIOUS
    <3> QED BY <3>1, <3>2, LocalStep
  <2>2. ASSUME NEW r \in Reqs, NEW u \in Users, VerifyPassword(g, r, u)
        PROVE  EvidenceInvariant'
    <3> DEFINE local == [pc |-> "authenticated", req |-> r, user |-> u, token |-> None,
                         at |-> now]
    <3>1. /\ sign' = [sign EXCEPT ![g] = local] /\ UNCHANGED <<tokens, signatures, now>>
          /\ Evidence(u, None, now)
      BY <2>2 DEF VerifyPassword, Evidence
    <3> QED BY <3>1, LocalStep
  <2>3. CASE LoadEntity(g)
    <3> DEFINE local == [pc |-> "sealing", req |-> sign[g].req, user |-> sign[g].user,
                         token |-> sign[g].token,
                         hash |-> RecordHash(requirement[sign[g].req]), seen |-> commits]
    <3>1. /\ sign' = [sign EXCEPT ![g] = local] /\ UNCHANGED <<tokens, signatures, now>>
          /\ Evidence(sign[g].user, sign[g].token, now)
      BY <2>3 DEF LoadEntity, EvidenceInvariant, SignersOK
    <3> QED BY <3>1, LocalStep
  <2>4. CASE EntityMissing(g)
    <3> DEFINE local == [pc |-> "done"]
    <3>1. sign' = [sign EXCEPT ![g] = local] /\ UNCHANGED <<tokens, signatures, now>>
      BY <2>4 DEF EntityMissing
    <3> QED BY <3>1, LocalStep
  <2> QED BY <1>5, <2>1, <2>2, <2>3, <2>4, SpendStep, SignatureStep DEF SignStep
<1> QED BY <1>2, <1>3, <1>4, <1>5 DEF SignNext, allVars

\* Behind every signature of an external user stands a token issued to that user and
\* spent while it was good, no later than the signature, although two calls can both
\* find a token unspent; a local user's signature rests on no token.
THEOREM SignersAreAuthenticated == SignSpec => []SignaturesAuthenticated
<1>1. EvidenceInvariant => SignaturesAuthenticated
  BY DEF EvidenceInvariant, SignaturesOK, Evidence, SignaturesAuthenticated
<1> QED BY <1>1, EvidenceInit, EvidenceStep, PTL DEF SignSpec
===============================================================================
