-------------------------- MODULE RequirementExchange --------------------------
(***************************************************************************)
(* Requirements exchanged with an external tool: routers/integrations.py   *)
(* and services/integrations (base, jira, azure_devops, doors).            *)
(*                                                                         *)
(* An item of the tool and a requirement know of each other by marks only: *)
(* a tag "[EXT:id]" in the rationale, and, in Jira, a label on the issue.  *)
(* An import fetches all items and looks each up by its tag; an export     *)
(* pushes all requirements one by one and tags them when it commits.  A    *)
(* call to the tool may fail, or act and lose its answer.                  *)
(*                                                                         *)
(* The connector commits by itself, inside the savepoint of trigger_sync:  *)
(* in SQLAlchemy 2.0 that commits the whole transaction and closes the     *)
(* savepoint, whose own commit and rollback then raise.  The request fails *)
(* and its log stays "running", although the rows are there.  Titles,      *)
(* statements and priorities go the way of the status.                     *)
(***************************************************************************)
EXTENDS Naturals, Sequences, FiniteSets, SequencesExt

CONSTANTS
  Syncs,     \* POST /integrations/{id}/sync, each made once
  Native,    \* the types, as mapped, of the items the tool starts with
  None,      \* no requirement; no tag
  MaxItems, MaxRows,   \* bounds: items in the tool, Requirement rows
  MaxUserEdits         \* bound: what users do on either side

Types == {"functional", "constraint"}
Mapped == {"draft", "approved"}   \* STATUS_MAP

ExchangeAssumption ==
  /\ None \notin Nat
  /\ Native \in Seq(Types)

VARIABLES
  tool,        \* integration_type
  config,      \* the IntegrationConfig row
  log,         \* status of the SyncLog row of each sync
  rows,        \* Requirement rows, by id
  items,       \* items of the external project, by id
  sync,        \* the session and the locals of each sync
  userEdits,
  overlapped   \* history: items and rows two syncs were busy with at once

exchangeVars == <<tool, config, log, rows, items, sync, userEdits, overlapped>>

NewRow(type, number, tags) ==
  [status |-> "draft", type |-> type, number |-> number, tags |-> tags, last |-> None]
Item(type, of) == [type |-> type, status |-> "draft", of |-> of, gone |-> FALSE]

\* The id a fetch reports; the one a push answers: DOORS answers an address.
Tag(x) == <<"id", x>>
Answer(x) == IF tool = "doors" THEN <<"uri", x>> ELSE Tag(x)

ExchangeInit ==
  /\ tool \in {"jira", "azure_devops", "doors"}
  /\ config = "active"
  /\ log = [s \in Syncs |-> None]
  /\ rows = <<NewRow("functional", 1, {})>>
  /\ items = [x \in DOMAIN Native |-> Item(Native[x], None)]
  /\ sync = [s \in Syncs |-> [pc |-> "idle"]]
  /\ userEdits = 0
  /\ overlapped = {}

Session(pc, todo) ==
  [pc |-> pc, todo |-> todo, own |-> <<>>, fresh |-> {}, found |-> {}]
Set(s, new) == sync' = [sync EXCEPT ![s] = new]
Done(s) == Set(s, [pc |-> "done"])
First(S) == CHOOSE x \in S : \A y \in S : x <= y
-----------------------------------------------------------------------------
(* trigger_sync                                                              *)

Trigger(s, direction) ==
  /\ sync[s].pc = "idle"
  /\ config = "active"
  /\ log' = [log EXCEPT ![s] = "running"]
  /\ Set(s, Session(direction, {}))
  /\ UNCHANGED <<tool, config, rows, items, userEdits, overlapped>>

\* The connector returns or raises before it commits: the savepoint is there.
Fails(s) ==
  /\ log' = [log EXCEPT ![s] = IF @ = "running" THEN "failed" ELSE @]
  /\ Done(s)
  /\ UNCHANGED <<tool, config, rows, items, userEdits, overlapped>>

\* The worker dies, or the connector has committed and the savepoint is closed.
Dies(s) ==
  /\ sync[s].pc \notin {"idle", "done"}
  /\ Done(s)
  /\ UNCHANGED <<tool, config, log, rows, items, userEdits, overlapped>>
-----------------------------------------------------------------------------
(* sync_requirements_from                                                    *)

Fetched == {x \in DOMAIN items : ~items[x].gone}

Fetch(s) ==
  /\ sync[s].pc = "import"
  /\ Set(s, [Session("examine", Fetched) EXCEPT !.found = [x \in Fetched |-> items[x]]])
  /\ UNCHANGED <<tool, config, log, rows, items, userEdits, overlapped>>
FetchFails(s) == sync[s].pc = "import" /\ Fails(s)

\* Mutant: deleted requirements are not looked at.
Imported_Live(x) ==
  {r \in DOMAIN rows : Tag(x) \in rows[r].tags /\ rows[r].status # "deleted"}
Imported(x) == {r \in DOMAIN rows : Tag(x) \in rows[r].tags}

\* A requirement that carries the tag takes the item's values, whatever its
\* status, and its row stays the one this session has loaded.
TakeOver(s, x) ==
  \E r \in Imported(x) :
    LET was == IF r \in DOMAIN sync[s].own THEN sync[s].own[r].was ELSE rows[r].status
        set == [was |-> was, status |-> sync[s].found[x].status]
    IN /\ Set(s, [sync[s] EXCEPT !.todo = @ \ {x},
                    !.own = [q \in DOMAIN @ \cup {r} |-> IF q = r THEN set ELSE @[q]]])
       /\ UNCHANGED overlapped

\* An export has made the item, and its tag is on no row (history).
Untold(x) == items[x].of # None /\ \A r \in DOMAIN rows : Tag(x) \notin rows[r].tags

\* Numbers are counted in the database, where the session's own new rows are not.
TakeIn(s, x) ==
  LET type == sync[s].found[x].type
      count == Cardinality({r \in DOMAIN rows : rows[r].type = type})
  IN /\ Imported(x) = {}
     /\ Set(s, [sync[s] EXCEPT !.todo = @ \ {x},
                  !.fresh = @ \cup {[item |-> x, type |-> type, number |-> count + 1]}])
     /\ overlapped' = overlapped \cup
          IF \/ Untold(x)
             \/ \E t \in Syncs \ {s} :
                  sync[t].pc = "examine" /\ \E f \in sync[t].fresh : f.item = x
          THEN {<<"item", x>>} ELSE {}

Examine(s) ==
  /\ sync[s].pc = "examine" /\ sync[s].todo # {}
  /\ LET x == First(sync[s].todo) IN TakeOver(s, x) \/ TakeIn(s, x)
  /\ UNCHANGED <<tool, config, log, rows, items, userEdits>>
ExamineFails(s) == sync[s].pc = "examine" /\ sync[s].todo # {} /\ Fails(s)

\* uq_req_per_project
Refused(fresh) ==
  \/ \E f, g \in fresh : f # g /\ f.type = g.type /\ f.number = g.number
  \/ \E f \in fresh, r \in DOMAIN rows : rows[r].type = f.type /\ rows[r].number = f.number

Written(r, own) ==
  IF r \in DOMAIN own /\ own[r].status # own[r].was
  THEN [rows[r] EXCEPT !.status = own[r].status] ELSE rows[r]

ImportCommit(s) ==
  /\ sync[s].pc = "examine" /\ sync[s].todo = {}
  /\ LET fresh == sync[s].fresh IN
     IF Refused(fresh) THEN UNCHANGED rows
     ELSE /\ Len(rows) + Cardinality(fresh) <= MaxRows
          /\ rows' = [r \in DOMAIN rows |-> Written(r, sync[s].own)] \o
                     SetToSeq({NewRow(f.type, f.number, {Tag(f.item)}) : f \in fresh})
  /\ Done(s)
  /\ UNCHANGED <<tool, config, log, items, userEdits, overlapped>>
-----------------------------------------------------------------------------
(* sync_requirements_to                                                      *)

Load(s) ==
  /\ sync[s].pc = "export"
  /\ LET live == {r \in DOMAIN rows : rows[r].status # "deleted"}
         rationale(r) == [tags |-> rows[r].tags, last |-> rows[r].last]
     IN Set(s, [Session("push", live) EXCEPT
                  !.own = [r \in live |-> [was |-> rationale(r), now |-> rationale(r)]]])
  /\ UNCHANGED <<tool, config, log, rows, items, userEdits, overlapped>>

\* Jira is searched for an issue that has the requirement's label.
Labelled(r) == {x \in DOMAIN items : items[x].of = r /\ ~items[x].gone}

Search(s) ==
  /\ sync[s].pc = "push" /\ sync[s].todo # {}
  /\ tool = "jira"
  /\ LET r == First(sync[s].todo) IN
     /\ Set(s, [sync[s] EXCEPT !.pc = "send", !.found = Labelled(r)])
     /\ overlapped' = overlapped \cup
          {<<"row", r>> : t \in {t \in Syncs \ {s} : /\ sync[t].pc = "send"
                                                    /\ First(sync[t].todo) = r}}
  /\ UNCHANGED <<tool, config, log, rows, items, userEdits>>

Sending(s) ==
  /\ sync[s].pc = IF tool = "jira" THEN "send" ELSE "push"
  /\ sync[s].todo # {}

Sent(s, tag) ==
  LET r == First(sync[s].todo)
      now == IF tag = None THEN sync[s].own[r].now
             ELSE [tags |-> sync[s].own[r].now.tags \cup {tag}, last |-> tag]
      own == [sync[s].own EXCEPT ![r].now = now]
  IN Set(s, [sync[s] EXCEPT !.pc = "push", !.todo = @ \ {r}, !.found = {}, !.own = own])

\* The issue that was found is updated; an answer that is lost tags nothing.
Update(s) ==
  /\ Sending(s)
  /\ sync[s].found # {}
  /\ \E x \in sync[s].found : Sent(s, Answer(x))
  /\ UNCHANGED <<tool, config, log, rows, items, userEdits, overlapped>>

Create(s, answered) ==
  /\ Sending(s)
  /\ sync[s].found = {}
  /\ Len(items) < MaxItems
  /\ items' = Append(items, Item("functional", First(sync[s].todo)))
  /\ Sent(s, IF answered THEN Answer(Len(items) + 1) ELSE None)
  /\ UNCHANGED <<tool, config, log, rows, userEdits, overlapped>>

PushFails(s) ==
  /\ sync[s].pc \in {"push", "send"} /\ sync[s].todo # {}
  /\ Sent(s, None)
  /\ UNCHANGED <<tool, config, log, rows, items, userEdits, overlapped>>

\* The rationale is written as a whole, from the one that was loaded.
ExportCommit(s) ==
  /\ sync[s].pc = "push" /\ sync[s].todo = {}
  /\ LET own == sync[s].own IN
     rows' = [r \in DOMAIN rows |->
                IF r \in DOMAIN own /\ own[r].now # own[r].was
                THEN [rows[r] EXCEPT !.tags = own[r].now.tags, !.last = own[r].now.last]
                ELSE rows[r]]
  /\ Done(s)
  /\ UNCHANGED <<tool, config, log, items, userEdits, overlapped>>
-----------------------------------------------------------------------------
(* What users do meanwhile, on either side. No user takes a tag out of a     *)
(* rationale.                                                                *)

Edit ==
  /\ userEdits < MaxUserEdits
  /\ userEdits' = userEdits + 1
  /\ UNCHANGED <<tool, sync, overlapped>>

SetActive ==
  /\ config # "gone"
  /\ config' = IF config = "active" THEN "inactive" ELSE "active"
  /\ UNCHANGED <<log, rows, items>>
\* SyncLog rows go with their configuration.
DeleteConfig ==
  /\ config # "gone"
  /\ config' = "gone"
  /\ log' = [s \in Syncs |-> None]
  /\ UNCHANGED <<rows, items>>

CreateRow(type) ==
  LET numbers == {rows[r].number : r \in {q \in DOMAIN rows : rows[q].type = type}} IN
  /\ Len(rows) < MaxRows
  /\ \E n \in 1 .. MaxRows + 1 :
       /\ \A m \in numbers : m < n
       /\ n = 1 \/ n - 1 \in numbers
       /\ rows' = Append(rows, NewRow(type, n, {}))
  /\ UNCHANGED <<config, log, items>>
ChangeRow(r, new) ==
  /\ rows[r] # new
  /\ rows' = [rows EXCEPT ![r] = new]
  /\ UNCHANGED <<config, log, items>>
DeleteRow(r) == ChangeRow(r, [rows[r] EXCEPT !.status = "deleted"])
RestoreRow(r) == rows[r].status = "deleted" /\ ChangeRow(r, [rows[r] EXCEPT !.status = "draft"])
NoteRow(r) == ChangeRow(r, [rows[r] EXCEPT !.last = None])

AddItem(type) ==
  /\ Len(items) < MaxItems
  /\ items' = Append(items, Item(type, None))
  /\ UNCHANGED <<config, log, rows>>
ChangeItem(x, status) ==
  /\ items[x].status # status
  /\ items' = [items EXCEPT ![x].status = status]
  /\ UNCHANGED <<config, log, rows>>
RemoveItem(x) ==
  /\ ~items[x].gone
  /\ items' = [items EXCEPT ![x].gone = TRUE]
  /\ UNCHANGED <<config, log, rows>>

UserEdits ==
  \/ SetActive
  \/ DeleteConfig
  \/ \E type \in Types : CreateRow(type) \/ AddItem(type)
  \/ \E r \in DOMAIN rows : DeleteRow(r) \/ RestoreRow(r) \/ NoteRow(r)
  \/ \E x \in DOMAIN items : RemoveItem(x) \/ \E status \in Mapped : ChangeItem(x, status)

SyncStep(s) ==
  \/ \E direction \in {"import", "export"} : Trigger(s, direction)
  \/ Dies(s)
  \/ Fetch(s)
  \/ FetchFails(s)
  \/ Examine(s)
  \/ ExamineFails(s)
  \/ ImportCommit(s)
  \/ Load(s)
  \/ Search(s)
  \/ Update(s)
  \/ \E answered \in BOOLEAN : Create(s, answered)
  \/ PushFails(s)
  \/ ExportCommit(s)

ExchangeNext ==
  \/ \E s \in Syncs : SyncStep(s)
  \/ Edit /\ UserEdits
ExchangeSpec == ExchangeInit /\ [][ExchangeNext]_exchangeVars
-----------------------------------------------------------------------------
(* Items and requirements are matched one to one, by marks alone: whatever   *)
(* fails, dies, is repeated or deleted, no item is in two requirements, and  *)
(* no requirement is behind two Jira issues (base.py:125 "Check if already   *)
(* imported", jira.py:126 "Check if the issue already exists"). Left out are *)
(* an item two imports met at once; one that came back as a new requirement  *)
(* because its export had not tagged it, or another export's older rationale *)
(* had replaced the tag; and a requirement two exports were sending at once. *)
MatchedOneToOne ==
  /\ \A x \in DOMAIN items : <<"item", x>> \notin overlapped =>
       Cardinality({r \in DOMAIN rows : Tag(x) \in rows[r].tags}) <= 1
  /\ \A r \in DOMAIN rows : tool = "jira" /\ <<"row", r>> \notin overlapped =>
       Cardinality({x \in DOMAIN items : items[x].of = r /\ ~items[x].gone}) <= 1
===============================================================================
