--------------------------- MODULE AutoRequirements ---------------------------
(***************************************************************************)
(* Requirements generated from the interface model                         *)
(* (services/interface/auto_requirements.py), their review in              *)
(* routers/interface.py, and the impact previews and resolutions of        *)
(* services/interface/impact_analyzer.py.                                  *)
(*                                                                         *)
(* Every request is one transaction at READ COMMITTED: it sees what is     *)
(* committed and what it wrote itself, an UPDATE waits for the transaction *)
(* that holds the row, and so does the INSERT of a number that an open     *)
(* transaction has taken (uq_req_per_project).  The texts of the templates *)
(* are left out.                                                           *)
(***************************************************************************)
EXTENDS Naturals, Sequences, FiniteSets, SequencesExt, TLC

CONSTANTS
  Unit, Harness, Interface,   \* one unit, its harness, and their Interface row
  HarnessWires, Buses, Messages, Fields,
  BusOf,             \* the bus of a wire's pins, or None
  BusOfMessage, MessageOf,
  Undescribed,       \* the padding and spare fields
  AutoCalls,         \* requests, each made once
  WireSets,          \* bound: what wires a request may generate from
  Batches,           \* bound: how many requirements a review names
  AutoSeeds,         \* databases to start from
  None

VARIABLES
  entities,     \* the rows of the interface tables that exist
  generated,    \* committed Requirement rows, most of them generated
  links,        \* committed InterfaceRequirementLink rows
  tests,        \* committed Verification rows, by requirement
  needsReview,  \* Project.auto_req_approval_required
  request,      \* the local variables and open transaction of each request
  settled,      \* resolved entities that nothing happened to since ...
  disturbed     \* ... and sources whose check was overtaken: for properties

autoVars == <<entities, generated, links, tests, needsReview, request, settled, disturbed>>

Entities == HarnessWires \cup Buses \cup Messages \cup Fields \cup {Harness}

\* The history of a requirement is a chain that leads to its status and counts
\* its versions, but for what a review does that wrote over a decision which
\* was committed after it read the row.
Chained(row) ==
  LET h == row.history IN
  /\ h # <<>> => h[Len(h)].stale \/ h[Len(h)].new = row.status
  /\ \A i \in 2 .. Len(h) : h[i].stale \/ h[i-1].stale \/ h[i].old = h[i-1].new
  /\ (\A i \in 1 .. Len(h) : ~h[i].stale) => row.version = 1 + Len(h)

RequirementStatus ==
  {"draft", "under_review", "approved", "baselined", "implemented", "verified",
   "validated", "deferred", "deleted", "pending_review", "auto_generated"}
HistoryRow == [old : RequirementStatus, new : RequirementStatus, stale : BOOLEAN]

Columns == {"source", "parent", "level", "status", "version", "number", "history"}
LinkColumns == {"entity", "req", "status", "auto", "template"}
\* What the tables promise of a row: its columns, and foreign keys that hold.
IsRow(row) ==
  /\ Columns \subseteq DOMAIN row
  /\ row.status \in RequirementStatus /\ row.version \in Nat
  /\ row.history \in Seq(HistoryRow)
IsLink(l, rows) ==
  /\ LinkColumns \subseteq DOMAIN l
  /\ l.req \in DOMAIN rows
  /\ l.template => l.auto /\ rows[l.req].source = l.entity

\* The live requirements among rows that links L tie to e as their source.
Sourced(L, rows, e) ==
  {r \in DOMAIN rows : /\ rows[r].status # "deleted"
                       /\ \E l \in L : l.entity = e /\ l.req = r /\ l.template}
OneEach(L, rows, E) == \A e \in E : \A r, s \in Sourced(L, rows, e) : r = s

\* A key names a row of one table.  The seeds are what earlier requests leave;
\* requirements that the requests of a behaviour insert are named after the
\* request.
ASSUME AutoAssumption ==
  /\ Batches \in Nat
  /\ HarnessWires \cap Buses = {}
  /\ (Messages \cup Fields) \cap (HarnessWires \cup Buses) = {}
  /\ \A seed \in AutoSeeds :
       /\ \A r \in DOMAIN seed.requirement :
            /\ r[1] \notin AutoCalls
            /\ IsRow(seed.requirement[r]) /\ Chained(seed.requirement[r])
       /\ IsFiniteSet(seed.links)
       /\ \A l \in seed.links : IsLink(l, seed.requirement)
       /\ OneEach(seed.links, seed.requirement, Entities)

AutoInit ==
  /\ \E seed \in AutoSeeds : /\ generated = seed.requirement
                             /\ links = seed.links
                             /\ needsReview = seed.needsReview
  /\ entities = Entities \cup {Unit, Interface}
  /\ tests = [r \in DOMAIN generated |-> 1]
  /\ request = [c \in AutoCalls |-> [pc |-> "idle"]]
  /\ settled = {}
  /\ disturbed = {}

-----------------------------------------------------------------------------
(* Transactions                                                              *)

\* A transaction's rows on top of the committed ones.
Over(new, old) ==
  [x \in DOMAIN new \cup DOMAIN old |-> IF x \in DOMAIN new THEN new[x] ELSE old[x]]

Closed == {"idle", "done", "failed"}
Open(c) == request[c].pc \notin Closed
Begin(c, local) ==
  /\ request[c].pc = "idle"
  /\ request' = [request EXCEPT ![c] = Over(local,
       [writes |-> [r \in {} |-> 0], linked |-> {}, unlinked |-> {}, tested |-> <<>>,
        revived |-> {}, overlapped |-> FALSE])]
  /\ UNCHANGED <<entities, generated, links, tests, needsReview, settled, disturbed>>
Continue(c, local) ==
  /\ request' = [request EXCEPT ![c] = local]
  /\ UNCHANGED <<entities, generated, links, tests, needsReview, settled, disturbed>>
Fail(c, why) == Continue(c, [pc |-> "failed", why |-> why])

\* What the transaction of c sees.
Visible(c) == Over(request[c].writes, generated)
VisibleLinks(c) == (links \ request[c].unlinked) \cup request[c].linked

Updates(d) == DOMAIN request[d].writes \cap DOMAIN generated
Locked(c, r) == \E d \in AutoCalls \ {c} : Open(d) /\ r \in Updates(d)
Taken(c, n) ==
  \E d \in AutoCalls \ {c} : Open(d) /\
    \E r \in DOMAIN request[d].writes \ DOMAIN generated : request[d].writes[r].number = n

LinksHeld(c, L) == \E d \in AutoCalls \ {c} : Open(d) /\ request[d].unlinked \cap L # {}

Created(c) == DOMAIN request[c].writes \ DOMAIN generated
CommitRequest(c) ==
  LET local == request[c] IN
  /\ local.pc \in {"looking", "reviewing"} /\ local.todo = <<>>
  /\ generated' = Visible(c)
  /\ links' = VisibleLinks(c)
  /\ tests' = [r \in DOMAIN generated' |->
       (IF r \in DOMAIN tests THEN tests[r] ELSE 0)
       + Cardinality({i \in DOMAIN local.tested : local.tested[i] = r})]
  /\ request' = [d \in AutoCalls |->
       IF d = c THEN [pc |-> "done"]
       ELSE IF Open(d) THEN [request[d] EXCEPT !.overlapped = TRUE] ELSE request[d]]
  /\ settled' = IF local.pc = "reviewing" /\ local.what = "delete_requirements"
                    /\ ~local.overlapped THEN {local.of} ELSE {}
  /\ disturbed' = disturbed \cup local.revived
       \cup (IF local.overlapped THEN {local.writes[r].source : r \in Created(c)} ELSE {})
  /\ UNCHANGED <<entities, needsReview>>

-----------------------------------------------------------------------------
(* AutoRequirementGenerator.on_wires_created                                 *)

MessagesOf(b) == {m \in Messages : BusOfMessage[m] = b}
FieldsOf(m) == {f \in Fields : MessageOf[f] = m}

Level(e) == IF e = Harness \/ e \in Buses THEN 3 ELSE 4
Min2(m, n) == IF m < n THEN m ELSE n

Item(e, parent) == [entity |-> e, parent |-> parent]
Items(S, parent) == LET order == SetToSeq(S) IN
                    [i \in DOMAIN order |-> Item(order[i], parent)]

\* A requirement that somebody linked to the Interface between the systems.
InterfaceParent ==
  {l.req : l \in {k \in links : k.entity = Interface}} \cup
  (IF \E l \in links : l.entity = Interface THEN {} ELSE {None})

\* The wires of a request, classified by their pins: the harness if there are
\* two or more, the buses, the wires that are on none.
Generate(c, W) ==
  \E parent \in InterfaceParent :
    Begin(c, [pc |-> "looking", number |-> 0,
      todo |-> (IF Cardinality(W) >= 2 THEN <<Item(Harness, None)>> ELSE <<>>)
               \o Items({BusOf[w] : w \in W} \ {None}, parent)
               \o Items({w \in W : BusOf[w] = None}, None)])

\* What comes next once e has the requirement r: the messages of a bus, the
\* fields of a message that carry data.
Children(e, r) ==
  IF e \in Buses THEN Items(MessagesOf(e) \cap entities, r)
  ELSE IF e \in Messages THEN Items((FieldsOf(e) \ Undescribed) \cap entities, r)
  ELSE <<>>

LinkStatus == IF needsReview THEN "pending_review" ELSE "approved"
Link(e, r, template) == [entity |-> e, req |-> r, status |-> LinkStatus,
                         auto |-> TRUE, template |-> template]

\* A bus is linked to its harness as well.
BusLink(e, r) == IF e \in Buses THEN {Link(Harness, r, FALSE)} ELSE {}

\* _create_verification, and for a bus _link_entity, follow in either case.
Generation(c, e, r, more) ==
  [request[c] EXCEPT !.pc = "looking",
     !.todo = Children(e, r) \o Tail(@),
     !.linked = (@ \cup more) \cup BusLink(e, r),
     !.tested = Append(@, r)]

\* Mutant: the check asks for a link that nobody reviewed.
Existing_Pending(c, e) ==
  {r \in DOMAIN Visible(c) :
     /\ Visible(c)[r].status # "deleted"
     /\ \E l \in VisibleLinks(c) :
          /\ l.entity = e /\ l.req = r /\ l.auto /\ l.template
          /\ l.status = "pending_review"}

\* The idempotency check of _create_requirement.
Existing(c, e) ==
  {r \in DOMAIN Visible(c) :
     /\ Visible(c)[r].status # "deleted"
     /\ \E l \in VisibleLinks(c) : l.entity = e /\ l.req = r /\ l.auto /\ l.template}

LookUp(c) ==
  LET e == Head(request[c].todo).entity IN
  /\ request[c].pc = "looking" /\ request[c].todo # <<>>
  /\ \/ \E r \in Existing(c, e) : Continue(c, Generation(c, e, r, {}))
     \/ Existing(c, e) = {} /\ Continue(c, [request[c] EXCEPT !.pc = "counting"])

CountRows(c) ==
  /\ request[c].pc = "counting"
  /\ Continue(c, [request[c] EXCEPT !.pc = "inserting",
                                !.number = Cardinality(DOMAIN Visible(c)) + 1])

\* The row that the request inserts for what it is about.
NewRow(c) ==
  LET item == Head(request[c].todo) IN
  [source |-> item.entity, parent |-> item.parent,
   level |-> IF item.parent = None THEN Level(item.entity)
             ELSE Min2(Visible(c)[item.parent].level + 1, 5),
   status |-> IF needsReview THEN "pending_review" ELSE "draft",
   version |-> 1, number |-> request[c].number, history |-> <<>>]
Inserted(local, r, row) == [local EXCEPT !.writes = Over([q \in {r} |-> row], @)]

\* A number that is taken by now, or a trace link to the parent (whose type
\* "derives_from" trace_links does not know), fails the request.
InsertRow(c) ==
  LET number == request[c].number
      r == <<c, number>>
      row == NewRow(c)
      next == Generation(c, row.source, r, {Link(row.source, r, TRUE)}) IN
  /\ request[c].pc = "inserting"
  /\ ~Taken(c, number)
  /\ IF \/ \E q \in DOMAIN Visible(c) : Visible(c)[q].number = number
        \/ ~needsReview /\ row.parent # None
     THEN Fail(c, "refused")
     ELSE Continue(c, Inserted(next, r, row))

-----------------------------------------------------------------------------
(* Review: approve and reject name requirements; the resolutions of an impact *)
(* name those of a preview.                                                   *)

Affected(entitySet) == {l.req : l \in {k \in links : k.entity \in entitySet}}
Contents(buses) ==
  LET M == {m \in Messages : BusOfMessage[m] \in buses} \cap entities IN
  buses \cup M \cup ({f \in Fields : MessageOf[f] \in M} \cap entities)

\* Mutant: the fields of a bus's messages are not collected.
BlastRadius_NoFields(action, e) ==
  CASE action = "delete_wire" -> {e, Harness} \cup ({BusOf[e]} \ {None})
    [] action = "delete_bus" -> Contents({e}) \ Fields
    [] action = "delete_unit" -> (HarnessWires \cap entities) \cup {Unit, Harness}
    [] action = "edit_bus" -> {e} \cup MessagesOf(e)
    [] action = "edit_message" -> {e}

\* The entities whose links a preview collects.
BlastRadius(action, e) ==
  CASE action = "delete_wire" -> {e, Harness} \cup Contents({BusOf[e]} \ {None})
    [] action = "delete_bus" -> Contents({e})
    [] action = "delete_unit" ->
         {Unit, Harness} \cup (HarnessWires \cap entities) \cup Contents(Buses \cap entities)
    [] action = "edit_bus" -> Contents({e})
    [] action = "edit_message" -> {e} \cup (FieldsOf(e) \cap entities)

Previews ==
  ({"delete_wire"} \X HarnessWires) \cup ({"delete_bus", "edit_bus"} \X Buses)
  \cup ({"delete_unit"} \X {Unit}) \cup ({"edit_message"} \X Messages)

Review(c, what, of, order) ==
  Begin(c, [pc |-> "reviewing", what |-> what, of |-> of, todo |-> order, seen |-> None])
Approve(c, order) == Review(c, "approve", None, order)
Reject(c, order) == Review(c, "reject", None, order)
Resolve(c, what, preview) ==
  /\ preview[2] \in entities
  /\ Affected(BlastRadius(preview[1], preview[2])) # {}
  /\ Review(c, what, preview, SetToSeq(Affected(BlastRadius(preview[1], preview[2]))))

LoadRow(c) ==
  /\ request[c].pc = "reviewing" /\ request[c].todo # <<>> /\ request[c].seen = None
  /\ Continue(c, [request[c] EXCEPT !.seen = Visible(c)[Head(request[c].todo)]])

NewStatus(what, status) ==
  CASE what = "approve" /\ status \in {"pending_review", "under_review"} -> "draft"
    [] what \in {"reject", "delete_requirements"} -> "deleted"
    [] what = "mark_for_review" -> "under_review"
    [] OTHER -> status

\* Whether the row gets a new version and a history row.
Rewrites(what, status) ==
  \/ what \in {"reject", "delete_requirements"}
  \/ NewStatus(what, status) # status

\* Mutant: the old status is read after the new one was assigned.
Decided_Late(what, seen) ==
  [old |-> NewStatus(what, seen.status), new |-> NewStatus(what, seen.status)]

Decided(what, seen) == [old |-> seen.status, new |-> NewStatus(what, seen.status)]

Rewritten(what, row, seen) ==
  [row EXCEPT !.status = IF Decided(what, seen).new # seen.status THEN Decided(what, seen).new ELSE @,
              !.version = seen.version + 1,
              !.history = Append(@, [old |-> Decided(what, seen).old,
                                     new |-> Decided(what, seen).new, stale |-> row # seen])]

Generics(L, r) == {l \in L : l.req = r /\ l.auto}
Stamp(l, status) == IF l.status = status THEN l ELSE [l EXCEPT !.status = status]
Stamped(what, L) ==
  CASE what = "approve" -> {Stamp(l, "approved") : l \in L}
    [] what = "reject" -> {Stamp(l, "rejected") : l \in L}
    [] what = "orphan_requirements" -> {}
    [] OTHER -> L

\* Another requirement of one of the entities, approved before.
Siblings(L, r) ==
  {k \in L : k.req # r /\ k.status = "approved"
              /\ \E l \in Generics(L, r) : l.entity = k.entity}

\* The rows and links that a decision about row writes.
Decision(local, row, new, old) ==
  LET stamped == Stamped(local.what, old) IN
  [local EXCEPT !.todo = Tail(@), !.seen = None,
     !.writes = Over(new, @),
     !.unlinked = @ \cup (old \ stamped),
     !.linked = (@ \ old) \cup (stamped \ links),
     !.revived = @ \cup {row.source : x \in
       {y \in DOMAIN new : row.status = "deleted" /\ new[y].status # "deleted"}}]

\* An approval traces the requirement to its parent and its siblings, with link
\* types that trace_links does not have and without the project it demands.
Decide(c) ==
  LET local == request[c]
      r == Head(local.todo)
      row == Visible(c)[r]
      old == Generics(VisibleLinks(c), r)
      new == [x \in IF Rewrites(local.what, local.seen.status) THEN {r} ELSE {} |->
               Rewritten(local.what, row, local.seen)] IN
  /\ local.pc = "reviewing" /\ local.todo # <<>> /\ local.seen # None
  /\ r \in DOMAIN new => ~Locked(c, r)
  /\ ~LinksHeld(c, old)
  /\ IF local.what = "approve"
           /\ (row.parent # None \/ Siblings(VisibleLinks(c), r) # {})
     THEN Fail(c, "refused")
     ELSE Continue(c, Decision(local, row, new, old))

\* Two reviews that wait for each other's rows: the database ends one.
WaitsFor(c, d) ==
  /\ request[c].pc = "reviewing" /\ request[c].seen # None
  /\ Rewrites(request[c].what, request[c].seen.status)
  /\ c # d /\ Open(d) /\ Head(request[c].todo) \in Updates(d)
Aborted(c) ==
  /\ \E d \in AutoCalls : WaitsFor(c, d) /\ WaitsFor(d, c)
  /\ Fail(c, "deadlock")

\* External to this module: one deletion of InterfaceTopology or HarnessWiring.
\* The links of what goes with a bus are not removed.
DeleteEntity(c, e) ==
  /\ request[c].pc = "idle"
  /\ e \in entities \cap (HarnessWires \cup Buses)
  /\ ~LinksHeld(c, {l \in links : l.entity = e})
  /\ entities' = entities \ (IF e \in Buses THEN Contents({e}) ELSE {e})
  /\ links' = {l \in links : l.entity # e}
  /\ request' = [request EXCEPT ![c] = [pc |-> "done"]]
  /\ settled' = {}
  /\ UNCHANGED <<generated, tests, needsReview, disturbed>>

-----------------------------------------------------------------------------
GenerationStep(c) ==
  \/ \E W \in WireSets : W \subseteq entities /\ Generate(c, W)
  \/ LookUp(c) \/ CountRows(c) \/ InsertRow(c)

AutoReview(c) ==
  \/ \E R \in kSubset(Batches, DOMAIN generated) :
       \E order \in SetToSeqs(R) : Approve(c, order) \/ Reject(c, order)
  \/ \E what \in {"delete_requirements", "orphan_requirements", "mark_for_review"},
        preview \in Previews : Resolve(c, what, preview)
  \/ LoadRow(c) \/ Decide(c) \/ Aborted(c)

AutoNext == \E c \in AutoCalls :
  \/ GenerationStep(c) \/ AutoReview(c) \/ CommitRequest(c)
  \/ \E e \in HarnessWires \cup Buses : DeleteEntity(c, e)

AutoSpec == AutoInit /\ [][AutoNext]_autoVars

-----------------------------------------------------------------------------
(* Properties *)

\* However often requirements are generated, reviewed, orphaned and generated
\* again, an entity has at most one live requirement linked to it as its
\* source (_create_requirement's idempotency check) - unless a generation was
\* overtaken between its check and its commit, or a review brought a deleted
\* requirement back.
OneLivePerSource ==
  \A e \in Entities \ disturbed : Cardinality(Sourced(links, generated, e)) <= 1

\* Whatever approvals, rejections and resolutions of an impact do to the same
\* requirement, in whatever order they read and write it, its history rows
\* (_record_history) tell what became of it.
HistoryChains == \A r \in DOMAIN generated : Chained(generated[r])

\* preview_* finds what a deletion will leave behind: when a user deletes the
\* requirements that the preview of an entity lists, and then the entity, and
\* nothing else is committed in between, then no live requirement is linked to
\* an entity that is gone.
NothingDangles ==
  [][(\E p \in settled : p[1] \in {"delete_wire", "delete_bus"} /\ p[2] \in entities \ entities') =>
       \A l \in links : l.entity \in entities \ entities' =>
         generated[l.req].status = "deleted"]_autoVars

\* What the code says and does not do.

\* "Auto-create trace links to parent requirements" (approve_auto_requirements):
\* an approval is not refused.
ApprovalsAreTraced ==
  \A c \in AutoCalls : request[c].pc = "failed" => request[c].why # "refused" \/ ~needsReview
=============================================================================
