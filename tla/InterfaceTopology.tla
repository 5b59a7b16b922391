--------------------------- MODULE InterfaceTopology ---------------------------
(***************************************************************************)
(* The interface model of a project (routers/interface.py): systems, their *)
(* units, the connectors, pins and buses of a unit, the messages of a bus, *)
(* the draft interfaces between two units and the links from any of these  *)
(* to requirements.                                                        *)
(*                                                                         *)
(* A delete handler writes its audit event before its last statements, and *)
(* writing an event commits the session (services/audit_service.py): a     *)
(* deletion is two transactions, between which other requests run and the  *)
(* process may stop.  The handlers run in a thread pool.                   *)
(***************************************************************************)
EXTENDS InterfaceTables, FiniteSets

CONSTANTS
  Systems, Units, Connectors, Pins, Buses, Messages, Fields, Interfaces,
  Requirements,
  Linkable,     \* bound: the keys that requirement links name
  Seeds,        \* what a run starts from: [row, used]
  MayStop,      \* the process may stop
  MaxPending,   \* bound: deletions between their two transactions
  MaxDeletions, \* bound: rows that requests delete
  MaxLinks      \* bound: requirement links

VARIABLES
  row,        \* the database: key -> row
  links,      \* InterfaceRequirementLink rows: [entity, req, status]
  used,       \* keys that were given out
  announced,  \* keys whose "deleted" event is committed
  pending     \* deletions whose event is committed and whose row is not gone

topology == <<row, links, used, announced, pending>>

Assignment(p, b) == <<"assignment", p, b>>

\* The keys that rows are given, but for assignments.
FreshKeys == Systems \cup Units \cup Connectors \cup Pins \cup Buses \cup Messages
             \cup Fields \cup Interfaces
GivenKeys == FreshKeys \cup UNION {DOMAIN seed.row : seed \in Seeds}

\* NULL is not a key; the databases to start from are as earlier requests leave
\* them.
ASSUME TopologyAssumption ==
  /\ None \notin GivenKeys
  /\ \A p, b \in GivenKeys : Assignment(p, b) # None
  /\ \A seed \in Seeds : Valid(seed.row) /\ DOMAIN seed.row \subseteq seed.used

Init ==
  /\ \E seed \in Seeds : row = seed.row /\ used = seed.used
  /\ links = {}
  /\ announced = {}
  /\ pending = {}

New(S) == S \ used
Refs(kind, column, x) == Where(row, kind, column, {x})

\* One committed transaction that inserts the rows.
Creates(new) ==
  /\ row' = Insert(row, new)
  /\ used' = used \cup DOMAIN new
  /\ UNCHANGED <<links, announced, pending>>

Changes(x, column, value) ==
  /\ row' = [row EXCEPT ![x][column] = value]
  /\ UNCHANGED <<links, used, announced, pending>>

-----------------------------------------------------------------------------
(* Systems and units                                                         *)

SystemRow(parent) == [kind |-> "system", parent |-> parent]
UnitRow(s) == [kind |-> "unit", system |-> s]

CreateSystem(s) ==
  /\ s \in New(Systems)
  /\ \E p \in Rows(row, "system") \cup {None} :
       Creates([x \in {s} |-> SystemRow(p)])

\* The parent is not checked: a system may become its own ancestor.
UpdateSystem(s) ==
  /\ s \in Rows(row, "system")
  /\ \E p \in (Rows(row, "system") \cup {None}) \ {row[s].parent} :
       Changes(s, "parent", p)

CreateUnit(u) ==
  /\ u \in New(Units)
  /\ \E s \in Rows(row, "system") : Creates([x \in {u} |-> UnitRow(s)])

UpdateUnit(u) ==
  /\ u \in Rows(row, "unit")
  /\ \E s \in Rows(row, "system") \ {row[u].system} : Changes(u, "system", s)

-----------------------------------------------------------------------------
(* Connectors and pins                                                       *)

ConnectorRow(u) == [kind |-> "connector", unit |-> u]
PinRow(c, u) == [kind |-> "pin", connector |-> c, mates |-> u]
PinsOf(db, c) == Where(db, "pin", "connector", {c})
Peers == Rows(row, "unit") \cup {None}

\* Pins may come with the connector, and may name any unit as their mate.
CreateConnector(c) ==
  /\ c \in New(Connectors)
  /\ \E u \in Rows(row, "unit"), P \in SUBSET New(Pins), peer \in Peers :
       /\ P = {} => peer = None
       /\ Creates([x \in {c} \cup P |->
                     IF x = c THEN ConnectorRow(u) ELSE PinRow(c, peer)])

BatchCreatePins(c) ==
  /\ c \in Rows(row, "connector")
  /\ \E P \in SUBSET New(Pins) \ {{}}, peer \in Peers :
       Creates([x \in P |-> PinRow(c, peer)])

\* One spare pin per contact, on a connector without pins.
AutoGeneratePins(c) ==
  /\ c \in Rows(row, "connector")
  /\ PinsOf(row, c) = {}
  /\ \E P \in SUBSET New(Pins) \ {{}} : Creates([x \in P |-> PinRow(c, None)])

UpdatePin(p) ==
  /\ p \in Rows(row, "pin")
  /\ \E u \in Peers \ {row[p].mates} :
       /\ u # None => u # row[row[p].connector].unit
       /\ Changes(p, "mates", u)

-----------------------------------------------------------------------------
(* Buses, messages, fields                                                   *)

BusRow(u) == [kind |-> "bus", unit |-> u]
MessageRow(b, u) == [kind |-> "message", bus |-> b, unit |-> u]
FieldRow(m) == [kind |-> "field", message |-> m]

CreateBus(b) ==
  /\ b \in New(Buses)
  /\ \E u \in Rows(row, "unit") : Creates([x \in {b} |-> BusRow(u)])

\* Pins of the bus's own unit, none of them on this bus already.
AssignPins(b) ==
  /\ b \in Rows(row, "bus")
  /\ \E P \in SUBSET {p \in Rows(row, "pin") : row[row[p].connector].unit = row[b].unit} :
       /\ P # {}
       /\ \A p \in P : Assignment(p, b) \notin DOMAIN row
       /\ Creates([x \in {Assignment(p, b) : p \in P} |->
                     [kind |-> "assignment", pin |-> x[2], bus |-> b]])

RemoveAssignment(a) ==
  /\ a \in Rows(row, "assignment")
  /\ row' = Without(row, {a})
  /\ UNCHANGED <<links, used, announced, pending>>

\* The unit of a message need not be the unit of its bus.
CreateMessage(m) ==
  /\ m \in New(Messages)
  /\ \E b \in Rows(row, "bus"), u \in Rows(row, "unit"), F \in SUBSET New(Fields) :
       Creates([x \in {m} \cup F |-> IF x = m THEN MessageRow(b, u) ELSE FieldRow(m)])

BatchCreateFields(m) ==
  /\ m \in Rows(row, "message")
  /\ \E F \in SUBSET New(Fields) \ {{}} : Creates([x \in F |-> FieldRow(m)])

-----------------------------------------------------------------------------
(* Draft interfaces of the connection builder; requirement links             *)

InterfaceRow(u, v) ==
  [kind |-> "interface", source |-> row[u].system, target |-> row[v].system,
   sourceUnit |-> u, targetUnit |-> v]

StartInterface(i) ==
  /\ i \in New(Interfaces)
  /\ \E u, v \in Rows(row, "unit") : Creates([x \in {i} |-> InterfaceRow(u, v)])

LinkStates == {"pending_review", "approved"}
LinksTo(X) == {l \in links : l.entity \in X}

\* The entity of a link is a number, and no key: that it exists is not checked.
CreateReqLink(x) ==
  /\ Cardinality(links) < MaxLinks
  /\ \E r \in Requirements, s \in LinkStates :
       /\ ~ \E l \in links : l.entity = x /\ l.req = r
       /\ links' = links \cup {[entity |-> x, req |-> r, status |-> s]}
  /\ UNCHANGED <<row, used, announced, pending>>

DeleteReqLink(l) ==
  /\ l \in links
  /\ links' = links \ {l}
  /\ UNCHANGED <<row, used, announced, pending>>

-----------------------------------------------------------------------------
(* Deletions.  "seen": what the gate of the request could see.               *)

Wiring(db) ==
  {<<x, db[x]>> : x \in {y \in DOMAIN db : db[y].kind \notin
     {"pin", "assignment", "connection", "endpoint", "interface"}}}

\* 409 unless forced.  A forced request that has no impact is left out: it does
\* what the one without force does.
Passes(force, impact) == force <=> impact # {}

\* Mutant: the event is left to the second transaction.
Begins_Unannounced(x, force, G, L, F) ==
  /\ Cardinality(pending) < MaxPending
  /\ ~Held(row, G)
  /\ row' = Without(row, G)
  /\ links' = links \ L
  /\ pending' = pending \cup {[x |-> x, kind |-> row[x].kind, force |-> force,
                               seen |-> Wiring(row)]}
  /\ UNCHANGED <<used, announced>>

\* The first transaction ends with the event: it removes G and the links L
\* and puts the links F under review.
Begins(x, force, G, L, F) ==
  /\ Cardinality(pending) < MaxPending
  /\ Cardinality(announced) < MaxDeletions
  /\ ~Held(row, G)
  /\ row' = Without(row, G)
  /\ links' = ((links \ L) \ F) \cup {[l EXCEPT !.status = "pending_review"] : l \in F}
  /\ announced' = announced \cup {x}
  /\ pending' = pending \cup {[x |-> x, kind |-> row[x].kind, force |-> force,
                               seen |-> Wiring(row)]}
  /\ UNCHANGED used

\* The second transaction removes the rest, or fails and is rolled back.
Finishes(r, G, L) ==
  /\ pending' = pending \ {r}
  /\ \/ /\ r.x \in DOMAIN row /\ ~Held(row, G)
        /\ row' = Without(row, G)
        /\ links' = links \ L
     \/ /\ r.x \notin DOMAIN row \/ Held(row, G)
        /\ UNCHANGED <<row, links>>
  /\ UNCHANGED <<used, announced>>

UnitsOf(s) == Refs("unit", "system", s)

\* The units go with the event of their system, the system after it.
BeginSystem(s, force) ==
  /\ s \in Rows(row, "system")
  /\ Passes(force, UnitsOf(s))
  /\ LET G == Falls(row, UnitsOf(s), Orm) IN Begins(s, force, G, LinksTo(UnitsOf(s)), {})

FinishSystem(r) == Finishes(r, {r.x}, {})

ImpactUnit(u) == Refs("connector", "unit", u) \cup Refs("bus", "unit", u)

BeginUnit(u, force) ==
  /\ u \in Rows(row, "unit")
  /\ Passes(force, ImpactUnit(u))
  /\ Begins(u, force, {}, {}, {})

CascadeDeleteUnit(u) == Falls(row, {u}, Orm)

FinishUnit(r) == Finishes(r, CascadeDeleteUnit(r.x), LinksTo({r.x}))

WiresAt(c) == Where(row, "wire", "from", PinsOf(row, c)) \cup Where(row, "wire", "to", PinsOf(row, c))
HarnessesAt(c) == Refs("harness", "fromConnector", c) \cup Refs("harness", "toConnector", c)

\* Mutant: only the wires that start at the connector are looked for.
BeginConnector_HalfGate(c, force) ==
  /\ c \in Rows(row, "connector")
  /\ Passes(force, Where(row, "wire", "from", PinsOf(row, c)) \cup Refs("harness", "fromConnector", c))
  /\ Begins(c, force, {}, {}, {})

BeginConnector(c, force) ==
  /\ c \in Rows(row, "connector")
  /\ Passes(force, WiresAt(c) \cup HarnessesAt(c))
  /\ Begins(c, force, {}, {}, {})

\* Everything that refers to the connector goes; the links of its wires stay.
CascadeDeleteConnector(c) ==
  Falls(row, WiresAt(c) \cup HarnessesAt(c)
             \cup Where(row, "wire", "harness", HarnessesAt(c))
             \cup Where(row, "assignment", "pin", PinsOf(row, c))
             \cup PinsOf(row, c) \cup {c}, Bulk)

FinishConnector(r) ==
  Finishes(r, CascadeDeleteConnector(r.x),
           LinksTo({r.x} \cup PinsOf(row, r.x) \cup HarnessesAt(r.x)))

BeginPin(p) ==
  /\ p \in Rows(row, "pin")
  /\ Refs("wire", "from", p) \cup Refs("wire", "to", p) = {}
  /\ Refs("assignment", "pin", p) = {}
  /\ Begins(p, FALSE, {}, {}, {})

FinishPin(r) == Finishes(r, {r.x}, {})

ImpactBus(b) ==
  Refs("message", "bus", b) \cup Refs("assignment", "bus", b) \cup LinksTo({b})

BeginBus(b, force) ==
  /\ b \in Rows(row, "bus")
  /\ Passes(force, ImpactBus(b))
  /\ Begins(b, force, Falls(row, {b}, Orm) \ {b}, LinksTo({b}), {})

\* Rows added since go with the bus.
FinishBus(r) == Finishes(r, Falls(row, {r.x}, Orm), {})

BeginMessage(m, force) ==
  /\ m \in Rows(row, "message")
  /\ Passes(force, Refs("field", "message", m) \cup LinksTo({m}))
  /\ Begins(m, force, Refs("field", "message", m), LinksTo({m}), {})

FinishMessage(r) == Finishes(r, Falls(row, {r.x}, Orm), {})

\* The links of a field are put under review, and are kept.
BeginField(f, force) ==
  /\ f \in Rows(row, "field")
  /\ Passes(force, LinksTo({f}))
  /\ Begins(f, force, {}, {}, LinksTo({f}))

FinishField(r) == Finishes(r, {r.x}, {})

\* The process stops between the two transactions of a deletion.
Stopped(r) ==
  /\ MayStop
  /\ pending' = pending \ {r}
  /\ UNCHANGED <<row, links, used, announced>>

-----------------------------------------------------------------------------
Begin(x) ==
  \/ BeginPin(x)
  \/ \E force \in BOOLEAN :
       \/ BeginSystem(x, force) \/ BeginUnit(x, force) \/ BeginConnector(x, force)
       \/ BeginBus(x, force) \/ BeginMessage(x, force) \/ BeginField(x, force)

Finish(r) ==
  \/ r.kind = "system" /\ FinishSystem(r)
  \/ r.kind = "unit" /\ FinishUnit(r)
  \/ r.kind = "connector" /\ FinishConnector(r)
  \/ r.kind = "pin" /\ FinishPin(r)
  \/ r.kind = "bus" /\ FinishBus(r)
  \/ r.kind = "message" /\ FinishMessage(r)
  \/ r.kind = "field" /\ FinishField(r)

Edit ==
  \/ \E s \in Systems : CreateSystem(s) \/ UpdateSystem(s)
  \/ \E u \in Units : CreateUnit(u) \/ UpdateUnit(u)
  \/ \E c \in Connectors : CreateConnector(c) \/ BatchCreatePins(c) \/ AutoGeneratePins(c)
  \/ \E p \in Pins : UpdatePin(p)
  \/ \E b \in Buses : CreateBus(b) \/ AssignPins(b)
  \/ \E a \in Rows(row, "assignment") : RemoveAssignment(a)
  \/ \E m \in Messages : CreateMessage(m) \/ BatchCreateFields(m)
  \/ \E i \in Interfaces : StartInterface(i)
  \/ \E x \in Linkable \cap used : CreateReqLink(x)
  \/ \E l \in links : DeleteReqLink(l)

Next ==
  \/ Edit
  \/ \E x \in DOMAIN row : Begin(x)
  \/ \E r \in pending : Finish(r) \/ Stopped(r)

Spec == Init /\ [][Next]_topology

-----------------------------------------------------------------------------
(* Properties                                                                *)

\* What a deletion removes was announced: by the time a row is gone, the
\* "deleted" event of the row, or of something it belonged to or hung on, is
\* committed - whatever else ran in between, and wherever the process stopped
\* (delete_*: the event is written before the row goes; F-047, F-048).  What a
\* single transaction removes (an assignment, an endpoint, a harness merged into
\* another) is told of afterwards, a Connection row not at all.
RemovalsAnnounced ==
  [][pending' # pending =>
       \A x \in DOMAIN row \ DOMAIN row' :
         \/ row[x].kind = "connection"
         \/ x \in Falls(row, announced', {"own", "cascade", "restrict"})]_topology

\* A request without force=true takes with it nothing that its gate could have
\* seen: a connector, harness, wire, bus, message or field that was there when
\* the 409 check passed, and was not changed since, survives the request unless
\* it is its target (delete_unit, delete_connector, delete_bus, delete_harness ...).
UnforcedSparesWiring ==
  [][/\ \A r \in pending \ pending' : ~r.force =>
          \A x \in DOMAIN row \ DOMAIN row' : <<x, row[x]>> \in r.seen => x = r.x
     /\ \A r \in pending' \ pending :
          ~r.force => \A s \in r.seen : s[1] \in DOMAIN row']_topology
=============================================================================
