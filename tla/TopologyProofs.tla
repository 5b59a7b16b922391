----------------------------- MODULE TopologyProofs -----------------------------
(***************************************************************************)
(* Theorems about InterfaceTopology, for any number of systems, units,     *)
(* connectors, pins, buses, messages and fields, any wiring between them,  *)
(* and any number of deletions in progress; and about HarnessWiring, for   *)
(* any number of harnesses and wires, and any batches of pairs to wire.    *)
(***************************************************************************)
EXTENDS HarnessWiring, Induction, FiniteSetTheorems, TLAPS

-----------------------------------------------------------------------------
(* The foreign keys, one by one                                              *)

ForeignKeys ==
  {<<"system", "parent", "null", "system">>, <<"unit", "system", "restrict", "system">>,
   <<"connector", "unit", "own", "unit">>,
   <<"pin", "connector", "own", "connector">>, <<"pin", "mates", "null", "unit">>,
   <<"bus", "unit", "own", "unit">>,
   <<"assignment", "pin", "restrict", "pin">>, <<"assignment", "bus", "own", "bus">>,
   <<"message", "bus", "own", "bus">>, <<"message", "unit", "restrict", "unit">>,
   <<"field", "message", "own", "message">>,
   <<"harness", "fromUnit", "restrict", "unit">>,
   <<"harness", "fromConnector", "restrict", "connector">>,
   <<"harness", "toUnit", "restrict", "unit">>,
   <<"harness", "toConnector", "restrict", "connector">>,
   <<"wire", "harness", "own", "harness">>, <<"wire", "from", "restrict", "pin">>,
   <<"wire", "to", "restrict", "pin">>, <<"wire", "fromMate", "null", "pin">>,
   <<"wire", "toMate", "null", "pin">>,
   <<"endpoint", "harness", "cascade", "harness">>,
   <<"endpoint", "mating", "cascade", "connector">>,
   <<"endpoint", "lru", "null", "connector">>,
   <<"connection", "a", "cascade", "unit">>, <<"connection", "b", "cascade", "unit">>,
   <<"interface", "source", "restrict", "system">>,
   <<"interface", "target", "restrict", "system">>,
   <<"interface", "sourceUnit", "null", "unit">>,
   <<"interface", "targetUnit", "null", "unit">>}

Kinds == {"system", "unit", "connector", "pin", "bus", "assignment", "message",
          "field", "harness", "wire", "endpoint", "connection", "interface"}

LEMMA KindsOfRows == DOMAIN Keys = Kinds
BY DEF Keys, Kinds

\* The tables Keys and Targets as a list.
LEMMA ListedKeys ==
  ASSUME NEW kind \in Kinds, NEW c \in DOMAIN Keys[kind]
  PROVE  <<kind, c, Keys[kind][c], Targets[kind][c]>> \in ForeignKeys
<1>1. CASE kind = "system"
  BY <1>1 DEF Keys, SystemKeys, Targets, ForeignKeys
<1>2. CASE kind = "unit"
  BY <1>2 DEF Keys, UnitKeys, Targets, ForeignKeys
<1>3. CASE kind = "connector"
  BY <1>3 DEF Keys, ConnectorKeys, Targets, ForeignKeys
<1>4. CASE kind = "pin"
  BY <1>4 DEF Keys, PinKeys, Targets, ForeignKeys
<1>5. CASE kind = "bus"
  BY <1>5 DEF Keys, BusKeys, Targets, ForeignKeys
<1>6. CASE kind = "assignment"
  BY <1>6 DEF Keys, AssignmentKeys, Targets, ForeignKeys
<1>7. CASE kind = "message"
  BY <1>7 DEF Keys, MessageKeys, Targets, ForeignKeys
<1>8. CASE kind = "field"
  BY <1>8 DEF Keys, FieldKeys, Targets, ForeignKeys
<1>9. CASE kind = "harness"
  BY <1>9 DEF Keys, HarnessKeys, Targets, ForeignKeys
<1>10. CASE kind = "wire"
  BY <1>10 DEF Keys, WireKeys, Targets, ForeignKeys
<1>11. CASE kind = "endpoint"
  BY <1>11 DEF Keys, EndpointKeys, Targets, ForeignKeys
<1>12. CASE kind = "connection"
  BY <1>12 DEF Keys, ConnectionKeys, Targets, ForeignKeys
<1>13. CASE kind = "interface"
  BY <1>13 DEF Keys, InterfaceKeys, Targets, ForeignKeys
<1> QED BY <1>1, <1>2, <1>3, <1>4, <1>5, <1>6, <1>7, <1>8, <1>9, <1>10, <1>11,
           <1>12, <1>13 DEF Kinds

LEMMA ColumnsOf ==
  /\ DOMAIN Keys["system"] = {"parent"} /\ Targets["system"]["parent"] = "system"
  /\ DOMAIN Keys["unit"] = {"system"} /\ Targets["unit"]["system"] = "system"
  /\ DOMAIN Keys["connector"] = {"unit"} /\ Targets["connector"]["unit"] = "unit"
  /\ DOMAIN Keys["pin"] = {"connector", "mates"}
  /\ Targets["pin"]["connector"] = "connector" /\ Targets["pin"]["mates"] = "unit"
  /\ DOMAIN Keys["bus"] = {"unit"} /\ Targets["bus"]["unit"] = "unit"
  /\ DOMAIN Keys["assignment"] = {"pin", "bus"}
  /\ Targets["assignment"]["pin"] = "pin" /\ Targets["assignment"]["bus"] = "bus"
  /\ DOMAIN Keys["message"] = {"bus", "unit"}
  /\ Targets["message"]["bus"] = "bus" /\ Targets["message"]["unit"] = "unit"
  /\ DOMAIN Keys["field"] = {"message"} /\ Targets["field"]["message"] = "message"
  /\ DOMAIN Keys["interface"] = {"source", "target", "sourceUnit", "targetUnit"}
  /\ Targets["interface"]["source"] = "system" /\ Targets["interface"]["target"] = "system"
  /\ Targets["interface"]["sourceUnit"] = "unit" /\ Targets["interface"]["targetUnit"] = "unit"
BY DEF Keys, Targets, SystemKeys, UnitKeys, ConnectorKeys, PinKeys, BusKeys,
       AssignmentKeys, MessageKeys, FieldKeys, InterfaceKeys

-----------------------------------------------------------------------------
(* The inductive invariant                                                   *)

All == {"own", "cascade", "restrict"}

\* The foreign keys along which a deletion of a row of kind k takes others.
Taken(k, kind, c) ==
  kind # "unit" /\ Keys[kind][c] \in (IF k = "connector" THEN All ELSE Orm)
Closed(db, T, k) ==
  \A x \in DOMAIN db : \A c \in DOMAIN Keys[db[x].kind] :
    db[x][c] \in T /\ Taken(k, db[x].kind, c) => x \in T

\* No row that the deletion r saw hangs on its target.
Spared(db, r) ==
  \E T : /\ r.x \in T /\ None \notin T /\ Closed(db, T, r.kind)
         /\ \A s \in r.seen : s[1] \in T =>
              s[1] = r.x \/ s[1] \notin DOMAIN db \/ db[s[1]].kind = "assignment"

DeletionOK(r) ==
  /\ r.x \in announced /\ r.x # None
  /\ \A s \in r.seen : s[1] \in used /\ s[2].kind # "assignment"
  /\ ~r.force => Spared(row, r)

TopologyInvariant ==
  /\ Valid(row) /\ DOMAIN row \subseteq used /\ None \notin announced
  /\ \A x \in DOMAIN row : x \in GivenKeys \/ row[x].kind = "assignment"
  /\ \A r \in pending : DeletionOK(r)

-----------------------------------------------------------------------------
(* What steps do to the tables                                               *)

\* Rows that stay keep the columns along which deletions go.
Kept(db, next) ==
  \A x \in DOMAIN db \cap DOMAIN next :
    /\ next[x].kind = db[x].kind
    /\ \A c \in DOMAIN Keys[db[x].kind] :
         db[x].kind # "unit" /\ Keys[db[x].kind][c] # "null" =>
           next[x][c] \in {db[x][c], None}

LEMMA Inserted ==
  ASSUME NEW db, Valid(db), NEW new,
         \A x \in DOMAIN new : x \notin DOMAIN db /\ x # None
                               /\ ValidRow(Insert(db, new), new[x])
  PROVE  /\ Valid(Insert(db, new)) /\ Kept(db, Insert(db, new))
         /\ DOMAIN Insert(db, new) = DOMAIN db \cup DOMAIN new
         /\ \A x \in DOMAIN new : Insert(db, new)[x] = new[x]
<1> DEFINE next == Insert(db, new)
<1>1. /\ DOMAIN next = DOMAIN db \cup DOMAIN new
      /\ \A x \in DOMAIN new : next[x] = new[x]
      /\ \A x \in DOMAIN db : next[x] = db[x]
  BY DEF Insert
<1> HIDE DEF next
<1>2. ASSUME NEW x \in DOMAIN db PROVE ValidRow(next, db[x])
  BY <1>1, <1>2 DEF Valid, ValidRow, Refers
<1>3. Valid(next)
  BY <1>1, <1>2 DEF Valid, next
<1>4. Kept(db, next)
  BY <1>1 DEF Kept
<1> QED BY <1>1, <1>3, <1>4 DEF next

LEMMA Removed ==
  ASSUME NEW db, Valid(db), NEW G
  PROVE  /\ Valid(Without(db, G)) /\ Kept(db, Without(db, G))
         /\ DOMAIN Without(db, G) = DOMAIN db \ G
<1> DEFINE next == Without(db, G)
<1>1. DOMAIN next = DOMAIN db \ G
  BY DEF Without
<1>2. \A x \in DOMAIN next :
        /\ DOMAIN next[x] = DOMAIN db[x]
        /\ \A c \in DOMAIN db[x] :
             next[x][c] = IF c \in DOMAIN Keys[db[x].kind] /\ db[x][c] \in G
                          THEN None ELSE db[x][c]
  BY DEF Without
<1> HIDE DEF next
<1>3. \A x \in DOMAIN next : next[x].kind = db[x].kind
  <2> SUFFICES ASSUME NEW x \in DOMAIN next PROVE next[x].kind = db[x].kind
    OBVIOUS
  <2>1. "kind" \in DOMAIN db[x] /\ db[x].kind \in Kinds
    BY <1>1, KindsOfRows DEF Valid, ValidRow
  <2>2. "kind" \notin DOMAIN Keys[db[x].kind]
    BY <2>1, ListedKeys DEF ForeignKeys
  <2> QED BY <1>2, <2>1, <2>2
<1>4. ASSUME NEW x \in DOMAIN next PROVE ValidRow(next, next[x])
  <2>1. ValidRow(db, db[x]) /\ x \in DOMAIN db
    BY <1>1 DEF Valid
  <2>2. ASSUME NEW c \in DOMAIN Keys[db[x].kind]
        PROVE  Refers(next, next[x][c], Targets[db[x].kind][c])
    BY <2>1, <1>1, <1>2, <1>3 DEF ValidRow, Refers
  <2> QED BY <2>1, <2>2, <1>2, <1>3 DEF ValidRow
<1>5. Valid(next)
  BY <1>1, <1>4 DEF Valid
<1>6. Kept(db, next)
  BY <1>1, <1>2, <1>3 DEF Kept, Valid, ValidRow
<1> QED BY <1>1, <1>5, <1>6 DEF next

\* What hangs on a row only grows by new rows.
LEMMA StaysSpared ==
  ASSUME NEW db, NEW next, NEW r, Valid(db), Valid(next), Kept(db, next), Spared(db, r),
         \A s \in r.seen : s[1] \in DOMAIN next \ DOMAIN db =>
           next[s[1]].kind = "assignment"
  PROVE  Spared(next, r)
<1>1. PICK T : /\ r.x \in T /\ None \notin T /\ Closed(db, T, r.kind)
               /\ \A s \in r.seen : s[1] \in T =>
                    s[1] = r.x \/ s[1] \notin DOMAIN db \/ db[s[1]].kind = "assignment"
  BY DEF Spared
<1> DEFINE U == T \cup (DOMAIN next \ DOMAIN db)
<1>2. None \notin U
  BY <1>1 DEF Valid
<1>3. ASSUME NEW x \in DOMAIN next, NEW c \in DOMAIN Keys[next[x].kind],
             next[x][c] \in U, Taken(r.kind, next[x].kind, c)
      PROVE  x \in U
  <2>1. CASE x \notin DOMAIN db
    BY <2>1
  <2>2. CASE x \in DOMAIN db
    <3>1. next[x].kind = db[x].kind /\ db[x].kind # "unit"
      BY <2>2, <1>3 DEF Kept, Taken
    <3>2. Keys[db[x].kind][c] # "null"
      BY <1>3, <3>1 DEF Taken, All, Orm
    <3>3. next[x][c] = db[x][c]
      BY <1>2, <1>3, <2>2, <3>1, <3>2 DEF Kept
    <3>4. db[x][c] \in DOMAIN db \/ db[x][c] = None
      BY <2>2, <1>3, <3>1 DEF Valid, ValidRow, Refers
    <3>5. db[x][c] \in T
      BY <3>3, <3>4, <1>2, <1>3
    <3> QED BY <2>2, <3>1, <3>5, <1>1, <1>3 DEF Closed
  <2> QED BY <2>1, <2>2
<1>4. Closed(next, U, r.kind)
  BY <1>3 DEF Closed
<1>5. \A s \in r.seen : s[1] \in U =>
        s[1] = r.x \/ s[1] \notin DOMAIN next \/ next[s[1]].kind = "assignment"
  BY <1>1 DEF Kept
<1> QED BY <1>1, <1>2, <1>4, <1>5 DEF Spared

\* A step that leaves the deletions in progress alone, or takes part in one.
LEMMA QuietStep ==
  ASSUME TopologyInvariant, Valid(row'), Kept(row, row'),
         \A x \in DOMAIN row' \ DOMAIN row :
           (x \in GivenKeys /\ x \notin used) \/ row'[x].kind = "assignment",
         used \subseteq used', DOMAIN row' \subseteq used',
         announced \subseteq announced', None \notin announced',
         \A r \in pending' \ pending : DeletionOK(r)'
  PROVE  TopologyInvariant'
<1>1. ASSUME NEW r \in pending', r \in pending PROVE DeletionOK(r)'
  <2>1. DeletionOK(r)
    BY <1>1 DEF TopologyInvariant
  <2>2. ~r.force => Spared(row', r)
    <3> SUFFICES ASSUME ~r.force PROVE Spared(row', r)
      OBVIOUS
    <3>1. \A s \in r.seen : s[1] \in DOMAIN row' \ DOMAIN row => row'[s[1]].kind = "assignment"
      BY <2>1 DEF DeletionOK
    <3> QED BY <2>1, <3>1, StaysSpared DEF DeletionOK, TopologyInvariant
  <2> QED BY <2>1, <2>2 DEF DeletionOK
<1>2. \A x \in DOMAIN row' : x \in GivenKeys \/ row'[x].kind = "assignment"
  BY DEF TopologyInvariant, Kept
<1> QED BY <1>1, <1>2 DEF TopologyInvariant

-----------------------------------------------------------------------------
(* Steps that edit                                                           *)

\* The columns of a new row name rows that exist, or come with it.
NewRow(new, v) ==
  /\ "kind" \in DOMAIN v /\ v.kind \in Kinds
  /\ DOMAIN Keys[v.kind] \subseteq DOMAIN v
  /\ \A c \in DOMAIN Keys[v.kind] :
       \/ Refers(row, v[c], Targets[v.kind][c])
       \/ v[c] \in DOMAIN new /\ new[v[c]].kind = Targets[v.kind][c]

LEMMA CreatesStep ==
  ASSUME TopologyInvariant, NEW new, Creates(new),
         \A x \in DOMAIN new :
           /\ NewRow(new, new[x])
           /\ \/ x \in FreshKeys /\ x \notin used
              \/ new[x].kind = "assignment" /\ x \notin DOMAIN row /\ x # None
  PROVE  TopologyInvariant'
<1> DEFINE next == Insert(row, new)
<1>1. /\ DOMAIN next = DOMAIN row \cup DOMAIN new
      /\ \A x \in DOMAIN new : next[x] = new[x]
      /\ \A x \in DOMAIN row \ DOMAIN new : next[x] = row[x]
  BY DEF Insert
<1>2. \A x \in DOMAIN new : x \notin DOMAIN row /\ x # None
  BY TopologyAssumption DEF TopologyInvariant, GivenKeys
<1> HIDE DEF next
<1>3. \A x \in DOMAIN new : ValidRow(next, new[x])
  BY <1>1, <1>2, KindsOfRows DEF NewRow, ValidRow, Refers
<1>4. Valid(next) /\ Kept(row, next)
  BY <1>2, <1>3, Inserted DEF TopologyInvariant, next
<1>5. row' = next
  BY DEF Creates, next
<1>6. /\ \A x \in DOMAIN row' \ DOMAIN row :
           (x \in GivenKeys /\ x \notin used) \/ row'[x].kind = "assignment"
      /\ used \subseteq used' /\ DOMAIN row' \subseteq used'
      /\ announced' = announced /\ None \notin announced /\ pending' = pending
  BY <1>1, <1>5 DEF Creates, GivenKeys, TopologyInvariant
<1> QED BY <1>4, <1>5, <1>6, QuietStep

LEMMA ChangesStep ==
  ASSUME TopologyInvariant, NEW x \in DOMAIN row, NEW c \in DOMAIN Keys[row[x].kind], NEW y,
         Changes(x, c, y),
         row[x].kind = "unit" \/ Keys[row[x].kind][c] = "null",
         Refers(row, y, Targets[row[x].kind][c])
  PROVE  TopologyInvariant'
<1>1. /\ DOMAIN row' = DOMAIN row
      /\ \A z \in DOMAIN row \ {x} : row'[z] = row[z]
      /\ DOMAIN row'[x] = DOMAIN row[x]
      /\ \A d \in DOMAIN row[x] : row'[x][d] = IF d = c THEN y ELSE row[x][d]
  BY DEF Changes
<1>2. "kind" # c
  BY KindsOfRows, ListedKeys DEF TopologyInvariant, Valid, ValidRow, ForeignKeys
<1>3. \A z \in DOMAIN row : row'[z].kind = row[z].kind
  BY <1>1, <1>2 DEF TopologyInvariant, Valid, ValidRow
<1>4. ASSUME NEW z \in DOMAIN row PROVE ValidRow(row', row'[z])
  <2>1. ValidRow(row, row[z])
    BY DEF TopologyInvariant, Valid
  <2>2. \A v, k : Refers(row, v, k) => Refers(row', v, k)
    BY <1>1, <1>3 DEF Refers
  <2>3. CASE z # x
    BY <2>1, <2>2, <2>3, <1>1 DEF ValidRow
  <2>4. CASE z = x
    BY <2>1, <2>2, <2>4, <1>1, <1>3 DEF ValidRow
  <2> QED BY <2>3, <2>4
<1>5. Valid(row')
  BY <1>1, <1>4 DEF Valid, TopologyInvariant
<1>6. Kept(row, row')
  BY <1>1, <1>3 DEF Kept, TopologyInvariant, Valid, ValidRow
<1> QED BY <1>1, <1>3, <1>5, <1>6, QuietStep DEF Changes, TopologyInvariant

LEMMA CreateSystemStep ==
  ASSUME TopologyInvariant, NEW s, CreateSystem(s)
  PROVE  TopologyInvariant'
<1>1. PICK p \in Rows(row, "system") \cup {None} : Creates([x \in {s} |-> SystemRow(p)])
  BY DEF CreateSystem
<1>2. NewRow([x \in {s} |-> SystemRow(p)], SystemRow(p))
  BY ColumnsOf DEF NewRow, SystemRow, Refers, Rows, Kinds
<1>3. s \in FreshKeys /\ s \notin used
  BY DEF CreateSystem, New, FreshKeys
<1> QED BY <1>1, <1>2, <1>3, CreatesStep

LEMMA UpdateSystemStep ==
  ASSUME TopologyInvariant, NEW s, UpdateSystem(s)
  PROVE  TopologyInvariant'
<1>1. PICK p \in Rows(row, "system") \cup {None} : Changes(s, "parent", p)
  BY DEF UpdateSystem
<1>2. s \in DOMAIN row /\ row[s].kind = "system"
  BY DEF UpdateSystem, Rows
<1>3. Keys["system"]["parent"] = "null"
  BY DEF Keys, SystemKeys
<1>4. Refers(row, p, "system")
  BY DEF Refers, Rows
<1> QED BY <1>1, <1>2, <1>3, <1>4, ColumnsOf, ChangesStep

LEMMA CreateUnitStep ==
  ASSUME TopologyInvariant, NEW u, CreateUnit(u)
  PROVE  TopologyInvariant'
<1>1. PICK s \in Rows(row, "system") : Creates([x \in {u} |-> UnitRow(s)])
  BY DEF CreateUnit
<1>2. NewRow([x \in {u} |-> UnitRow(s)], UnitRow(s))
  BY ColumnsOf DEF NewRow, UnitRow, Refers, Rows, Kinds
<1>3. u \in FreshKeys /\ u \notin used
  BY DEF CreateUnit, New, FreshKeys
<1> QED BY <1>1, <1>2, <1>3, CreatesStep

LEMMA UpdateUnitStep ==
  ASSUME TopologyInvariant, NEW u, UpdateUnit(u)
  PROVE  TopologyInvariant'
<1>1. PICK s \in Rows(row, "system") : Changes(u, "system", s)
  BY DEF UpdateUnit
<1>2. u \in DOMAIN row /\ row[u].kind = "unit"
  BY DEF UpdateUnit, Rows
<1>3. Refers(row, s, "system")
  BY DEF Refers, Rows
<1> QED BY <1>1, <1>2, <1>3, ColumnsOf, ChangesStep

LEMMA CreateConnectorStep ==
  ASSUME TopologyInvariant, NEW c, CreateConnector(c)
  PROVE  TopologyInvariant'
<1>1. PICK u \in Rows(row, "unit"), P \in SUBSET New(Pins), peer \in Peers :
        Creates([x \in {c} \cup P |-> IF x = c THEN ConnectorRow(u) ELSE PinRow(c, peer)])
  BY DEF CreateConnector
<1> DEFINE new == [x \in {c} \cup P |-> IF x = c THEN ConnectorRow(u) ELSE PinRow(c, peer)]
<1>2. ASSUME NEW x \in DOMAIN new PROVE NewRow(new, new[x])
  <2>1. CASE x = c
    BY <2>1, ColumnsOf DEF NewRow, ConnectorRow, Refers, Rows, Kinds
  <2>2. CASE x # c
    <3>1. new[x] = PinRow(c, peer) /\ c \in DOMAIN new /\ new[c].kind = "connector"
      BY <2>2, <1>2 DEF ConnectorRow
    <3>2. Refers(row, peer, "unit")
      BY DEF Refers, Rows, Peers
    <3> HIDE DEF new
    <3> QED BY <3>1, <3>2, ColumnsOf DEF NewRow, PinRow, Kinds
  <2> QED BY <2>1, <2>2
<1>3. \A x \in DOMAIN new : x \in FreshKeys /\ x \notin used
  BY DEF CreateConnector, New, FreshKeys
<1> QED BY <1>1, <1>2, <1>3, CreatesStep

\* New pins of a connector.
LEMMA NewPins ==
  ASSUME TopologyInvariant, NEW c \in Rows(row, "connector"), NEW P \in SUBSET New(Pins),
         NEW peer \in Peers, Creates([x \in P |-> PinRow(c, peer)])
  PROVE  TopologyInvariant'
<1>1. NewRow([x \in P |-> PinRow(c, peer)], PinRow(c, peer))
  BY ColumnsOf DEF NewRow, PinRow, Refers, Rows, Peers, Kinds
<1>2. \A x \in P : x \in FreshKeys /\ x \notin used
  BY DEF New, FreshKeys
<1> QED BY <1>1, <1>2, CreatesStep

LEMMA UpdatePinStep ==
  ASSUME TopologyInvariant, NEW p, UpdatePin(p)
  PROVE  TopologyInvariant'
<1>1. PICK u \in Peers : Changes(p, "mates", u)
  BY DEF UpdatePin
<1>2. p \in DOMAIN row /\ row[p].kind = "pin"
  BY DEF UpdatePin, Rows
<1>3. Keys["pin"]["mates"] = "null"
  BY DEF Keys, PinKeys
<1>4. Refers(row, u, "unit")
  BY DEF Refers, Rows, Peers
<1> QED BY <1>1, <1>2, <1>3, <1>4, ColumnsOf, ChangesStep

LEMMA CreateBusStep ==
  ASSUME TopologyInvariant, NEW b, CreateBus(b)
  PROVE  TopologyInvariant'
<1>1. PICK u \in Rows(row, "unit") : Creates([x \in {b} |-> BusRow(u)])
  BY DEF CreateBus
<1>2. NewRow([x \in {b} |-> BusRow(u)], BusRow(u))
  BY ColumnsOf DEF NewRow, BusRow, Refers, Rows, Kinds
<1>3. b \in FreshKeys /\ b \notin used
  BY DEF CreateBus, New, FreshKeys
<1> QED BY <1>1, <1>2, <1>3, CreatesStep

LEMMA AssignPinsStep ==
  ASSUME TopologyInvariant, NEW b, AssignPins(b)
  PROVE  TopologyInvariant'
<1>1. PICK P \in SUBSET Rows(row, "pin") :
        /\ \A p \in P : Assignment(p, b) \notin DOMAIN row
        /\ Creates([x \in {Assignment(p, b) : p \in P} |->
                      [kind |-> "assignment", pin |-> x[2], bus |-> b]])
  BY DEF AssignPins
<1> DEFINE new == [x \in {Assignment(p, b) : p \in P} |->
                     [kind |-> "assignment", pin |-> x[2], bus |-> b]]
<1>2. b \in DOMAIN row /\ row[b].kind = "bus" /\ b \in GivenKeys
  BY DEF AssignPins, Rows, TopologyInvariant
<1>3. ASSUME NEW x \in DOMAIN new
      PROVE  NewRow(new, new[x]) /\ new[x].kind = "assignment" /\ x \notin DOMAIN row /\ x # None
  <2>1. PICK p \in P : x = Assignment(p, b)
    BY <1>3
  <2>2. p \in DOMAIN row /\ row[p].kind = "pin" /\ p \in GivenKeys
    BY DEF Rows, TopologyInvariant
  <2>3. new[x] = [kind |-> "assignment", pin |-> p, bus |-> b]
    BY <2>1 DEF Assignment
  <2>4. NewRow(new, new[x])
    <3> HIDE DEF new
    <3> QED BY <2>2, <2>3, <1>2, ColumnsOf DEF NewRow, Refers, Kinds
  <2> QED BY <2>1, <2>2, <2>3, <2>4, <1>1, <1>2, TopologyAssumption
<1> HIDE DEF new
<1>4. Creates(new)
  BY <1>1 DEF new
<1> QED BY <1>3, <1>4, CreatesStep

LEMMA RemoveAssignmentStep ==
  ASSUME TopologyInvariant, NEW a, RemoveAssignment(a)
  PROVE  TopologyInvariant'
<1>1. Valid(row') /\ Kept(row, row') /\ DOMAIN row' \subseteq DOMAIN row
  BY Removed DEF RemoveAssignment, TopologyInvariant
<1> QED BY <1>1, QuietStep DEF RemoveAssignment, TopologyInvariant

LEMMA CreateMessageStep ==
  ASSUME TopologyInvariant, NEW m, CreateMessage(m)
  PROVE  TopologyInvariant'
<1>1. PICK b \in Rows(row, "bus"), u \in Rows(row, "unit"), F \in SUBSET New(Fields) :
        Creates([x \in {m} \cup F |-> IF x = m THEN MessageRow(b, u) ELSE FieldRow(m)])
  BY DEF CreateMessage
<1> DEFINE new == [x \in {m} \cup F |-> IF x = m THEN MessageRow(b, u) ELSE FieldRow(m)]
<1>2. ASSUME NEW x \in DOMAIN new PROVE NewRow(new, new[x])
  <2>1. CASE x = m
    BY <2>1, ColumnsOf DEF NewRow, MessageRow, Refers, Rows, Kinds
  <2>2. CASE x # m
    <3>1. new[x] = FieldRow(m) /\ m \in DOMAIN new /\ new[m].kind = "message"
      BY <2>2, <1>2 DEF MessageRow
    <3> HIDE DEF new
    <3> QED BY <3>1, ColumnsOf DEF NewRow, FieldRow, Kinds
  <2> QED BY <2>1, <2>2
<1>3. \A x \in DOMAIN new : x \in FreshKeys /\ x \notin used
  BY DEF CreateMessage, New, FreshKeys
<1> QED BY <1>1, <1>2, <1>3, CreatesStep

LEMMA BatchCreateFieldsStep ==
  ASSUME TopologyInvariant, NEW m, BatchCreateFields(m)
  PROVE  TopologyInvariant'
<1>1. PICK F \in SUBSET New(Fields) : Creates([x \in F |-> FieldRow(m)])
  BY DEF BatchCreateFields
<1>2. NewRow([x \in F |-> FieldRow(m)], FieldRow(m))
  BY ColumnsOf DEF BatchCreateFields, NewRow, FieldRow, Refers, Rows, Kinds
<1>3. \A x \in F : x \in FreshKeys /\ x \notin used
  BY DEF New, FreshKeys
<1> QED BY <1>1, <1>2, <1>3, CreatesStep

LEMMA StartInterfaceStep ==
  ASSUME TopologyInvariant, NEW i, StartInterface(i)
  PROVE  TopologyInvariant'
<1>1. PICK u, v \in Rows(row, "unit") : Creates([x \in {i} |-> InterfaceRow(u, v)])
  BY DEF StartInterface
<1>2. \A w \in {u, v} : Refers(row, w, "unit") /\ Refers(row, row[w].system, "system")
  BY ColumnsOf DEF Rows, Refers, TopologyInvariant, Valid, ValidRow
<1>3. NewRow([x \in {i} |-> InterfaceRow(u, v)], InterfaceRow(u, v))
  BY <1>2, ColumnsOf DEF NewRow, InterfaceRow, Kinds
<1>4. i \in FreshKeys /\ i \notin used
  BY DEF StartInterface, New, FreshKeys
<1> QED BY <1>1, <1>3, <1>4, CreatesStep

LEMMA EditStep ==
  ASSUME TopologyInvariant, Edit
  PROVE  TopologyInvariant'
<1>1. ASSUME NEW s \in Systems, CreateSystem(s) \/ UpdateSystem(s) PROVE TopologyInvariant'
  BY <1>1, CreateSystemStep, UpdateSystemStep
<1>2. ASSUME NEW u \in Units, CreateUnit(u) \/ UpdateUnit(u) PROVE TopologyInvariant'
  BY <1>2, CreateUnitStep, UpdateUnitStep
<1>3. ASSUME NEW c \in Connectors, CreateConnector(c) PROVE TopologyInvariant'
  BY <1>3, CreateConnectorStep
<1>4. ASSUME NEW c \in Connectors, BatchCreatePins(c) PROVE TopologyInvariant'
  BY <1>4, NewPins DEF BatchCreatePins
<1>5. ASSUME NEW c \in Connectors, AutoGeneratePins(c) PROVE TopologyInvariant'
  <2>1. None \in Peers
    BY DEF Peers
  <2> QED BY <1>5, <2>1, NewPins DEF AutoGeneratePins
<1>6. ASSUME NEW p \in Pins, UpdatePin(p) PROVE TopologyInvariant'
  BY <1>6, UpdatePinStep
<1>7. ASSUME NEW b \in Buses, CreateBus(b) \/ AssignPins(b) PROVE TopologyInvariant'
  BY <1>7, CreateBusStep, AssignPinsStep
<1>8. ASSUME NEW a \in Rows(row, "assignment"), RemoveAssignment(a) PROVE TopologyInvariant'
  BY <1>8, RemoveAssignmentStep
<1>9. ASSUME NEW m \in Messages, CreateMessage(m) \/ BatchCreateFields(m)
      PROVE  TopologyInvariant'
  BY <1>9, CreateMessageStep, BatchCreateFieldsStep
<1>10. ASSUME NEW i \in Interfaces, StartInterface(i) PROVE TopologyInvariant'
  BY <1>10, StartInterfaceStep
<1>11. ASSUME UNCHANGED <<row, used, announced, pending>> PROVE TopologyInvariant'
  BY <1>11 DEF TopologyInvariant, DeletionOK
<1>12. ASSUME NEW x, CreateReqLink(x) PROVE TopologyInvariant'
  BY <1>11, <1>12 DEF CreateReqLink
<1>13. ASSUME NEW l, DeleteReqLink(l) PROVE TopologyInvariant'
  BY <1>11, <1>13 DEF DeleteReqLink
<1> QED BY <1>1, <1>2, <1>3, <1>4, <1>5, <1>6, <1>7, <1>8, <1>9, <1>10, <1>12, <1>13 DEF Edit

-----------------------------------------------------------------------------
(* What falls with a row                                                     *)

\* What falls stays inside of any set that is closed under the same rules.
LEMMA FallsInside ==
  ASSUME NEW db, NEW D, NEW how, NEW T, D \subseteq T,
         \A x \in DOMAIN db : \A c \in DOMAIN Keys[db[x].kind] :
           db[x][c] \in T /\ Keys[db[x].kind][c] \in how => x \in T
  PROVE  Falls(db, D, how) \subseteq T
<1> DEFINE With(S) == S \cup {x \in DOMAIN db :
                        \E c \in DOMAIN Keys[db[x].kind] :
                          db[x][c] \in S /\ Keys[db[x].kind][c] \in how}
<1>1. Falls(db, D, how) = With(With(With(With(With(D)))))
  BY DEF Falls
<1>2. \A S : S \subseteq T => With(S) \subseteq T
  OBVIOUS
<1> HIDE DEF With
<1> QED BY <1>1, <1>2

\* How far a kind of row is from the systems, along what a deletion follows.
Second == {"unit", "interface"}
Third == {"connector", "bus", "connection"}
Fourth == {"pin", "harness", "message"}
Fifth == {"assignment", "field", "wire", "endpoint"}

\* Five rounds are enough: what falls with D is closed.
LEMMA FallsClosed ==
  ASSUME NEW db, Valid(db), NEW D, None \notin D
  PROVE  /\ D \subseteq Falls(db, D, All)
         /\ \A x \in DOMAIN db : \A c \in DOMAIN Keys[db[x].kind] :
              db[x][c] \in Falls(db, D, All) /\ Keys[db[x].kind][c] \in All =>
                x \in Falls(db, D, All)
<1> DEFINE With(S) == S \cup {x \in DOMAIN db :
                        \E c \in DOMAIN Keys[db[x].kind] :
                          db[x][c] \in S /\ Keys[db[x].kind][c] \in All}
           S1 == With(D)
           S2 == With(S1)
           S3 == With(S2)
           S4 == With(S3)
           S5 == With(S4)
           T == D \cup {x \in DOMAIN db :
                  \/ db[x].kind \in Second /\ x \in S1
                  \/ db[x].kind \in Third /\ x \in S2
                  \/ db[x].kind \in Fourth /\ x \in S3
                  \/ db[x].kind \in Fifth /\ x \in S4}
<1>1. Falls(db, D, All) = S5
  BY DEF Falls
<1>2. \A S : S \subseteq With(S)
  OBVIOUS
<1>3. \A S : \A x \in DOMAIN db : \A c \in DOMAIN Keys[db[x].kind] :
        db[x][c] \in S /\ Keys[db[x].kind][c] \in All => x \in With(S)
  OBVIOUS
<1> HIDE DEF With
<1>4. D \subseteq S1 /\ S1 \subseteq S2 /\ S2 \subseteq S3 /\ S3 \subseteq S4 /\ S4 \subseteq S5
  BY <1>2
<1>5. ASSUME NEW x \in DOMAIN db, NEW c \in DOMAIN Keys[db[x].kind],
             db[x][c] \in T, Keys[db[x].kind][c] \in All
      PROVE  x \in T
  <2> DEFINE y == db[x][c]
  <2>1. /\ db[x].kind \in Kinds
        /\ Refers(db, y, Targets[db[x].kind][c])
    BY KindsOfRows DEF Valid, ValidRow
  <2>2. <<db[x].kind, c, Keys[db[x].kind][c], Targets[db[x].kind][c]>> \in ForeignKeys
    BY <2>1, ListedKeys
  <2>3. CASE y \in D
    <3>1. x \in S1
      BY <2>3, <1>3, <1>5
    <3>2. db[x].kind \in Second \cup Third \cup Fourth \cup Fifth
      BY <2>2, <1>5 DEF ForeignKeys, Second, Third, Fourth, Fifth, All
    <3> HIDE DEF S1, S2, S3, S4
    <3> QED BY <3>1, <3>2, <1>4
  <2>4. CASE y \notin D
    <3>1. y \in DOMAIN db /\ y # None
      BY <2>4, <1>5 DEF Valid
    <3>2. db[y].kind = Targets[db[x].kind][c]
      BY <3>1, <2>1 DEF Refers
    <3>3. /\ y \in S1 => x \in S2
          /\ y \in S2 => x \in S3
          /\ y \in S3 => x \in S4
      BY <1>3, <1>5
    <3> HIDE DEF S1, S2, S3, S4
    <3>4. \/ db[y].kind \in Second /\ y \in S1
          \/ db[y].kind \in Third /\ y \in S2
          \/ db[y].kind \in Fourth /\ y \in S3
          \/ db[y].kind \in Fifth
      BY <2>4, <1>5
    <3>5. /\ db[y].kind \notin Fifth
          /\ db[y].kind \in Second => db[x].kind \in Third \cup Fourth \cup Fifth
          /\ db[y].kind \in Third => db[x].kind \in Fourth \cup Fifth
          /\ db[y].kind \in Fourth => db[x].kind \in Fifth
      BY <2>2, <3>2, <1>5 DEF ForeignKeys, Second, Third, Fourth, Fifth, All
    <3>6. \/ db[x].kind \in Third /\ x \in S2
          \/ db[x].kind \in Fourth /\ x \in S3
          \/ db[x].kind \in Fifth /\ x \in S4
      BY <3>3, <3>4, <3>5, <1>4
    <3> QED BY <3>6
  <2> QED BY <2>3, <2>4
<1>6. Falls(db, D, All) \subseteq T
  <2> HIDE DEF T
  <2>1. D \subseteq T
    BY DEF T
  <2> QED BY <2>1, <1>5, FallsInside
<1>7. T \subseteq S5
  BY <1>4
<1> QED BY <1>1, <1>4, <1>5, <1>6, <1>7

-----------------------------------------------------------------------------
(* Deletions                                                                 *)

Deletion(x, force) ==
  [x |-> x, kind |-> row[x].kind, force |-> force, seen |-> Wiring(row)]

LEMMA BeginsStep ==
  ASSUME TopologyInvariant, NEW x \in DOMAIN row, NEW force, NEW G, NEW L, NEW F,
         Begins(x, force, G, L, F), ~force => Spared(row, Deletion(x, force))
  PROVE  TopologyInvariant'
<1>0. PICK d : d = Deletion(x, force)
  OBVIOUS
<1>1. /\ row' = Without(row, G) /\ used' = used
      /\ announced' = announced \cup {x} /\ pending' = pending \cup {d}
  BY <1>0 DEF Begins, Deletion
<1>2. Valid(row') /\ Kept(row, row') /\ DOMAIN row' \subseteq DOMAIN row
  BY <1>1, Removed DEF TopologyInvariant
<1>3. d.x = x /\ d.force = force /\ d.seen = Wiring(row)
  BY <1>0 DEF Deletion
<1>4. x # None
  BY DEF TopologyInvariant, Valid
<1>5. \A s \in d.seen : s[1] \in used /\ s[1] \in DOMAIN row /\ s[2].kind # "assignment"
  BY <1>3 DEF Wiring, TopologyInvariant
<1>6. ~force => Spared(row', d)
  BY <1>0, <1>2, <1>5, StaysSpared DEF TopologyInvariant
<1>7. DeletionOK(d)'
  BY <1>1, <1>3, <1>4, <1>5, <1>6 DEF DeletionOK
<1>8. \A e \in pending' \ pending : DeletionOK(e)'
  BY <1>1, <1>7
<1> QED BY <1>1, <1>2, <1>4, <1>8, QuietStep DEF TopologyInvariant

LEMMA FinishesStep ==
  ASSUME TopologyInvariant, NEW r, NEW G, NEW L, Finishes(r, G, L)
  PROVE  TopologyInvariant'
<1>1. Valid(row') /\ Kept(row, row') /\ DOMAIN row' \subseteq DOMAIN row
  <2>1. CASE row' = Without(row, G)
    <3>1. /\ Valid(Without(row, G)) /\ Kept(row, Without(row, G))
          /\ DOMAIN Without(row, G) = DOMAIN row \ G
      BY Removed DEF TopologyInvariant
    <3> QED BY <2>1, <3>1
  <2>2. CASE row' = row
    BY <2>2 DEF TopologyInvariant, Kept
  <2> QED BY <2>1, <2>2 DEF Finishes
<1> QED BY <1>1, QuietStep DEF Finishes, TopologyInvariant

LEMMA StoppedStep ==
  ASSUME TopologyInvariant, NEW r, Stopped(r)
  PROVE  TopologyInvariant'
BY QuietStep DEF Stopped, TopologyInvariant, Kept

\* What a request looks for before it deletes x without force.
NothingOn(x) ==
  /\ row[x].kind = "unit" => ImpactUnit(x) = {}
  /\ row[x].kind = "connector" => WiresAt(x) \cup HarnessesAt(x) = {}
  /\ row[x].kind = "bus" => Refs("message", "bus", x) = {}
  /\ row[x].kind = "message" => Refs("field", "message", x) = {}

\* With no impact, what hangs on x is not wiring.
LEMMA NothingHangs ==
  ASSUME TopologyInvariant, NEW x \in DOMAIN row, NEW force, NothingOn(x),
         row[x].kind \in {"system", "unit", "connector", "pin", "bus", "message", "field"}
  PROVE  Spared(row, Deletion(x, force))
<1> DEFINE d == Deletion(x, force)
           Loose == {"assignment", "connection", "endpoint"}
           T == {x} \cup {y \in DOMAIN row :
                  row[y].kind \in Loose \/ (row[y].kind = "pin" /\ row[y].connector = x)}
<1>1. d.x = x /\ d.kind = row[x].kind /\ d.seen = Wiring(row)
  BY DEF Deletion
<1>2. None \notin T /\ d.x \in T
  BY <1>1 DEF TopologyInvariant, Valid
<1>3. ASSUME NEW y \in DOMAIN row, NEW c \in DOMAIN Keys[row[y].kind], row[y][c] \in T,
             Taken(d.kind, row[y].kind, c)
      PROVE  y \in T
  <2> DEFINE z == row[y][c]
  <2>1. /\ row[y].kind \in Kinds /\ z \in DOMAIN row
        /\ row[z].kind = Targets[row[y].kind][c]
    BY <1>2, <1>3, KindsOfRows DEF TopologyInvariant, Valid, ValidRow, Refers
  <2>2. <<row[y].kind, c, Keys[row[y].kind][c], row[z].kind>> \in ForeignKeys
    BY <2>1, ListedKeys
  <2>3. /\ row[y].kind # "unit"
        /\ Keys[row[y].kind][c] \in (IF row[x].kind = "connector" THEN All ELSE Orm)
    BY <1>1, <1>3 DEF Taken
  <2>4. row[z].kind \notin Loose
    BY <2>2 DEF ForeignKeys
  <2>5. CASE z = x /\ row[x].kind = "connector"
    <3>1. \/ row[y].kind = "pin" /\ c = "connector"
          \/ row[y].kind = "endpoint"
          \/ row[y].kind = "harness" /\ c \in {"fromConnector", "toConnector"}
      BY <2>2, <2>3, <2>5 DEF ForeignKeys, All
    <3>2. row[y].kind # "harness"
      BY <3>1, <2>5 DEF NothingOn, HarnessesAt, Refs, Where, Rows
    <3> QED BY <3>1, <3>2, <2>5
  <2>6. CASE z = x /\ row[x].kind # "connector"
    <3>1. \/ row[y].kind \in Loose
          \/ row[x].kind = "unit" /\ row[y].kind \in {"connector", "bus"} /\ c = "unit"
          \/ row[x].kind = "bus" /\ row[y].kind = "message" /\ c = "bus"
          \/ row[x].kind = "message" /\ row[y].kind = "field" /\ c = "message"
      BY <2>2, <2>3, <2>6 DEF ForeignKeys, Orm
    <3>2. ~(row[x].kind = "unit" /\ row[y].kind \in {"connector", "bus"} /\ c = "unit")
      BY <2>6 DEF NothingOn, ImpactUnit, Refs, Where, Rows
    <3>3. ~(row[x].kind = "bus" /\ row[y].kind = "message" /\ c = "bus")
      BY <2>6 DEF NothingOn, Refs, Where, Rows
    <3>4. ~(row[x].kind = "message" /\ row[y].kind = "field" /\ c = "message")
      BY <2>6 DEF NothingOn, Refs, Where, Rows
    <3> QED BY <3>1, <3>2, <3>3, <3>4
  <2>7. CASE z # x
    <3>1. row[z].kind = "pin" /\ row[z].connector = x
      BY <2>4, <2>7, <1>3
    <3>2. "connector" \in DOMAIN Keys["pin"] /\ Targets["pin"]["connector"] = "connector"
      BY ColumnsOf
    <3>3. row[x].kind = "connector"
      BY <3>1, <3>2, <2>1 DEF TopologyInvariant, Valid, ValidRow, Refers
    <3>4. \/ row[y].kind = "assignment"
          \/ row[y].kind = "wire" /\ c \in {"from", "to"}
      BY <2>2, <2>3, <3>1 DEF ForeignKeys, All, Orm
    <3>5. z \in PinsOf(row, x)
      BY <3>1, <2>1 DEF PinsOf, Where, Rows
    <3>6. row[y].kind # "wire"
      BY <3>3, <3>4, <3>5 DEF NothingOn, WiresAt, Where, Rows
    <3> QED BY <3>4, <3>6
  <2> QED BY <2>5, <2>6, <2>7
<1>4. Closed(row, T, d.kind)
  <2> HIDE DEF T, d
  <2> QED BY <1>3 DEF Closed
<1>5. \A s \in d.seen : s[1] \in T =>
        s[1] = d.x \/ s[1] \notin DOMAIN row \/ row[s[1]].kind = "assignment"
  BY <1>1 DEF Wiring
<1> HIDE DEF T, d
<1>6. Spared(row, d)
  BY <1>2, <1>4, <1>5 DEF Spared
<1> QED BY <1>6 DEF d

\* Falls is monotone in the rules, up to what All takes anyway.
LEMMA FallsFurther ==
  ASSUME NEW db, Valid(db), NEW D, None \notin D, NEW B, B \subseteq Falls(db, D, All),
         NEW how, how \subseteq All
  PROVE  Falls(db, B, how) \subseteq Falls(db, D, All)
<1> DEFINE C == Falls(db, D, All)
<1>1. \A x \in DOMAIN db : \A c \in DOMAIN Keys[db[x].kind] :
        db[x][c] \in C /\ Keys[db[x].kind][c] \in how => x \in C
  BY FallsClosed
<1> HIDE DEF C
<1>2. ASSUME B \subseteq C PROVE Falls(db, B, how) \subseteq C
  BY <1>1, <1>2, FallsInside
<1> QED BY <1>2 DEF C

\* What names a row of C in the column c, goes with C.
LEMMA RefsFall ==
  ASSUME NEW D, None \notin D, Valid(row), NEW kind \in Kinds,
         NEW c \in DOMAIN Keys[kind], Keys[kind][c] \in All,
         NEW X, X \subseteq Falls(row, D, All)
  PROVE  Where(row, kind, c, X) \subseteq Falls(row, D, All)
BY FallsClosed DEF Where, Rows

LEMMA Rules ==
  /\ "system" \in DOMAIN Keys["unit"] /\ Keys["unit"]["system"] = "restrict"
  /\ "connector" \in DOMAIN Keys["pin"] /\ Keys["pin"]["connector"] = "own"
  /\ "bus" \in DOMAIN Keys["message"] /\ Keys["message"]["bus"] = "own"
  /\ "bus" \in DOMAIN Keys["assignment"] /\ Keys["assignment"]["bus"] = "own"
  /\ "pin" \in DOMAIN Keys["assignment"] /\ Keys["assignment"]["pin"] = "restrict"
  /\ "message" \in DOMAIN Keys["field"] /\ Keys["field"]["message"] = "own"
  /\ "from" \in DOMAIN Keys["wire"] /\ Keys["wire"]["from"] = "restrict"
  /\ "to" \in DOMAIN Keys["wire"] /\ Keys["wire"]["to"] = "restrict"
  /\ "harness" \in DOMAIN Keys["wire"] /\ Keys["wire"]["harness"] = "own"
  /\ "fromConnector" \in DOMAIN Keys["harness"]
  /\ Keys["harness"]["fromConnector"] = "restrict"
  /\ "toConnector" \in DOMAIN Keys["harness"] /\ Keys["harness"]["toConnector"] = "restrict"
BY DEF Keys, UnitKeys, PinKeys, MessageKeys, AssignmentKeys, FieldKeys, WireKeys, HarnessKeys

Deleted == {"system", "unit", "connector", "pin", "bus", "message", "field"}

\* How deletions begin.
BeginsAs(x, force, G) ==
  /\ row[x].kind \in Deleted
  /\ ~force => NothingOn(x) /\ G = {}
  /\ G \subseteq Falls(row, {x}, All)
  /\ \E L, F : Begins(x, force, G, L, F)

LEMMA BeginForms ==
  ASSUME TopologyInvariant, NEW x \in DOMAIN row, Begin(x)
  PROVE  \E force, G : BeginsAs(x, force, G)
<1> DEFINE C == Falls(row, {x}, All)
<1>1. None \notin {x} /\ Valid(row)
  BY DEF TopologyInvariant, Valid
<1>2. x \in C
  BY <1>1, FallsClosed
<1>3. All = {"own", "cascade", "restrict"} /\ Orm \subseteq All
  BY DEF All, Orm
<1>4. CASE BeginPin(x)
  <2>1. Begins(x, FALSE, {}, {}, {}) /\ row[x].kind = "pin"
    BY <1>4 DEF BeginPin, Rows
  <2>2. BeginsAs(x, FALSE, {})
    BY <2>1 DEF BeginsAs, NothingOn, Deleted
  <2> QED BY <2>2
<1>5. ASSUME NEW force \in BOOLEAN, BeginSystem(x, force) PROVE \E G : BeginsAs(x, force, G)
  <2> DEFINE U == UnitsOf(x)
             G == Falls(row, U, Orm)
  <2>1. /\ row[x].kind = "system" /\ Begins(x, force, G, LinksTo(U), {})
        /\ ~force => U = {}
    BY <1>5 DEF BeginSystem, Rows, Passes
  <2>2. U \subseteq C
    BY <1>1, <1>2, <1>3, RefsFall, Rules DEF UnitsOf, Refs, Kinds
  <2>3. G \subseteq C
    BY <1>1, <1>3, <2>2, FallsFurther
  <2>4. U = {} => G = {}
    <3>1. Falls(row, {}, Orm) \subseteq {}
      BY FallsInside
    <3> QED BY <3>1
  <2>5. ~force => NothingOn(x)
    BY <2>1 DEF NothingOn
  <2> QED BY <2>1, <2>3, <2>4, <2>5 DEF BeginsAs, Deleted
<1>6. ASSUME NEW force \in BOOLEAN, BeginUnit(x, force) PROVE BeginsAs(x, force, {})
  <2>1. /\ row[x].kind = "unit" /\ Begins(x, force, {}, {}, {})
        /\ ~force => ImpactUnit(x) = {}
    BY <1>6 DEF BeginUnit, Rows, Passes
  <2> QED BY <2>1 DEF BeginsAs, NothingOn, Deleted
<1>7. ASSUME NEW force \in BOOLEAN, BeginConnector(x, force) PROVE BeginsAs(x, force, {})
  <2>1. /\ row[x].kind = "connector" /\ Begins(x, force, {}, {}, {})
        /\ ~force => WiresAt(x) \cup HarnessesAt(x) = {}
    BY <1>7 DEF BeginConnector, Rows, Passes
  <2> QED BY <2>1 DEF BeginsAs, NothingOn, Deleted
<1>8. ASSUME NEW force \in BOOLEAN, BeginBus(x, force) PROVE \E G : BeginsAs(x, force, G)
  <2> DEFINE G == Falls(row, {x}, Orm) \ {x}
  <2>1. /\ row[x].kind = "bus" /\ Begins(x, force, G, LinksTo({x}), {})
        /\ ~force => Refs("message", "bus", x) = {} /\ Refs("assignment", "bus", x) = {}
    BY <1>8 DEF BeginBus, Rows, Passes, ImpactBus
  <2>2. G \subseteq C
    BY <1>1, <1>2, <1>3, FallsFurther
  <2>3. ASSUME ~force PROVE G = {}
    <3>1. ASSUME NEW y \in DOMAIN row, NEW c \in DOMAIN Keys[row[y].kind],
                 row[y][c] = x, Keys[row[y].kind][c] \in Orm
          PROVE  FALSE
      <4>1. row[y].kind \in Kinds /\ Targets[row[y].kind][c] = "bus"
        BY <1>1, <2>1, <3>1, KindsOfRows DEF Valid, ValidRow, Refers
      <4>2. <<row[y].kind, c, Keys[row[y].kind][c], "bus">> \in ForeignKeys
        BY <4>1, ListedKeys
      <4>3. row[y].kind \in {"message", "assignment"} /\ c = "bus"
        BY <4>2 DEF ForeignKeys
      <4> QED BY <2>1, <2>3, <3>1, <4>3 DEF Refs, Where, Rows
    <3>2. Falls(row, {x}, Orm) \subseteq {x}
      BY <3>1, FallsInside
    <3> QED BY <3>2
  <2>4. ~force => NothingOn(x)
    BY <2>1 DEF NothingOn
  <2> QED BY <2>1, <2>2, <2>3, <2>4 DEF BeginsAs, Deleted
<1>9. ASSUME NEW force \in BOOLEAN, BeginMessage(x, force)
      PROVE  BeginsAs(x, force, Refs("field", "message", x))
  <2>1. /\ row[x].kind = "message"
        /\ Begins(x, force, Refs("field", "message", x), LinksTo({x}), {})
        /\ ~force => Refs("field", "message", x) = {}
    BY <1>9 DEF BeginMessage, Rows, Passes
  <2>2. Refs("field", "message", x) \subseteq C
    BY <1>1, <1>2, <1>3, RefsFall, Rules DEF Refs, Kinds
  <2> QED BY <2>1, <2>2 DEF BeginsAs, NothingOn, Deleted
<1>10. ASSUME NEW force \in BOOLEAN, BeginField(x, force) PROVE BeginsAs(x, force, {})
  <2>1. row[x].kind = "field" /\ Begins(x, force, {}, {}, LinksTo({x}))
    BY <1>10 DEF BeginField, Rows
  <2> QED BY <2>1 DEF BeginsAs, NothingOn, Deleted
<1> QED BY <1>4, <1>5, <1>6, <1>7, <1>8, <1>9, <1>10 DEF Begin

\* How deletions end.
FinishesAs(r, G) ==
  /\ G \subseteq Falls(row, {r.x}, All)
  /\ ~r.force => \A y \in G \cap DOMAIN row : <<y, row[y]>> \in r.seen => y = r.x
  /\ \E L : Finishes(r, G, L)

LEMMA ConnectorTakes ==
  ASSUME NEW k, k # None, Valid(row)
  PROVE  CascadeDeleteConnector(k) \subseteq Falls(row, {k}, All)
<1> DEFINE C == Falls(row, {k}, All)
           P == PinsOf(row, k)
           H == HarnessesAt(k)
           HW == Where(row, "wire", "harness", H)
           A == Where(row, "assignment", "pin", P)
           B == WiresAt(k) \cup H \cup HW \cup A \cup P \cup {k}
<1>1. None \notin {k} /\ Valid(row)
  OBVIOUS
<1>2. k \in C
  BY <1>1, FallsClosed
<1>3. All = {"own", "cascade", "restrict"} /\ Bulk = {"cascade"}
  BY DEF All, Bulk
<1>4. P \subseteq C
  BY <1>1, <1>2, <1>3, RefsFall, Rules DEF PinsOf, Kinds
<1>5. H \subseteq C
  BY <1>1, <1>2, <1>3, RefsFall, Rules DEF HarnessesAt, Refs, Kinds
<1>6. B \subseteq C
  <2> HIDE DEF C
  <2>1. Where(row, "wire", "from", P) \subseteq C /\ Where(row, "wire", "to", P) \subseteq C
    BY <1>4, <1>1, <1>3, RefsFall, Rules DEF C, Kinds
  <2>2. HW \subseteq C /\ A \subseteq C
    BY <1>4, <1>5, <1>1, <1>3, RefsFall, Rules DEF C, Kinds
  <2> QED BY <1>2, <1>4, <1>5, <2>1, <2>2 DEF WiresAt, C
<1>7. CascadeDeleteConnector(k) = Falls(row, B, Bulk)
  BY DEF CascadeDeleteConnector
<1>8. Falls(row, B, Bulk) \subseteq Falls(row, {k}, All)
  <2> HIDE DEF B
  <2> QED BY <1>1, <1>3, <1>6, FallsFurther
<1> QED BY <1>7, <1>8

LEMMA FinishForms ==
  ASSUME TopologyInvariant, NEW r \in pending, Finish(r)
  PROVE  \E G : FinishesAs(r, G)
<1> DEFINE C == Falls(row, {r.x}, All)
<1>1. None \notin {r.x} /\ Valid(row) /\ DeletionOK(r)
  BY DEF TopologyInvariant, DeletionOK
<1>2. r.x \in C
  BY <1>1, FallsClosed
<1>3. /\ All = {"own", "cascade", "restrict"} /\ Orm = {"own", "cascade"}
      /\ Bulk = {"cascade"}
  BY DEF All, Orm, Bulk
<1>s. ASSUME ~r.force
      PROVE  \E T : /\ r.x \in T /\ Closed(row, T, r.kind)
                    /\ \A y \in T \cap DOMAIN row : <<y, row[y]>> \in r.seen => y = r.x
  <2>1. PICK T : /\ r.x \in T /\ Closed(row, T, r.kind)
                 /\ \A s \in r.seen : s[1] \in T =>
                      s[1] = r.x \/ s[1] \notin DOMAIN row \/ row[s[1]].kind = "assignment"
    BY <1>1, <1>s DEF DeletionOK, Spared
  <2>2. ASSUME NEW y \in T \cap DOMAIN row, <<y, row[y]>> \in r.seen PROVE y = r.x
    <3>1. row[y].kind # "assignment"
      BY <1>1, <2>2 DEF DeletionOK
    <3> QED BY <2>1, <2>2, <3>1
  <2> QED BY <2>1, <2>2
<1>4. ASSUME NEW L, Finishes(r, {r.x}, L) PROVE FinishesAs(r, {r.x})
  BY <1>2, <1>4 DEF FinishesAs
<1>5. ASSUME NEW L, Finishes(r, Falls(row, {r.x}, Orm), L), r.kind # "connector"
      PROVE  FinishesAs(r, Falls(row, {r.x}, Orm))
  <2>1. Falls(row, {r.x}, Orm) \subseteq C
    BY <1>1, <1>2, <1>3, FallsFurther
  <2>2. ASSUME ~r.force, NEW y \in Falls(row, {r.x}, Orm) \cap DOMAIN row,
               <<y, row[y]>> \in r.seen
        PROVE  y = r.x
    <3>1. PICK T : /\ r.x \in T /\ Closed(row, T, r.kind)
                   /\ \A z \in T \cap DOMAIN row : <<z, row[z]>> \in r.seen => z = r.x
      BY <1>s, <2>2
    <3>2. ASSUME NEW z \in DOMAIN row, NEW c \in DOMAIN Keys[row[z].kind],
                 row[z][c] \in T, Keys[row[z].kind][c] \in Orm
          PROVE  z \in T
      <4>1. row[z].kind # "unit"
        BY <3>2, <1>3, ColumnsOf, Rules
      <4>2. Taken(r.kind, row[z].kind, c)
        BY <3>2, <4>1, <1>5 DEF Taken
      <4> QED BY <3>1, <3>2, <4>2 DEF Closed
    <3>3. Falls(row, {r.x}, Orm) \subseteq T
      BY <3>1, <3>2, FallsInside
    <3> QED BY <2>2, <3>1, <3>3
  <2> QED BY <2>1, <2>2, <1>5 DEF FinishesAs
<1>6. ASSUME FinishConnector(r), r.kind = "connector"
      PROVE  FinishesAs(r, CascadeDeleteConnector(r.x))
  <2> DEFINE P == PinsOf(row, r.x)
             H == HarnessesAt(r.x)
             W == WiresAt(r.x)
             HW == Where(row, "wire", "harness", H)
             A == Where(row, "assignment", "pin", P)
             B == W \cup H \cup HW \cup A \cup P \cup {r.x}
  <2>1. CascadeDeleteConnector(r.x) = Falls(row, B, Bulk)
    BY DEF CascadeDeleteConnector
  <2>2. CascadeDeleteConnector(r.x) \subseteq C
    BY <1>1, ConnectorTakes
  <2>3. ASSUME ~r.force, NEW y \in CascadeDeleteConnector(r.x) \cap DOMAIN row,
               <<y, row[y]>> \in r.seen
        PROVE  y = r.x
    <3>1. PICK T : /\ r.x \in T /\ Closed(row, T, r.kind)
                   /\ \A z \in T \cap DOMAIN row : <<z, row[z]>> \in r.seen => z = r.x
      BY <1>s, <2>3
    <3>2. ASSUME NEW kind \in Kinds \ {"unit"}, NEW c \in DOMAIN Keys[kind],
                 Keys[kind][c] \in All, NEW X, X \subseteq T
          PROVE  Where(row, kind, c, X) \subseteq T
      BY <3>1, <3>2, <1>6 DEF Closed, Taken, Where, Rows
    <3>3. P \subseteq T
      BY <3>1, <3>2, <1>3, Rules DEF PinsOf, Kinds
    <3>4. H \subseteq T
      BY <3>1, <3>2, <1>3, Rules DEF HarnessesAt, Refs, Kinds
    <3> HIDE DEF P, H
    <3>5. Where(row, "wire", "from", P) \subseteq T /\ Where(row, "wire", "to", P) \subseteq T
      BY <3>2, <3>3, <1>3, Rules DEF Kinds
    <3>6. HW \subseteq T /\ A \subseteq T
      BY <3>2, <3>3, <3>4, <1>3, Rules DEF Kinds
    <3>7. B \subseteq T
      BY <3>1, <3>3, <3>4, <3>5, <3>6 DEF WiresAt, P
    <3>8. ASSUME NEW z \in DOMAIN row, NEW c \in DOMAIN Keys[row[z].kind],
                 row[z][c] \in T, Keys[row[z].kind][c] \in Bulk
          PROVE  z \in T
      <4>1. row[z].kind # "unit"
        BY <3>8, <1>3, ColumnsOf, Rules
      <4>2. Taken(r.kind, row[z].kind, c)
        BY <3>8, <4>1, <1>3, <1>6 DEF Taken
      <4> QED BY <3>1, <3>8, <4>2 DEF Closed
    <3> HIDE DEF B
    <3>9. Falls(row, B, Bulk) \subseteq T
      BY <3>7, <3>8, FallsInside
    <3> QED BY <2>1, <2>3, <3>1, <3>9
  <2> QED BY <2>2, <2>3, <1>6 DEF FinishesAs, FinishConnector
<1>7. CASE r.kind \in {"system", "pin", "field"}
  BY <1>4, <1>7 DEF Finish, FinishSystem, FinishPin, FinishField
<1>8. CASE r.kind \in {"unit", "bus", "message"}
  BY <1>5, <1>8 DEF Finish, FinishUnit, CascadeDeleteUnit, FinishBus, FinishMessage
<1>9. CASE r.kind = "connector"
  BY <1>6, <1>9 DEF Finish
<1> QED BY <1>7, <1>8, <1>9 DEF Finish

-----------------------------------------------------------------------------
(* The theorems                                                              *)

LEMMA BeginStep ==
  ASSUME TopologyInvariant, NEW x \in DOMAIN row, Begin(x)
  PROVE  TopologyInvariant'
<1>1. PICK force, G : BeginsAs(x, force, G)
  BY BeginForms
<1>2. PICK L, F : Begins(x, force, G, L, F)
  BY <1>1 DEF BeginsAs
<1>3. ~force => Spared(row, Deletion(x, force))
  BY <1>1, NothingHangs DEF BeginsAs, Deleted
<1> QED BY <1>2, <1>3, BeginsStep

LEMMA FinishStep ==
  ASSUME TopologyInvariant, NEW r \in pending, Finish(r)
  PROVE  TopologyInvariant'
<1>1. PICK G : FinishesAs(r, G)
  BY FinishForms
<1> QED BY <1>1, FinishesStep DEF FinishesAs

LEMMA TopologyInvariantHolds == Spec => []TopologyInvariant
<1>1. Init => TopologyInvariant
  BY TopologyAssumption DEF Init, TopologyInvariant, GivenKeys
<1>2. TopologyInvariant /\ [Next]_topology => TopologyInvariant'
  <2> SUFFICES ASSUME TopologyInvariant, [Next]_topology PROVE TopologyInvariant'
    OBVIOUS
  <2>1. CASE UNCHANGED topology
    BY <2>1 DEF topology, TopologyInvariant, DeletionOK
  <2> QED BY <2>1, EditStep, BeginStep, FinishStep, StoppedStep DEF Next
<1> QED BY <1>1, <1>2, PTL DEF Spec

LEMMA EditIsQuiet ==
  ASSUME Edit
  PROVE  pending' = pending
BY DEF Edit, CreateSystem, UpdateSystem, CreateUnit, UpdateUnit, CreateConnector,
       BatchCreatePins, AutoGeneratePins, UpdatePin, CreateBus, AssignPins,
       RemoveAssignment, CreateMessage, BatchCreateFields, StartInterface,
       CreateReqLink, DeleteReqLink, Creates, Changes

\* What a step of a deletion removes falls with what was announced.
AnnouncedStep ==
  pending' # pending =>
    \A x \in DOMAIN row \ DOMAIN row' :
      \/ row[x].kind = "connection"
      \/ x \in Falls(row, announced', {"own", "cascade", "restrict"})

LEMMA StepIsAnnounced ==
  ASSUME TopologyInvariant, Next
  PROVE  AnnouncedStep
<1>1. TopologyInvariant'
  BY EditStep, BeginStep, FinishStep, StoppedStep DEF Next
<1>2. ASSUME NEW x \in announced', NEW G, G \subseteq Falls(row, {x}, All),
             DOMAIN row \ DOMAIN row' \subseteq G
      PROVE  AnnouncedStep
  <2>1. None \notin announced' /\ Valid(row)
    BY <1>1 DEF TopologyInvariant
  <2>2. x \in Falls(row, announced', All)
    BY <2>1, FallsClosed
  <2>3. Falls(row, {x}, All) \subseteq Falls(row, announced', All)
    BY <2>1, <2>2, FallsFurther
  <2> QED BY <1>2, <2>3 DEF AnnouncedStep, All
<1>3. CASE Edit
  BY <1>3, EditIsQuiet DEF AnnouncedStep
<1>4. ASSUME NEW x \in DOMAIN row, Begin(x) PROVE AnnouncedStep
  <2>1. PICK force, G : BeginsAs(x, force, G)
    BY <1>4, BeginForms
  <2>2. row' = Without(row, G) /\ x \in announced'
    BY <2>1 DEF BeginsAs, Begins
  <2>3. DOMAIN row \ DOMAIN row' \subseteq G
    BY <2>2 DEF Without
  <2> QED BY <2>1, <2>2, <2>3, <1>2 DEF BeginsAs
<1>5. ASSUME NEW r \in pending, Finish(r) PROVE AnnouncedStep
  <2>1. PICK G : FinishesAs(r, G)
    BY <1>5, FinishForms
  <2>2. (row' = Without(row, G) \/ row' = row) /\ announced' = announced
    BY <2>1 DEF FinishesAs, Finishes
  <2>3. DOMAIN row \ DOMAIN row' \subseteq G
    BY <2>2 DEF Without
  <2>4. r.x \in announced'
    BY <2>2 DEF TopologyInvariant, DeletionOK
  <2> QED BY <2>1, <2>3, <2>4, <1>2 DEF FinishesAs
<1>6. ASSUME NEW r, Stopped(r) PROVE AnnouncedStep
  BY <1>6 DEF Stopped, AnnouncedStep
<1> QED BY <1>3, <1>4, <1>5, <1>6 DEF Next

\* Whatever a transaction of a deletion removes had its event, or hung on a row
\* that had one, whatever other requests did in between and wherever the
\* process stopped (delete_*: the event is committed before the row goes).
THEOREM DeletionsAreAnnounced == Spec => RemovalsAnnounced
<1>1. TopologyInvariant /\ [Next]_topology => [AnnouncedStep]_topology
  BY StepIsAnnounced
<1>2. [][AnnouncedStep]_topology => RemovalsAnnounced
  BY DEF AnnouncedStep, RemovalsAnnounced
<1> QED BY TopologyInvariantHolds, <1>1, <1>2, PTL DEF Spec

\* A deletion without force takes nothing that its gate could have seen.
SparingStep ==
  /\ \A r \in pending \ pending' : ~r.force =>
       \A x \in DOMAIN row \ DOMAIN row' : <<x, row[x]>> \in r.seen => x = r.x
  /\ \A r \in pending' \ pending :
       ~r.force => \A s \in r.seen : s[1] \in DOMAIN row'

LEMMA StepSpares ==
  ASSUME TopologyInvariant, Next
  PROVE  SparingStep
<1>1. CASE Edit
  BY <1>1, EditIsQuiet DEF SparingStep
<1>2. ASSUME NEW x \in DOMAIN row, Begin(x) PROVE SparingStep
  <2>1. PICK force, G : BeginsAs(x, force, G)
    BY <1>2, BeginForms
  <2>2. PICK d : d = Deletion(x, force)
    OBVIOUS
  <2>3. row' = Without(row, G) /\ pending' = pending \cup {d}
    BY <2>1, <2>2 DEF BeginsAs, Begins, Deletion
  <2>4. DOMAIN row' = DOMAIN row \ G
    BY <2>3 DEF Without
  <2>5. d.force = force /\ d.seen = Wiring(row)
    BY <2>2 DEF Deletion
  <2>6. \A s \in d.seen : s[1] \in DOMAIN row
    BY <2>5 DEF Wiring
  <2> QED BY <2>1, <2>3, <2>4, <2>5, <2>6 DEF SparingStep, BeginsAs
<1>3. ASSUME NEW r \in pending, Finish(r) PROVE SparingStep
  <2>1. PICK G : FinishesAs(r, G)
    BY <1>3, FinishForms
  <2>2. (row' = Without(row, G) \/ row' = row) /\ pending' = pending \ {r}
    BY <2>1 DEF FinishesAs, Finishes
  <2>3. DOMAIN row \ DOMAIN row' \subseteq G
    BY <2>2 DEF Without
  <2> QED BY <2>1, <2>2, <2>3 DEF SparingStep, FinishesAs
<1>4. ASSUME NEW r, Stopped(r) PROVE SparingStep
  BY <1>4 DEF Stopped, SparingStep
<1> QED BY <1>1, <1>2, <1>3, <1>4 DEF Next

\* A request without force=true takes with it nothing that was there, the same,
\* when its 409 check passed, but its target - although it checks in one
\* transaction and deletes in another (delete_unit, delete_connector, ...).
THEOREM UnforcedDeletionsSpare == Spec => UnforcedSparesWiring
<1>1. TopologyInvariant /\ [Next]_topology => [SparingStep]_topology
  BY StepSpares
<1>2. [][SparingStep]_topology => UnforcedSparesWiring
  BY DEF SparingStep, UnforcedSparesWiring
<1> QED BY TopologyInvariantHolds, <1>1, <1>2, PTL DEF Spec

-----------------------------------------------------------------------------
(* What stays true of the wiring                                             *)

Built == Wires \cup Harnesses \cup Mates \cup MatePins \cup Endpoints \cup Rollups

\* A deletion in progress names a row of the kind it was asked for.
PendingOK(r) ==
  /\ r.kind \in {"wire", "harness", "connector"} /\ OfKind(r.x, r.kind)
  /\ r.x \in Wires \cup Harnesses => r.x \in used
  /\ r.x \in DOMAIN row => row[r.x].kind = r.kind

\* What the deletions in progress were asked for.
Leaving == {r.x : r \in pending}

\* The rows are orderly, no key of a wire or a harness comes back, and outside
\* the pairs that drifted the Connection rows tell the wires that stay.
WiringInvariant ==
  /\ Orderly(row) /\ DOMAIN row \cap (Wires \cup Harnesses) \subseteq used
  /\ \A r \in pending : PendingOK(r)
  /\ RolledUp(row, drift, Leaving)

-----------------------------------------------------------------------------
(* Keys                                                                      *)

LEMMA BuiltKeys ==
  ASSUME NEW x
  PROVE  /\ x \in Wires => OfKind(x, "wire")
         /\ x \in Harnesses => OfKind(x, "harness")
         /\ x \in Mates => OfKind(x, "connector")
         /\ x \in MatePins => OfKind(x, "pin")
         /\ x \in Endpoints => OfKind(x, "endpoint")
         /\ x \in Rollups => OfKind(x, "connection")
         /\ x \in Built => x # None /\ x \notin LruKeys
<1>1. x \in Mates => x \notin Wires \cup Harnesses \cup LruKeys \cup {None}
  BY WiringAssumption
<1>2. x \in MatePins => x \notin Wires \cup Harnesses \cup LruKeys \cup {None}
  BY WiringAssumption
<1>3. x \in Endpoints => x \notin Wires \cup Harnesses \cup LruKeys \cup {None}
  BY WiringAssumption
<1>4. x \in Rollups => x \notin Wires \cup Harnesses \cup LruKeys \cup {None}
  BY WiringAssumption
<1>5. /\ x \in Mates => x \notin MatePins \cup Endpoints \cup Rollups
      /\ x \in MatePins => x \notin Endpoints \cup Rollups
      /\ x \in Endpoints => x \notin Rollups
  BY DEF Mates, MatePins, Endpoints, Rollups, Mate, MatePin, Endpoint, Connection
<1>6. x \in Wires \cup Harnesses => x \notin LruKeys
  <2> SUFFICES ASSUME NEW seed \in Wirings, x \in Lru(seed.row)
               PROVE  x \notin Wires \cup Harnesses
    BY DEF LruKeys
  <2>1. x \in DOMAIN seed.row /\ seed.row[x].kind \in {"unit", "connector", "pin"}
    BY DEF Lru
  <2>2. OfKind(x, seed.row[x].kind)
    BY <2>1, WiringAssumption DEF Orderly
  <2> QED BY <2>1, <2>2 DEF OfKind
<1>7. None \notin Wires \cup Harnesses /\ Wires \cap Harnesses = {}
  BY WiringAssumption
<1>8. x \in Built => x # None /\ x \notin LruKeys
  BY <1>1, <1>2, <1>3, <1>4, <1>6, <1>7 DEF Built
<1> QED BY <1>1, <1>2, <1>3, <1>4, <1>5, <1>7, <1>8 DEF OfKind

LEMMA OneKind ==
  ASSUME NEW x \in Built, NEW k, NEW l, OfKind(x, k), OfKind(x, l)
  PROVE  k = l
BY DEF Built, OfKind

-----------------------------------------------------------------------------
(* Rows                                                                      *)

LEMMA WiringColumns ==
  /\ DOMAIN Keys["harness"] = {"fromUnit", "fromConnector", "toUnit", "toConnector"}
  /\ Targets["harness"]["fromUnit"] = "unit" /\ Targets["harness"]["toUnit"] = "unit"
  /\ Targets["harness"]["fromConnector"] = "connector"
  /\ Targets["harness"]["toConnector"] = "connector"
  /\ DOMAIN Keys["wire"] = {"harness", "from", "to", "fromMate", "toMate"}
  /\ Targets["wire"]["harness"] = "harness"
  /\ Targets["wire"]["from"] = "pin" /\ Targets["wire"]["to"] = "pin"
  /\ Targets["wire"]["fromMate"] = "pin" /\ Targets["wire"]["toMate"] = "pin"
  /\ Keys["wire"]["fromMate"] = "null" /\ Keys["wire"]["toMate"] = "null"
  /\ DOMAIN Keys["endpoint"] = {"harness", "mating", "lru"}
  /\ Keys["endpoint"]["harness"] = "cascade" /\ Keys["endpoint"]["mating"] = "cascade"
  /\ Keys["endpoint"]["lru"] = "null"
  /\ Targets["endpoint"]["harness"] = "harness"
  /\ Targets["endpoint"]["mating"] = "connector" /\ Targets["endpoint"]["lru"] = "connector"
  /\ DOMAIN Keys["connection"] = {"a", "b"}
  /\ Keys["connection"]["a"] = "cascade" /\ Keys["connection"]["b"] = "cascade"
  /\ Targets["connection"]["a"] = "unit" /\ Targets["connection"]["b"] = "unit"
  /\ Keys["connector"]["unit"] = "own" /\ Keys["pin"]["mates"] = "null"
  /\ Keys["harness"]["fromUnit"] = "restrict" /\ Keys["harness"]["toUnit"] = "restrict"
BY DEF Keys, Targets, HarnessKeys, WireKeys, EndpointKeys, ConnectionKeys, ConnectorKeys, PinKeys

\* What the columns of an orderly database name.
LEMMA OrderlyRows ==
  ASSUME NEW db, Orderly(db), NEW x \in DOMAIN db
  PROVE  /\ db[x].kind = "wire" =>
              /\ {db[x].from, db[x].to} \subseteq Rows(db, "pin")
              /\ db[x].harness \in Rows(db, "harness")
              /\ \A m \in {db[x].fromMate, db[x].toMate} : m = None \/ m \in Rows(db, "pin")
         /\ db[x].kind = "pin" => db[x].connector \in Rows(db, "connector")
         /\ db[x].kind = "connector" => db[x].unit = None \/ db[x].unit \in Rows(db, "unit")
         /\ db[x].kind = "endpoint" => /\ db[x].harness \in Rows(db, "harness")
                                      /\ db[x].mating \in Rows(db, "connector")
         /\ db[x].kind = "harness" =>
              {db[x].fromConnector, db[x].toConnector} \subseteq Rows(db, "connector")
<1>1. ValidRow(db, db[x]) /\ NotNull(db, x)
  BY DEF Orderly, Valid
<1>2. \A c \in DOMAIN Keys[db[x].kind] :
        /\ db[x][c] = None \/ db[x][c] \in Rows(db, Targets[db[x].kind][c])
        /\ db[x].kind # "connector" /\ Keys[db[x].kind][c] # "null" => db[x][c] # None
  BY <1>1 DEF ValidRow, NotNull, Refers, Rows
<1>3. CASE db[x].kind = "wire"
  BY <1>2, <1>3, WiringColumns, Rules
<1>4. CASE db[x].kind = "pin"
  BY <1>2, <1>4, ColumnsOf, Rules
<1>5. CASE db[x].kind = "connector"
  BY <1>2, <1>5, ColumnsOf
<1>6. CASE db[x].kind = "endpoint"
  BY <1>2, <1>6, WiringColumns
<1>7. CASE db[x].kind = "harness"
  BY <1>2, <1>7, WiringColumns, Rules
<1> QED BY <1>3, <1>4, <1>5, <1>6, <1>7

\* A unit is NULL, or one that harnesses plug into.
LEMMA UnitsOfPins ==
  ASSUME NEW db, Orderly(db), NEW p \in Rows(db, "pin")
  PROVE  UnitAt(db, p) = None \/ (UnitAt(db, p) \in LruKeys /\ UnitAt(db, p) \in Rows(db, "unit"))
<1>1. db[p].connector \in Rows(db, "connector")
  BY OrderlyRows DEF Rows
<1>2. UnitAt(db, p) = None \/ UnitAt(db, p) \in Rows(db, "unit")
  BY <1>1, OrderlyRows DEF Rows, UnitAt
<1>3. Rows(db, "unit") \subseteq Lru(db)
  BY DEF Rows, Lru
<1> QED BY <1>2, <1>3 DEF Orderly

-----------------------------------------------------------------------------
(* Removals                                                                  *)

\* Rows go, and those that stay keep their places.
Trims(db, next, G) ==
  /\ Orderly(next) /\ DOMAIN next = DOMAIN db \ G
  /\ \A x \in DOMAIN next : next[x].kind = db[x].kind
  /\ \A w \in Rows(next, "wire") : Pair(next, w) = Pair(db, w)
  /\ \A p \in Rows(next, "pin") : UnitAt(next, p) = UnitAt(db, p)

LEMMA Trimmed ==
  ASSUME NEW db, Orderly(db), NEW G, ~Held(db, G)
  PROVE  Trims(db, Without(db, G), G)
<1> DEFINE next == Without(db, G)
<1>1. Valid(next) /\ Kept(db, next) /\ DOMAIN next = DOMAIN db \ G
  BY Removed DEF Orderly
<1>2. \A x \in DOMAIN next : next[x].kind = db[x].kind
  BY <1>1 DEF Kept
<1>3. ASSUME NEW x \in DOMAIN next, NEW c \in DOMAIN Keys[db[x].kind], Keys[db[x].kind][c] # "null"
      PROVE  next[x][c] = db[x][c]
  <2>1. db[x][c] \notin G
    BY <1>1, <1>3 DEF Held
  <2>2. c \in DOMAIN db[x]
    BY <1>1, <1>3 DEF Orderly, Valid, ValidRow
  <2> QED BY <1>1, <2>1, <2>2 DEF Without
<1> HIDE DEF next
<1>4. \A x \in DOMAIN next :
        /\ next[x].kind = "connector" => next[x].unit = db[x].unit
        /\ next[x].kind = "pin" => next[x].connector = db[x].connector
        /\ next[x].kind = "wire" => next[x].from = db[x].from /\ next[x].to = db[x].to
        /\ next[x].kind = "harness" => /\ next[x].fromConnector = db[x].fromConnector
                                      /\ next[x].toConnector = db[x].toConnector
        /\ next[x].kind = "connection" => next[x].a = db[x].a /\ next[x].b = db[x].b
  BY <1>2, <1>3, ColumnsOf, WiringColumns, Rules
<1>5. ASSUME NEW x \in DOMAIN next PROVE NotNull(next, x)
  BY <1>1, <1>2, <1>3 DEF Orderly, NotNull
<1>6. ASSUME NEW p \in DOMAIN next, next[p].kind = "pin"
      PROVE  UnitAt(next, p) = UnitAt(db, p) /\ next[p].connector \in DOMAIN next
  <2>1. next[p].connector \in DOMAIN next /\ next[next[p].connector].kind = "connector"
    <3>1. Refers(next, next[p].connector, "connector")
      BY <1>1, <1>6, ColumnsOf DEF Valid, ValidRow
    <3>2. next[p].connector # None
      BY <1>5, <1>6, Rules DEF NotNull
    <3> QED BY <3>1, <3>2 DEF Refers
  <2> QED BY <2>1, <1>4, <1>6 DEF UnitAt
<1>7. Lru(next) = Lru(db) \cap DOMAIN next
  BY <1>1, <1>2, <1>4, <1>6 DEF Lru
<1>8. ASSUME NEW x \in DOMAIN next, next[x].kind = "harness"
      PROVE  {next[x].fromConnector, next[x].toConnector} \subseteq Lru(next)
  <2>1. {db[x].fromConnector, db[x].toConnector} \subseteq Lru(db)
    BY <1>1, <1>2, <1>8 DEF Orderly
  <2>2. Refers(next, next[x].fromConnector, "connector") /\ Refers(next, next[x].toConnector, "connector")
    BY <1>1, <1>8, WiringColumns DEF Valid, ValidRow
  <2>3. next[x].fromConnector # None /\ next[x].toConnector # None
    BY <1>5, <1>8, Rules DEF NotNull
  <2> QED BY <2>1, <2>2, <2>3, <1>4, <1>7, <1>8 DEF Refers
<1>9. Orderly(next)
  <2>1. Lru(next) \subseteq LruKeys
    BY <1>7 DEF Orderly
  <2>2. \A x \in DOMAIN next : OfKind(x, next[x].kind)
    BY <1>1, <1>2 DEF Orderly
  <2>3. \A x \in DOMAIN next : next[x].kind = "connection" =>
          \E u, v \in LruKeys : /\ u # v /\ x = Connection({u, v})
                               /\ {next[x].a, next[x].b} = {u, v}
    <3> SUFFICES ASSUME NEW x \in DOMAIN next, next[x].kind = "connection"
                 PROVE  \E u, v \in LruKeys : /\ u # v /\ x = Connection({u, v})
                                             /\ {next[x].a, next[x].b} = {u, v}
      OBVIOUS
    <3>1. /\ x \in DOMAIN db /\ db[x].kind = "connection"
          /\ next[x].a = db[x].a /\ next[x].b = db[x].b
      BY <1>1, <1>2, <1>4
    <3>2. PICK u, v \in LruKeys : /\ u # v /\ x = Connection({u, v})
                                 /\ {db[x].a, db[x].b} = {u, v}
      BY <3>1 DEF Orderly
    <3> QED BY <3>1, <3>2
  <2> QED BY <1>1, <1>5, <1>8, <2>1, <2>2, <2>3 DEF Orderly
<1>10. ASSUME NEW w \in Rows(next, "wire") PROVE Pair(next, w) = Pair(db, w)
  <2>1. {next[w].from, next[w].to} \subseteq Rows(next, "pin")
    BY <1>9, OrderlyRows DEF Rows
  <2> QED BY <2>1, <1>4, <1>6 DEF Pair, Rows
<1>11. \A p \in Rows(next, "pin") : UnitAt(next, p) = UnitAt(db, p)
  BY <1>6 DEF Rows
<1> QED BY <1>1, <1>2, <1>9, <1>10, <1>11 DEF Trims, next

-----------------------------------------------------------------------------
(* Insertions                                                                *)

\* The rows that wiring inserts.
Fits(db, new, v) ==
  /\ "kind" \in DOMAIN v /\ v.kind \in Kinds
  /\ DOMAIN Keys[v.kind] \subseteq DOMAIN v
  /\ \A c \in DOMAIN Keys[v.kind] :
       \/ Refers(db, v[c], Targets[v.kind][c])
       \/ v[c] \in DOMAIN new /\ new[v[c]].kind = Targets[v.kind][c]
Plugs(db, new, x) ==
  /\ x \in Built /\ OfKind(x, new[x].kind) /\ Fits(db, new, new[x]) /\ NotNull(new, x)
  /\ new[x].kind \in {"connector", "pin", "endpoint", "harness", "wire", "connection"}
  /\ new[x].kind = "connector" => x \in Mates /\ new[x].unit = None
  /\ new[x].kind = "pin" => x \in MatePins /\ new[x].connector \in Mates \cap DOMAIN new
  /\ new[x].kind = "harness" => {new[x].fromConnector, new[x].toConnector} \subseteq Lru(db)
  /\ new[x].kind = "connection" =>
       \E u, v \in LruKeys : /\ u # v /\ x = Connection({u, v})
                            /\ {new[x].a, new[x].b} = {u, v}

Extends(db, next, new) ==
  /\ Orderly(next) /\ DOMAIN next = DOMAIN db \cup DOMAIN new
  /\ \A x \in DOMAIN new : next[x] = new[x]
  /\ \A x \in DOMAIN db \ DOMAIN new : next[x] = db[x]
  /\ \A x \in DOMAIN db : next[x].kind = db[x].kind
  /\ \A p \in Rows(db, "pin") : UnitAt(next, p) = UnitAt(db, p)

LEMMA Extended ==
  ASSUME NEW db, Orderly(db), NEW new, \A x \in DOMAIN new : Plugs(db, new, x)
  PROVE  Extends(db, Insert(db, new), new)
<1> DEFINE next == Insert(db, new)
<1>1. /\ DOMAIN next = DOMAIN db \cup DOMAIN new
      /\ \A x \in DOMAIN new : next[x] = new[x]
      /\ \A x \in DOMAIN db \ DOMAIN new : next[x] = db[x]
  BY DEF Insert
<1> HIDE DEF next
<1>2. ASSUME NEW x \in DOMAIN db \cap DOMAIN new PROVE new[x].kind = db[x].kind
  BY OneKind DEF Plugs, Orderly
<1>3. \A x \in DOMAIN db : next[x].kind = db[x].kind
  BY <1>1, <1>2
<1>4. \A x \in DOMAIN new : x # None /\ x \notin LruKeys
  BY BuiltKeys DEF Plugs
<1>5. Valid(next)
  <2>1. ASSUME NEW v, NEW k, Refers(db, v, k) PROVE Refers(next, v, k)
    BY <2>1, <1>1, <1>3 DEF Refers
  <2>2. ASSUME NEW x \in DOMAIN new PROVE ValidRow(next, next[x])
    <3>1. Fits(db, new, new[x]) /\ next[x] = new[x]
      BY <1>1 DEF Plugs
    <3>2. \A c \in DOMAIN Keys[new[x].kind] : Refers(next, new[x][c], Targets[new[x].kind][c])
      BY <3>1, <2>1, <1>1 DEF Fits, Refers
    <3> QED BY <3>1, <3>2, KindsOfRows DEF Fits, ValidRow
  <2>3. ASSUME NEW x \in DOMAIN db \ DOMAIN new PROVE ValidRow(next, next[x])
    <3>1. ValidRow(db, db[x]) /\ next[x] = db[x]
      BY <1>1 DEF Orderly, Valid
    <3> QED BY <3>1, <2>1 DEF ValidRow
  <2>4. None \notin DOMAIN next
    BY <1>1, <1>4 DEF Orderly, Valid
  <2> QED BY <2>2, <2>3, <2>4, <1>1 DEF Valid
<1>6. \A x \in DOMAIN next : OfKind(x, next[x].kind) /\ NotNull(next, x)
  BY <1>1 DEF Plugs, Orderly, NotNull
<1>7. ASSUME NEW c \in DOMAIN new, new[c].kind = "connector"
      PROVE  /\ next[c].unit = None
             /\ c \in DOMAIN db => db[c].kind = "connector" /\ db[c].unit = None
  <2>1. new[c].unit = None /\ c \notin Lru(db)
    BY <1>4, <1>7 DEF Plugs, Orderly
  <2> QED BY <2>1, <1>1, <1>2, <1>7 DEF Lru
<1>8. ASSUME NEW p \in DOMAIN new, new[p].kind = "pin"
      PROVE  /\ UnitAt(next, p) = None
             /\ p \in DOMAIN db => UnitAt(db, p) = None
  <2>1. new[p].connector \in Mates \cap DOMAIN new
    BY <1>8 DEF Plugs
  <2>2. new[new[p].connector].kind = "connector"
    BY <2>1 DEF Plugs, OfKind
  <2>3. UnitAt(next, p) = None
    BY <2>1, <2>2, <1>1, <1>7 DEF UnitAt
  <2>4. ASSUME p \in DOMAIN db PROVE UnitAt(db, p) = None
    <3>1. p \notin Lru(db) /\ db[p].kind = "pin"
      BY <2>4, <1>2, <1>4, <1>8 DEF Orderly
    <3> QED BY <2>4, <3>1 DEF Lru
  <2> QED BY <2>3, <2>4
<1>9. ASSUME NEW p \in Rows(db, "pin") PROVE UnitAt(next, p) = UnitAt(db, p)
  <2>1. p \in DOMAIN db /\ db[p].kind = "pin"
    BY DEF Rows
  <2>2. CASE p \in DOMAIN new
    BY <2>1, <2>2, <1>2, <1>8
  <2>3. CASE p \notin DOMAIN new
    <3>1. next[p] = db[p] /\ db[p].connector \in DOMAIN db
      BY <2>1, <2>3, <1>1, OrderlyRows DEF Rows
    <3>2. db[db[p].connector].kind = "connector"
      BY <2>1, OrderlyRows DEF Rows
    <3>3. CASE db[p].connector \in DOMAIN new
      BY <3>1, <3>2, <3>3, <1>2, <1>7 DEF UnitAt
    <3>4. CASE db[p].connector \notin DOMAIN new
      BY <3>1, <3>4, <1>1 DEF UnitAt
    <3> QED BY <3>3, <3>4
  <2> QED BY <2>2, <2>3
<1>10. Lru(next) = Lru(db)
  <2>1. ASSUME NEW x \in DOMAIN new PROVE x \notin Lru(next) /\ x \notin Lru(db)
    <3>1. x \notin Lru(db)
      BY <1>4 DEF Orderly
    <3>2. next[x].kind = new[x].kind /\ new[x].kind # "unit"
      BY <1>1 DEF Plugs
    <3> QED BY <3>1, <3>2, <1>7, <1>8 DEF Lru
  <2>2. ASSUME NEW x \in DOMAIN db \ DOMAIN new PROVE x \in Lru(next) <=> x \in Lru(db)
    BY <1>1, <1>9 DEF Lru, Rows
  <2> QED BY <2>1, <2>2, <1>1 DEF Lru
<1>11. Orderly(next)
  <2>1. Lru(next) \subseteq LruKeys
    BY <1>10 DEF Orderly
  <2>2. \A x \in DOMAIN next : next[x].kind = "harness" =>
          {next[x].fromConnector, next[x].toConnector} \subseteq Lru(next)
    BY <1>1, <1>10 DEF Orderly, Plugs
  <2>3. \A x \in DOMAIN next : next[x].kind = "connection" =>
          \E u, v \in LruKeys : /\ u # v /\ x = Connection({u, v})
                               /\ {next[x].a, next[x].b} = {u, v}
    <3>1. ASSUME NEW x \in DOMAIN new, new[x].kind = "connection"
          PROVE  \E u, v \in LruKeys : /\ u # v /\ x = Connection({u, v})
                                      /\ {new[x].a, new[x].b} = {u, v}
      BY <3>1 DEF Plugs
    <3>2. ASSUME NEW x \in DOMAIN db, db[x].kind = "connection"
          PROVE  \E u, v \in LruKeys : /\ u # v /\ x = Connection({u, v})
                                      /\ {db[x].a, db[x].b} = {u, v}
      BY <3>2 DEF Orderly
    <3>3. \A x \in DOMAIN next :
            \/ x \in DOMAIN new /\ next[x] = new[x]
            \/ x \in DOMAIN db /\ next[x] = db[x]
      BY <1>1
    <3> SUFFICES ASSUME NEW x \in DOMAIN next, next[x].kind = "connection"
                 PROVE  \E u, v \in LruKeys : /\ u # v /\ x = Connection({u, v})
                                             /\ {next[x].a, next[x].b} = {u, v}
      OBVIOUS
    <3>4. CASE x \in DOMAIN new /\ next[x] = new[x]
      <4>1. new[x].kind = "connection"
        BY <3>4
      <4>2. PICK u, v \in LruKeys : /\ u # v /\ x = Connection({u, v})
                                   /\ {new[x].a, new[x].b} = {u, v}
        BY <3>1, <3>4, <4>1
      <4> QED BY <3>4, <4>2
    <3>5. CASE x \in DOMAIN db /\ next[x] = db[x]
      <4>1. db[x].kind = "connection"
        BY <3>5
      <4>2. PICK u, v \in LruKeys : /\ u # v /\ x = Connection({u, v})
                                   /\ {db[x].a, db[x].b} = {u, v}
        BY <3>2, <3>5, <4>1
      <4> QED BY <3>5, <4>2
    <3> QED BY <3>3, <3>4, <3>5
  <2> QED BY <1>5, <1>6, <2>1, <2>2, <2>3 DEF Orderly
<1> QED BY <1>1, <1>3, <1>9, <1>11 DEF Extends, next

\* Wires that were there keep their pairs.
LEMMA PairsKept ==
  ASSUME NEW db, Orderly(db), NEW next, NEW new, Extends(db, next, new),
         NEW w \in Rows(db, "wire"), w \notin DOMAIN new
  PROVE  w \in Rows(next, "wire") /\ Pair(next, w) = Pair(db, w)
<1>1. w \in DOMAIN db /\ db[w].kind = "wire" /\ next[w] = db[w] /\ w \in DOMAIN next
  BY DEF Rows, Extends
<1>2. {db[w].from, db[w].to} \subseteq Rows(db, "pin")
  BY <1>1, OrderlyRows
<1> QED BY <1>1, <1>2 DEF Extends, Pair, Rows

-----------------------------------------------------------------------------
(* What the engine does to harnesses                                         *)

KindsKept(db, next) ==
  \A x \in DOMAIN next : x \in Built \/ (x \in DOMAIN db /\ next[x].kind = db[x].kind)

\* No wire or Connection row comes or goes, no pin goes or changes its unit.
Rearranges(db, next) ==
  /\ Orderly(next) /\ KindsKept(db, next)
  /\ \A k \in {"wire", "connection", "unit"} : Rows(next, k) = Rows(db, k)
  /\ \A w \in Rows(db, "wire") : Pair(next, w) = Pair(db, w)
  /\ \A p \in Rows(db, "pin") : p \in Rows(next, "pin") /\ UnitAt(next, p) = UnitAt(db, p)

LEMMA RearrangesAgain ==
  ASSUME NEW db, NEW mid, NEW next, Rearranges(db, mid), Rearranges(mid, next)
  PROVE  Rearranges(db, next)
BY DEF Rearranges, KindsKept

LEMMA RearrangesNothing ==
  ASSUME NEW db, Orderly(db)
  PROVE  Rearranges(db, db)
BY DEF Rearranges, KindsKept

LEMMA ExtendsQuietly ==
  ASSUME NEW db, Orderly(db), NEW next, NEW new, Extends(db, next, new),
         \A x \in DOMAIN new : x \in Built /\ new[x].kind \notin {"wire", "connection", "unit"}
  PROVE  Rearranges(db, next)
<1>1. KindsKept(db, next)
  BY DEF KindsKept, Extends
<1>2. \A x \in DOMAIN next : next[x].kind \in {"wire", "connection", "unit"} => x \in DOMAIN db \ DOMAIN new
  BY DEF Extends
<1>3. \A k \in {"wire", "connection", "unit"} : Rows(next, k) = Rows(db, k)
  BY <1>2 DEF Extends, Rows
<1>4. \A w \in Rows(db, "wire") : Pair(next, w) = Pair(db, w)
  <2>1. ASSUME NEW w \in Rows(db, "wire") PROVE w \notin DOMAIN new
    BY <1>3, <1>2 DEF Rows
  <2> QED BY <2>1, PairsKept
<1>5. \A p \in Rows(db, "pin") : p \in Rows(next, "pin") /\ UnitAt(next, p) = UnitAt(db, p)
  BY DEF Extends, Rows
<1> QED BY <1>1, <1>3, <1>4, <1>5 DEF Extends, Rearranges

LEMMA EndpointAdded ==
  ASSUME NEW db, Orderly(db), NEW h \in Rows(db, "harness"),
         NEW c \in Rows(db, "connector"), db[c].unit # None
  PROVE  /\ Rearranges(db, WithEndpoint(db, h, c))
         /\ h \in Rows(WithEndpoint(db, h, c), "harness")
         /\ c \in Rows(WithEndpoint(db, h, c), "connector")
         /\ WithEndpoint(db, h, c)[c] = db[c]
         /\ \A d \in Lru(db) : d \in DOMAIN WithEndpoint(db, h, c) /\ WithEndpoint(db, h, c)[d] = db[d]
<1> DEFINE k == Mate(c, h)
           e == Endpoint(c, h)
           copies == {MatePin(p, h) : p \in PinsOf(db, c)}
           new == [x \in {k, e} \cup copies |->
                    CASE x = k -> ConnectorRow(None)
                      [] x = e -> [kind |-> "endpoint", harness |-> h, mating |-> k, lru |-> c]
                      [] OTHER -> PinRow(k, db[c].unit)]
<1>1. WithEndpoint(db, h, c) = Insert(db, new)
  BY DEF WithEndpoint
<1>2. /\ c \in LruKeys /\ h \in Harnesses /\ db[h].kind = "harness" /\ h \in DOMAIN db
      /\ c \in DOMAIN db /\ db[c].kind = "connector"
  BY DEF Orderly, Lru, Rows, OfKind
<1>3. PinsOf(db, c) \subseteq LruKeys
  <2>1. \A p \in PinsOf(db, c) : p \in DOMAIN db /\ db[p].kind = "pin" /\ UnitAt(db, p) # None
    BY DEF PinsOf, Where, Rows, UnitAt
  <2> QED BY <2>1 DEF Orderly, Lru
<1>4. /\ k \in Mates /\ e \in Endpoints /\ copies \subseteq MatePins
      /\ k # e /\ k \notin copies /\ e \notin copies
  BY <1>2, <1>3 DEF Mates, Endpoints, MatePins, Mate, Endpoint, MatePin
<1>5. /\ DOMAIN new = {k, e} \cup copies /\ new[k] = ConnectorRow(None)
      /\ new[e] = [kind |-> "endpoint", harness |-> h, mating |-> k, lru |-> c]
      /\ \A x \in copies : new[x] = PinRow(k, db[c].unit)
  BY <1>4
<1> HIDE DEF k, e, copies, new
<1>6. Plugs(db, new, k)
  <2>1. Fits(db, new, new[k])
    BY <1>5, ColumnsOf DEF Fits, ConnectorRow, Refers, Kinds
  <2> QED BY <2>1, <1>4, <1>5, BuiltKeys DEF Plugs, ConnectorRow, NotNull, Built
<1>7. Plugs(db, new, e)
  <2>1. Fits(db, new, new[e])
    BY <1>2, <1>5, WiringColumns DEF Fits, ConnectorRow, Refers, Kinds
  <2>2. h # None /\ k # None
    BY <1>2, <1>4, BuiltKeys DEF Built
  <2>3. NotNull(new, e)
    BY <1>5, <2>2, WiringColumns DEF NotNull
  <2> QED BY <2>1, <2>3, <1>4, <1>5, BuiltKeys DEF Plugs, Built
<1>8. ASSUME NEW x \in copies PROVE Plugs(db, new, x)
  <2>1. new[x] = PinRow(k, db[c].unit)
    BY <1>5
  <2>2. Refers(db, db[c].unit, "unit")
    BY <1>2, ColumnsOf DEF Orderly, Valid, ValidRow
  <2>3. Fits(db, new, new[x])
    BY <2>1, <2>2, <1>5, ColumnsOf DEF Fits, ConnectorRow, PinRow, Kinds
  <2>4. k # None
    BY <1>4, BuiltKeys DEF Built
  <2>5. NotNull(new, x)
    BY <2>1, <2>4, ColumnsOf, WiringColumns DEF NotNull, PinRow
  <2> QED BY <2>1, <2>3, <2>5, <1>4, <1>5, BuiltKeys DEF Plugs, Built, PinRow
<1>9. Extends(db, Insert(db, new), new)
  BY <1>5, <1>6, <1>7, <1>8, Extended
<1>10. \A x \in DOMAIN new : x \in Built /\ new[x].kind \notin {"wire", "connection", "unit", "harness"}
  BY <1>4, <1>5 DEF Built, ConnectorRow, PinRow
<1>11. Rearranges(db, Insert(db, new))
  BY <1>9, <1>10, ExtendsQuietly
<1>12. \A d \in Lru(db) : d \in DOMAIN db \ DOMAIN new
  BY <1>10, BuiltKeys DEF Orderly, Lru
<1>13. c \in Lru(db)
  BY <1>2 DEF Lru
<1>14. h \in Rows(Insert(db, new), "harness") /\ c \in Rows(Insert(db, new), "connector")
  BY <1>2, <1>9 DEF Extends, Rows
<1> QED BY <1>1, <1>9, <1>11, <1>12, <1>13, <1>14 DEF Extends

LEMMA HarnessAdded ==
  ASSUME NEW db, Orderly(db), NEW h \in Harnesses, NEW fc, NEW tc,
         {fc, tc} \subseteq Rows(db, "connector"), db[fc].unit # None, db[tc].unit # None,
         NEW v, v = [kind |-> "harness", fromUnit |-> db[fc].unit, fromConnector |-> fc,
                     toUnit |-> db[tc].unit, toConnector |-> tc]
  PROVE  \A new : h \in DOMAIN new /\ new[h] = v => Plugs(db, new, h)
<1> SUFFICES ASSUME NEW new, h \in DOMAIN new, new[h] = v PROVE Plugs(db, new, h)
  OBVIOUS
<1>1. /\ Refers(db, db[fc].unit, "unit") /\ Refers(db, db[tc].unit, "unit")
      /\ fc \in DOMAIN db /\ db[fc].kind = "connector" /\ fc # None
      /\ tc \in DOMAIN db /\ db[tc].kind = "connector" /\ tc # None
  BY ColumnsOf DEF Orderly, Valid, ValidRow, Rows
<1>2. Fits(db, new, v)
  BY <1>1, WiringColumns DEF Fits, Refers, Kinds
<1>3. NotNull(new, h)
  BY <1>1, WiringColumns DEF NotNull
<1>4. {fc, tc} \subseteq Lru(db)
  BY <1>1 DEF Lru
<1> QED BY <1>2, <1>3, <1>4, BuiltKeys DEF Plugs, Built

LEMMA HarnessGrown ==
  ASSUME NEW db, Orderly(db), NEW h \in Harnesses, NEW c \in Rows(db, "connector"),
         NEW d \in Rows(db, "connector"), db[c].unit # None, db[d].unit # None
  PROVE  /\ Rearranges(db, CreateHarnessWithEndpoints(db, h, c, d))
         /\ h \in Rows(CreateHarnessWithEndpoints(db, h, c, d), "harness")
<1>1. PICK new : new = [x \in {h} |-> [kind |-> "harness", fromUnit |-> db[c].unit,
                          fromConnector |-> c, toUnit |-> db[d].unit, toConnector |-> d]]
  OBVIOUS
<1>2. PICK one : one = Insert(db, new)
  OBVIOUS
<1>3. PICK two : two = WithEndpoint(one, h, c)
  OBVIOUS
<1>4. CreateHarnessWithEndpoints(db, h, c, d) = WithEndpoint(two, h, d)
  BY <1>1, <1>2, <1>3 DEF CreateHarnessWithEndpoints
<1>5. DOMAIN new = {h} /\ new[h].kind = "harness" /\ h \in Built
  BY <1>1 DEF Built
<1>6. Plugs(db, new, h)
  BY <1>1, HarnessAdded
<1>7. Extends(db, one, new)
  BY <1>2, <1>5, <1>6, Extended
<1>8. Rearranges(db, one)
  BY <1>5, <1>7, ExtendsQuietly
<1>9. h \in Rows(one, "harness")
  BY <1>5, <1>7 DEF Extends, Rows
<1>10. {c, d} \subseteq Lru(db)
  BY DEF Lru, Rows
<1>11. c # h /\ d # h
  BY <1>5, <1>10, BuiltKeys DEF Orderly
<1>12. /\ c \in Rows(one, "connector") /\ one[c].unit # None
       /\ d \in Rows(one, "connector") /\ one[d].unit # None
  BY <1>5, <1>7, <1>11 DEF Extends, Rows
<1>13. d \in Lru(one)
  BY <1>12 DEF Lru, Rows
<1>14. /\ Rearranges(one, two) /\ h \in Rows(two, "harness")
       /\ d \in DOMAIN two /\ two[d] = one[d]
  BY <1>3, <1>8, <1>9, <1>12, <1>13, EndpointAdded DEF Rearranges
<1>15. d \in Rows(two, "connector") /\ two[d].unit # None
  BY <1>12, <1>14 DEF Rows
<1>16. Rearranges(two, WithEndpoint(two, h, d)) /\ h \in Rows(WithEndpoint(two, h, d), "harness")
  BY <1>14, <1>15, EndpointAdded DEF Rearranges
<1> QED BY <1>4, <1>8, <1>14, <1>16, RearrangesAgain

LEMMA HarnessesMerged ==
  ASSUME NEW db, Orderly(db), NEW keep \in Rows(db, "harness"), NEW fold \in Rows(db, "harness"),
         keep # fold
  PROVE  /\ Rearranges(db, MergeHarness(db, keep, fold))
         /\ keep \in Rows(MergeHarness(db, keep, fold), "harness")
<1> DEFINE B == WiresOf(db, fold) \cup EndpointsOf(db, fold)
           mid == [x \in DOMAIN db |->
                    IF x \in B THEN [db[x] EXCEPT !.harness = keep] ELSE db[x]]
           next == Without(mid, {fold})
<1>1. MergeHarness(db, keep, fold) = next
  BY DEF MergeHarness
<1>2. /\ keep \in DOMAIN db /\ db[keep].kind = "harness" /\ keep # None
      /\ fold \in DOMAIN db /\ db[fold].kind = "harness" /\ fold # None
  BY DEF Rows, Orderly, Valid
<1>3. \A x \in B : x \in DOMAIN db /\ db[x].kind \in {"wire", "endpoint"}
  BY DEF WiresOf, EndpointsOf, Where, Rows
<1>4. ASSUME NEW x \in DOMAIN db
      PROVE  /\ DOMAIN mid[x] = DOMAIN db[x] /\ mid[x].kind = db[x].kind
             /\ \A f \in DOMAIN db[x] : mid[x][f] = IF x \in B /\ f = "harness" THEN keep ELSE db[x][f]
  <2>1. "kind" \in DOMAIN db[x]
    BY DEF Orderly, Valid, ValidRow
  <2> QED BY <2>1
<1>5. ASSUME NEW x \in DOMAIN db, x \notin B, db[x].kind \in {"wire", "endpoint"}
      PROVE  mid[x].harness # fold
  BY <1>5 DEF WiresOf, EndpointsOf, Where, Rows
<1>6. DOMAIN mid = DOMAIN db /\ \A x \in DOMAIN db \ B : mid[x] = db[x]
  OBVIOUS
<1> HIDE DEF B, mid
<1>7. ASSUME NEW x \in DOMAIN db
      PROVE  ValidRow(mid, mid[x]) /\ NotNull(mid, x) /\ OfKind(x, mid[x].kind)
  <2>1. ValidRow(db, db[x]) /\ NotNull(db, x) /\ OfKind(x, db[x].kind)
    BY DEF Orderly, Valid
  <2>2. \A v, k : Refers(db, v, k) => Refers(mid, v, k)
    BY <1>4, <1>6 DEF Refers
  <2>3. CASE x \notin B
    BY <2>1, <2>2, <2>3, <1>6 DEF ValidRow, NotNull
  <2>4. CASE x \in B
    <3>1. /\ DOMAIN mid[x] = DOMAIN db[x] /\ mid[x].kind = db[x].kind
          /\ \A f \in DOMAIN db[x] : mid[x][f] = IF f = "harness" THEN keep ELSE db[x][f]
      BY <2>4, <1>4
    <3>2. Targets[db[x].kind]["harness"] = "harness"
      BY <2>4, <1>3, WiringColumns
    <3>3. Refers(mid, keep, "harness")
      BY <1>2, <1>4, <1>6 DEF Refers
    <3> QED BY <2>1, <2>2, <3>1, <3>2, <3>3, <1>2 DEF ValidRow, NotNull
  <2> QED BY <2>3, <2>4
<1>8. \A p \in DOMAIN db : db[p].kind \in {"unit", "connector", "pin", "harness", "connection"} => mid[p] = db[p]
  BY <1>3, <1>6
<1>9. ASSUME NEW p \in Rows(db, "pin") PROVE UnitAt(mid, p) = UnitAt(db, p)
  <2>1. db[p].connector \in Rows(db, "connector") /\ p \in DOMAIN db /\ db[p].kind = "pin"
    BY OrderlyRows DEF Rows
  <2> QED BY <2>1, <1>8 DEF Rows, UnitAt
<1>10. Lru(mid) = Lru(db)
  <2>1. ASSUME NEW x \in DOMAIN db PROVE x \in Lru(mid) <=> x \in Lru(db)
    <3>1. mid[x].kind = db[x].kind
      BY <1>4
    <3> QED BY <3>1, <1>6, <1>8, <1>9 DEF Lru, Rows
  <2> QED BY <2>1, <1>6 DEF Lru
<1>11. Orderly(mid)
  <2>1. \A x \in DOMAIN mid : mid[x].kind = "harness" =>
          {mid[x].fromConnector, mid[x].toConnector} \subseteq Lru(mid)
    BY <1>4, <1>6, <1>8, <1>10 DEF Orderly
  <2>2. ASSUME NEW x \in DOMAIN mid, mid[x].kind = "connection"
        PROVE  \E u, v \in LruKeys : /\ u # v /\ x = Connection({u, v})
                                    /\ {mid[x].a, mid[x].b} = {u, v}
    <3>1. mid[x] = db[x] /\ db[x].kind = "connection" /\ x \in DOMAIN db
      BY <2>2, <1>4, <1>6, <1>8
    <3>2. PICK u, v \in LruKeys : /\ u # v /\ x = Connection({u, v})
                                 /\ {db[x].a, db[x].b} = {u, v}
      BY <3>1 DEF Orderly
    <3> QED BY <3>1, <3>2
  <2>3. Valid(mid) /\ Lru(mid) \subseteq LruKeys
    BY <1>6, <1>7, <1>10 DEF Valid, Orderly
  <2> QED BY <2>1, <2>2, <2>3, <1>6, <1>7 DEF Orderly
<1>12. ASSUME NEW x \in DOMAIN mid \ {fold}, NEW c \in DOMAIN Keys[mid[x].kind], mid[x][c] = fold
       PROVE  FALSE
  <2>1. ValidRow(mid, mid[x])
    BY <1>6, <1>7
  <2>2. Targets[mid[x].kind][c] = "harness" /\ mid[x].kind \in Kinds
    BY <2>1, <1>2, <1>4, <1>12, KindsOfRows DEF ValidRow, Refers
  <2>3. c = "harness" /\ mid[x].kind \in {"wire", "endpoint"}
    BY <2>2, ListedKeys DEF ForeignKeys
  <2>4. x \in B
    BY <2>3, <1>4, <1>5, <1>6, <1>12
  <2>5. "harness" \in DOMAIN db[x]
    BY <2>1, <2>3, <1>4, <1>6 DEF ValidRow
  <2> QED BY <2>3, <2>4, <2>5, <1>4, <1>6, <1>12
<1>13. ~Held(mid, {fold})
  BY <1>12 DEF Held
<1>14. Trims(mid, next, {fold})
  BY <1>11, <1>13, Trimmed
<1> HIDE DEF next
<1>15. \A k \in {"wire", "connection", "unit", "pin"} : fold \notin Rows(db, k)
  BY <1>2 DEF Rows
<1>16. /\ DOMAIN next = DOMAIN db \ {fold}
       /\ \A x \in DOMAIN next : next[x].kind = db[x].kind
  BY <1>4, <1>6, <1>14 DEF Trims
<1>17. \A k \in {"wire", "connection", "unit", "pin"} : Rows(next, k) = Rows(db, k)
  BY <1>15, <1>16 DEF Rows
<1>18. ASSUME NEW w \in Rows(db, "wire") PROVE Pair(next, w) = Pair(db, w)
  <2>1. Pair(next, w) = Pair(mid, w)
    BY <1>14, <1>17 DEF Trims
  <2>2. w \in DOMAIN db /\ db[w].kind = "wire"
    BY DEF Rows
  <2>3. {"from", "to"} \subseteq DOMAIN db[w]
    BY <2>2, WiringColumns DEF Orderly, Valid, ValidRow
  <2>4. mid[w].from = db[w].from /\ mid[w].to = db[w].to
    BY <2>2, <2>3, <1>4
  <2>5. {db[w].from, db[w].to} \subseteq Rows(db, "pin")
    BY <2>2, OrderlyRows
  <2> QED BY <2>1, <2>4, <2>5, <1>9 DEF Pair
<1>19. \A p \in Rows(db, "pin") : UnitAt(next, p) = UnitAt(db, p)
  BY <1>9, <1>14, <1>17 DEF Trims
<1>20. Rearranges(db, next)
  BY <1>14, <1>16, <1>17, <1>18, <1>19 DEF Trims, Rearranges, KindsKept
<1>21. keep \in Rows(next, "harness")
  BY <1>2, <1>16 DEF Rows
<1> QED BY <1>1, <1>20, <1>21

-----------------------------------------------------------------------------
(* Wires                                                                     *)

LEMMA WireAdded ==
  ASSUME NEW db, Orderly(db), NEW w \in Wires, NEW h, NEW p \in Rows(db, "pin"),
         NEW q \in Rows(db, "pin"), NEW m \in Rows(db, "pin") \cup {None},
         NEW n \in Rows(db, "pin") \cup {None}, NEW number, NEW v,
         v = [kind |-> "wire", harness |-> h, from |-> p, to |-> q,
              fromMate |-> m, toMate |-> n, number |-> number]
  PROVE  \A new : /\ w \in DOMAIN new /\ new[w] = v /\ h # None
                  /\ h \in Rows(db, "harness") \/ (h \in DOMAIN new /\ new[h].kind = "harness")
                  => Plugs(db, new, w)
<1> SUFFICES ASSUME NEW new, w \in DOMAIN new, new[w] = v, h # None,
                    h \in Rows(db, "harness") \/ (h \in DOMAIN new /\ new[h].kind = "harness")
             PROVE  Plugs(db, new, w)
  OBVIOUS
<1>1. \A x \in Rows(db, "pin") : Refers(db, x, "pin") /\ x # None
  BY DEF Rows, Refers, Orderly, Valid
<1>2. Refers(db, h, "harness") \/ (h \in DOMAIN new /\ new[h].kind = "harness")
  BY DEF Rows, Refers
<1>3. Fits(db, new, v)
  BY <1>1, <1>2, WiringColumns DEF Fits, Refers, Kinds
<1>4. NotNull(new, w)
  BY <1>1, WiringColumns DEF NotNull
<1> QED BY <1>3, <1>4, BuiltKeys DEF Plugs, Built

LEMMA MatingPins ==
  ASSUME NEW db, NEW h, NEW p
  PROVE  MatingPin(db, h, p) \in Rows(db, "pin") \cup {None}
<1> DEFINE mates == {db[e].mating : e \in {x \in EndpointsOf(db, h) : db[x].lru = db[p].connector}}
           found == {q \in Rows(db, "pin") : db[q].connector \in mates /\ q[2] = p}
<1>1. MatingPin(db, h, p) = IF found = {} THEN None ELSE CHOOSE q \in found : TRUE
  BY DEF MatingPin
<1>2. found \subseteq Rows(db, "pin")
  OBVIOUS
<1> HIDE DEF found
<1>3. CASE found = {}
  BY <1>1, <1>3
<1>4. CASE found # {}
  BY <1>1, <1>2, <1>4
<1> QED BY <1>3, <1>4

\* A new wire on a harness, between pins.
LEMMA OneWireMore ==
  ASSUME NEW db, Orderly(db), NEW w \in Wires, w \notin DOMAIN db, NEW h \in Rows(db, "harness"),
         NEW p \in Rows(db, "pin"), NEW q \in Rows(db, "pin"), NEW number, NEW new,
         new = [x \in {w} |-> WireRow(db, h, p, q, number)],
         NEW next, next = Insert(db, new)
  PROVE  /\ Extends(db, next, new) /\ KindsKept(db, next)
         /\ Rows(next, "wire") = Rows(db, "wire") \cup {w}
         /\ \A k \in {"connection", "unit", "harness"} : Rows(next, k) = Rows(db, k)
         /\ \A x \in Rows(db, "wire") : Pair(next, x) = Pair(db, x)
         /\ Pair(next, w) = {UnitAt(db, p), UnitAt(db, q)}
<1>1. PICK v : v = WireRow(db, h, p, q, number)
  OBVIOUS
<1>2. PICK m, n : m = MatingPin(db, h, p) /\ n = MatingPin(db, h, q)
  OBVIOUS
<1>3. v = [kind |-> "wire", harness |-> h, from |-> p, to |-> q,
           fromMate |-> m, toMate |-> n, number |-> number]
  BY <1>1, <1>2 DEF WireRow
<1>4. DOMAIN new = {w} /\ new[w] = v
  BY <1>1
<1>5. h # None
  BY DEF Rows, Orderly, Valid
<1>6. m \in Rows(db, "pin") \cup {None} /\ n \in Rows(db, "pin") \cup {None}
  BY <1>2, MatingPins
<1>7. Plugs(db, new, w)
  BY <1>3, <1>4, <1>5, <1>6, WireAdded
<1>8. Extends(db, next, new)
  BY <1>4, <1>7, Extended
<1>9. \A x \in Rows(db, "wire") : Pair(next, x) = Pair(db, x)
  <2>1. \A x \in Rows(db, "wire") : x \notin DOMAIN new
    BY <1>4 DEF Rows
  <2> QED BY <1>8, <2>1, PairsKept
<1>10. next[w] = v /\ DOMAIN next = DOMAIN db \cup {w} /\ \A x \in DOMAIN db : next[x] = db[x]
  BY <1>4, <1>8 DEF Extends
<1>11. Pair(next, w) = {UnitAt(db, p), UnitAt(db, q)}
  BY <1>3, <1>8, <1>10 DEF Pair, Extends
<1>12. KindsKept(db, next)
  BY <1>10 DEF KindsKept, Built
<1>13. v.kind = "wire"
  BY <1>3
<1>14. /\ Rows(next, "wire") = Rows(db, "wire") \cup {w}
       /\ \A k \in {"connection", "unit", "harness"} : Rows(next, k) = Rows(db, k)
  BY <1>10, <1>13 DEF Rows
<1> QED BY <1>8, <1>9, <1>11, <1>12, <1>14

-----------------------------------------------------------------------------
(* A batch of pairs                                                          *)

LEMMA HarnessFound ==
  ASSUME NEW db, Orderly(db), NEW c, HarnessOf(db, c) # None
  PROVE  HarnessOf(db, c) \in Rows(db, "harness")
<1>1. PICK e : e \in EndpointAt(db, c) /\ HarnessOf(db, c) = db[e].harness
  <2>1. EndpointAt(db, c) # {}
    BY DEF HarnessOf
  <2>2. HarnessOf(db, c) = db[CHOOSE e \in EndpointAt(db, c) : TRUE].harness
    BY <2>1 DEF HarnessOf
  <2>3. (CHOOSE e \in EndpointAt(db, c) : TRUE) \in EndpointAt(db, c)
    BY <2>1
  <2> QED BY <2>2, <2>3
<1>2. e \in DOMAIN db /\ db[e].kind = "endpoint"
  BY <1>1 DEF EndpointAt, Where, Rows
<1> QED BY <1>1, <1>2, OrderlyRows

\* What the engine decides can be done.
LEMMA Classified ==
  ASSUME NEW db, Orderly(db), NEW p, NEW q, NEW decision,
         NEW cls, cls = Classify(db, p, q, decision)
  PROVE  /\ cls.kind \in {"cancelled", "ambiguous", "invalid", "new_harness",
                          "existing_harness", "extend_harness", "merge"}
         /\ cls.kind # "cancelled" =>
              None \notin {UnitAt(db, p), UnitAt(db, q)} /\ UnitAt(db, p) # UnitAt(db, q)
         /\ cls.kind = "existing_harness" => cls.on \in Rows(db, "harness")
         /\ cls.kind = "extend_harness" => cls.on \in Rows(db, "harness") /\ cls.new \in {p, q}
         /\ cls.kind = "merge" => /\ cls.on \in Rows(db, "harness")
                                 /\ cls.fold \in Rows(db, "harness") /\ cls.on # cls.fold
<1>1. PICK u, v : u = UnitAt(db, p) /\ v = UnitAt(db, q)
  OBVIOUS
<1>2. PICK ha, hb : ha = HarnessOf(db, db[p].connector) /\ hb = HarnessOf(db, db[q].connector)
  OBVIOUS
<1>3. (ha # None => ha \in Rows(db, "harness")) /\ (hb # None => hb \in Rows(db, "harness"))
  BY <1>2, HarnessFound
<1>4. cls =
  IF None \in {u, v} \/ u = v THEN [kind |-> "cancelled"]
  ELSE IF ha = None /\ hb = None THEN [kind |-> "new_harness"]
  ELSE IF ha = hb THEN [kind |-> "existing_harness", on |-> ha]
  ELSE IF hb = None THEN [kind |-> "extend_harness", on |-> ha, new |-> q]
  ELSE IF ha = None THEN [kind |-> "extend_harness", on |-> hb, new |-> p]
  ELSE CASE decision = "none" -> [kind |-> "ambiguous"]
         [] decision = "merge_into_a" -> [kind |-> "merge", on |-> ha, fold |-> hb]
         [] decision = "merge_into_b" -> [kind |-> "merge", on |-> hb, fold |-> ha]
         [] decision = "cancel" -> [kind |-> "cancelled"]
         [] OTHER -> [kind |-> "invalid"]
  BY <1>1, <1>2 DEF Classify
<1>5. CASE None \in {u, v} \/ u = v
  <2>1. cls = [kind |-> "cancelled"]
    BY <1>4, <1>5
  <2> QED BY <2>1
<1>6. CASE ~(None \in {u, v} \/ u = v)
  <2>1. CASE ha = None /\ hb = None
    <3>1. cls = [kind |-> "new_harness"]
      BY <1>4, <1>6, <2>1
    <3> QED BY <3>1, <1>1, <1>6
  <2>2. CASE ha # None /\ ha = hb
    <3>1. cls = [kind |-> "existing_harness", on |-> ha]
      BY <1>4, <1>6, <2>2
    <3> QED BY <3>1, <2>2, <1>1, <1>3, <1>6
  <2>3. CASE ha # None /\ hb = None
    <3>1. cls = [kind |-> "extend_harness", on |-> ha, new |-> q]
      BY <1>4, <1>6, <2>3
    <3> QED BY <3>1, <2>3, <1>1, <1>3, <1>6
  <2>4. CASE ha = None /\ hb # None
    <3>1. cls = [kind |-> "extend_harness", on |-> hb, new |-> p]
      BY <1>4, <1>6, <2>4
    <3> QED BY <3>1, <2>4, <1>1, <1>3, <1>6
  <2>5. CASE ha # None /\ hb # None /\ ha # hb
    <3>1. cls = CASE decision = "none" -> [kind |-> "ambiguous"]
                  [] decision = "merge_into_a" -> [kind |-> "merge", on |-> ha, fold |-> hb]
                  [] decision = "merge_into_b" -> [kind |-> "merge", on |-> hb, fold |-> ha]
                  [] decision = "cancel" -> [kind |-> "cancelled"]
                  [] OTHER -> [kind |-> "invalid"]
      BY <1>4, <1>6, <2>5
    <3>2. CASE decision = "merge_into_a"
      <4>1. cls = [kind |-> "merge", on |-> ha, fold |-> hb]
        BY <3>1, <3>2
      <4> QED BY <4>1, <2>5, <1>1, <1>3, <1>6
    <3>3. CASE decision = "merge_into_b"
      <4>1. cls = [kind |-> "merge", on |-> hb, fold |-> ha]
        BY <3>1, <3>3
      <4> QED BY <4>1, <2>5, <1>1, <1>3, <1>6
    <3>4. CASE decision \notin {"merge_into_a", "merge_into_b"}
      <4>1. cls \in {[kind |-> "ambiguous"], [kind |-> "cancelled"], [kind |-> "invalid"]}
        BY <3>1, <3>4
      <4>2. cls.kind \in {"ambiguous", "cancelled", "invalid"}
        BY <4>1
      <4> QED BY <4>2, <1>1, <1>6
    <3> QED BY <3>2, <3>3, <3>4
  <2> QED BY <2>1, <2>2, <2>3, <2>4, <2>5
<1> QED BY <1>5, <1>6

\* How far a batch has come: every new wire joins a pair that the batch has
\* touched, and a pair it has touched has a wire, or was skipped.
Progress(st) ==
  /\ DOMAIN st = {"db", "status", "touched", "skipped"}
  /\ Orderly(st.db) /\ KindsKept(row, st.db)
  /\ Rows(st.db, "connection") = Rows(row, "connection")
  /\ \A w \in Rows(row, "wire") : w \in Rows(st.db, "wire") /\ Pair(st.db, w) = Pair(row, w)
  /\ \A p \in Rows(row, "pin") : p \in Rows(st.db, "pin") /\ UnitAt(st.db, p) = UnitAt(row, p)
  /\ \A w \in Rows(st.db, "wire") \ Rows(row, "wire") : w \notin used /\ Pair(st.db, w) \in st.touched
  /\ \A P \in st.touched : \E u, v \in Rows(st.db, "unit") : u # v /\ P = {u, v}
  /\ st.status = "ok" => \A P \in st.touched \ st.skipped :
       \E w \in Rows(st.db, "wire") \ Leaving : Pair(st.db, w) = P

\* The wire of a pair, when its harness is there.
LEMMA WireMade ==
  ASSUME WiringInvariant, NEW st, Progress(st), NEW db, Rearranges(st.db, db),
         NEW h \in Rows(db, "harness"), NEW p \in Rows(db, "pin"), NEW q \in Rows(db, "pin"),
         None \notin {UnitAt(db, p), UnitAt(db, q)}, UnitAt(db, p) # UnitAt(db, q),
         NEW now, now = [st EXCEPT !.db = db,
                            !.touched = @ \cup {{UnitAt(db, p), UnitAt(db, q)}}],
         st.status = "ok"
  PROVE  Progress(CreateWire(now, h, p, q))
<1> DEFINE P == {UnitAt(db, p), UnitAt(db, q)}
<1>1. /\ DOMAIN now = {"db", "status", "touched", "skipped"} /\ now.db = db
      /\ now.touched = st.touched \cup {P} /\ now.skipped = st.skipped /\ now.status = "ok"
  BY DEF Progress
<1>2. \E u, v \in Rows(db, "unit") : u # v /\ P = {u, v}
  BY UnitsOfPins DEF Rearranges
<1>3. CreateWire(now, h, p, q) =
        IF \E w \in WiresOf(db, h) : {db[w].from, db[w].to} \cap {p, q} # {}
        THEN [now EXCEPT !.skipped = @ \cup {P}]
        ELSE IF Fresh(Wires, db) = {} THEN [now EXCEPT !.status = "full"]
        ELSE [now EXCEPT !.db = Insert(db, [x \in {CHOOSE w \in Fresh(Wires, db) : TRUE} |->
                                              WireRow(db, h, p, q, NextNumber(db, h))])]
  BY <1>1 DEF CreateWire
<1>4. /\ Orderly(db) /\ KindsKept(row, db)
      /\ Rows(db, "connection") = Rows(row, "connection")
      /\ \A w \in Rows(row, "wire") : w \in Rows(db, "wire") /\ Pair(db, w) = Pair(row, w)
      /\ \A x \in Rows(row, "pin") : x \in Rows(db, "pin") /\ UnitAt(db, x) = UnitAt(row, x)
      /\ \A w \in Rows(db, "wire") \ Rows(row, "wire") : w \notin used /\ Pair(db, w) \in st.touched
  BY DEF Progress, Rearranges, KindsKept
<1>5. \A T \in st.touched \ st.skipped : \E w \in Rows(db, "wire") \ Leaving : Pair(db, w) = T
  BY DEF Progress, Rearranges
<1>6. \A T \in st.touched \cup {P} : \E u, v \in Rows(db, "unit") : u # v /\ T = {u, v}
  BY <1>2 DEF Progress, Rearranges
<1> HIDE DEF P
<1>7. ASSUME NEW next, DOMAIN next = DOMAIN now, next.db = db, next.touched = now.touched,
             next.status = "ok" => st.skipped \cup {P} \subseteq next.skipped
      PROVE  Progress(next)
  BY <1>1, <1>4, <1>5, <1>6, <1>7 DEF Progress
<1>8. CASE CreateWire(now, h, p, q) = [now EXCEPT !.skipped = @ \cup {P}]
  BY <1>1, <1>7, <1>8
<1>9. CASE CreateWire(now, h, p, q) = [now EXCEPT !.status = "full"]
  BY <1>1, <1>7, <1>9
<1>10. ASSUME NEW w, w \in Fresh(Wires, db), NEW next,
              next = Insert(db, [x \in {w} |-> WireRow(db, h, p, q, NextNumber(db, h))]),
              CreateWire(now, h, p, q) = [now EXCEPT !.db = next]
       PROVE  Progress(CreateWire(now, h, p, q))
  <2>1. w \in Wires /\ w \notin used /\ w \notin DOMAIN db
    BY <1>10 DEF Fresh
  <2>2. PICK new, number : /\ new = [x \in {w} |-> WireRow(db, h, p, q, number)]
                           /\ number = NextNumber(db, h)
    OBVIOUS
  <2>3. next = Insert(db, new)
    BY <2>2, <1>10
  <2>4. /\ Extends(db, next, new) /\ KindsKept(db, next)
        /\ Rows(next, "wire") = Rows(db, "wire") \cup {w}
        /\ Rows(next, "connection") = Rows(db, "connection") /\ Rows(next, "unit") = Rows(db, "unit")
        /\ \A x \in Rows(db, "wire") : Pair(next, x) = Pair(db, x)
        /\ Pair(next, w) = P
    BY <1>4, <2>1, <2>2, <2>3, OneWireMore DEF P
  <2>5. w \notin Leaving
    BY <2>1 DEF WiringInvariant, PendingOK, Leaving
  <2>6. PICK after : after = [now EXCEPT !.db = next]
    OBVIOUS
  <2>7. /\ DOMAIN after = {"db", "status", "touched", "skipped"} /\ after.db = next
        /\ after.touched = st.touched \cup {P} /\ after.skipped = st.skipped
    BY <1>1, <2>6
  <2>8. Orderly(next) /\ KindsKept(row, next)
    BY <1>4, <2>4 DEF Extends, KindsKept
  <2>9. \A x \in Rows(row, "wire") : x \in Rows(next, "wire") /\ Pair(next, x) = Pair(row, x)
    BY <1>4, <2>4
  <2>10. \A x \in Rows(row, "pin") : x \in Rows(next, "pin") /\ UnitAt(next, x) = UnitAt(row, x)
    BY <1>4, <2>4 DEF Extends, Rows
  <2>11. \A x \in Rows(next, "wire") \ Rows(row, "wire") :
           x \notin used /\ Pair(next, x) \in st.touched \cup {P}
    BY <1>4, <2>1, <2>4
  <2>12. \A T \in (st.touched \cup {P}) \ st.skipped :
           \E x \in Rows(next, "wire") \ Leaving : Pair(next, x) = T
    BY <1>5, <2>4, <2>5
  <2>13. \A T \in st.touched \cup {P} : \E u, v \in Rows(next, "unit") : u # v /\ T = {u, v}
    BY <1>6, <2>4
  <2>14. Rows(next, "connection") = Rows(row, "connection")
    BY <1>4, <2>4
  <2>15. Progress(after)
    BY <2>7, <2>8, <2>9, <2>10, <2>11, <2>12, <2>13, <2>14 DEF Progress
  <2> QED BY <1>10, <2>6, <2>15
<1> QED
  <2>1. CASE Fresh(Wires, db) = {} \/ \E w \in WiresOf(db, h) : {db[w].from, db[w].to} \cap {p, q} # {}
    BY <1>3, <1>8, <1>9, <2>1
  <2>2. CASE ~(Fresh(Wires, db) = {} \/ \E w \in WiresOf(db, h) : {db[w].from, db[w].to} \cap {p, q} # {})
    <3>1. PICK w : w = CHOOSE y \in Fresh(Wires, db) : TRUE
      OBVIOUS
    <3>2. w \in Fresh(Wires, db)
      BY <2>2, <3>1
    <3>3. PICK next : next = Insert(db, [x \in {w} |-> WireRow(db, h, p, q, NextNumber(db, h))])
      OBVIOUS
    <3>4. CreateWire(now, h, p, q) = [now EXCEPT !.db = next]
      BY <1>3, <2>2, <3>1, <3>3
    <3> QED BY <1>10, <3>2, <3>3, <3>4
  <2> QED BY <2>1, <2>2

LEMMA PairDone ==
  ASSUME WiringInvariant, NEW st, Progress(st), NEW p \in Rows(row, "pin"), NEW q \in Rows(row, "pin"),
         NEW decision
  PROVE  Progress(ExecutePair(st, p, q, decision))
<1> DEFINE cls == Classify(st.db, p, q, decision)
           free == Fresh(Harnesses, st.db)
           Failed == [st EXCEPT !.status = "failed"]
           On(db, h) == CreateWire([st EXCEPT !.db = db,
                                      !.touched = @ \cup {{UnitAt(db, p), UnitAt(db, q)}}], h, p, q)
           Done == ExecutePair(st, p, q, decision)
<1> SUFFICES ASSUME st.status = "ok" PROVE Progress(Done)
  BY DEF ExecutePair
<1>1. Done =
  CASE cls.kind = "cancelled" -> st
    [] cls.kind \in {"ambiguous", "invalid"} -> Failed
    [] cls.kind = "new_harness" ->
         IF free = {} THEN [st EXCEPT !.status = "full"]
         ELSE LET h == CHOOSE x \in free : TRUE
              IN  On(CreateHarnessWithEndpoints(st.db, h, st.db[p].connector,
                                                st.db[q].connector), h)
    [] cls.kind = "existing_harness" -> On(st.db, cls.on)
    [] cls.kind = "extend_harness" ->
         On(WithEndpoint(st.db, cls.on, st.db[cls.new].connector), cls.on)
    [] OTHER ->
         IF Numbers(st.db, cls.on) \cap Numbers(st.db, cls.fold) # {} THEN Failed
         ELSE On(MergeHarness(st.db, cls.on, cls.fold), cls.on)
  BY DEF ExecutePair
<1>2. /\ Orderly(st.db)
      /\ p \in Rows(st.db, "pin") /\ UnitAt(st.db, p) = UnitAt(row, p)
      /\ q \in Rows(st.db, "pin") /\ UnitAt(st.db, q) = UnitAt(row, q)
  BY DEF Progress
<1>3. ASSUME NEW k \in {"failed", "full"} PROVE Progress([st EXCEPT !.status = k])
  <2>1. PICK next : next = [st EXCEPT !.status = k]
    OBVIOUS
  <2>2. /\ DOMAIN next = DOMAIN st /\ next.db = st.db /\ next.touched = st.touched
        /\ next.skipped = st.skipped /\ next.status = k
    BY <2>1 DEF Progress
  <2>3. Progress(next)
    BY <2>2 DEF Progress
  <2> QED BY <2>1, <2>3
<1>4. /\ cls.kind \in {"cancelled", "ambiguous", "invalid", "new_harness",
                       "existing_harness", "extend_harness", "merge"}
      /\ cls.kind # "cancelled" =>
           None \notin {UnitAt(st.db, p), UnitAt(st.db, q)} /\ UnitAt(st.db, p) # UnitAt(st.db, q)
      /\ cls.kind = "existing_harness" => cls.on \in Rows(st.db, "harness")
      /\ cls.kind = "extend_harness" => cls.on \in Rows(st.db, "harness") /\ cls.new \in {p, q}
      /\ cls.kind = "merge" => /\ cls.on \in Rows(st.db, "harness")
                              /\ cls.fold \in Rows(st.db, "harness") /\ cls.on # cls.fold
  BY <1>2, Classified
<1> HIDE DEF cls
<1>5. ASSUME NEW db, Rearranges(st.db, db), NEW h \in Rows(db, "harness"), cls.kind # "cancelled"
      PROVE  Progress(On(db, h))
  <2>1. /\ p \in Rows(db, "pin") /\ UnitAt(db, p) = UnitAt(st.db, p)
        /\ q \in Rows(db, "pin") /\ UnitAt(db, q) = UnitAt(st.db, q)
    BY <1>2, <1>5 DEF Rearranges
  <2>2. None \notin {UnitAt(db, p), UnitAt(db, q)} /\ UnitAt(db, p) # UnitAt(db, q)
    BY <1>4, <1>5, <2>1
  <2>3. PICK now : now = [st EXCEPT !.db = db,
                            !.touched = @ \cup {{UnitAt(db, p), UnitAt(db, q)}}]
    OBVIOUS
  <2>4. Progress(CreateWire(now, h, p, q))
    BY <1>5, <2>1, <2>2, <2>3, WireMade
  <2> QED BY <2>3, <2>4
<1> HIDE DEF On, Done, free
<1>6. ASSUME NEW x \in {p, q}, cls.kind # "cancelled"
      PROVE  /\ st.db[x].connector \in Rows(st.db, "connector")
             /\ st.db[st.db[x].connector].unit # None
  <2>1. x \in DOMAIN st.db /\ st.db[x].kind = "pin"
    BY <1>2 DEF Rows
  <2> QED BY <2>1, <1>2, <1>4, <1>6, OrderlyRows DEF UnitAt
<1>7. CASE cls.kind = "cancelled"
  BY <1>1, <1>7
<1>8. CASE cls.kind \in {"ambiguous", "invalid"}
  BY <1>1, <1>3, <1>8
<1>9. CASE cls.kind = "new_harness"
  <2>1. CASE free = {}
    BY <1>1, <1>3, <1>9, <2>1
  <2>2. CASE free # {}
    <3>1. PICK h, c, d : /\ h = CHOOSE x \in free : TRUE
                         /\ c = st.db[p].connector /\ d = st.db[q].connector
      OBVIOUS
    <3>2. Done = On(CreateHarnessWithEndpoints(st.db, h, c, d), h)
      BY <1>1, <1>9, <2>2, <3>1
    <3>3. h \in Harnesses
      BY <2>2, <3>1 DEF free, Fresh
    <3>4. /\ c \in Rows(st.db, "connector") /\ d \in Rows(st.db, "connector")
          /\ st.db[c].unit # None /\ st.db[d].unit # None
      BY <1>6, <1>9, <3>1
    <3>5. PICK db : db = CreateHarnessWithEndpoints(st.db, h, c, d)
      OBVIOUS
    <3>6. Rearranges(st.db, db) /\ h \in Rows(db, "harness")
      BY <1>2, <3>3, <3>4, <3>5, HarnessGrown
    <3> QED BY <1>5, <1>9, <3>2, <3>5, <3>6
  <2> QED BY <2>1, <2>2
<1>10. CASE cls.kind = "existing_harness"
  <2>1. Done = On(st.db, cls.on)
    BY <1>1, <1>10
  <2>2. Rearranges(st.db, st.db)
    BY <1>2, RearrangesNothing
  <2> QED BY <1>4, <1>5, <1>10, <2>1, <2>2
<1>11. CASE cls.kind = "extend_harness"
  <2>1. PICK h, c : h = cls.on /\ c = st.db[cls.new].connector
    OBVIOUS
  <2>2. Done = On(WithEndpoint(st.db, h, c), h)
    BY <1>1, <1>11, <2>1
  <2>3. /\ h \in Rows(st.db, "harness") /\ c \in Rows(st.db, "connector")
        /\ st.db[c].unit # None
    BY <1>4, <1>6, <1>11, <2>1
  <2>4. PICK db : db = WithEndpoint(st.db, h, c)
    OBVIOUS
  <2>5. Rearranges(st.db, db) /\ h \in Rows(db, "harness")
    BY <1>2, <2>3, <2>4, EndpointAdded
  <2> QED BY <1>5, <1>11, <2>2, <2>4, <2>5
<1>12. CASE cls.kind = "merge"
  <2>1. PICK h, fold : h = cls.on /\ fold = cls.fold
    OBVIOUS
  <2>2. Done \in {Failed, On(MergeHarness(st.db, h, fold), h)}
    BY <1>1, <1>12, <2>1
  <2>3. PICK db : db = MergeHarness(st.db, h, fold)
    OBVIOUS
  <2>4. Rearranges(st.db, db) /\ h \in Rows(db, "harness")
    BY <1>2, <1>4, <1>12, <2>1, <2>3, HarnessesMerged
  <2> QED BY <1>3, <1>5, <1>12, <2>2, <2>3, <2>4
<1> QED BY <1>4, <1>7, <1>8, <1>9, <1>10, <1>11, <1>12

\* A batch keeps the books, however many pairs it has.
LEMMA BatchDone ==
  ASSUME WiringInvariant, NEW batch, Len(batch) \in Nat, NEW decision,
         \A i \in 1 .. Len(batch) : {batch[i][1], batch[i][2]} \subseteq Rows(row, "pin")
  PROVE  Progress(Grown(batch, decision))
<1>0. PICK N, first : N = Len(batch) /\ N \in Nat /\
        first = [db |-> row, status |-> "ok", touched |-> {}, skipped |-> {}]
  OBVIOUS
<1> DEFINE Step(i, s) == ExecutePair(s, batch[i][1], batch[i][2], decision)
           Whole(f) == f = [i \in 0 .. N |-> IF i = 0 THEN first ELSE Step(i, f[i - 1])]
           st == CHOOSE f : Whole(f)
<1>1. Grown(batch, decision) = st[N]
  BY <1>0 DEF Grown
<1> DEFINE Up(n, h) == /\ DOMAIN h = 0 .. n /\ h[0] = first
                       /\ \A i \in 1 .. n : h[i] = Step(i, h[i - 1])
           T == {n \in Nat : \E h : Up(n, h)}
<1> HIDE DEF Step
<1>2. Nat \subseteq T
  <2>1. 0 \in T
    <3>1. Up(0, [i \in 0 .. 0 |-> first])
      OBVIOUS
    <3> QED BY <3>1
  <2>2. ASSUME NEW n \in Nat, n \in T PROVE n + 1 \in T
    <3>1. PICK h : Up(n, h)
      BY <2>2
    <3> DEFINE k == [i \in 0 .. n + 1 |-> IF i = n + 1 THEN Step(n + 1, h[n]) ELSE h[i]]
    <3>2. n + 1 \in Nat /\ n + 1 \in 0 .. n + 1 /\ 0 \in 0 .. n + 1 /\ 0 # n + 1
      OBVIOUS
    <3>3. ASSUME NEW i \in 1 .. n + 1 PROVE k[i] = Step(i, k[i - 1])
      <4>1. i \in 0 .. n + 1 /\ i - 1 \in 0 .. n + 1 /\ i - 1 # n + 1
        OBVIOUS
      <4>2. k[i - 1] = h[i - 1]
        BY <4>1
      <4>3. CASE i = n + 1
        BY <4>1, <4>2, <4>3
      <4>4. CASE i # n + 1
        <5>1. i \in 1 .. n
          BY <4>4
        <5> QED BY <3>1, <4>1, <4>2, <4>4, <5>1
      <4> QED BY <4>3, <4>4
    <3>4. k[0] = first /\ DOMAIN k = 0 .. n + 1
      BY <3>1, <3>2
    <3> HIDE DEF k
    <3>5. Up(n + 1, k)
      BY <3>3, <3>4
    <3> QED BY <3>2, <3>5
  <2> HIDE DEF T
  <2> QED BY <2>1, <2>2, AllNumbers
<1>3. \E f : Whole(f)
  <2>1. PICK h : Up(N, h)
    BY <1>0, <1>2
  <2>2. \A i \in 0 .. N : h[i] = IF i = 0 THEN first ELSE Step(i, h[i - 1])
    BY <2>1
  <2> DEFINE f == [i \in 0 .. N |-> h[i]]
  <2>3. ASSUME NEW i \in 0 .. N PROVE f[i] = IF i = 0 THEN first ELSE Step(i, f[i - 1])
    <3>1. CASE i = 0
      BY <2>2, <3>1
    <3>2. CASE i # 0
      <4>1. i - 1 \in 0 .. N
        BY <1>0, <3>2
      <4>2. f[i - 1] = h[i - 1]
        BY <4>1
      <4>3. h[i] = Step(i, h[i - 1])
        BY <2>2, <3>2
      <4> QED BY <3>2, <4>2, <4>3
    <3> QED BY <3>1, <3>2
  <2>4. f = [i \in 0 .. N |-> f[i]]
    OBVIOUS
  <2> HIDE DEF f
  <2>5. Whole(f)
    BY <2>3, <2>4
  <2> QED BY <2>5
<1>4. Whole(st)
  <2> HIDE DEF Whole
  <2> QED BY <1>3
<1> HIDE DEF st
<1>5. st[0] = first /\ \A i \in 1 .. N : st[i] = Step(i, st[i - 1])
  <2> DEFINE g == [i \in 0 .. N |-> IF i = 0 THEN first ELSE Step(i, st[i - 1])]
  <2>1. st = g
    BY <1>4
  <2>2. \A i \in 0 .. N : g[i] = IF i = 0 THEN first ELSE Step(i, st[i - 1])
    OBVIOUS
  <2> HIDE DEF g
  <2>3. 0 \in 0 .. N /\ \A i \in 1 .. N : i \in 0 .. N /\ i # 0
    BY <1>0
  <2>4. st[0] = first
    BY <2>1, <2>2, <2>3
  <2>5. ASSUME NEW i \in 1 .. N PROVE st[i] = Step(i, st[i - 1])
    BY <2>1, <2>2, <2>3
  <2> QED BY <2>4, <2>5
<1> DEFINE R == {n \in Nat : n <= N => Progress(st[n])}
<1>6. Nat \subseteq R
  <2>1. 0 \in R
    <3>1. Progress(first)
      BY <1>0 DEF Progress, KindsKept, WiringInvariant
    <3> QED BY <3>1, <1>5
  <2>2. ASSUME NEW n \in Nat, n \in R PROVE n + 1 \in R
    <3> SUFFICES ASSUME n + 1 <= N PROVE Progress(st[n + 1])
      OBVIOUS
    <3>1. n + 1 \in 1 .. N /\ (n + 1) - 1 = n /\ n <= N
      BY <1>0
    <3>2. Progress(st[n])
      BY <2>2, <3>1
    <3>3. st[n + 1] = Step(n + 1, st[n])
      BY <1>5, <3>1
    <3>4. PICK p, q : p = batch[n + 1][1] /\ q = batch[n + 1][2]
      OBVIOUS
    <3>5. p \in Rows(row, "pin") /\ q \in Rows(row, "pin")
      BY <1>0, <3>1, <3>4
    <3>6. Progress(ExecutePair(st[n], p, q, decision))
      BY <3>2, <3>5, PairDone
    <3> QED BY <3>3, <3>4, <3>6 DEF Step
  <2> HIDE DEF R
  <2> QED BY <2>1, <2>2, AllNumbers
<1>7. Progress(st[N])
  BY <1>0, <1>6
<1> QED BY <1>1, <1>7

-----------------------------------------------------------------------------
(* Connection rows                                                           *)

LEMMA PairRows ==
  ASSUME NEW P, NEW u, NEW v, P = {u, v}, u # v
  PROVE  {ConnectionRow(P).a, ConnectionRow(P).b} = P /\ ConnectionRow(P).a # ConnectionRow(P).b
<1>1. PICK a : a = CHOOSE x \in P : TRUE
  OBVIOUS
<1>2. PICK b : b = CHOOSE x \in P : x # a
  OBVIOUS
<1>3. ConnectionRow(P) = [kind |-> "connection", a |-> a, b |-> b]
  BY <1>1, <1>2 DEF ConnectionRow
<1>4. a \in P
  BY <1>1
<1>5. b \in P /\ b # a
  <2>1. \E x \in P : x # a
    BY <1>4
  <2> QED BY <1>2, <2>1
<1> QED BY <1>3, <1>4, <1>5

LEMMA Upserted ==
  ASSUME NEW db, Orderly(db), NEW T,
         \A P \in T : IsPair(P) => \E u, v \in Rows(db, "unit") : u # v /\ P = {u, v},
         NEW next, next = Upserts(db, T)
  PROVE  /\ Orderly(next) /\ KindsKept(db, next)
         /\ Rows(next, "wire") = Rows(db, "wire")
         /\ DOMAIN next \cap (Wires \cup Harnesses) = DOMAIN db \cap (Wires \cup Harnesses)
         /\ \A w \in Rows(db, "wire") : Pair(next, w) = Pair(db, w)
         /\ \A P : Connection(P) \in DOMAIN next <=>
                   Connection(P) \in DOMAIN db \/ (P \in T /\ IsPair(P))
<1> DEFINE pairs == {Q \in T : IsPair(Q)}
           new == [x \in {Connection(P) : P \in pairs} |-> ConnectionRow(x[2])]
<1>1. next = Insert(db, new)
  BY DEF Upserts
<1>2. /\ DOMAIN new = {Connection(P) : P \in pairs}
      /\ \A P \in pairs : new[Connection(P)] = ConnectionRow(P)
  BY DEF Connection
<1> HIDE DEF new
<1>3. ASSUME NEW P \in pairs
      PROVE  Plugs(db, new, Connection(P)) /\ Connection(P) \in Rollups /\ new[Connection(P)].kind = "connection"
  <2>1. PICK u, v : u \in Rows(db, "unit") /\ v \in Rows(db, "unit") /\ u # v /\ P = {u, v}
    OBVIOUS
  <2>2. PICK x, a, b : x = Connection(P) /\ a = ConnectionRow(P).a /\ b = ConnectionRow(P).b
    OBVIOUS
  <2>3. new[x] = [kind |-> "connection", a |-> a, b |-> b]
    BY <1>2, <2>2 DEF ConnectionRow
  <2>4. {a, b} = {u, v} /\ a # b
    BY <2>1, <2>2, PairRows
  <2>5. {u, v} \subseteq LruKeys /\ None \notin {u, v}
    BY <2>1 DEF Orderly, Valid, Lru, Rows
  <2>6. x = Connection({u, v}) /\ x \in Rollups
    <3>1. {u, v} \subseteq LruKeys \cup {None}
      BY <2>5
    <3>2. \A y, z \in LruKeys \cup {None} : Connection({y, z}) \in Rollups
      BY DEF Rollups, Connection
    <3>3. Connection(P) = Connection({u, v})
      BY <2>1, Zenon
    <3> QED BY <2>2, <3>1, <3>2, <3>3
  <2>7. Refers(db, a, "unit") /\ Refers(db, b, "unit")
    BY <2>1, <2>4 DEF Refers, Rows
  <2>8. Fits(db, new, new[x])
    BY <2>3, <2>7, WiringColumns DEF Fits, Kinds
  <2>9. NotNull(new, x)
    BY <2>3, <2>4, <2>5, WiringColumns DEF NotNull
  <2>10. {new[x].a, new[x].b} = {u, v}
    BY <2>3, <2>4
  <2>11. OfKind(x, "connection") /\ x \in Built /\ new[x].kind = "connection"
    BY <2>3, <2>6, BuiltKeys DEF Built
  <2>12. Plugs(db, new, x)
    BY <2>1, <2>5, <2>6, <2>8, <2>9, <2>10, <2>11 DEF Plugs
  <2> QED BY <2>2, <2>6, <2>11, <2>12
<1> HIDE DEF pairs
<1>4. \A x \in DOMAIN new : Plugs(db, new, x) /\ x \in Rollups /\ new[x].kind = "connection"
  BY <1>2, <1>3
<1>5. Extends(db, next, new)
  BY <1>1, <1>4, Extended
<1>6. \A x \in DOMAIN new : x \in Built /\ x \notin Wires \cup Harnesses
  BY <1>4, WiringAssumption DEF Built
<1>7. KindsKept(db, next)
  BY <1>5, <1>6 DEF Extends, KindsKept
<1>8. Rows(next, "wire") = Rows(db, "wire")
  BY <1>4, <1>5 DEF Extends, Rows
<1>9. \A w \in Rows(db, "wire") : w \notin DOMAIN new
  BY <1>4, <1>5 DEF Extends, Rows
<1>10. \A w \in Rows(db, "wire") : Pair(next, w) = Pair(db, w)
  BY <1>5, <1>9, PairsKept
<1>11. \A P : Connection(P) \in DOMAIN new <=> P \in pairs
  BY <1>2 DEF Connection
<1> QED BY <1>5, <1>6, <1>7, <1>8, <1>10, <1>11 DEF Extends, pairs

-----------------------------------------------------------------------------
(* What the steps come to                                                    *)

LEMMA InvariantKept ==
  ASSUME WiringInvariant, Orderly(row'), KindsKept(row, row'), used \subseteq used',
         DOMAIN row' \cap (Wires \cup Harnesses) \subseteq used',
         \A r \in pending' \ pending : PendingOK(r)',
         RolledUp(row', drift', Leaving')
  PROVE  WiringInvariant'
<1>1. ASSUME NEW r \in pending', r \in pending PROVE PendingOK(r)'
  <2>1. PendingOK(r)
    BY <1>1 DEF WiringInvariant
  <2>2. ASSUME r.x \in DOMAIN row' PROVE row'[r.x].kind = r.kind
    <3>1. CASE r.x \in Built
      <4>1. OfKind(r.x, row'[r.x].kind)
        BY <2>2 DEF Orderly
      <4> QED BY <2>1, <3>1, <4>1, OneKind DEF PendingOK
    <3>2. CASE r.x \notin Built
      BY <2>1, <2>2, <3>2 DEF PendingOK, KindsKept
    <3> QED BY <3>1, <3>2
  <2> QED BY <2>1, <2>2 DEF PendingOK
<1>2. \A r \in pending' : PendingOK(r)'
  BY <1>1
<1> QED BY <1>2 DEF WiringInvariant

\* Steps that add rows, and Connection rows for the pairs T.
LEMMA Grows ==
  ASSUME WiringInvariant, Leaving' = Leaving, drift \subseteq drift', NEW T,
         \A w \in Rows(row, "wire") : w \in Rows(row', "wire") /\ Pair(row', w) = Pair(row, w),
         \A u, v \in LruKeys :
           Connection({u, v}) \in DOMAIN row' <=>
             Connection({u, v}) \in DOMAIN row \/ ({u, v} \in T /\ IsPair({u, v})),
         \A w \in Rows(row', "wire") \ Rows(row, "wire") :
           w \notin used /\ Pair(row', w) \in T \cup drift',
         \A P \in T \ drift' : \E w \in Rows(row', "wire") \ Leaving : Pair(row', w) = P
  PROVE  RolledUp(row', drift', Leaving')
<1> SUFFICES ASSUME NEW u \in LruKeys, NEW v \in LruKeys, u # v, {u, v} \notin drift'
             PROVE  Connection({u, v}) \in DOMAIN row' <=>
                      \E w \in Rows(row', "wire") \ Leaving : Pair(row', w) = {u, v}
  BY DEF RolledUp
<1> DEFINE P == {u, v}
<1>1. Connection(P) \in DOMAIN row <=> \E w \in Rows(row, "wire") \ Leaving : Pair(row, w) = P
  BY DEF WiringInvariant, RolledUp
<1>2. IsPair(P)
  <2>1. None \notin LruKeys
    <3> SUFFICES ASSUME NEW seed \in Wirings, None \in Lru(seed.row) PROVE FALSE
      BY DEF LruKeys
    <3> QED BY WiringAssumption DEF Lru, Orderly, Valid
  <2> QED BY <2>1 DEF IsPair
<1>3. /\ P \notin drift'
      /\ Connection(P) \in DOMAIN row' <=> Connection(P) \in DOMAIN row \/ (P \in T /\ IsPair(P))
  OBVIOUS
<1> HIDE DEF P
<1>4. ASSUME Connection(P) \in DOMAIN row' PROVE \E w \in Rows(row', "wire") \ Leaving : Pair(row', w) = P
  BY <1>1, <1>2, <1>3, <1>4
<1>5. ASSUME NEW w \in Rows(row', "wire") \ Leaving, Pair(row', w) = P PROVE Connection(P) \in DOMAIN row'
  BY <1>1, <1>2, <1>3, <1>5
<1> QED BY <1>4, <1>5 DEF P

\* Steps that remove the rows G.
LEMMA Shrinks ==
  ASSUME WiringInvariant, NEW G, Trims(row, row', G),
         \A u, v \in LruKeys : u # v /\ {u, v} \notin drift' =>
           (Connection({u, v}) \in DOMAIN row \ G <=>
              \E w \in (Rows(row, "wire") \ G) \ Leaving' : Pair(row, w) = {u, v})
  PROVE  RolledUp(row', drift', Leaving')
<1>1. Rows(row', "wire") = Rows(row, "wire") \ G
  BY DEF Trims, Rows
<1>2. DOMAIN row' = DOMAIN row \ G /\ \A w \in Rows(row', "wire") : Pair(row', w) = Pair(row, w)
  BY DEF Trims
<1> QED BY <1>1, <1>2 DEF RolledUp

LEMMA TrimsKinds ==
  ASSUME WiringInvariant, NEW G, Trims(row, row', G)
  PROVE  /\ Orderly(row') /\ KindsKept(row, row')
         /\ DOMAIN row' \cap (Wires \cup Harnesses) \subseteq used
BY DEF Trims, KindsKept, WiringInvariant

\* No foreign key names a wire or a Connection row.
LEMMA NeverHeld ==
  ASSUME NEW db, Orderly(db), NEW G,
         \A x \in G : x \in DOMAIN db /\ db[x].kind \in {"connection", "wire"}
  PROVE  ~Held(db, G)
<1> SUFFICES ASSUME NEW x \in DOMAIN db, NEW c \in DOMAIN Keys[db[x].kind], db[x][c] \in G
             PROVE  FALSE
  BY DEF Held
<1>1. /\ db[x].kind \in Kinds
      /\ Refers(db, db[x][c], Targets[db[x].kind][c])
      /\ db[x][c] # None
  BY KindsOfRows DEF Orderly, Valid, ValidRow
<1>2. Targets[db[x].kind][c] \in {"connection", "wire"}
  BY <1>1 DEF Refers
<1>3. <<db[x].kind, c, Keys[db[x].kind][c], Targets[db[x].kind][c]>> \in ForeignKeys
  BY <1>1, ListedKeys
<1> QED BY <1>2, <1>3 DEF ForeignKeys

\* The key of a wire's pair is one of a Connection row.
LEMMA PairKeys ==
  ASSUME NEW db, Orderly(db), NEW w \in Rows(db, "wire")
  PROVE  /\ Connection(Pair(db, w)) \in Rollups
         /\ \A x \in Unjoined(db, w) : x \in DOMAIN db /\ db[x].kind = "connection"
<1>1. {db[w].from, db[w].to} \subseteq Rows(db, "pin")
  BY OrderlyRows DEF Rows
<1>2. PICK u, v : u = UnitAt(db, db[w].from) /\ v = UnitAt(db, db[w].to)
  OBVIOUS
<1>3. u \in LruKeys \cup {None} /\ v \in LruKeys \cup {None}
  BY <1>1, <1>2, UnitsOfPins
<1>4. Pair(db, w) = {u, v}
  BY <1>2 DEF Pair
<1>5. \A y, z \in LruKeys \cup {None} : Connection({y, z}) \in Rollups
  BY DEF Rollups, Connection
<1>6. Connection({u, v}) \in Rollups
  BY <1>3, <1>5
<1>7. Connection(Pair(db, w)) \in Rollups
  BY <1>4, <1>6
<1>8. ASSUME NEW x \in Unjoined(db, w) PROVE x \in DOMAIN db /\ db[x].kind = "connection"
  <2>1. x \in Rollups /\ x \in DOMAIN db
    BY <1>7 DEF Unjoined
  <2> QED BY <2>1 DEF Orderly, OfKind
<1> QED BY <1>7, <1>8
LEMMA ConnectionRows ==
  ASSUME NEW db, Orderly(db), NEW u \in LruKeys, NEW v \in LruKeys
  PROVE  Connection({u, v}) \in DOMAIN db <=> Connection({u, v}) \in Rows(db, "connection")
<1>1. \A y, z \in LruKeys \cup {None} : Connection({y, z}) \in Rollups
  BY DEF Rollups, Connection
<1>2. Connection({u, v}) \in Rollups
  BY <1>1
<1> QED BY <1>2 DEF Orderly, OfKind, Rows

\* Steps that leave wires and Connection rows as they are.
LEMMA Rearranged ==
  ASSUME WiringInvariant, Rearranges(row, row'), UNCHANGED <<pending, drift>>, used \subseteq used',
         DOMAIN row' \cap (Wires \cup Harnesses) \subseteq used'
  PROVE  WiringInvariant'
<1>1. /\ Orderly(row) /\ Orderly(row') /\ KindsKept(row, row') /\ Leaving' = Leaving
      /\ Rows(row', "wire") = Rows(row, "wire") /\ Rows(row', "connection") = Rows(row, "connection")
      /\ \A w \in Rows(row, "wire") : Pair(row', w) = Pair(row, w)
  BY DEF WiringInvariant, Rearranges, Leaving
<1>2. \A u, v \in LruKeys : Connection({u, v}) \in DOMAIN row' <=> Connection({u, v}) \in DOMAIN row
  BY <1>1, ConnectionRows
<1>3. RolledUp(row', drift', Leaving')
  BY <1>1, <1>2 DEF RolledUp, WiringInvariant
<1> QED BY <1>1, <1>3, InvariantKept

LEMMA CreateHarnessStep ==
  ASSUME WiringInvariant, NEW h \in Harnesses, CreateHarness(h)
  PROVE  WiringInvariant'
<1>1. PICK c, d : /\ c \in LruConnectors /\ d \in LruConnectors
                  /\ Creates([x \in {h} |-> HarnessRow(c, d)])
  BY DEF CreateHarness
<1>2. PICK v, new : v = HarnessRow(c, d) /\ new = [x \in {h} |-> v]
  OBVIOUS
<1>3. row' = Insert(row, new) /\ used' = used \cup DOMAIN new /\ UNCHANGED <<pending, drift>>
  BY <1>1, <1>2 DEF Creates, CreateHarness
<1>4. DOMAIN new = {h} /\ new[h] = v /\ Orderly(row)
  BY <1>2 DEF WiringInvariant
<1>5. /\ {c, d} \subseteq Rows(row, "connector") /\ row[c].unit # None /\ row[d].unit # None
      /\ v = [kind |-> "harness", fromUnit |-> row[c].unit, fromConnector |-> c,
              toUnit |-> row[d].unit, toConnector |-> d]
  BY <1>1, <1>2 DEF LruConnectors, HarnessRow
<1>6. Plugs(row, new, h)
  BY <1>4, <1>5, HarnessAdded
<1>7. Extends(row, row', new)
  BY <1>3, <1>4, <1>6, Extended
<1>8. Rearranges(row, row')
  <2>1. \A x \in DOMAIN new : x \in Built /\ new[x].kind \notin {"wire", "connection", "unit"}
    BY <1>4, <1>5 DEF Built
  <2> QED BY <1>4, <1>7, <2>1, ExtendsQuietly
<1>9. DOMAIN row' \cap (Wires \cup Harnesses) \subseteq used'
  BY <1>3, <1>7 DEF WiringInvariant, Extends
<1> QED BY <1>3, <1>8, <1>9, Rearranged

LEMMA CreateHarnessEndpointStep ==
  ASSUME WiringInvariant, NEW h, CreateHarnessEndpoint(h)
  PROVE  WiringInvariant'
<1>1. PICK c \in LruConnectors :
        /\ row' = WithEndpoint(row, h, c)
        /\ used' = used \cup (DOMAIN row' \cap (Harnesses \cup Wires))
  BY DEF CreateHarnessEndpoint
<1>2. Rearranges(row, row')
  BY <1>1, EndpointAdded DEF CreateHarnessEndpoint, LruConnectors, WiringInvariant
<1> QED BY <1>1, <1>2, Rearranged DEF CreateHarnessEndpoint

LEMMA BatchCreateWiresStep ==
  ASSUME WiringInvariant, NEW h, NEW w \in Wires, BatchCreateWires(h, w)
  PROVE  WiringInvariant'
<1>1. PICK p, q, number, P, new, mid :
        /\ p \in Rows(row, "pin") /\ q \in Rows(row, "pin")
        /\ P = {UnitAt(row, p), UnitAt(row, q)}
        /\ new = [x \in {w} |-> WireRow(row, h, p, q, number)]
        /\ mid = Insert(row, new) /\ row' = Upserts(mid, {P})
        /\ used' = used \cup {w}
  BY DEF BatchCreateWires, UpsertConnection
<1>2. /\ h \in Rows(row, "harness") /\ w \notin used /\ UNCHANGED <<pending, drift>>
      /\ Orderly(row) /\ w \notin DOMAIN row
  BY DEF BatchCreateWires, New, WiringInvariant
<1>3. /\ Extends(row, mid, new) /\ KindsKept(row, mid)
      /\ Rows(mid, "wire") = Rows(row, "wire") \cup {w}
      /\ Rows(mid, "connection") = Rows(row, "connection") /\ Rows(mid, "unit") = Rows(row, "unit")
      /\ \A x \in Rows(row, "wire") : Pair(mid, x) = Pair(row, x)
      /\ Pair(mid, w) = P
  BY <1>1, <1>2, OneWireMore
<1>4. Orderly(mid) /\ DOMAIN mid = DOMAIN row \cup {w}
  BY <1>1, <1>3 DEF Extends
<1>5. ASSUME IsPair(P) PROVE \E u, v \in Rows(mid, "unit") : u # v /\ P = {u, v}
  <2>1. PICK u, v : u = UnitAt(row, p) /\ v = UnitAt(row, q)
    OBVIOUS
  <2>2. P = {u, v} /\ u # None /\ v # None /\ u # v
    BY <1>1, <1>5, <2>1 DEF IsPair
  <2>3. u \in Rows(mid, "unit") /\ v \in Rows(mid, "unit")
    BY <1>1, <1>2, <1>3, <2>1, <2>2, UnitsOfPins
  <2> QED BY <2>2, <2>3
<1>6. /\ Orderly(row') /\ KindsKept(mid, row')
      /\ Rows(row', "wire") = Rows(mid, "wire")
      /\ DOMAIN row' \cap (Wires \cup Harnesses) = DOMAIN mid \cap (Wires \cup Harnesses)
      /\ \A x \in Rows(mid, "wire") : Pair(row', x) = Pair(mid, x)
      /\ \A Q : Connection(Q) \in DOMAIN row' <=>
                Connection(Q) \in DOMAIN mid \/ (Q \in {P} /\ IsPair(Q))
  <2>1. PICK T : T = {P}
    OBVIOUS
  <2>2. \A Q \in T : IsPair(Q) => \E u, v \in Rows(mid, "unit") : u # v /\ Q = {u, v}
    BY <1>5, <2>1
  <2>3. row' = Upserts(mid, T)
    BY <1>1, <2>1
  <2> QED BY <1>4, <2>1, <2>2, <2>3, Upserted
<1>7. \A u, v \in LruKeys : Connection({u, v}) \in DOMAIN mid <=> Connection({u, v}) \in DOMAIN row
  BY <1>2, <1>3, <1>4, ConnectionRows
<1>8. w \notin Leaving /\ Leaving' = Leaving
  BY <1>2 DEF WiringInvariant, PendingOK, Leaving
<1>9. RolledUp(row', drift', Leaving')
  <2>1. \A x \in Rows(row, "wire") : x \in Rows(row', "wire") /\ Pair(row', x) = Pair(row, x)
    BY <1>3, <1>6
  <2>2. \A u, v \in LruKeys :
          Connection({u, v}) \in DOMAIN row' <=>
            Connection({u, v}) \in DOMAIN row \/ ({u, v} \in {P} /\ IsPair({u, v}))
    BY <1>6, <1>7
  <2>3. \A x \in Rows(row', "wire") \ Rows(row, "wire") :
          x \notin used /\ Pair(row', x) \in {P} \cup drift'
    BY <1>2, <1>3, <1>6
  <2>4. \A Q \in {P} \ drift' : \E x \in Rows(row', "wire") \ Leaving : Pair(row', x) = Q
    BY <1>3, <1>6, <1>8
  <2> HIDE DEF Leaving
  <2> QED BY <1>2, <1>8, <2>1, <2>2, <2>3, <2>4, Grows
<1>10. KindsKept(row, row')
  BY <1>3, <1>6 DEF KindsKept
<1>11. DOMAIN row' \cap (Wires \cup Harnesses) \subseteq used'
  BY <1>1, <1>4, <1>6 DEF WiringInvariant
<1> QED BY <1>1, <1>2, <1>6, <1>9, <1>10, <1>11, InvariantKept

-----------------------------------------------------------------------------
(* Batches                                                                   *)

LEMMA RunStep ==
  ASSUME WiringInvariant, NEW batch, Len(batch) \in Nat, NEW decision,
         \A i \in 1 .. Len(batch) : {batch[i][1], batch[i][2]} \subseteq Rows(row, "pin"),
         Run(batch, decision)
  PROVE  WiringInvariant'
<1>1. PICK st : st = Grown(batch, decision)
  OBVIOUS
<1>2. /\ st.status = "ok" /\ row' = Upserts(st.db, st.touched)
      /\ used' = used \cup (DOMAIN row' \cap (Harnesses \cup Wires))
      /\ drift' = drift \cup st.skipped /\ pending' = pending
  BY <1>1 DEF Run, Drifts
<1>3. Progress(st)
  BY <1>1, BatchDone
<1>4. /\ Orderly(st.db) /\ KindsKept(row, st.db)
      /\ Rows(st.db, "connection") = Rows(row, "connection")
      /\ \A w \in Rows(row, "wire") : w \in Rows(st.db, "wire") /\ Pair(st.db, w) = Pair(row, w)
      /\ \A w \in Rows(st.db, "wire") \ Rows(row, "wire") : w \notin used /\ Pair(st.db, w) \in st.touched
      /\ \A P \in st.touched : \E u, v \in Rows(st.db, "unit") : u # v /\ P = {u, v}
      /\ \A P \in st.touched \ st.skipped :
           \E w \in Rows(st.db, "wire") \ Leaving : Pair(st.db, w) = P
  BY <1>2, <1>3 DEF Progress
<1>5. PICK db, T : db = st.db /\ T = st.touched
  OBVIOUS
<1>6. /\ Orderly(row') /\ KindsKept(db, row')
      /\ Rows(row', "wire") = Rows(db, "wire")
      /\ \A x \in Rows(db, "wire") : Pair(row', x) = Pair(db, x)
      /\ \A Q : Connection(Q) \in DOMAIN row' <=>
                Connection(Q) \in DOMAIN db \/ (Q \in T /\ IsPair(Q))
  BY <1>2, <1>4, <1>5, Upserted
<1>7. \A u, v \in LruKeys : Connection({u, v}) \in DOMAIN db <=> Connection({u, v}) \in DOMAIN row
  BY <1>4, <1>5, ConnectionRows DEF WiringInvariant
<1>8. Leaving' = Leaving
  BY <1>2 DEF Leaving
<1>9. RolledUp(row', drift', Leaving')
  <2> HIDE DEF Leaving
  <2>1. \A x \in Rows(row, "wire") : x \in Rows(row', "wire") /\ Pair(row', x) = Pair(row, x)
    BY <1>4, <1>5, <1>6
  <2>2. \A u, v \in LruKeys :
          Connection({u, v}) \in DOMAIN row' <=>
            Connection({u, v}) \in DOMAIN row \/ ({u, v} \in T /\ IsPair({u, v}))
    BY <1>6, <1>7
  <2>3. \A x \in Rows(row', "wire") \ Rows(row, "wire") :
          x \notin used /\ Pair(row', x) \in T \cup drift'
    BY <1>4, <1>5, <1>6
  <2>4. \A Q \in T \ drift' : \E x \in Rows(row', "wire") \ Leaving : Pair(row', x) = Q
    BY <1>2, <1>4, <1>5, <1>6
  <2> QED BY <1>2, <1>8, <2>1, <2>2, <2>3, <2>4, Grows
<1>10. KindsKept(row, row')
  BY <1>4, <1>5, <1>6 DEF KindsKept
<1> QED BY <1>2, <1>6, <1>9, <1>10, InvariantKept

LEMMA AutoGrowStep ==
  ASSUME WiringInvariant, NEW batch \in Batches, AutoGrow(batch)
  PROVE  WiringInvariant'
<1>1. batch \in Seq(Pins \X Pins)
  BY WiringAssumption
<1>2. Len(batch) \in Nat /\ DOMAIN batch = 1 .. Len(batch)
  BY <1>1
<1>3. PICK decision : Run(batch, decision)
  BY DEF AutoGrow
<1>4. \A i \in 1 .. Len(batch) : {batch[i][1], batch[i][2]} \subseteq Rows(row, "pin")
  BY <1>2 DEF AutoGrow
<1> QED BY <1>2, <1>3, <1>4, RunStep

\* A finite set as a sequence.
LEMMA Listed ==
  ASSUME NEW S, IsFiniteSet(S)
  PROVE  Len(SetToSeq(S)) \in Nat /\ \A i \in 1 .. Len(SetToSeq(S)) : SetToSeq(S)[i] \in S
<1>1. PICK n \in Nat : n = Cardinality(S) /\ ExistsBijection(1 .. n, S)
  BY FS_CardinalityType
<1>2. PICK f : f \in [1 .. n -> S] /\ \A a, b \in DOMAIN f : f[a] = f[b] => a = b
  BY <1>1, Zenon DEF ExistsBijection, Bijection, Injection, Surjection, IsInjective
<1> DEFINE g == SetToSeq(S)
<1>3. g = CHOOSE h \in [1 .. n -> S] : IsInjective(h)
  BY <1>1 DEF SetToSeq
<1>4. \E h \in [1 .. n -> S] : IsInjective(h)
  BY <1>2 DEF IsInjective
<1>5. g \in [1 .. n -> S]
  BY <1>3, <1>4
<1> HIDE DEF g
<1>6. Len(g) = n
  BY <1>1, <1>5
<1> QED BY <1>1, <1>5, <1>6 DEF g

\* Every strategy pairs free pins of the two connectors.
LEMMA MatchesFit ==
  ASSUME NEW c, NEW d, NEW strategy, NEW from, NEW to, NEW pairs \in Matched(c, d, strategy, from, to)
  PROVE  pairs \subseteq from \X to
<1>1. CASE strategy = "by_signal"
  BY <1>1 DEF Matched, BySignal
<1>2. CASE strategy = "by_peer_lru"
  BY <1>2 DEF Matched, ByPeer
<1>3. CASE strategy = "straight_through"
  BY <1>3 DEF Matched, ByNumber
<1>4. CASE strategy \notin {"by_signal", "by_peer_lru", "straight_through"}
  BY <1>4 DEF Matched, ByNumber
<1> QED BY <1>1, <1>2, <1>3, <1>4

LEMMA AutoWireHarnessStep ==
  ASSUME WiringInvariant, NEW h, NEW mapping, AutoWireHarness(h, mapping)
  PROVE  WiringInvariant'
<1>1. PICK c, d, strategy, pairs :
        /\ c = row[h].fromConnector /\ d = row[h].toConnector
        /\ pairs \in Matched(c, d, strategy, FreeFrom(h), FreeTo(h))
        /\ Run(SetToSeq(pairs), "none")
  BY DEF AutoWireHarness
<1>2. /\ {c, d} \subseteq Lru(row) /\ {c, d} \subseteq Rows(row, "connector")
  <2>1. h \in DOMAIN row /\ row[h].kind = "harness" /\ Orderly(row)
    BY DEF AutoWireHarness, Rows, WiringInvariant
  <2>2. {c, d} \subseteq Lru(row)
    BY <2>1, <1>1 DEF Orderly
  <2> QED BY <2>1, <2>2, <1>1, OrderlyRows
<1>3. PinsOf(row, c) \cup PinsOf(row, d) \subseteq Lru(row)
  BY <1>2 DEF PinsOf, Where, Rows, Lru, UnitAt
<1>4. FreeFrom(h) \subseteq PinsOf(row, c) /\ FreeTo(h) \subseteq PinsOf(row, d)
  BY <1>1 DEF FreeFrom, FreeTo
<1>5. pairs \subseteq LruKeys \X LruKeys
  BY <1>1, <1>3, <1>4, MatchesFit DEF WiringInvariant, Orderly
<1>6. IsFiniteSet(pairs)
  BY <1>5, WiringAssumption, FS_Product, FS_Subset
<1>7. PICK batch : batch = SetToSeq(pairs)
  OBVIOUS
<1>8. Len(batch) \in Nat /\ \A i \in 1 .. Len(batch) : batch[i] \in pairs
  BY <1>6, <1>7, Listed
<1>9. \A x \in pairs : {x[1], x[2]} \subseteq Rows(row, "pin")
  <2>1. pairs \subseteq FreeFrom(h) \X FreeTo(h)
    BY <1>1, MatchesFit
  <2>2. PinsOf(row, c) \cup PinsOf(row, d) \subseteq Rows(row, "pin")
    BY DEF PinsOf, Where
  <2> QED BY <2>1, <2>2, <1>4
<1>10. \A i \in 1 .. Len(batch) : {batch[i][1], batch[i][2]} \subseteq Rows(row, "pin")
  BY <1>8, <1>9
<1> QED BY <1>1, <1>7, <1>8, <1>10, RunStep

-----------------------------------------------------------------------------
(* The connection builder                                                    *)

LEMMA CbCommitStep ==
  ASSUME WiringInvariant, NEW i, NEW h \in Harnesses, CbCommit(i, h)
  PROVE  WiringInvariant'
<1>0. PICK P : P = {row[i].sourceUnit, row[i].targetUnit}
  OBVIOUS
<1>1. PICK p \in Rows(row, "pin"), q \in Rows(row, "pin"), w \in New(Wires) :
        /\ UnitAt(row, p) = row[i].sourceUnit /\ UnitAt(row, q) = row[i].targetUnit
        /\ Creates([x \in {h, w} |->
             IF x = h THEN HarnessRow(row[p].connector, row[q].connector)
             ELSE [kind |-> "wire", harness |-> h, from |-> p, to |-> q,
                   fromMate |-> None, toMate |-> None, number |-> <<"W%04d", 1>>]])
        /\ drift' = drift \cup {P}
  BY <1>0 DEF CbCommit
<1>2. PICK c, d, v, y : /\ c = row[p].connector /\ d = row[q].connector /\ v = HarnessRow(c, d)
                        /\ y = [kind |-> "wire", harness |-> h, from |-> p, to |-> q,
                                fromMate |-> None, toMate |-> None, number |-> <<"W%04d", 1>>]
  OBVIOUS
<1>3. PICK new : new = [x \in {h, w} |-> IF x = h THEN v ELSE y]
  OBVIOUS
<1>4. /\ row' = Insert(row, new) /\ used' = used \cup DOMAIN new /\ pending' = pending
      /\ Orderly(row)
  BY <1>1, <1>2, <1>3 DEF Creates, WiringInvariant
<1>5. h # w /\ h # None /\ w \in Wires /\ w \notin used /\ w \notin DOMAIN row
  BY <1>1, WiringAssumption DEF New, WiringInvariant
<1>6. DOMAIN new = {h, w} /\ new[h] = v /\ new[w] = y
  BY <1>3, <1>5
<1>7. /\ {c, d} \subseteq Rows(row, "connector") /\ row[c].unit # None /\ row[d].unit # None
      /\ UnitAt(row, p) = row[c].unit /\ UnitAt(row, q) = row[d].unit
  <2>1. p \in DOMAIN row /\ row[p].kind = "pin" /\ q \in DOMAIN row /\ row[q].kind = "pin"
    BY <1>1 DEF Rows
  <2>2. {c, d} \subseteq Rows(row, "connector")
    BY <2>1, <1>2, <1>4, OrderlyRows
  <2> QED BY <2>2, <1>1, <1>2 DEF CbCommit, UnitAt
<1>8. v = [kind |-> "harness", fromUnit |-> row[c].unit, fromConnector |-> c,
           toUnit |-> row[d].unit, toConnector |-> d]
  BY <1>2 DEF HarnessRow
<1>9. Plugs(row, new, h)
  BY <1>4, <1>6, <1>7, <1>8, HarnessAdded
<1>10. Plugs(row, new, w)
  <2>1. new[h].kind = "harness"
    BY <1>6, <1>8
  <2> QED BY <2>1, <1>1, <1>2, <1>4, <1>5, <1>6, WireAdded
<1>11. Extends(row, row', new)
  BY <1>4, <1>6, <1>9, <1>10, Extended
<1>12. /\ DOMAIN row' = DOMAIN row \cup {h, w} /\ row'[h] = v /\ row'[w] = y
       /\ \A x \in DOMAIN row \ {h, w} : row'[x] = row[x]
       /\ \A x \in Rows(row, "pin") : UnitAt(row', x) = UnitAt(row, x)
       /\ \A x \in DOMAIN row : row'[x].kind = row[x].kind
  BY <1>6, <1>11 DEF Extends
<1>13. v.kind = "harness" /\ y.kind = "wire" /\ y.from = p /\ y.to = q
  BY <1>2, <1>8
<1>14. Rows(row', "wire") = Rows(row, "wire") \cup {w} /\ Rows(row', "connection") = Rows(row, "connection")
  BY <1>5, <1>12, <1>13 DEF Rows
<1>15. \A x \in Rows(row, "wire") : x \in Rows(row', "wire") /\ Pair(row', x) = Pair(row, x)
  <2>1. \A x \in Rows(row, "wire") : x \notin DOMAIN new
    BY <1>5, <1>6, <1>12, <1>13 DEF Rows
  <2> QED BY <2>1, <1>4, <1>11, PairsKept
<1>16. Pair(row', w) = P
  BY <1>0, <1>1, <1>12, <1>13 DEF Pair
<1>17. Orderly(row') /\ Leaving' = Leaving /\ KindsKept(row, row')
  BY <1>4, <1>5, <1>11, <1>12 DEF Extends, Leaving, KindsKept, Built
<1>18. \A u, v1 \in LruKeys : Connection({u, v1}) \in DOMAIN row' <=> Connection({u, v1}) \in DOMAIN row
  BY <1>4, <1>14, <1>17, ConnectionRows
<1>19. RolledUp(row', drift', Leaving')
  <2> HIDE DEF Leaving
  <2>1. PICK T : T = {}
    OBVIOUS
  <2>2. \A u, v1 \in LruKeys :
          Connection({u, v1}) \in DOMAIN row' <=>
            Connection({u, v1}) \in DOMAIN row \/ ({u, v1} \in T /\ IsPair({u, v1}))
    BY <1>18, <2>1
  <2>3. \A x \in Rows(row', "wire") \ Rows(row, "wire") :
          x \notin used /\ Pair(row', x) \in T \cup drift'
    BY <1>1, <1>5, <1>14, <1>16
  <2>4. drift \subseteq drift' /\ \A Q \in T \ drift' : FALSE
    BY <1>1, <2>1
  <2> QED BY <1>15, <1>17, <2>2, <2>3, <2>4, Grows
<1>20. DOMAIN row' \cap (Wires \cup Harnesses) \subseteq used'
  BY <1>4, <1>6, <1>12 DEF WiringInvariant
<1> QED BY <1>4, <1>17, <1>19, <1>20, InvariantKept

-----------------------------------------------------------------------------
(* Deletions                                                                 *)

LEMMA BeginWireStep ==
  ASSUME WiringInvariant, NEW w \in Wires, NEW force, BeginWire(w, force)
  PROVE  WiringInvariant'
<1>1. PICK P, G, r :
        /\ P = Pair(row, w) /\ G = Unjoined(row, w) /\ ~Held(row, G) /\ row' = Without(row, G)
        /\ r.x = w /\ r.kind = row[w].kind /\ pending' = pending \cup {r} /\ used' = used
        /\ drift' = drift \cup {Q \in {P} : Racing(Q)}
  <2>1. PICK r : r = [x |-> w, kind |-> row[w].kind, force |-> force, seen |-> Wiring(row)]
    OBVIOUS
  <2> QED BY <2>1 DEF BeginWire, Begins, Drifts
<1>2. w \in Rows(row, "wire") /\ Orderly(row)
  BY DEF BeginWire, WiringInvariant
<1>3. Trims(row, row', G)
  BY <1>1, <1>2, Trimmed
<1>4. /\ G \subseteq {Connection(P)} \cap DOMAIN row /\ Connection(P) \notin Wires
      /\ Connection(P) \in DOMAIN row => (Connection(P) \in G <=> Joining(row, P) = {w})
  BY <1>1, <1>2, PairKeys, WiringAssumption DEF Unjoined
<1>5. Leaving' = Leaving \cup {w}
  BY <1>1 DEF Leaving
<1>6. ASSUME NEW x \in Rows(row, "wire") \cap Leaving, Pair(row, x) = P PROVE Racing(P)
  BY <1>6 DEF Leaving, Racing
<1>7. \A x \in Rows(row, "wire") : x \notin G
  BY <1>2, <1>4 DEF Orderly, OfKind, Rows
<1>8. ASSUME NEW u \in LruKeys, NEW v \in LruKeys, u # v, {u, v} \notin drift'
      PROVE  Connection({u, v}) \in DOMAIN row \ G <=>
               \E x \in (Rows(row, "wire") \ G) \ Leaving' : Pair(row, x) = {u, v}
  <2>1. PICK Q : Q = {u, v}
    OBVIOUS
  <2>2. Connection(Q) \in DOMAIN row <=> \E x \in Rows(row, "wire") \ Leaving : Pair(row, x) = Q
    BY <1>1, <1>8, <2>1 DEF WiringInvariant, RolledUp
  <2>3. CASE Q = P
    <3>1. ~Racing(P)
      BY <1>1, <1>8, <2>1, <2>3
    <3>2. Connection(Q) \in DOMAIN row
      BY <1>1, <1>2, <1>6, <2>2, <2>3, <3>1
    <3>3. CASE Joining(row, P) = {w}
      <4>1. Connection(Q) \in G
        BY <1>4, <2>3, <3>2, <3>3
      <4>2. \A x \in Rows(row, "wire") : Pair(row, x) = Q => x = w
        BY <2>3, <3>3 DEF Joining
      <4> QED BY <1>5, <2>1, <4>1, <4>2
    <3>4. CASE Joining(row, P) # {w}
      <4>1. Connection(Q) \notin G
        BY <1>4, <2>3, <3>2, <3>4
      <4>2. PICK x \in Rows(row, "wire") : Pair(row, x) = P /\ x # w
        BY <1>1, <1>2, <3>4 DEF Joining
      <4>3. x \notin Leaving'
        BY <1>5, <1>6, <3>1, <4>2
      <4> QED BY <1>7, <2>1, <2>3, <3>2, <4>1, <4>2, <4>3
    <3> QED BY <3>3, <3>4
  <2>4. CASE Q # P
    <3>1. Connection(Q) \notin G
      BY <1>4, <2>4 DEF Connection
    <3>2. \A x \in Rows(row, "wire") : Pair(row, x) = Q => x # w
      BY <1>1, <2>4
    <3> QED BY <1>5, <1>7, <2>1, <2>2, <3>1, <3>2
  <2> QED BY <2>3, <2>4
<1>9. RolledUp(row', drift', Leaving')
  <2>1. \A u, v \in LruKeys : u # v /\ {u, v} \notin drift' =>
          (Connection({u, v}) \in DOMAIN row \ G <=>
             \E x \in (Rows(row, "wire") \ G) \ Leaving' : Pair(row, x) = {u, v})
    BY <1>8
  <2> QED BY <1>3, <2>1, Shrinks
<1>10. PendingOK(r)'
  <2>1. r.kind = "wire" /\ OfKind(w, "wire") /\ w \in used
    BY <1>1, <1>2 DEF Rows, Orderly, WiringInvariant
  <2>2. w \in DOMAIN row' => row'[w].kind = "wire"
    BY <1>2, <1>3 DEF Trims, Rows
  <2> QED BY <1>1, <2>1, <2>2 DEF PendingOK
<1> QED BY <1>1, <1>3, <1>9, <1>10, TrimsKinds, InvariantKept

\* No Connection row goes, and no wire that still counted, but for pairs that drift.
LEMMA Swept ==
  ASSUME WiringInvariant, NEW G, Trims(row, row', G), drift \subseteq drift',
         \A x \in G : x \in DOMAIN row => row[x].kind # "connection",
         \A w \in Rows(row, "wire") : Pair(row, w) \notin drift' =>
           (w \notin G /\ w \notin Leaving' <=> w \notin Leaving)
  PROVE  RolledUp(row', drift', Leaving')
<1>1. ASSUME NEW u \in LruKeys, NEW v \in LruKeys, u # v, {u, v} \notin drift'
      PROVE  Connection({u, v}) \in DOMAIN row \ G <=>
               \E x \in (Rows(row, "wire") \ G) \ Leaving' : Pair(row, x) = {u, v}
  <2>1. PICK Q : Q = {u, v}
    OBVIOUS
  <2>2. Connection(Q) \in DOMAIN row <=> \E x \in Rows(row, "wire") \ Leaving : Pair(row, x) = Q
    BY <1>1, <2>1 DEF WiringInvariant, RolledUp
  <2>3. Connection(Q) \in DOMAIN row => Connection(Q) \notin G
    <3>1. Connection({u, v}) \in DOMAIN row => Connection({u, v}) \in Rows(row, "connection")
      BY ConnectionRows DEF WiringInvariant
    <3>2. Connection({u, v}) \in DOMAIN row => Connection({u, v}) \notin G
      BY <3>1 DEF Rows
    <3> QED BY <2>1, <3>2
  <2>4. \A x \in Rows(row, "wire") : Pair(row, x) = Q =>
          (x \notin G /\ x \notin Leaving' <=> x \notin Leaving)
    BY <1>1, <2>1
  <2> QED BY <2>1, <2>2, <2>3, <2>4
<1>2. \A u, v \in LruKeys : u # v /\ {u, v} \notin drift' =>
        (Connection({u, v}) \in DOMAIN row \ G <=>
           \E x \in (Rows(row, "wire") \ G) \ Leaving' : Pair(row, x) = {u, v})
  BY <1>1
<1> QED BY <1>2, Shrinks

LEMMA Stayed ==
  ASSUME WiringInvariant, UNCHANGED <<row, used>>, drift \subseteq drift',
         \A r \in pending' \ pending : PendingOK(r)',
         \A w \in Rows(row, "wire") : w \in Leaving' <=> w \in Leaving
  PROVE  WiringInvariant'
<1>1. RolledUp(row', drift', Leaving')
  <2>1. \A u, v \in LruKeys : u # v /\ {u, v} \notin drift' =>
          (Connection({u, v}) \in DOMAIN row <=>
             \E w \in Rows(row, "wire") \ Leaving' : Pair(row, w) = {u, v})
    BY DEF WiringInvariant, RolledUp
  <2> QED BY <2>1 DEF RolledUp
<1>2. Orderly(row') /\ KindsKept(row, row') /\ DOMAIN row' \cap (Wires \cup Harnesses) \subseteq used'
  BY DEF WiringInvariant, KindsKept
<1> QED BY <1>1, <1>2, InvariantKept

LEMMA FinishWireStep ==
  ASSUME WiringInvariant, NEW r \in pending, r.kind = "wire", FinishWire(r)
  PROVE  WiringInvariant'
<1>1. /\ pending' = pending \ {r} /\ UNCHANGED <<used, drift>>
      /\ \/ ~Held(row, {r.x}) /\ row' = Without(row, {r.x}) /\ r.x \in DOMAIN row
         \/ row' = row /\ (r.x \notin DOMAIN row \/ Held(row, {r.x}))
  BY DEF FinishWire, Finishes
<1>2. OfKind(r.x, "wire") /\ (r.x \in DOMAIN row => row[r.x].kind = "wire") /\ Orderly(row)
  BY DEF WiringInvariant, PendingOK
<1>3. r.x \in Leaving /\ Leaving' \subseteq Leaving /\ Leaving \ {r.x} \subseteq Leaving'
  BY <1>1 DEF Leaving
<1>4. CASE row' = Without(row, {r.x}) /\ ~Held(row, {r.x})
  <2>1. Trims(row, row', {r.x})
    BY <1>2, <1>4, Trimmed
  <2>2. PICK G : G = {r.x}
    OBVIOUS
  <2>3. \A w \in Rows(row, "wire") : Pair(row, w) \notin drift' =>
          (w \notin G /\ w \notin Leaving' <=> w \notin Leaving)
    BY <1>3, <2>2
  <2>4. \A x \in G : x \in DOMAIN row => row[x].kind # "connection"
    BY <1>2, <2>2
  <2>5. Trims(row, row', G) /\ drift \subseteq drift'
    BY <1>1, <2>1, <2>2
  <2>6. RolledUp(row', drift', Leaving')
    BY <2>3, <2>4, <2>5, Swept
  <2> QED BY <1>1, <2>5, <2>6, TrimsKinds, InvariantKept
<1>5. CASE row' = row /\ (r.x \notin DOMAIN row \/ Held(row, {r.x}))
  <2>1. r.x \notin DOMAIN row
    <3> SUFFICES ASSUME r.x \in DOMAIN row PROVE ~Held(row, {r.x})
      BY <1>5
    <3>1. PICK G : G = {r.x}
      OBVIOUS
    <3>2. \A x \in G : x \in DOMAIN row /\ row[x].kind \in {"connection", "wire"}
      BY <1>2, <3>1
    <3> QED BY <1>2, <3>1, <3>2, NeverHeld
  <2>2. \A w \in Rows(row, "wire") : w \in Leaving' <=> w \in Leaving
    BY <1>3, <2>1 DEF Rows
  <2> QED BY <1>1, <1>5, <2>2, Stayed
<1> QED BY <1>1, <1>4, <1>5

LEMMA BeginHarnessStep ==
  ASSUME WiringInvariant, NEW h \in Harnesses, NEW force, BeginHarness(h, force)
  PROVE  WiringInvariant'
<1>1. PICK G, r :
        /\ G = WiresOf(row, h) /\ ~Held(row, G) /\ row' = Without(row, G)
        /\ r.x = h /\ r.kind = row[h].kind /\ pending' = pending \cup {r} /\ used' = used
        /\ drift' = drift \cup {Pair(row, w) : w \in WiresOf(row, h)}
  <2>1. PICK r : r = [x |-> h, kind |-> row[h].kind, force |-> force, seen |-> Wiring(row)]
    OBVIOUS
  <2> QED BY <2>1 DEF BeginHarness, Begins, Drifts
<1>2. h \in Rows(row, "harness") /\ Orderly(row)
  BY DEF BeginHarness, WiringInvariant
<1>3. Trims(row, row', G)
  BY <1>1, <1>2, Trimmed
<1>4. Leaving' = Leaving \cup {h}
  BY <1>1 DEF Leaving
<1>5. \A x \in G : x \in DOMAIN row => row[x].kind # "connection"
  BY <1>1 DEF WiresOf, Where, Rows
<1>6. \A w \in Rows(row, "wire") : Pair(row, w) \notin drift' =>
        (w \notin G /\ w \notin Leaving' <=> w \notin Leaving)
  <2>1. h \notin Rows(row, "wire")
    BY <1>2 DEF Rows
  <2> QED BY <1>1, <1>4, <2>1
<1>7. RolledUp(row', drift', Leaving')
  BY <1>1, <1>3, <1>5, <1>6, Swept
<1>8. PendingOK(r)'
  <2>1. r.kind = "harness" /\ OfKind(h, "harness") /\ h \in used
    BY <1>1, <1>2 DEF Rows, Orderly, WiringInvariant
  <2>2. h \in DOMAIN row' => row'[h].kind = "harness"
    BY <1>2, <1>3 DEF Trims, Rows
  <2> QED BY <1>1, <2>1, <2>2 DEF PendingOK
<1> QED BY <1>1, <1>3, <1>7, <1>8, TrimsKinds, InvariantKept

LEMMA FinishHarnessStep ==
  ASSUME WiringInvariant, NEW r \in pending, r.kind = "harness", FinishHarness(r)
  PROVE  WiringInvariant'
<1>1. PICK h, G : h = r.x /\ G = Falls(row, {h}, Orm)
  OBVIOUS
<1>2. /\ pending' = pending \ {r} /\ used' = used
      /\ drift' = drift \cup {Pair(row, w) : w \in WiresOf(row, h)}
      /\ \/ ~Held(row, G) /\ row' = Without(row, G) /\ h \in DOMAIN row
         \/ row' = row
  BY <1>1 DEF FinishHarness, Finishes, Drifts
<1>3. OfKind(h, "harness") /\ (h \in DOMAIN row => row[h].kind = "harness") /\ Orderly(row)
  BY <1>1 DEF WiringInvariant, PendingOK
<1>4. \A w \in Rows(row, "wire") : w \in Leaving' <=> w \in Leaving
  <2>1. Leaving' \subseteq Leaving /\ Leaving \ {h} \subseteq Leaving'
    BY <1>1, <1>2 DEF Leaving
  <2>2. h \notin Rows(row, "wire")
    BY <1>3 DEF Rows
  <2> QED BY <2>1, <2>2
<1>5. CASE ~Held(row, G) /\ row' = Without(row, G) /\ h \in DOMAIN row
  <2>1. Trims(row, row', G)
    BY <1>3, <1>5, Trimmed
  <2> DEFINE T == {h} \cup WiresOf(row, h) \cup Rows(row, "endpoint")
  <2>2. ASSUME NEW x \in DOMAIN row, NEW c \in DOMAIN Keys[row[x].kind],
               row[x][c] \in T, Keys[row[x].kind][c] \in Orm
        PROVE  x \in T
    <3>1. /\ row[x].kind \in Kinds /\ Refers(row, row[x][c], Targets[row[x].kind][c])
          /\ <<row[x].kind, c, Keys[row[x].kind][c], Targets[row[x].kind][c]>> \in ForeignKeys
      BY <1>3, KindsOfRows, ListedKeys DEF Orderly, Valid, ValidRow
    <3>2. row[x][c] \in DOMAIN row /\ row[row[x][c]].kind \in {"harness", "wire", "endpoint"}
      BY <1>3, <1>5, <2>2 DEF WiresOf, Where, Rows
    <3>3. row[x][c] # None
      BY <1>3, <3>2 DEF Orderly, Valid
    <3>4. Targets[row[x].kind][c] \in {"harness", "wire", "endpoint"}
      BY <3>1, <3>2, <3>3 DEF Refers
    <3>5. row[x].kind \in {"wire", "endpoint"} /\ c = "harness" /\ Targets[row[x].kind][c] = "harness"
      BY <3>1, <3>4 DEF ForeignKeys
    <3>6. row[x][c] = h
      BY <2>2, <3>1, <3>2, <3>3, <3>5 DEF Refers, WiresOf, Where, Rows
    <3> QED BY <3>5, <3>6 DEF WiresOf, Where, Rows
  <2>3. G \subseteq T
    <3> HIDE DEF T
    <3>1. {h} \subseteq T
      BY DEF T
    <3> QED BY <1>1, <2>2, <3>1, FallsInside
  <2>4. \A x \in G : x \in DOMAIN row => row[x].kind # "connection"
    BY <1>3, <2>3 DEF WiresOf, Where, Rows
  <2>5. \A w \in Rows(row, "wire") : w \in G => w \in WiresOf(row, h)
    BY <1>3, <2>3 DEF Rows
  <2>6. \A w \in Rows(row, "wire") : Pair(row, w) \notin drift' =>
          (w \notin G /\ w \notin Leaving' <=> w \notin Leaving)
    BY <1>2, <1>4, <2>5
  <2>7. RolledUp(row', drift', Leaving')
    BY <1>2, <2>1, <2>4, <2>6, Swept
  <2> QED BY <1>2, <2>1, <2>7, TrimsKinds, InvariantKept
<1>6. CASE row' = row
  BY <1>2, <1>4, <1>6, Stayed
<1> QED BY <1>2, <1>5, <1>6

\* Connectors, pins and what belongs to harnesses go without a Connection row.
LEMMA ConnectorsFall ==
  ASSUME NEW db, Orderly(db), NEW D,
         \A x \in D : x \in DOMAIN db /\ db[x].kind \notin {"unit", "connection"}
  PROVE  \A x \in Falls(db, D, Bulk) : x \in DOMAIN db /\ db[x].kind \notin {"unit", "connection"}
<1> DEFINE T == {x \in DOMAIN db : db[x].kind \notin {"unit", "connection"}}
<1>1. ASSUME NEW x \in DOMAIN db, NEW c \in DOMAIN Keys[db[x].kind],
             db[x][c] \in T, Keys[db[x].kind][c] \in Bulk
      PROVE  x \in T
  <2>1. /\ db[x].kind \in Kinds /\ Refers(db, db[x][c], Targets[db[x].kind][c])
        /\ <<db[x].kind, c, Keys[db[x].kind][c], Targets[db[x].kind][c]>> \in ForeignKeys
    BY KindsOfRows, ListedKeys DEF Orderly, Valid, ValidRow
  <2>2. db[x][c] \in DOMAIN db /\ db[db[x][c]].kind # "unit" /\ db[x][c] # None
    BY <1>1 DEF Orderly, Valid
  <2>3. Targets[db[x].kind][c] # "unit" /\ Keys[db[x].kind][c] = "cascade"
    BY <1>1, <2>1, <2>2 DEF Refers, Bulk
  <2>4. db[x].kind = "endpoint"
    BY <2>1, <2>3 DEF ForeignKeys
  <2> QED BY <2>4
<1>2. D \subseteq T
  OBVIOUS
<1> HIDE DEF T
<1>3. Falls(db, D, Bulk) \subseteq T
  BY <1>1, <1>2, FallsInside
<1> QED BY <1>3 DEF T

LEMMA BeginConnectorStep ==
  ASSUME WiringInvariant, NEW c, NEW force, BeginConnector(c, force),
         drift' = drift \cup Lost
  PROVE  WiringInvariant'
<1>1. PICK G, r :
        /\ G = {} /\ ~Held(row, G) /\ row' = Without(row, G)
        /\ r.x = c /\ r.kind = row[c].kind /\ pending' = pending \cup {r} /\ used' = used
  <2>1. PICK r : r = [x |-> c, kind |-> row[c].kind, force |-> force, seen |-> Wiring(row)]
    OBVIOUS
  <2> QED BY <2>1 DEF BeginConnector, Begins
<1>2. c \in Rows(row, "connector") /\ Orderly(row)
  BY DEF BeginConnector, WiringInvariant
<1>3. Trims(row, row', G)
  BY <1>1, <1>2, Trimmed
<1>4. Leaving' = Leaving \cup {c}
  BY <1>1 DEF Leaving
<1>5. c \notin Rows(row, "wire")
  BY <1>2 DEF Rows
<1>6. RolledUp(row', drift', Leaving')
  BY <1>1, <1>3, <1>4, <1>5, Swept
<1>7. PendingOK(r)'
  <2>1. r.kind = "connector" /\ OfKind(c, "connector") /\ c \notin Wires \cup Harnesses
    BY <1>1, <1>2 DEF Rows, Orderly, OfKind
  <2>2. c \in DOMAIN row' => row'[c].kind = "connector"
    BY <1>2, <1>3 DEF Trims, Rows
  <2> QED BY <1>1, <2>1, <2>2 DEF PendingOK
<1> QED BY <1>1, <1>3, <1>6, <1>7, TrimsKinds, InvariantKept

LEMMA FinishConnectorStep ==
  ASSUME WiringInvariant, NEW r \in pending, r.kind = "connector", FinishConnector(r),
         drift' = drift \cup Lost
  PROVE  WiringInvariant'
<1>1. PICK c, D, G :
        /\ c = r.x /\ G = CascadeDeleteConnector(c) /\ G = Falls(row, D, Bulk)
        /\ D = WiresAt(c) \cup HarnessesAt(c)
               \cup Where(row, "wire", "harness", HarnessesAt(c))
               \cup Where(row, "assignment", "pin", PinsOf(row, c))
               \cup PinsOf(row, c) \cup {c}
  BY DEF CascadeDeleteConnector
<1>2. /\ pending' = pending \ {r} /\ used' = used
      /\ \/ ~Held(row, G) /\ row' = Without(row, G) /\ c \in DOMAIN row
         \/ row' = row
  BY <1>1 DEF FinishConnector, Finishes
<1>3. (c \in DOMAIN row => row[c].kind = "connector") /\ Orderly(row)
  BY <1>1 DEF WiringInvariant, PendingOK
<1>4. \A w \in Rows(row, "wire") : w \in Leaving' <=> w \in Leaving
  <2>1. Leaving' \subseteq Leaving /\ Leaving \ {c} \subseteq Leaving'
    BY <1>1, <1>2 DEF Leaving
  <2>2. c \notin Rows(row, "wire")
    BY <1>3 DEF Rows
  <2> QED BY <2>1, <2>2
<1>5. CASE ~Held(row, G) /\ row' = Without(row, G) /\ c \in DOMAIN row
  <2>1. Trims(row, row', G)
    BY <1>3, <1>5, Trimmed
  <2>2. \A x \in D : x \in DOMAIN row /\ row[x].kind \notin {"unit", "connection"}
    BY <1>1, <1>3, <1>5 DEF WiresAt, HarnessesAt, Refs, PinsOf, Where, Rows
  <2>3. \A x \in G : x \in DOMAIN row => row[x].kind # "connection"
    BY <1>1, <1>3, <2>2, ConnectorsFall
  <2>4. \A w \in Rows(row, "wire") : w \in G => Pair(row, w) \in Lost
    BY <2>1 DEF Lost, Trims
  <2>5. \A w \in Rows(row, "wire") : Pair(row, w) \notin drift' =>
          (w \notin G /\ w \notin Leaving' <=> w \notin Leaving)
    BY <1>4, <2>4
  <2>6. RolledUp(row', drift', Leaving')
    BY <2>1, <2>3, <2>5, Swept
  <2> QED BY <1>2, <2>1, <2>6, TrimsKinds, InvariantKept
<1>6. CASE row' = row
  BY <1>2, <1>4, <1>6, Stayed
<1> QED BY <1>2, <1>5, <1>6

LEMMA DeleteHarnessEndpointStep ==
  ASSUME WiringInvariant, NEW e, DeleteHarnessEndpoint(e)
  PROVE  WiringInvariant'
<1>0. PICK k, W, F, U, G :
        /\ k = row[e].mating /\ W = WiresThrough(k) /\ F = Falls(row, W \cup {e, k}, Orm)
        /\ U = UNION {Unjoined(row, w) : w \in W} /\ G = F \cup U
  OBVIOUS
<1>1. /\ k = row[e].mating /\ W = WiresThrough(k) /\ F = Falls(row, W \cup {e, k}, Orm)
      /\ U = UNION {Unjoined(row, w) : w \in W} /\ G = F \cup U
      /\ ~Held(row, G) /\ row' = Without(row, G)
      /\ drift' = drift \cup {P \in {Pair(row, w) : w \in W} :
                     \/ Racing(P)
                     \/ \E v, w \in W : v # w /\ Pair(row, v) = P /\ Pair(row, w) = P}
      /\ pending' = pending /\ used' = used
  <2>1. ~Held(row, G) /\ row' = Without(row, G)
    BY <1>0 DEF DeleteHarnessEndpoint
  <2>2. drift' = drift \cup {P \in {Pair(row, w) : w \in W} :
                     \/ Racing(P)
                     \/ \E v, w \in W : v # w /\ Pair(row, v) = P /\ Pair(row, w) = P}
    BY <1>0 DEF DeleteHarnessEndpoint, Drifts
  <2>3. pending' = pending /\ used' = used
    BY DEF DeleteHarnessEndpoint
  <2> QED BY <1>0, <2>1, <2>2, <2>3
<1>2. e \in DOMAIN row /\ row[e].kind = "endpoint" /\ Orderly(row)
  BY DEF DeleteHarnessEndpoint, Rows, WiringInvariant
<1>3. k \in Rows(row, "connector")
  BY <1>1, <1>2, OrderlyRows
<1>4. Trims(row, row', G)
  BY <1>1, <1>2, Trimmed
<1>5. W \subseteq Rows(row, "wire")
  BY <1>1 DEF WiresThrough
<1> DEFINE T == W \cup {x \in DOMAIN row : row[x].kind \in {"connector", "pin", "endpoint"}}
<1>6. ASSUME NEW x \in DOMAIN row, NEW c \in DOMAIN Keys[row[x].kind],
             row[x][c] \in T, Keys[row[x].kind][c] \in Orm
      PROVE  x \in T
  <2>1. /\ row[x].kind \in Kinds /\ Refers(row, row[x][c], Targets[row[x].kind][c])
        /\ <<row[x].kind, c, Keys[row[x].kind][c], Targets[row[x].kind][c]>> \in ForeignKeys
    BY <1>2, KindsOfRows, ListedKeys DEF Orderly, Valid, ValidRow
  <2>2. /\ row[x][c] \in DOMAIN row /\ row[x][c] # None
        /\ row[row[x][c]].kind \in {"wire", "connector", "pin", "endpoint"}
    BY <1>2, <1>5, <1>6 DEF Orderly, Valid, Rows
  <2>3. /\ Targets[row[x].kind][c] \in {"wire", "connector", "pin", "endpoint"}
        /\ Keys[row[x].kind][c] \in {"own", "cascade"}
    BY <1>6, <2>1, <2>2 DEF Refers, Orm
  <2>4. row[x].kind \in {"pin", "endpoint"}
    BY <2>1, <2>3 DEF ForeignKeys
  <2> QED BY <2>4
<1>7. W \cup {e, k} \subseteq T
  BY <1>2, <1>3 DEF Rows
<1> HIDE DEF T
<1>8. F \subseteq T
  BY <1>1, <1>6, <1>7, FallsInside
<1>9. W \subseteq F
  BY <1>1 DEF Falls
<1>10. \A x \in U : x \in DOMAIN row /\ row[x].kind = "connection"
  BY <1>1, <1>2, <1>5, PairKeys
<1>11. \A w \in Rows(row, "wire") : w \in G <=> w \in W
  BY <1>1, <1>8, <1>9, <1>10 DEF T, Rows
<1>12. ASSUME NEW Q, Connection(Q) \in Rows(row, "connection")
       PROVE  Connection(Q) \in G <=> \E w \in W : Pair(row, w) = Q /\ Joining(row, Q) = {w}
  <2>1. Connection(Q) \in DOMAIN row /\ Connection(Q) \notin F
    BY <1>5, <1>8, <1>12 DEF T, Rows
  <2>2. Connection(Q) \in U <=> \E w \in W : Connection(Q) \in Unjoined(row, w)
    BY <1>1
  <2>3. \A w : Connection(Q) \in Unjoined(row, w) <=> Pair(row, w) = Q /\ Joining(row, Q) = {w}
    BY <2>1 DEF Unjoined, Connection
  <2> QED BY <1>1, <2>1, <2>2, <2>3
<1>13. Leaving' = Leaving
  BY <1>1 DEF Leaving
<1>14. ASSUME NEW x \in Rows(row, "wire") \cap Leaving PROVE Racing(Pair(row, x))
  BY DEF Leaving, Racing
<1>15. ASSUME NEW u \in LruKeys, NEW v \in LruKeys, u # v, {u, v} \notin drift'
       PROVE  Connection({u, v}) \in DOMAIN row \ G <=>
                \E x \in (Rows(row, "wire") \ G) \ Leaving' : Pair(row, x) = {u, v}
  <2>1. PICK Q : Q = {u, v}
    OBVIOUS
  <2>2. Connection(Q) \in DOMAIN row <=> \E x \in Rows(row, "wire") \ Leaving : Pair(row, x) = Q
    BY <1>1, <1>15, <2>1 DEF WiringInvariant, RolledUp
  <2>3. Connection(Q) \in DOMAIN row <=> Connection(Q) \in Rows(row, "connection")
    <3>1. Connection({u, v}) \in DOMAIN row <=> Connection({u, v}) \in Rows(row, "connection")
      BY <1>2, ConnectionRows
    <3> QED BY <2>1, <3>1
  <2>4. CASE \E w \in W : Pair(row, w) = Q
    <3>1. PICK w \in W : Pair(row, w) = Q
      BY <2>4
    <3>2. ~Racing(Q) /\ \A y \in W : Pair(row, y) = Q => y = w
      BY <1>1, <1>15, <2>1, <3>1
    <3>3. Connection(Q) \in Rows(row, "connection")
      BY <1>5, <1>14, <2>2, <2>3, <3>1, <3>2
    <3>4. CASE Joining(row, Q) = {w}
      <4>1. Connection(Q) \in G
        BY <1>12, <3>1, <3>3, <3>4
      <4>2. \A x \in Rows(row, "wire") : Pair(row, x) = Q => x = w
        BY <3>4 DEF Joining
      <4> QED BY <1>5, <1>11, <2>1, <3>1, <4>1, <4>2
    <3>5. CASE Joining(row, Q) # {w}
      <4>1. Connection(Q) \notin G
        BY <1>12, <3>2, <3>3, <3>5
      <4>2. PICK x \in Rows(row, "wire") : Pair(row, x) = Q /\ x # w
        BY <1>5, <3>1, <3>5 DEF Joining
      <4>3. x \notin G /\ x \notin Leaving'
        BY <1>11, <1>13, <1>14, <3>2, <4>2
      <4> QED BY <2>1, <2>3, <3>3, <4>1, <4>2, <4>3
    <3> QED BY <3>4, <3>5
  <2>5. CASE ~\E w \in W : Pair(row, w) = Q
    <3>1. Connection(Q) \in DOMAIN row => Connection(Q) \notin G
      BY <1>12, <2>3, <2>5
    <3>2. \A x \in Rows(row, "wire") : Pair(row, x) = Q => x \notin G
      BY <1>11, <2>5
    <3> QED BY <1>13, <2>1, <2>2, <3>1, <3>2
  <2> QED BY <2>4, <2>5
<1>16. RolledUp(row', drift', Leaving')
  <2>1. \A u, v \in LruKeys : u # v /\ {u, v} \notin drift' =>
          (Connection({u, v}) \in DOMAIN row \ G <=>
             \E x \in (Rows(row, "wire") \ G) \ Leaving' : Pair(row, x) = {u, v})
    BY <1>15
  <2> QED BY <1>4, <2>1, Shrinks
<1> QED BY <1>1, <1>4, <1>16, TrimsKinds, InvariantKept

-----------------------------------------------------------------------------
(* Other pins                                                                *)

LEMMA Repinned ==
  ASSUME NEW db, Orderly(db), NEW w \in Rows(db, "wire"), NEW p \in Rows(db, "pin"),
         NEW q \in Rows(db, "pin"), NEW next, DOMAIN next = DOMAIN db,
         \A x \in DOMAIN db \ {w} : next[x] = db[x],
         DOMAIN next[w] = DOMAIN db[w], next[w].from = p, next[w].to = q,
         \A f \in DOMAIN db[w] \ {"from", "to"} : next[w][f] = db[w][f]
  PROVE  /\ Orderly(next) /\ \A x \in DOMAIN db : next[x].kind = db[x].kind
         /\ \A x \in Rows(db, "wire") : x # w => Pair(next, x) = Pair(db, x)
         /\ Pair(next, w) = {UnitAt(db, p), UnitAt(db, q)}
<1>1. /\ w \in DOMAIN db /\ db[w].kind = "wire"
      /\ p \in DOMAIN db /\ db[p].kind = "pin" /\ p # None
      /\ q \in DOMAIN db /\ db[q].kind = "pin" /\ q # None
  BY DEF Rows, Orderly, Valid
<1>2. ValidRow(db, db[w]) /\ {"kind", "from", "to", "harness", "fromMate", "toMate"} \subseteq DOMAIN db[w]
  BY <1>1, WiringColumns DEF Orderly, Valid, ValidRow
<1>3. DOMAIN next = DOMAIN db /\ \A x \in DOMAIN db \ {w} : next[x] = db[x]
  OBVIOUS
<1>4. /\ DOMAIN next[w] = DOMAIN db[w] /\ next[w].from = p /\ next[w].to = q
      /\ \A f \in DOMAIN db[w] \ {"from", "to"} : next[w][f] = db[w][f]
  OBVIOUS
<1>5. \A x \in DOMAIN db : next[x].kind = db[x].kind
  BY <1>2, <1>3, <1>4
<1>6. \A v, k : Refers(db, v, k) => Refers(next, v, k)
  BY <1>3, <1>5 DEF Refers
<1>7. ASSUME NEW x \in DOMAIN db
      PROVE  ValidRow(next, next[x]) /\ NotNull(next, x) /\ OfKind(x, next[x].kind)
  <2>1. ValidRow(db, db[x]) /\ NotNull(db, x) /\ OfKind(x, db[x].kind)
    BY DEF Orderly, Valid
  <2>2. CASE x # w
    BY <2>1, <2>2, <1>3, <1>6 DEF ValidRow, NotNull
  <2>3. CASE x = w
    <3>1. Refers(next, p, "pin") /\ Refers(next, q, "pin")
      BY <1>1, <1>3, <1>5 DEF Refers
    <3>2. ValidRow(next, next[w])
      BY <2>1, <2>3, <3>1, <1>1, <1>2, <1>4, <1>5, <1>6, WiringColumns DEF ValidRow
    <3>3. NotNull(next, w)
      BY <2>1, <2>3, <1>1, <1>2, <1>4, <1>5, WiringColumns DEF NotNull
    <3> QED BY <2>1, <2>3, <3>2, <3>3, <1>5
  <2> QED BY <2>2, <2>3
<1>8. \A x \in DOMAIN db : db[x].kind # "wire" => next[x] = db[x]
  BY <1>1, <1>3
<1>9. ASSUME NEW x \in Rows(db, "pin") PROVE UnitAt(next, x) = UnitAt(db, x)
  <2>1. db[x].connector \in Rows(db, "connector") /\ x \in DOMAIN db /\ db[x].kind = "pin"
    BY OrderlyRows DEF Rows
  <2> QED BY <2>1, <1>8 DEF Rows, UnitAt
<1>10. Lru(next) = Lru(db)
  <2>1. ASSUME NEW x \in DOMAIN db PROVE x \in Lru(next) <=> x \in Lru(db)
    BY <1>3, <1>5, <1>8, <1>9 DEF Lru, Rows
  <2> QED BY <2>1, <1>3 DEF Lru
<1>11. Orderly(next)
  <2>1. \A x \in DOMAIN next : next[x].kind = "harness" =>
          {next[x].fromConnector, next[x].toConnector} \subseteq Lru(next)
    BY <1>3, <1>5, <1>8, <1>10 DEF Orderly
  <2>2. ASSUME NEW x \in DOMAIN next, next[x].kind = "connection"
        PROVE  \E u, v \in LruKeys : /\ u # v /\ x = Connection({u, v})
                                    /\ {next[x].a, next[x].b} = {u, v}
    <3>1. next[x] = db[x] /\ db[x].kind = "connection" /\ x \in DOMAIN db
      BY <2>2, <1>3, <1>5, <1>8
    <3>2. \E u, v \in LruKeys : /\ u # v /\ x = Connection({u, v})
                               /\ {db[x].a, db[x].b} = {u, v}
      BY <3>1, Zenon DEF Orderly
    <3>3. PICK u, v : /\ u \in LruKeys /\ v \in LruKeys /\ u # v
                     /\ x = Connection({u, v}) /\ {db[x].a, db[x].b} = {u, v}
      BY <3>2, Zenon
    <3>4. {next[x].a, next[x].b} = {u, v}
      BY <3>1, <3>3
    <3> QED BY <3>3, <3>4, Zenon
  <2>3. Valid(next) /\ Lru(next) \subseteq LruKeys
    BY <1>3, <1>7, <1>10 DEF Valid, Orderly
  <2> QED BY <2>1, <2>2, <2>3, <1>3, <1>7 DEF Orderly
<1>12. ASSUME NEW x \in Rows(db, "wire"), x # w PROVE Pair(next, x) = Pair(db, x)
  <2>1. x \in DOMAIN db /\ next[x] = db[x] /\ {db[x].from, db[x].to} \subseteq Rows(db, "pin")
    BY <1>3, <1>12, OrderlyRows DEF Rows
  <2> QED BY <2>1, <1>9 DEF Pair
<1>13. Pair(next, w) = {UnitAt(db, p), UnitAt(db, q)}
  BY <1>4, <1>9 DEF Pair
<1> QED BY <1>3, <1>5, <1>11, <1>12, <1>13

LEMMA UpdateWireStep ==
  ASSUME WiringInvariant, NEW w, UpdateWire(w)
  PROVE  WiringInvariant'
<1>1. PICK Q, P, p, q, G, torn, mid :
        /\ p \in Rows(row, "pin") /\ q \in Rows(row, "pin") /\ Q = Pair(row, w)
        /\ P = {UnitAt(row, p), UnitAt(row, q)} /\ G = Unjoined(row, w)
        /\ torn = Without(row, G) /\ mid = [torn EXCEPT ![w].from = p, ![w].to = q]
        /\ row' = Upserts(mid, {P})
        /\ drift' = drift \cup {R \in {Q} : Racing(R)}
                          \cup {R \in {Pair(row', w)} : \E r \in pending : r.x = w}
  BY DEF UpdateWire, UpsertConnection
<1>2. w \in Rows(row, "wire") /\ Orderly(row) /\ pending' = pending /\ used' = used
  BY DEF UpdateWire, WiringInvariant
<1>3. \A x \in G : x \in DOMAIN row /\ row[x].kind = "connection"
  BY <1>1, <1>2, PairKeys
<1>4. Trims(row, torn, G)
  BY <1>1, <1>2, <1>3, NeverHeld, Trimmed
<1>5. /\ Orderly(torn) /\ DOMAIN torn = DOMAIN row \ G
      /\ \A k \in {"wire", "pin", "unit"} : Rows(torn, k) = Rows(row, k)
      /\ \A x \in Rows(row, "wire") : Pair(torn, x) = Pair(row, x)
      /\ \A x \in Rows(row, "pin") : UnitAt(torn, x) = UnitAt(row, x)
      /\ \A x \in DOMAIN torn : torn[x].kind = row[x].kind
  <2>1. \A k \in {"wire", "pin", "unit"} : Rows(torn, k) = Rows(row, k)
    BY <1>3, <1>4 DEF Trims, Rows
  <2> QED BY <2>1, <1>4 DEF Trims
<1>6. /\ Orderly(mid) /\ DOMAIN mid = DOMAIN torn
      /\ \A x \in DOMAIN torn : mid[x].kind = torn[x].kind
      /\ \A x \in Rows(torn, "wire") : x # w => Pair(mid, x) = Pair(torn, x)
      /\ Pair(mid, w) = {UnitAt(torn, p), UnitAt(torn, q)}
  <2>1. w \in Rows(torn, "wire") /\ p \in Rows(torn, "pin") /\ q \in Rows(torn, "pin")
    BY <1>1, <1>2, <1>5
  <2>2. w \in DOMAIN torn /\ {"from", "to"} \subseteq DOMAIN torn[w]
    BY <2>1, <1>5, WiringColumns DEF Rows, Orderly, Valid, ValidRow
  <2>3. DOMAIN mid = DOMAIN torn /\ \A x \in DOMAIN torn \ {w} : mid[x] = torn[x]
    BY <1>1
  <2>4. /\ DOMAIN mid[w] = DOMAIN torn[w] /\ mid[w].from = p /\ mid[w].to = q
        /\ \A f \in DOMAIN torn[w] \ {"from", "to"} : mid[w][f] = torn[w][f]
    BY <1>1, <2>2
  <2> QED BY <2>1, <2>3, <2>4, <1>5, Repinned
<1>7. /\ \A k \in {"wire", "pin", "unit"} : Rows(mid, k) = Rows(row, k)
      /\ \A x \in Rows(row, "wire") : x # w => Pair(mid, x) = Pair(row, x)
      /\ Pair(mid, w) = P
  <2>1. \A k \in {"wire", "pin", "unit"} : Rows(mid, k) = Rows(torn, k)
    BY <1>6 DEF Rows
  <2> QED BY <2>1, <1>1, <1>5, <1>6
<1>8. ASSUME IsPair(P) PROVE \E u, v \in Rows(mid, "unit") : u # v /\ P = {u, v}
  <2>1. PICK u, v : u = UnitAt(row, p) /\ v = UnitAt(row, q)
    OBVIOUS
  <2>2. P = {u, v} /\ u # None /\ v # None /\ u # v
    BY <1>1, <1>8, <2>1 DEF IsPair
  <2>3. u \in Rows(mid, "unit") /\ v \in Rows(mid, "unit")
    BY <1>1, <1>2, <1>7, <2>1, <2>2, UnitsOfPins
  <2> QED BY <2>2, <2>3
<1>9. /\ Orderly(row') /\ KindsKept(mid, row')
      /\ Rows(row', "wire") = Rows(mid, "wire")
      /\ DOMAIN row' \cap (Wires \cup Harnesses) = DOMAIN mid \cap (Wires \cup Harnesses)
      /\ \A x \in Rows(mid, "wire") : Pair(row', x) = Pair(mid, x)
      /\ \A R : Connection(R) \in DOMAIN row' <=>
                Connection(R) \in DOMAIN mid \/ (R = P /\ IsPair(R))
  <2>1. PICK T : T = {P}
    OBVIOUS
  <2>2. \A R \in T : IsPair(R) => \E u, v \in Rows(mid, "unit") : u # v /\ R = {u, v}
    BY <1>8, <2>1
  <2>3. row' = Upserts(mid, T)
    BY <1>1, <2>1
  <2>4. \A R : R \in T <=> R = P
    BY <2>1
  <2> QED BY <1>6, <2>2, <2>3, <2>4, Upserted
<1>10. /\ Rows(row', "wire") = Rows(row, "wire") /\ Pair(row', w) = P
       /\ \A x \in Rows(row, "wire") : x # w => Pair(row', x) = Pair(row, x)
  BY <1>2, <1>7, <1>9
<1>11. \A R : Connection(R) \in DOMAIN row' <=>
              \/ Connection(R) \in DOMAIN row /\ ~(R = Q /\ Joining(row, Q) = {w})
              \/ R = P /\ IsPair(R)
  <2>1. \A R : Connection(R) \in DOMAIN row =>
                 (Connection(R) \in G <=> R = Q /\ Joining(row, Q) = {w})
    BY <1>1 DEF Unjoined, Connection
  <2> QED BY <2>1, <1>5, <1>6, <1>9
<1>12. ASSUME NEW x \in Rows(row, "wire") \cap Leaving PROVE Racing(Pair(row, x))
  BY DEF Leaving, Racing
<1>13. ASSUME NEW u \in LruKeys, NEW v \in LruKeys, u # v, {u, v} \notin drift'
       PROVE  Connection({u, v}) \in DOMAIN row' <=>
                \E x \in Rows(row', "wire") \ Leaving : Pair(row', x) = {u, v}
  <2>1. PICK R : R = {u, v}
    OBVIOUS
  <2>2. Connection(R) \in DOMAIN row <=> \E x \in Rows(row, "wire") \ Leaving : Pair(row, x) = R
    BY <1>1, <1>13, <2>1 DEF WiringInvariant, RolledUp
  <2>3. IsPair(R)
    <3>1. u # None /\ v # None
      <4> SUFFICES ASSUME NEW seed \in Wirings, None \in Lru(seed.row) PROVE FALSE
        BY DEF LruKeys
      <4> QED BY WiringAssumption DEF Lru, Orderly, Valid
    <3> QED BY <3>1, <1>13, <2>1 DEF IsPair
  <2>4. CASE R = P
    <3>1. w \notin Leaving
      BY <1>1, <1>10, <1>13, <2>1, <2>4 DEF Leaving
    <3> QED BY <3>1, <1>2, <1>10, <1>11, <2>1, <2>3, <2>4
  <2>5. CASE R # P /\ R = Q
    <3>1. ~Racing(Q)
      BY <1>1, <1>13, <2>1, <2>5
    <3>2. Connection(R) \in DOMAIN row
      BY <1>1, <1>2, <1>12, <2>2, <2>5, <3>1
    <3>3. CASE Joining(row, Q) = {w}
      <4>1. \A x \in Rows(row, "wire") : Pair(row, x) = R => x = w
        BY <2>5, <3>3 DEF Joining
      <4> QED BY <1>10, <1>11, <2>1, <2>5, <3>3, <4>1
    <3>4. CASE Joining(row, Q) # {w}
      <4>1. PICK x \in Rows(row, "wire") : Pair(row, x) = Q /\ x # w
        BY <1>1, <1>2, <3>4 DEF Joining
      <4>2. x \notin Leaving
        BY <1>12, <3>1, <4>1
      <4> QED BY <1>10, <1>11, <2>1, <2>5, <3>2, <3>4, <4>1, <4>2
    <3> QED BY <3>3, <3>4
  <2>6. CASE R # P /\ R # Q
    <3>1. \A x \in Rows(row, "wire") : Pair(row', x) = R <=> Pair(row, x) = R
      BY <1>1, <1>10, <2>6
    <3>2. Connection(R) \in DOMAIN row' <=> Connection(R) \in DOMAIN row
      BY <1>11, <2>6
    <3> QED BY <1>10, <2>1, <2>2, <3>1, <3>2
  <2> QED BY <2>4, <2>5, <2>6
<1>14. Leaving' = Leaving
  BY <1>2 DEF Leaving
<1>15. RolledUp(row', drift', Leaving')
  BY <1>13, <1>14 DEF RolledUp
<1>16. KindsKept(row, row')
  BY <1>5, <1>6, <1>9 DEF KindsKept
<1>17. DOMAIN row' \cap (Wires \cup Harnesses) \subseteq used'
  BY <1>2, <1>5, <1>6, <1>9 DEF WiringInvariant
<1> QED BY <1>2, <1>9, <1>15, <1>16, <1>17, InvariantKept

-----------------------------------------------------------------------------
(* Connection rows tell the wires                                            *)

LEMMA WiringStart ==
  ASSUME WiringInit
  PROVE  WiringInvariant
<1>1. PICK seed \in Wirings : row = seed.row /\ used = seed.used
  BY DEF WiringInit
<1>2. pending = {} /\ drift = {} /\ Leaving = {}
  BY DEF WiringInit, Leaving
<1> QED BY <1>1, <1>2, WiringAssumption DEF WiringInvariant

LEMMA WiringSteps ==
  ASSUME WiringInvariant, WiringNext
  PROVE  WiringInvariant'
<1>1. CASE WireStep
  BY <1>1, CreateHarnessStep, CreateHarnessEndpointStep, AutoWireHarnessStep,
     BatchCreateWiresStep, CbCommitStep, BeginHarnessStep, AutoGrowStep,
     DeleteHarnessEndpointStep, UpdateWireStep, BeginWireStep, FinishWireStep,
     FinishHarnessStep DEF WireStep
<1>2. CASE ConnectorStep
  BY <1>2, BeginConnectorStep, FinishConnectorStep DEF ConnectorStep
<1> QED BY <1>1, <1>2 DEF WiringNext

LEMMA WiringStutters ==
  ASSUME WiringInvariant, UNCHANGED wiring
  PROVE  WiringInvariant'
BY DEF wiring, topology, WiringInvariant, PendingOK, Leaving

LEMMA RowsAgree ==
  ASSUME WiringInvariant
  PROVE  ConnectionsFollowWires
<1> SUFFICES ASSUME NEW P \in Connected(row) \cup Joined(row), Settled(P)
             PROVE  P \in Connected(row) <=> P \in Joined(row)
  BY DEF ConnectionsFollowWires
<1>1. Orderly(row)
  BY DEF WiringInvariant
<1>2. PICK u \in LruKeys, v \in LruKeys : u # v /\ P = {u, v}
  <2>1. CASE P \in Connected(row)
    <3>1. PICK x \in DOMAIN row : row[x].kind = "connection" /\ P = {row[x].a, row[x].b}
      BY <2>1 DEF Connected, Rows
    <3> QED BY <3>1, <1>1 DEF Orderly
  <2>2. CASE P \in Joined(row)
    <3>1. PICK w \in Rows(row, "wire") : P = Pair(row, w) /\ IsPair(P)
      BY <2>2 DEF Joined
    <3>2. {row[w].from, row[w].to} \subseteq Rows(row, "pin")
      BY <1>1, OrderlyRows DEF Rows
    <3>3. PICK y, z : y = UnitAt(row, row[w].from) /\ z = UnitAt(row, row[w].to)
      OBVIOUS
    <3>4. P = {y, z} /\ y # z /\ y # None /\ z # None
      BY <3>1, <3>3 DEF Pair, IsPair
    <3>5. y \in LruKeys /\ z \in LruKeys
      BY <1>1, <3>2, <3>3, <3>4, UnitsOfPins
    <3> QED BY <3>4, <3>5
  <2> QED BY <2>1, <2>2
<1>3. IsPair(P)
  <2>1. None \notin LruKeys
    <3> SUFFICES ASSUME NEW seed \in Wirings, None \in Lru(seed.row) PROVE FALSE
      BY DEF LruKeys
    <3> QED BY WiringAssumption DEF Lru, Orderly, Valid
  <2> QED BY <1>2, <2>1 DEF IsPair
<1>4. Connection(P) \in DOMAIN row <=> \E w \in Rows(row, "wire") \ Leaving : Pair(row, w) = P
  <2>1. Connection({u, v}) \in DOMAIN row <=>
          \E w \in Rows(row, "wire") \ Leaving : Pair(row, w) = {u, v}
    BY <1>2 DEF WiringInvariant, RolledUp, Settled
  <2> QED BY <1>2, <2>1
<1>5. \A w \in Rows(row, "wire") : Pair(row, w) = P => w \notin Leaving
  BY DEF Settled, Racing, Leaving
<1>6. P \in Joined(row) <=> \E w \in Rows(row, "wire") : Pair(row, w) = P
  BY <1>3 DEF Joined
<1>7. P \in Connected(row) <=> Connection(P) \in DOMAIN row
  <2>1. ASSUME P \in Connected(row) PROVE Connection(P) \in DOMAIN row
    <3>1. PICK x \in DOMAIN row : row[x].kind = "connection" /\ P = {row[x].a, row[x].b}
      BY <2>1 DEF Connected, Rows
    <3>2. PICK y \in LruKeys, z \in LruKeys : x = Connection({y, z}) /\ {row[x].a, row[x].b} = {y, z}
      BY <3>1, <1>1 DEF Orderly
    <3>3. P = {y, z}
      BY <3>1, <3>2
    <3> QED BY <3>2, <3>3
  <2>2. ASSUME Connection(P) \in DOMAIN row PROVE P \in Connected(row)
    <3>1. PICK x : x = Connection(P)
      OBVIOUS
    <3>2. x \in DOMAIN row /\ x \in Rows(row, "connection")
      <4>1. Connection({u, v}) \in DOMAIN row => Connection({u, v}) \in Rows(row, "connection")
        BY <1>1, ConnectionRows
      <4> QED BY <4>1, <1>2, <2>2, <3>1
    <3>3. PICK y \in LruKeys, z \in LruKeys : x = Connection({y, z}) /\ {row[x].a, row[x].b} = {y, z}
      BY <3>2, <1>1 DEF Orderly, Rows
    <3>4. P = {y, z}
      BY <3>1, <3>3 DEF Connection
    <3> QED BY <3>2, <3>3, <3>4 DEF Connected
  <2> QED BY <2>1, <2>2
<1> QED BY <1>4, <1>5, <1>6, <1>7

\* Connection rows follow the wires (auto_grow.py:_upsert_connection,
\* maybe_delete_connection_for_wire): a pair of units that no request left behind or
\* is about to change has a row if and only if a wire joins it - whatever the
\* order of wiring, merging, growing, re-pinning and of deletions that check in
\* one transaction and delete in another.
THEOREM ConnectionsTellWires == WiringSpec => []ConnectionsFollowWires
<1>1. WiringInvariant /\ [WiringNext]_wiring => WiringInvariant'
  BY WiringSteps, WiringStutters
<1> QED BY <1>1, WiringStart, RowsAgree, PTL DEF WiringSpec

-----------------------------------------------------------------------------
(* What deletions of the wiring take                                         *)

\* The target of every deletion in progress has its event.
AnnouncedInvariant ==
  /\ WiringInvariant /\ None \notin announced
  /\ \A r \in pending : r.x \in announced

\* Steps that begin a deletion, and steps that end one.
BeginsDeletion(x, G) == x \in DOMAIN row /\ \E force, L, F : Begins(x, force, G, L, F)
EndsDeletion(r, G) == G \subseteq Falls(row, {r.x}, All) /\ \E L : Finishes(r, G, L)

LEMMA WiringStepForms ==
  ASSUME AnnouncedInvariant, WiringNext
  PROVE  \/ pending' = pending /\ announced' = announced
         \/ \E x, G : /\ BeginsDeletion(x, G)
                     /\ \/ G \subseteq Falls(row, {x}, All)
                        \/ \A y \in G : row[y].kind = "connection"
         \/ \E r \in pending : \E G : EndsDeletion(r, G)
<1> DEFINE Goal == \/ pending' = pending /\ announced' = announced
                   \/ \E x, G : /\ BeginsDeletion(x, G)
                               /\ \/ G \subseteq Falls(row, {x}, All)
                                  \/ \A y \in G : row[y].kind = "connection"
                   \/ \E r \in pending : \E G : EndsDeletion(r, G)
<1>1. Valid(row) /\ Orderly(row) /\ None \notin DOMAIN row
  BY DEF AnnouncedInvariant, WiringInvariant, Orderly, Valid
<1>2. /\ All = {"own", "cascade", "restrict"} /\ Orm = {"own", "cascade"}
  BY DEF All, Orm
<1>3. ASSUME NEW r \in pending PROVE r.x # None /\ {r.x} \subseteq Falls(row, {r.x}, All)
  <2>1. None \notin {r.x}
    BY DEF AnnouncedInvariant
  <2> QED BY <2>1, <1>1, FallsClosed
<1>4. ASSUME NEW h, NEW w, NEW mapping, NEW i, NEW batch, NEW e,
             \/ CreateHarness(h) \/ CreateHarnessEndpoint(h) \/ AutoWireHarness(h, mapping)
             \/ BatchCreateWires(h, w) \/ CbCommit(i, h) \/ AutoGrow(batch)
             \/ DeleteHarnessEndpoint(e) \/ UpdateWire(w)
      PROVE  pending' = pending /\ announced' = announced
  BY <1>4 DEF CreateHarness, Creates, CreateHarnessEndpoint, AutoWireHarness, Run,
              BatchCreateWires, CbCommit, AutoGrow, DeleteHarnessEndpoint, UpdateWire
<1>5. ASSUME NEW w, NEW force, BeginWire(w, force) PROVE Goal
  <2>1. w \in DOMAIN row /\ BeginsDeletion(w, Unjoined(row, w))
    BY <1>5 DEF BeginWire, Rows, BeginsDeletion
  <2>2. \A y \in Unjoined(row, w) : row[y].kind = "connection"
    BY <1>1, <1>5, PairKeys DEF BeginWire
  <2> QED BY <2>1, <2>2
<1>6. ASSUME NEW h, NEW force, BeginHarness(h, force) PROVE Goal
  <2>1. h \in DOMAIN row /\ BeginsDeletion(h, WiresOf(row, h))
    BY <1>6 DEF BeginHarness, Rows, BeginsDeletion
  <2>2. None \notin {h}
    BY <1>1, <2>1
  <2>3. WiresOf(row, h) \subseteq Falls(row, {h}, All)
    BY <1>1, <1>2, <2>2, FallsClosed, RefsFall, Rules DEF WiresOf, Kinds
  <2> QED BY <2>1, <2>3
<1>7. ASSUME NEW c, NEW force, BeginConnector(c, force) PROVE Goal
  <2>1. PICK G : G = {}
    OBVIOUS
  <2>2. BeginsDeletion(c, G)
    BY <1>7, <2>1 DEF BeginConnector, Rows, BeginsDeletion
  <2>3. G \subseteq Falls(row, {c}, All)
    BY <2>1
  <2> QED BY <2>2, <2>3
<1>8. ASSUME NEW r \in pending, FinishWire(r) PROVE Goal
  <2>1. EndsDeletion(r, {r.x})
    BY <1>3, <1>8 DEF FinishWire, EndsDeletion
  <2> QED BY <2>1
<1>9. ASSUME NEW r \in pending, FinishHarness(r) PROVE Goal
  <2>1. None \notin {r.x} /\ {r.x} \subseteq Falls(row, {r.x}, All)
    BY <1>3
  <2>2. Falls(row, {r.x}, Orm) \subseteq Falls(row, {r.x}, All)
    BY <1>1, <1>2, <2>1, FallsFurther
  <2>3. EndsDeletion(r, Falls(row, {r.x}, Orm))
    BY <1>9, <2>2 DEF FinishHarness, EndsDeletion
  <2> QED BY <2>3
<1>10. ASSUME NEW r \in pending, FinishConnector(r) PROVE Goal
  <2>1. EndsDeletion(r, CascadeDeleteConnector(r.x))
    BY <1>1, <1>3, <1>10, ConnectorTakes DEF FinishConnector, EndsDeletion
  <2> QED BY <2>1
<1> HIDE DEF Goal
<1>11. Goal
  <2>1. CASE WireStep
    <3>1. CASE \/ \E h, w, mapping, i : CreateHarness(h) \/ CreateHarnessEndpoint(h)
                   \/ AutoWireHarness(h, mapping) \/ BatchCreateWires(h, w) \/ CbCommit(i, h)
               \/ \E batch : AutoGrow(batch)
               \/ \E e, w : DeleteHarnessEndpoint(e) \/ UpdateWire(w)
      BY <3>1, <1>4 DEF Goal
    <3> QED BY <2>1, <3>1, <1>5, <1>6, <1>8, <1>9 DEF WireStep
  <2>2. CASE ConnectorStep
    BY <2>2, <1>7, <1>10 DEF ConnectorStep
  <2> QED BY <2>1, <2>2 DEF WiringNext
<1> QED BY <1>11 DEF Goal

LEMMA WiringAnnounces ==
  ASSUME AnnouncedInvariant, WiringNext
  PROVE  AnnouncedInvariant' /\ AnnouncedStep
<1>1. WiringInvariant' /\ Valid(row) /\ None \notin DOMAIN row
  BY WiringSteps DEF AnnouncedInvariant, WiringInvariant, Orderly, Valid
<1>2. ASSUME NEW x, NEW G, x \in announced', None \notin announced',
             \/ G \subseteq Falls(row, {x}, All)
             \/ \A y \in G : row[y].kind = "connection",
             DOMAIN row \ DOMAIN row' \subseteq G
      PROVE  AnnouncedStep
  <2>1. x \in Falls(row, announced', All)
    BY <1>1, <1>2, FallsClosed
  <2>2. Falls(row, {x}, All) \subseteq Falls(row, announced', All)
    BY <1>1, <1>2, <2>1, FallsFurther
  <2> QED BY <1>2, <2>2 DEF AnnouncedStep, All
<1>3. CASE pending' = pending /\ announced' = announced
  BY <1>1, <1>3 DEF AnnouncedInvariant, AnnouncedStep
<1>4. ASSUME NEW x, NEW G, BeginsDeletion(x, G),
             \/ G \subseteq Falls(row, {x}, All)
             \/ \A y \in G : row[y].kind = "connection"
      PROVE  AnnouncedInvariant' /\ AnnouncedStep
  <2>1. PICK r : /\ r.x = x /\ pending' = pending \cup {r} /\ announced' = announced \cup {x}
                 /\ row' = Without(row, G) /\ x \in DOMAIN row
    BY <1>4 DEF BeginsDeletion, Begins
  <2>2. DOMAIN row \ DOMAIN row' \subseteq G
    BY <2>1 DEF Without
  <2>3. AnnouncedInvariant'
    BY <1>1, <2>1 DEF AnnouncedInvariant
  <2> QED BY <1>2, <1>4, <2>1, <2>2, <2>3 DEF AnnouncedInvariant
<1>5. ASSUME NEW r \in pending, NEW G, EndsDeletion(r, G)
      PROVE  AnnouncedInvariant' /\ AnnouncedStep
  <2>1. /\ pending' = pending \ {r} /\ announced' = announced
        /\ row' = Without(row, G) \/ row' = row
    BY <1>5 DEF EndsDeletion, Finishes
  <2>2. DOMAIN row \ DOMAIN row' \subseteq G
    BY <2>1 DEF Without
  <2>3. AnnouncedInvariant' /\ r.x \in announced'
    BY <1>1, <2>1 DEF AnnouncedInvariant
  <2> QED BY <1>2, <1>5, <2>2, <2>3 DEF AnnouncedInvariant, EndsDeletion
<1> QED BY <1>3, <1>4, <1>5, WiringStepForms

\* The same of all that the wiring adds: what a deletion of a wire, a harness or
\* an LRU connector removes had its event, or hung on a row that had one, or is
\* a Connection row - whatever the batches of auto_grow.py, merges, re-pinnings
\* and other deletions did between its two transactions (delete_wire,
\* delete_harness, delete_connector).
THEOREM WiringDeletionsAreAnnounced == WiringSpec => RemovalsAnnounced
<1>1. WiringInit => AnnouncedInvariant
  BY WiringStart DEF WiringInit, AnnouncedInvariant
<1>2. AnnouncedInvariant /\ [WiringNext]_wiring => AnnouncedInvariant' /\ [AnnouncedStep]_topology
  <2>1. CASE UNCHANGED wiring
    BY <2>1, WiringStutters DEF wiring, topology, AnnouncedInvariant
  <2> QED BY <2>1, WiringAnnounces
<1>3. [][AnnouncedStep]_topology => RemovalsAnnounced
  BY DEF AnnouncedStep, RemovalsAnnounced
<1> QED BY <1>1, <1>2, <1>3, PTL DEF WiringSpec

=============================================================================
