---------------------------- MODULE WorkbookImport ----------------------------
(***************************************************************************)
(* Interfaces from a workbook (backend/app/routers/interface_import.py).   *)
(* preview_import judges the rows of its sheets and writes nothing;        *)
(* confirm_import takes the file again, judges nothing, and builds systems, *)
(* units, connectors, pins, buses, messages and fields in one transaction. *)
(* The two are written apart: what a preview calls valid is what users     *)
(* expect to find afterwards.                                              *)
(*                                                                         *)
(* A cell is a name or Blank; cells that nothing hangs on are left out. A  *)
(* row of a table is its names down from the unit, so that equal rows are  *)
(* one; the unit of an earlier import is another unit.                     *)
(***************************************************************************)
EXTENDS Naturals, Sequences, FiniteSets

CONSTANTS
  Cells,          \* what the cells hold: names, and Blank
  Books,          \* [units, connectors, buses, messages], sequences of rows
  Confirmations,  \* imports of the same workbook, each made once
  Blank

WorkbookAssumption ==
  Books \subseteq
    [units : Seq([unit : Cells, system : Cells]),
     connectors : Seq([unit : Cells, connector : Cells, pin : Cells]),
     buses : Seq([unit : Cells, bus : Cells, pins : SUBSET (Cells \X Cells)]),
     messages : Seq([unit : Cells, bus : Cells, message : Cells, field : Cells])]

VARIABLES
  book,
  tables,    \* [systems, units, connectors, pins, buses, messages, fields]
  import     \* confirm_import: [pc, systems, units, made]

workbookVars == <<book, tables, import>>

Empty == [systems |-> {}, units |-> {}, connectors |-> {}, pins |-> {},
          buses |-> {}, assigned |-> {}, messages |-> {}, fields |-> {}]

WorkbookInit ==
  /\ book \in Books
  /\ tables = Empty
  /\ import = [c \in Confirmations |-> [pc |-> "idle"]]

Rows(sheet) == {sheet[i] : i \in DOMAIN sheet}
NonBlank(S) == S \ {Blank}
-----------------------------------------------------------------------------
(* preview_import                                                            *)

ValidUnits(s) ==
  \A i \in DOMAIN s :
    /\ s[i].unit # Blank /\ s[i].system # Blank
    /\ \A j \in 1 .. i - 1 : s[j].unit # s[i].unit

ValidConnectors(s) ==
  \A i \in DOMAIN s :
    /\ s[i].connector # Blank => s[i].unit # Blank
    /\ s[i].pin # Blank
    /\ \A j \in 1 .. i - 1 : s[j] # s[i]

ValidBuses(s) == \A i \in DOMAIN s : s[i].unit # Blank /\ s[i].bus # Blank

ValidMessages(s) ==
  \A i \in DOMAIN s :
    /\ s[i].message # Blank => s[i].unit # Blank /\ s[i].bus # Blank
    /\ s[i].field # Blank

Valid(b) ==
  /\ ValidUnits(b.units)
  /\ ValidConnectors(b.connectors)
  /\ ValidBuses(b.buses)
  /\ ValidMessages(b.messages)

\* The summary: how many of each the preview counts. It counts the rows of the
\* buses sheet one by one, and systems whether there are such or not.
Previewed(b) ==
  [systems |-> Cardinality(NonBlank({r.system : r \in Rows(b.units)})),
   units |-> Len(b.units),
   buses |-> Len(b.buses),
   connectors |-> Cardinality({<<r.unit, r.connector>> :
                     r \in {q \in Rows(b.connectors) : q.connector # Blank}}),
   pins |-> Len(b.connectors),
   messages |-> Cardinality({<<r.unit, r.bus, r.message>> :
                   r \in {q \in Rows(b.messages) : q.message # Blank}}),
   fields |-> Len(b.messages)]
-----------------------------------------------------------------------------
(* confirm_import                                                            *)

\* The maps of the systems and units there are. A unit is its name and its import.
BeginImport(c) ==
  /\ import[c].pc = "idle"
  /\ import' = [import EXCEPT ![c] =
       [pc |-> "begun", systems |-> {s[1] : s \in tables.systems}, units |-> tables.units]]
  /\ UNCHANGED <<book, tables>>

NewSystems(c) == NonBlank({r.system : r \in Rows(book.units)}) \ import[c].systems
NewUnits(c) ==
  LET known == {u[1] : u \in import[c].units}
      placed == {r \in Rows(book.units) : r.system # Blank}
  IN {<<n, c>> : n \in NonBlank({r.unit : r \in placed}) \ known}
UnitMap(c) == import[c].units \cup NewUnits(c)
UnitNames(c) == {u[1] : u \in UnitMap(c)}
UnitOf(c, name) == CHOOSE u \in UnitMap(c) : u[1] = name

ConnectorRows(c) ==
  {i \in DOMAIN book.connectors :
     book.connectors[i].unit \in UnitNames(c) /\ book.connectors[i].connector # Blank}
NewConnectors(c) == {<<UnitOf(c, book.connectors[i].unit), book.connectors[i].connector>> :
                    i \in ConnectorRows(c)}
PinRows(c) == {i \in ConnectorRows(c) : book.connectors[i].pin # Blank}
PinAt(c, i) == LET r == book.connectors[i] IN <<UnitOf(c, r.unit), r.connector, r.pin>>
NewPins(c) == {PinAt(c, i) : i \in PinRows(c)}

NewBuses(c) == {<<UnitOf(c, r.unit), r.bus, c>> :
               r \in {q \in Rows(book.buses) : q.unit \in UnitNames(c)}}
\* Pins of a row of the buses sheet are looked up among those just made.
AssignedAt(c, i) ==
  LET r == book.buses[i]
  IN {x \in NewPins(c) \X NewBuses(c) :
        LET p == x[1]  b == x[2]
        IN /\ r.unit \in UnitNames(c)
           /\ b = <<UnitOf(c, r.unit), r.bus, c>>
           /\ p[1] = b[1] /\ <<p[2], p[3]>> \in r.pins}

\* Mutant: messages are told apart by their names within a bus name.
MessageKey_NoUnit(unit, bus, message) == <<Blank, bus, message>>
MessageKey(unit, bus, message) == <<unit, bus, message>>

\* One row of the messages sheet. A blank cell is the one of the message that
\* was created last.
ReadMessage(c, acc, i) ==
  LET r == book.messages[i]
      Cell(own, k) == IF own = Blank /\ acc.current # <<>> THEN acc.current[k] ELSE own
      unit == Cell(r.unit, 1)
      bus == Cell(r.bus, 2)
      name == Cell(r.message, 3)
      key == MessageKey(unit, bus, name)
      new == name # Blank /\ key \notin DOMAIN acc.map
      map == IF new THEN [k \in DOMAIN acc.map \cup {key} |->
                            IF k = key THEN <<unit, bus, name>> ELSE acc.map[k]]
             ELSE acc.map
      found == unit \in UnitNames(c) /\ <<UnitOf(c, unit), bus, c>> \in NewBuses(c)
  IN IF ~found THEN acc
     ELSE [map |-> map,
           current |-> IF new THEN <<unit, bus, name>> ELSE acc.current,
           fields |-> IF r.field # Blank /\ key \in DOMAIN map
                      THEN acc.fields \cup {<<map[key], i, r.field>>} ELSE acc.fields]

\* The rows in their order.
ReadingOf(c) ==
  LET after[n \in 0 .. Len(book.messages)] ==
        IF n = 0 THEN [map |-> [k \in {} |-> k], current |-> <<>>, fields |-> {}]
        ELSE ReadMessage(c, after[n - 1], n)
  IN  after
ReadMessages(c) == ReadingOf(c)[Len(book.messages)]

Message(c, m) == <<UnitOf(c, m[1]), m[2], m[3], c>>
NewMessages(c) == LET map == ReadMessages(c).map IN {Message(c, map[k]) : k \in DOMAIN map}
NewFields(c) == {<<Message(c, f[1]), f[2], f[3]>> : f \in ReadMessages(c).fields}

\* Foreign keys, uq_unit_designation, uq_connector_designator, uq_pin_number,
\* uq_pin_bus_assignment.
Refused(c) ==
  \/ \E u \in import[c].units \ tables.units :
       \E x \in NewConnectors(c) \cup NewBuses(c) : x[1] = u
  \/ \E u \in NewUnits(c), v \in tables.units : u[1] = v[1]
  \/ NewConnectors(c) \cap tables.connectors # {}
  \/ \E i, j \in PinRows(c) : i # j /\ PinAt(c, i) = PinAt(c, j)
  \/ \E i, j \in DOMAIN book.buses : i # j /\ AssignedAt(c, i) \cap AssignedAt(c, j) # {}

Made(c) ==
  [systems |-> {<<n, c>> : n \in NewSystems(c)}, units |-> NewUnits(c),
   connectors |-> NewConnectors(c), pins |-> NewPins(c), buses |-> NewBuses(c),
   assigned |-> UNION {AssignedAt(c, i) : i \in DOMAIN book.buses},
   messages |-> NewMessages(c), fields |-> NewFields(c)]

Confirm(c) ==
  /\ import[c].pc = "begun"
  /\ ~Refused(c)
  /\ LET made == Made(c)
         first == import[c].units = {} /\ import[c].systems = {}
     IN /\ tables' = [t \in DOMAIN tables |-> tables[t] \cup made[t]]
        /\ import' = [import EXCEPT ![c] = [pc |-> "imported", made |-> made, first |-> first]]
  /\ UNCHANGED book

\* A statement is refused, or the request dies: all of it is rolled back.
Fail(c) ==
  /\ import[c].pc = "begun"
  /\ import' = [import EXCEPT ![c] = [pc |-> "failed"]]
  /\ UNCHANGED <<book, tables>>

\* delete_unit with force, by another request.
DeleteUnit(u) ==
  /\ tables' = [tables EXCEPT
       !.units = @ \ {u},
       !.connectors = {x \in @ : x[1] # u}, !.pins = {x \in @ : x[1] # u},
       !.buses = {x \in @ : x[1] # u}, !.messages = {x \in @ : x[1] # u},
       !.assigned = {x \in @ : x[1][1] # u}, !.fields = {x \in @ : x[1][1] # u}]
  /\ UNCHANGED <<book, import>>

WorkbookNext ==
  \/ \E c \in Confirmations : BeginImport(c) \/ Confirm(c) \/ Fail(c)
  \/ \E u \in tables.units : DeleteUnit(u)

WorkbookSpec == WorkbookInit /\ [][WorkbookNext]_workbookVars
-----------------------------------------------------------------------------
(* The first import of a workbook that its preview calls valid makes the     *)
(* systems and units the preview has counted, and of connectors, pins, buses *)
(* and fields never more; and no name in a row of the messages sheet is ever *)
(* overruled: its field is in the message of that name, of the unit and the  *)
(* bus the row names. (Messages may be more than counted: a row that names   *)
(* another bus and no message makes one.)                                    *)
NeverMore(c, made) ==
  /\ \A t \in {"systems", "units"} : Cardinality(made[t]) = Previewed(book)[t]
  /\ \A t \in {"connectors", "pins", "buses", "fields"} :
       Cardinality(made[t]) <= Previewed(book)[t]
  /\ \A f \in made.fields :
       LET r == book.messages[f[2]]
       IN /\ r.unit # Blank => f[1][1] = <<r.unit, c>>
          /\ r.bus # Blank => f[1][2] = r.bus
          /\ r.message # Blank => f[1][3] = r.message

(* When it is regular as well, it makes all the preview has counted, and puts *)
(* each field into the message its row continues: the one named in that row, *)
(* or in the nearest row above that names one. Of the buses only those that  *)
(* two rows name are fewer than counted. Irregular, though valid, are: a row *)
(* that continues a message but names a unit or a bus, or that no message is *)
(* above of; a message named again after another one (a row below it then    *)
(* goes to the message made last); a pin without a connector; references to  *)
(* units or buses that are not in the workbook.                              *)
Heading(i) ==
  LET named == {j \in 1 .. i : book.messages[j].message # Blank}
  IN CHOOSE j \in named : \A k \in named : k <= j

Regular ==
  LET m == book.messages
      units == {r.unit : r \in Rows(book.units)}
      Same(i, j) == m[i].unit = m[j].unit /\ m[i].bus = m[j].bus /\ m[i].message = m[j].message
  IN /\ \A r \in Rows(book.connectors) : r.unit \in units /\ r.connector # Blank
     /\ \A r \in Rows(book.buses) : r.unit \in units
     /\ m # <<>> => m[1].message # Blank
     /\ \A r \in Rows(m) :
          IF r.message = Blank THEN r.unit = Blank /\ r.bus = Blank
          ELSE \E b \in Rows(book.buses) : r.unit = b.unit /\ r.bus = b.bus
     /\ \A i, k \in DOMAIN m : i < k /\ Same(i, k) =>
          \A j \in i .. k : m[j].message # Blank => Same(i, j)

NamedTwice ==
  \E i, j \in DOMAIN book.buses :
    i # j /\ book.buses[i].unit = book.buses[j].unit /\ book.buses[i].bus = book.buses[j].bus

AsPreviewed(c, made) ==
  /\ \A t \in {"connectors", "pins", "messages", "fields"} :
       Cardinality(made[t]) = Previewed(book)[t]
  /\ Cardinality(made.buses) = Previewed(book).buses <=> ~NamedTwice
  /\ \A f \in made.fields : LET r == book.messages[Heading(f[2])]
                            IN f[1] = <<<<r.unit, c>>, r.bus, r.message, c>>

ImportedAsPreviewed ==
  \A c \in Confirmations :
    Valid(book) /\ import[c].pc = "imported" /\ import[c].first =>
      NeverMore(c, import[c].made) /\ (Regular => AsPreviewed(c, import[c].made))
===============================================================================
