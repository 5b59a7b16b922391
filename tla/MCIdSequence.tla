----------------------------- MODULE MCIdSequence -----------------------------
(* Numbers and revisions: the ids ASTRA gives out itself; in the behaviours    *)
(* whose view is "wpn", the part numbers it takes from HAROLD; in those whose  *)
(* view is "library", the parts library; in those whose view is                *)
(* "engineering", the revisions of configurations, decks and motors; in those  *)
(* whose view is "workbook", interfaces imported twice from one workbook.      *)
EXTENDS IdSequence, EngineeringRevisions, PartsLibrary, PartNumbers, WorkbookImport, TLC
CONSTANTS n1, f1, q4, c1, c2, b1, k1, i1, i2, g1, q1, q2, q3, w1, w2

VARIABLE view

\* Two imports of one new supplier, one configuration, three requests.
DefSuppliers == i1 :> "supplier" @@ i2 :> "supplier"
DefTyped == {NoNumber, [code |-> "PART", index |-> 1, rev |-> 1]}
DefWorkers == q1 :> w1 @@ q2 :> w1 @@ q3 :> w2
ASSUME PartAssumption

ASSUME LibraryAssumption
NoLib == lib = <<>> /\ nextVal = 1 /\ uploads = <<>> /\ task = <<>> /\ libCall = <<>>

\* One motor, one deck for the part 1, and a configuration of both, or none.
Body(comps, oml, aero, stages) ==
  [comps |-> comps, oml |-> oml, aero |-> aero, stages |-> stages]
Row(kind, body, oml, own) ==
  [kind |-> kind, name |-> n1, revs |-> <<[letter |-> 1, body |-> body]>>,
   active |-> 1, oml |-> oml, part |-> own]
Piece(mass, measured) == [mass |-> mass, live |-> TRUE, measured |-> measured]
Stock == <<Piece(1, TRUE), Piece(1, TRUE), Piece(2, FALSE)>>
DefBodies == {Body({1}, {}, None, {}), Body({1, 2}, {1}, <<2, 1>>, {<<1, 1>>}),
              Body({1, 3}, {1}, <<2, 1>>, {})}
DefSeeds ==
  {[items |-> <<>>, parts |-> SubSeq(Stock, 1, 2), frame |-> 0],
   [items |-> <<Row("motor", [mass |-> 2], None, 3), Row("aero", [oml |-> 1], 1, None),
                Row("config", [comps |-> {1, 2}, aero |-> <<2, 1>>, stages |-> {<<1, 1>>},
                               frame |-> 1, total |-> 2], None, None)>>,
    parts |-> Stock, frame |-> 1]}
ASSUME EngineeringAssumption
NoEng ==
  /\ item = <<>> /\ part = <<>> /\ frame = 0 /\ letters = {} /\ exports = {} /\ disk = {}
  /\ request = <<>> /\ failures = 0 /\ raced = {}

\* Workbooks. All but the unit, system, connector, pin, bus and message cells are alike.
UnitLine(u, y) == [unit |-> u, system |-> y]
PinLine(u, j, p) == [unit |-> u, connector |-> j, pin |-> p]
BusLine(u, b, ps) == [unit |-> u, bus |-> b, pins |-> ps]
MessageLine(u, b, m) == [unit |-> u, bus |-> b, message |-> m, field |-> "f"]
Upto(n, S) == UNION {[1 .. k -> S] : k \in 0 .. n}
Workbook(us, cs, bs, ms) == [units |-> us, connectors |-> cs, buses |-> bs, messages |-> ms]
OneBus == <<BusLine("u", "b", {<<"j", "p">>})>>
Idem == MessageLine("", "", "")
DefBooks ==
  \* Every sheet of up to three messages of two units' buses of one name.
  {Workbook(<<UnitLine("u", "y"), UnitLine("v", "y")>>, <<PinLine("u", "j", "p")>>,
            OneBus \o <<BusLine("v", "b", {})>>, ms) :
     ms \in Upto(3, {MessageLine("u", "b", "m"), MessageLine("u", "b", "n"),
                     MessageLine("v", "b", "m"), Idem})
           \cup Upto(2, {MessageLine("v", "b", "n"), MessageLine("", "", "m"),
                         MessageLine("u", "b", ""), Idem})}
  \cup
  \* Every pair of sheets of up to two units and two pins.
  {Workbook(us, cs, OneBus, <<MessageLine("u", "b", "m")>>) :
     us \in Upto(2, {UnitLine("u", "y"), UnitLine("v", "y"), UnitLine("u", ""),
                     UnitLine("", "y")}),
     cs \in Upto(2, {PinLine("u", "j", "p"), PinLine("u", "j", "q"), PinLine("u", "", "p"),
                     PinLine("v", "j", "p")})}
  \cup
  \* Every sheet of up to three buses, of which two may be one.
  {Workbook(<<UnitLine("u", "y"), UnitLine("v", "p")>>, <<PinLine("u", "j", "p")>>, bs,
            <<MessageLine("u", "b", "m"), Idem>>) :
     bs \in Upto(3, {BusLine("u", "b", {<<"j", "p">>}), BusLine("u", "b", {}),
                     BusLine("v", "b", {}), BusLine("u", "n", {}), BusLine("f", "b", {})})}
ASSUME WorkbookAssumption
NoWorkbook ==
  /\ book = Workbook(<<>>, <<>>, <<>>, <<>>)
  /\ tables = Empty
  /\ import = [c \in Confirmations |-> [pc |-> "idle"]]

NoIds ==
  /\ unique = FALSE /\ next_value = 0 /\ lock = Nobody /\ rows = {} /\ minted = {}
  /\ call = [c \in Calls |-> At("new", 0)] /\ counter = <<>> /\ faults = 0

MCInit == \/ view = "ids" /\ Init /\ WpnInit /\ NoLib /\ NoEng /\ NoWorkbook
          \/ view = "wpn" /\ NoIds /\ WpnInit /\ NoLib /\ NoEng /\ NoWorkbook
          \/ view = "library" /\ NoIds /\ WpnInit /\ LibraryInit /\ NoEng /\ NoWorkbook
          \/ view = "engineering" /\ NoIds /\ WpnInit /\ NoLib /\ EngineeringInit /\ NoWorkbook
          \/ view = "workbook" /\ NoIds /\ WpnInit /\ NoLib /\ NoEng /\ WorkbookInit
MCNext ==
  /\ UNCHANGED view
  /\ \/ view = "ids" /\ Next /\ UNCHANGED <<wpnVars, libraryVars, engVars, workbookVars>>
     \/ view = "wpn" /\ WpnNext /\ UNCHANGED <<vars, libraryVars, engVars, workbookVars>>
     \/ view = "library" /\ LibraryNext /\ UNCHANGED <<vars, wpnVars, engVars, workbookVars>>
     \/ view = "engineering" /\ EngineeringNext /\ UNCHANGED <<vars, wpnVars, libraryVars, workbookVars>>
     \/ view = "workbook" /\ WorkbookNext /\ UNCHANGED <<vars, wpnVars, libraryVars, engVars>>
allVars == <<view, vars, wpnVars, libraryVars, engVars, workbookVars>>
MCSpec ==
  /\ MCInit /\ [][MCNext]_allVars
  /\ \A c \in Calls : WF_vars(view = "ids" /\ CallStep(c))
===============================================================================
