---------------------------- MODULE InterfaceTables ----------------------------
(***************************************************************************)
(* The tables of models/interface.py as one relation: a database is a      *)
(* function from the keys of its rows to the rows, a row a record of its   *)
(* kind and its foreign keys.  What the columns describe (names, ratings,  *)
(* descriptions) is left out, the rules of the foreign keys are kept:      *)
(*   "own"       the ORM deletes the rows with their owner (all,           *)
(*               delete-orphan); the database itself refuses               *)
(*   "cascade"   the database deletes the rows (ON DELETE CASCADE)         *)
(*   "null"      the column becomes NULL                                   *)
(*   "restrict"  the database refuses                                      *)
(***************************************************************************)
EXTENDS Naturals, TLC

CONSTANT None    \* NULL

SystemKeys == [parent |-> "null"]
UnitKeys == [system |-> "restrict"]
ConnectorKeys == [unit |-> "own"]                \* NULL: a harness owns it
PinKeys == [connector |-> "own", mates |-> "null"]
BusKeys == [unit |-> "own"]
AssignmentKeys == [pin |-> "restrict", bus |-> "own"]
MessageKeys == [bus |-> "own", unit |-> "restrict"]
FieldKeys == [message |-> "own"]
HarnessKeys == [fromUnit |-> "restrict", fromConnector |-> "restrict",
                toUnit |-> "restrict", toConnector |-> "restrict"]
WireKeys == [harness |-> "own", from |-> "restrict", to |-> "restrict",
             fromMate |-> "null", toMate |-> "null"]
EndpointKeys == [harness |-> "cascade", mating |-> "cascade", lru |-> "null"]
ConnectionKeys == [a |-> "cascade", b |-> "cascade"]
InterfaceKeys == [source |-> "restrict", target |-> "restrict",
                  sourceUnit |-> "null", targetUnit |-> "null"]

Keys == [system |-> SystemKeys, unit |-> UnitKeys, connector |-> ConnectorKeys,
         pin |-> PinKeys, bus |-> BusKeys, assignment |-> AssignmentKeys,
         message |-> MessageKeys, field |-> FieldKeys, harness |-> HarnessKeys,
         wire |-> WireKeys, endpoint |-> EndpointKeys,
         connection |-> ConnectionKeys, interface |-> InterfaceKeys]

\* What the foreign keys name.
Targets == [system |-> [parent |-> "system"],
            unit |-> [system |-> "system"],
            connector |-> [unit |-> "unit"],
            pin |-> [connector |-> "connector", mates |-> "unit"],
            bus |-> [unit |-> "unit"],
            assignment |-> [pin |-> "pin", bus |-> "bus"],
            message |-> [bus |-> "bus", unit |-> "unit"],
            field |-> [message |-> "message"],
            harness |-> [fromUnit |-> "unit", fromConnector |-> "connector",
                         toUnit |-> "unit", toConnector |-> "connector"],
            wire |-> [harness |-> "harness", from |-> "pin", to |-> "pin",
                      fromMate |-> "pin", toMate |-> "pin"],
            endpoint |-> [harness |-> "harness", mating |-> "connector", lru |-> "connector"],
            connection |-> [a |-> "unit", b |-> "unit"],
            interface |-> [source |-> "system", target |-> "system",
                           sourceUnit |-> "unit", targetUnit |-> "unit"]]

\* What the database promises: a foreign key is NULL, or names a row.
Refers(db, x, kind) == x = None \/ (x \in DOMAIN db /\ db[x].kind = kind)
ValidRow(db, v) ==
  /\ "kind" \in DOMAIN v /\ v.kind \in DOMAIN Keys
  /\ DOMAIN Keys[v.kind] \subseteq DOMAIN v
  /\ \A c \in DOMAIN Keys[v.kind] : Refers(db, v[c], Targets[v.kind][c])
Valid(db) == None \notin DOMAIN db /\ \A x \in DOMAIN db : ValidRow(db, db[x])

\* Rows of a kind, and those with one of the keys K in a column.
Rows(db, kind) == {x \in DOMAIN db : db[x].kind = kind}
Where(db, kind, column, K) == {x \in Rows(db, kind) : db[x][column] \in K}

\* The rows that go with D when the rules in "how" delete with the owner.
Falls(db, D, how) ==
  LET With(S) == S \cup {x \in DOMAIN db :
                   \E c \in DOMAIN Keys[db[x].kind] :
                     db[x][c] \in S /\ Keys[db[x].kind][c] \in how}
  IN  With(With(With(With(With(D)))))

\* Query.delete(): the database's rules; Session.delete(): the ORM's as well.
Bulk == {"cascade"}
Orm == {"cascade", "own"}

\* A row that stays refers to a row that goes, and may not be NULL.
Held(db, G) ==
  \E x \in DOMAIN db \ G : \E c \in DOMAIN Keys[db[x].kind] :
    db[x][c] \in G /\ Keys[db[x].kind][c] # "null"

Without(db, G) ==
  [x \in DOMAIN db \ G |->
     [c \in DOMAIN db[x] |->
        IF c \in DOMAIN Keys[db[x].kind] /\ db[x][c] \in G THEN None ELSE db[x][c]]]

Insert(db, new) ==
  [x \in DOMAIN new \cup DOMAIN db |-> IF x \in DOMAIN new THEN new[x] ELSE db[x]]
=============================================================================
