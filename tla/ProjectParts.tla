------------------------------ MODULE ProjectParts ------------------------------
(***************************************************************************)
(* What projects use of the catalog, and how a part or a supplier goes:    *)
(* routers/catalog.py (suppliers, parts, placement, variants, deletion),   *)
(* services/catalog/placement.py, routers/project_parts.py (the lines of   *)
(* a project's bill of materials), routers/mechanical_joints.py and the    *)
(* units of routers/interface.py.                                          *)
(*                                                                         *)
(* A request reads and checks in one step (Begin) and writes in the next   *)
(* (CommitUse), where the database may still refuse: foreign keys and      *)
(* unique columns are all that holds between the two.                      *)
(***************************************************************************)
EXTENDS Naturals, FiniteSets

CONSTANTS
  Suppliers, Parts, Units, Lines, Joints, Systems, Names,
  UseCalls,  \* requests, each made once
  Databases, \* databases to start from: [supplier, part, unit, line, joint, assigned]
  Null

VARIABLES
  supplier,  \* [Suppliers -> "absent" | "active" | "inactive"]
  part,      \* [Parts -> [row, life, supplier]], row = "absent" | "live" | "deleted" | "erased"
  unit,      \* rows that exist: [subset of Units -> [part, name]]
  line,      \* [subset of Lines -> [part, unit, parent]]
  joint,     \* [subset of Joints -> [ends, status]]
  assigned,  \* system_part_assignments: set of <<system, line>>
  request,   \* [UseCalls -> what it read, or nothing]
  late       \* units and lines that took a part while it was being deleted, or
             \* after, or had it when CADPORT deleted it

\* Ids of units and lines are told apart. Databases are as earlier requests
\* leave them, but no row names a deleted part yet.
ProjectAssumption ==
  /\ Null \notin Parts /\ Units \cap Lines = {}
  /\ \A db \in Databases :
       /\ db.part = [p \in Parts |-> db.part[p]]
       /\ \A p \in Parts : "row" \in DOMAIN db.part[p]
       /\ DOMAIN db.unit \subseteq Units /\ DOMAIN db.line \subseteq Lines
       /\ \A u \in DOMAIN db.unit : "part" \in DOMAIN db.unit[u]
       /\ \A l \in DOMAIN db.line : "part" \in DOMAIN db.line[l]
       /\ \A p \in Parts : db.part[p].row = "deleted" =>
            /\ \A u \in DOMAIN db.unit : db.unit[u].part # p
            /\ \A l \in DOMAIN db.line : db.line[l].part # p

projectVars == <<supplier, part, unit, line, joint, assigned, request, late>>

ProjectInit ==
  /\ \E db \in Databases :
       /\ supplier = db.supplier /\ part = db.part
       /\ unit = db.unit /\ line = db.line /\ joint = db.joint /\ assigned = db.assigned
  /\ request = [q \in UseCalls |-> [op |-> "idle"]]
  /\ late = {}

Put(f, k, row) == [x \in DOMAIN f \cup {k} |-> IF x = k THEN row ELSE f[x]]
Drop(f, k) == [x \in DOMAIN f \ {k} |-> f[x]]
---------------------------------------------------------------------------
(* What the tables enforce *)

HasRow(p) == part[p].row \in {"live", "deleted"}
References(p) == p # Null => HasRow(p)
DesignationFree(name) == \A u \in DOMAIN unit : unit[u].name # name
\* ON DELETE RESTRICT of part_a_id and part_b_id, whatever the joint's status
Jointed(l) == \E j \in DOMAIN joint : l \in joint[j].ends
\* The ORM forgets the part in the units and lines that name it before it
\* deletes the row.
Forget(rows, ps) == [x \in DOMAIN rows |-> IF rows[x].part \in ps THEN [rows[x] EXCEPT !.part = Null] ELSE rows[x]]
Erase(ps) ==
  /\ part' = [p \in Parts |-> IF p \in ps THEN [part[p] EXCEPT !.row = "erased"] ELSE part[p]]
  /\ unit' = Forget(unit, ps)
  /\ line' = Forget(line, ps)
---------------------------------------------------------------------------
(* What a request checks *)

CanSupply(s) == supplier[s] # "absent"
\* place_catalog_part: deleted parts are not left out.
CanPlace(p, admin, force) ==
  /\ HasRow(p)
  /\ part[p].life = "restricted" => admin
  /\ part[p].life = "obsolete" => admin /\ force
  /\ supplier[part[p].supplier] = "inactive" => admin
\* A part is used by the lines that name it, the joints of those and its units.
Usage_Units(p) == {u \in DOMAIN unit : unit[u].part = p}
Usage(p) ==
  LET rows == {l \in DOMAIN line : line[l].part = p} IN
  rows \cup {u \in DOMAIN unit : unit[u].part = p} \cup {j \in DOMAIN joint : joint[j].ends \cap rows # {}}

ActivelyJointed(l) == \E j \in DOMAIN joint : l \in joint[j].ends /\ joint[j].status = "active"

\* admin, force: the user's role and a query parameter.
Ready(r) ==
  CASE r.op = "create supplier" -> ~CanSupply(r.supplier)
    [] r.op = "update supplier" -> CanSupply(r.supplier)
    [] r.op = "delete supplier" -> /\ CanSupply(r.supplier)
                                   /\ (\E p \in Parts : HasRow(p) /\ part[p].supplier = r.supplier) => r.force
    [] r.op = "create part" -> part[r.part].row = "absent" /\ CanSupply(r.supplier)
    [] r.op = "vary part" -> part[r.part].row = "absent" /\ part[r.from].row = "live"
    [] r.op = "retire part" -> part[r.part].row = "live"
    [] r.op = "delete part" -> part[r.part].row = "live" /\ Usage(r.part) = {}
    [] r.op \in {"erase part", "CADPORT deletes part"} -> HasRow(r.part)
    [] r.op = "place part" -> /\ \E admin, force \in BOOLEAN : CanPlace(r.part, admin, force)
                              /\ DesignationFree(r.name)
    [] r.op = "create unit" -> DesignationFree(r.name)   \* catalog_part_id is not looked up
    [] r.op = "relink unit" -> r.unit \in DOMAIN unit
    [] r.op = "delete unit" -> r.unit \in DOMAIN unit
    [] r.op = "add line" -> /\ References(r.part)
                            /\ r.parent \in DOMAIN line \cup {Null}
    [] r.op = "update line" -> /\ r.line \in DOMAIN line /\ References(r.part)
                               /\ r.parent \in (DOMAIN line \cup {Null}) \ {r.line}
    [] r.op = "remove line" -> /\ r.line \in DOMAIN line
                               /\ \E force \in BOOLEAN : force \/ ~ActivelyJointed(r.line)
    [] r.op = "assign line" -> r.line \in DOMAIN line /\ <<r.system, r.line>> \notin assigned
    [] r.op = "unassign line" -> <<r.system, r.line>> \in assigned
    [] r.op = "create joint" -> r.ends \subseteq DOMAIN line
    [] r.op = "activate joint" -> r.joint \in DOMAIN joint /\ joint[r.joint].status = "draft"
    [] r.op = "delete joint" -> /\ r.joint \in DOMAIN joint /\ joint[r.joint].status # "superseded"
                                /\ r.active <=> joint[r.joint].status = "active"   \* forced, by an admin

\* Ids are given out in the commit; which request is given which does not matter.
SupplierRequests ==
  [op : {"create supplier", "update supplier"}, supplier : Suppliers] \cup
  [op : {"delete supplier"}, supplier : Suppliers, force : BOOLEAN]
PartRequests ==
  [op : {"create part"}, part : Parts, supplier : Suppliers] \cup
  [op : {"vary part"}, part : Parts, from : Parts] \cup
  [op : {"retire part", "delete part", "erase part", "CADPORT deletes part"}, part : Parts]
UnitRequests ==
  [op : {"place part"}, part : Parts, unit : Units, name : Names] \cup
  [op : {"create unit"}, part : Parts \cup {Null}, unit : Units, name : Names] \cup
  [op : {"relink unit"}, part : Parts \cup {Null}, unit : Units] \cup
  [op : {"delete unit"}, unit : Units]
LineRequests ==
  [op : {"add line", "update line"}, line : Lines, part : Parts \cup {Null},
   unit : Units \cup {Null}, parent : Lines \cup {Null}] \cup
  [op : {"remove line"}, line : Lines] \cup
  [op : {"assign line", "unassign line"}, system : Systems, line : Lines]
JointRequests ==
  [op : {"create joint"}, joint : Joints, ends : {{l, k} : l \in Lines, k \in Lines}] \cup
  [op : {"activate joint"}, joint : Joints] \cup
  [op : {"delete joint"}, joint : Joints, active : BOOLEAN]
Requests == SupplierRequests \cup PartRequests \cup UnitRequests \cup LineRequests \cup JointRequests

Begin(q, r) ==
  /\ request[q].op = "idle" /\ Ready(r)
  /\ request' = [request EXCEPT ![q] = r]
  /\ UNCHANGED <<supplier, part, unit, line, joint, assigned, late>>
---------------------------------------------------------------------------
(* What a request writes *)

Leaving(p) == part[p].row = "deleted" \/ \E q \in UseCalls : request[q].op = "delete part" /\ request[q].part = p
Takes(row, p) == late' = IF p # Null /\ Leaving(p) THEN late \cup {<<row, p>>} ELSE late

CreateSupplier(r) ==
  /\ ~CanSupply(r.supplier)                              \* UNIQUE(name)
  /\ supplier' = [supplier EXCEPT ![r.supplier] = "active"]
  /\ UNCHANGED <<part, unit, line, joint, assigned, late>>

UpdateSupplier(r) ==
  /\ CanSupply(r.supplier)
  /\ \E active \in {"active", "inactive"} : supplier' = [supplier EXCEPT ![r.supplier] = active]
  /\ UNCHANGED <<part, unit, line, joint, assigned, late>>

\* The audit event commits the deletion of the parts; the supplier goes with
\* the next commit, unless a part was created in between (EndSupplier).
DeleteSupplier(r) ==
  LET ps == {p \in Parts : HasRow(p) /\ part[p].supplier = r.supplier} IN
  /\ IF r.force THEN Erase(ps) ELSE UNCHANGED <<part, unit, line>>
  /\ UNCHANGED <<supplier, joint, assigned, late>>
EndSupplier(q) ==
  LET s == request[q].supplier IN
  /\ request[q].op = "end supplier"
  /\ supplier' = IF \E p \in Parts : HasRow(p) /\ part[p].supplier = s   \* NOT NULL
                 THEN supplier ELSE [supplier EXCEPT ![s] = "absent"]
  /\ request' = [request EXCEPT ![q] = [op |-> "done"]]
  /\ UNCHANGED <<part, unit, line, joint, assigned, late>>

CreatePart(r) ==
  /\ part[r.part].row = "absent" /\ CanSupply(r.supplier)
  /\ part' = [part EXCEPT ![r.part] = [row |-> "live", life |-> "active", supplier |-> r.supplier]]
  /\ UNCHANGED <<supplier, unit, line, joint, assigned, late>>

\* A variant is a copy of the row as it was read.
VaryPart(r) ==
  /\ part[r.part].row = "absent" /\ CanSupply(part[r.from].supplier)
  /\ part' = [part EXCEPT ![r.part] = [part[r.from] EXCEPT !.row = "live"]]
  /\ UNCHANGED <<supplier, unit, line, joint, assigned, late>>

RetirePart(r) ==
  /\ HasRow(r.part)
  /\ \E life \in {"active", "restricted", "obsolete"} : part' = [part EXCEPT ![r.part].life = life]
  /\ UNCHANGED <<supplier, unit, line, joint, assigned, late>>

\* deleted_at and its event are one commit; the usage is not counted again.
DeleteUnused(r) ==
  /\ HasRow(r.part)
  /\ part' = [part EXCEPT ![r.part].row = "deleted"]
  /\ UNCHANGED <<supplier, unit, line, joint, assigned, late>>

\* sync_delete_from_cadport counts no usage.
DeleteUnasked(r) ==
  /\ HasRow(r.part)
  /\ part' = [part EXCEPT ![r.part].row = "deleted"]
  /\ late' = late \cup {<<u, r.part>> : u \in {u \in DOMAIN unit : unit[u].part = r.part}}
                  \cup {<<l, r.part>> : l \in {l \in DOMAIN line : line[l].part = r.part}}
  /\ UNCHANGED <<supplier, unit, line, joint, assigned>>

ErasePart(r) ==
  /\ HasRow(r.part) /\ Erase({r.part})
  /\ UNCHANGED <<supplier, joint, assigned, late>>

PutUnit(u, p, name) ==
  /\ References(p)
  /\ unit' = Put(unit, u, [part |-> p, name |-> name])
  /\ Takes(u, p)
  /\ UNCHANGED <<supplier, part, line, joint, assigned>>
NewUnit(r) ==
  /\ r.unit \notin DOMAIN unit /\ DesignationFree(r.name)   \* uq_unit_designation
  /\ PutUnit(r.unit, r.part, r.name)
RelinkUnit(r) == r.unit \in DOMAIN unit /\ PutUnit(r.unit, r.part, unit[r.unit].name)

DeleteUnit(r) ==
  /\ r.unit \in DOMAIN unit
  /\ unit' = Drop(unit, r.unit)
  /\ line' = [l \in DOMAIN line |-> IF line[l].unit = r.unit THEN [line[l] EXCEPT !.unit = Null] ELSE line[l]]
  /\ late' = {x \in late : x[1] # r.unit}
  /\ UNCHANGED <<supplier, part, joint, assigned>>

PutLine(r) ==
  /\ References(r.part)
  /\ r.unit \in DOMAIN unit \cup {Null} /\ r.parent \in DOMAIN line \cup {Null}
  /\ line' = Put(line, r.line, [part |-> r.part, unit |-> r.unit, parent |-> r.parent])
  /\ Takes(r.line, r.part)
  /\ UNCHANGED <<supplier, part, unit, joint, assigned>>
AddLine(r) == r.line \notin DOMAIN line /\ PutLine(r)
\* Only a line that is its own parent is refused.
UpdateLine(r) == r.line \in DOMAIN line /\ PutLine(r)

\* force lifts the check of active joints, not the constraint.
RemoveLine(r) ==
  LET rest == Drop(line, r.line) IN
  /\ r.line \in DOMAIN line /\ ~Jointed(r.line)
  /\ line' = [l \in DOMAIN rest |-> IF rest[l].parent = r.line THEN [rest[l] EXCEPT !.parent = Null] ELSE rest[l]]
  /\ assigned' = {a \in assigned : a[2] # r.line}
  /\ late' = {x \in late : x[1] # r.line}
  /\ UNCHANGED <<supplier, part, unit, joint>>

AssignLine(r) ==
  /\ r.line \in DOMAIN line /\ <<r.system, r.line>> \notin assigned
  /\ assigned' = assigned \cup {<<r.system, r.line>>}
  /\ UNCHANGED <<supplier, part, unit, line, joint, late>>
UnassignLine(r) ==
  /\ assigned' = assigned \ {<<r.system, r.line>>}
  /\ UNCHANGED <<supplier, part, unit, line, joint, late>>

CreateJoint(r) ==
  /\ r.joint \notin DOMAIN joint /\ r.ends \subseteq DOMAIN line
  /\ joint' = Put(joint, r.joint, [ends |-> r.ends, status |-> "draft"])
  /\ UNCHANGED <<supplier, part, unit, line, assigned, late>>
ActivateJoint(r) ==
  /\ r.joint \in DOMAIN joint
  /\ joint' = [joint EXCEPT ![r.joint].status = "active"]
  /\ UNCHANGED <<supplier, part, unit, line, assigned, late>>
\* By the status that was read: a draft is deleted, an active one superseded.
DeleteJoint(r) ==
  /\ r.joint \in DOMAIN joint
  /\ joint' = IF r.active THEN [joint EXCEPT ![r.joint].status = "superseded"] ELSE Drop(joint, r.joint)
  /\ UNCHANGED <<supplier, part, unit, line, assigned, late>>

Writes(r) ==
  \/ r.op = "create supplier" /\ CreateSupplier(r)
  \/ r.op = "update supplier" /\ UpdateSupplier(r)
  \/ r.op = "delete supplier" /\ DeleteSupplier(r)
  \/ r.op = "create part" /\ CreatePart(r)
  \/ r.op = "vary part" /\ VaryPart(r)
  \/ r.op = "retire part" /\ RetirePart(r)
  \/ r.op = "delete part" /\ DeleteUnused(r)
  \/ r.op = "CADPORT deletes part" /\ DeleteUnasked(r)
  \/ r.op = "erase part" /\ ErasePart(r)
  \/ r.op \in {"place part", "create unit"} /\ NewUnit(r)
  \/ r.op = "relink unit" /\ RelinkUnit(r)
  \/ r.op = "delete unit" /\ DeleteUnit(r)
  \/ r.op = "add line" /\ AddLine(r)
  \/ r.op = "update line" /\ UpdateLine(r)
  \/ r.op = "remove line" /\ RemoveLine(r)
  \/ r.op = "assign line" /\ AssignLine(r)
  \/ r.op = "unassign line" /\ UnassignLine(r)
  \/ r.op = "create joint" /\ CreateJoint(r)
  \/ r.op = "activate joint" /\ ActivateJoint(r)
  \/ r.op = "delete joint" /\ DeleteJoint(r)

CommitUse(q) ==
  /\ Writes(request[q])
  /\ request' = [request EXCEPT ![q] =
                    IF request[q].op = "delete supplier"
                    THEN [op |-> "end supplier", supplier |-> request[q].supplier]
                    ELSE [op |-> "done"]]
\* The database refuses, or the worker dies: the transaction is undone.
Fail(q) ==
  /\ request[q].op \notin {"idle", "done"}
  /\ request' = [request EXCEPT ![q] = [op |-> "done"]]
  /\ UNCHANGED <<supplier, part, unit, line, joint, assigned, late>>

ProjectNext ==
  \/ \E q \in UseCalls, r \in Requests : Begin(q, r)
  \/ \E q \in UseCalls : CommitUse(q) \/ EndSupplier(q) \/ Fail(q)

ProjectSpec == ProjectInit /\ [][ProjectNext]_projectVars
---------------------------------------------------------------------------
(* A part that was deleted softly was used nowhere (catalog.py:1843, "when *)
(* no downstream refs"), although lines take and lose parts, joints join   *)
(* them and units are placed while it is decided: the rows that name it    *)
(* took it while it was being deleted or, as placement and the bill of     *)
(* materials do not look at deleted_at, after. What CADPORT deletes        *)
(* (catalog.py:1761) may be in use: only its users at that time are let.   *)
DeletedPartsWereUnused ==
  \A p \in Parts : part[p].row = "deleted" =>
    /\ \A u \in DOMAIN unit : unit[u].part = p => <<u, p>> \in late
    /\ \A l \in DOMAIN line : line[l].part = p => <<l, p>> \in late
=============================================================================
