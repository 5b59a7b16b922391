------------------------------ MODULE CadportSync ------------------------------
(***************************************************************************)
(* Catalog parts that CADPORT, an external CAD tool, keeps a copy of:      *)
(* edits on either side and their propagation (backend/app/routers/        *)
(* catalog.py, services/cadport_outbound.py), the YAML file of a part      *)
(* (services/cadport/mass_recompute.py) and the totals of the assemblies   *)
(* it is in (services/cadport/assembly_rerollup.py, routers/cadport.py).   *)
(*                                                                         *)
(* A request loads a row, computes and commits later, writing the columns  *)
(* it changed; only then does it tell CADPORT, once, and the call may be   *)
(* lost. CADPORT propagates its own edits the same way and neither side    *)
(* answers a propagated edit with one of its own.                          *)
(***************************************************************************)
EXTENDS Naturals, FiniteSets
LOCAL INSTANCE Functions

CONSTANTS
  Synced, Assemblies,
  Editors,      \* requests, each made once, on either side
  Masses,     \* a subset of Nat \ {0}
  PartNames, Materials,
  Components, \* sets of components CADPORT may send for an assembly
  SeedPart,   \* [Parts -> rows]
  Unknown,    \* an inertia that belongs to no mass
  Nil

VARIABLES
  item,      \* CatalogPart rows; inertia stands for the mass it belongs to
  blob,      \* the YAML file of each part, or Nil: no file, or not one that can be read
  asm,       \* CadportAssembly rows with their components
  remote,    \* CADPORT's copy: mass and name, or None
  edit,
  excused,   \* what requests overlapped on, or a call was lost for (properties only)
  stale      \* assemblies no request that saw all of their parts rolled up (ditto)

cadportVars == <<item, blob, asm, remote, edit, excused, stale>>

Copies == [mass : Masses \cup {Nil}, name : PartNames]   \* what CADPORT keeps of a part
RowOK(row) ==
  /\ {"mass", "inertia", "source", "format", "material", "name", "deleted", "erased", "sha"}
       \subseteq DOMAIN row
  /\ row.mass \in Masses \cup {Nil} /\ row.name \in PartNames
  /\ row.deleted \in BOOLEAN /\ row.erased \in BOOLEAN   \* an erased row is deleted, too
YamlFile(row) == [mass |-> row.mass, inertia |-> row.inertia]

CadportAssumption ==
  /\ Nil \notin Copies
  /\ DOMAIN SeedPart = Synced
  /\ \A p \in Synced : /\ RowOK(SeedPart[p]) /\ ~SeedPart[p].deleted
                       /\ SeedPart[p].inertia \in {Nil, SeedPart[p].mass}
                       /\ SeedPart[p].sha = YamlFile(SeedPart[p])
  /\ \A comps \in Components : \A c \in comps : c.part \in Synced

Contribution(c, rows) ==
  LET p == rows[c.part] IN
  IF c.suppressed \/ p.deleted \/ p.mass = Nil \/ p.inertia = Nil THEN 0
  ELSE c.quantity * p.mass
\* rollup_assembly. The centre of mass and the inertia go with the mass.
Total(comps, rows) == SumFunction([c \in comps |-> Contribution(c, rows)])

CadportInit ==
  /\ item = SeedPart
  /\ blob = [p \in Synced |-> YamlFile(SeedPart[p])]
  /\ asm \in [Assemblies -> {[comps |-> s, total |-> Total(s, SeedPart)] : s \in Components}]
  /\ remote = [p \in Synced |-> [mass |-> SeedPart[p].mass, name |-> SeedPart[p].name]]
  /\ edit = [q \in Editors |-> [op |-> "idle"]]
  /\ excused = {}
  /\ stale = {}
---------------------------------------------------------------------------
(* Computing the new row *)

\* The uniform scaling identity: the tensor is lost when there was no mass.
Scaled(inertia, old, new) ==
  IF new = Nil \/ old = Nil \/ inertia = Nil THEN Nil
  ELSE IF inertia = old THEN new ELSE Unknown

\* Null clears mass and inertia; any mass drops the material it came from.
Weighed(row, m) ==
  [row EXCEPT !.mass = m, !.inertia = Scaled(row.inertia, row.mass, m),
              !.material = Nil, !.source = IF m = Nil THEN "cad" ELSE "user"]
\* The file is read, rescaled and written before the commit.
Rewritten(p, m) == [mass |-> m, inertia |-> Scaled(blob[p].inertia, blob[p].mass, m)]
Reweighed(p, m) == [Weighed(item[p], m) EXCEPT !.sha = Rewritten(p, m)]

Holding(p) == {a \in Assemblies : \E c \in asm[a].comps : c.part = p}
\* rerollup_assemblies_containing_part, with the row as it is going to be.
Rolled_Set(p, row) ==
  [a \in (IF row.mass = Nil THEN {} ELSE Holding(p)) |->
     Total(asm[a].comps, [item EXCEPT ![p] = row])]
Rolled(p, row) == [a \in Holding(p) |-> Total(asm[a].comps, [item EXCEPT ![p] = row])]

\* A request that has loaded row "saw" of p and is to commit "want" and "totals",
\* and then to tell CADPORT "news", a set of fields.
Editing(from, p, want, totals, news) ==
  [op |-> "commit", from |-> from, part |-> p, saw |-> item[p], want |-> want,
   totals |-> totals, sawTotals |-> [a \in DOMAIN totals |-> asm[a].total],
   held |-> IF "mass" \in news THEN Holding(p) ELSE {},
   news |-> news, overtaken |-> {}]
NoTotals == [a \in {} |-> 0]

\* Requests that rolled up one of these assemblies and have not committed it.
Overtake(As) ==
  [r \in Editors |-> IF edit[r].op = "commit"
                   THEN [edit[r] EXCEPT !.overtaken = @ \cup As] ELSE edit[r]]

Becomes(q, next) == edit' = [edit EXCEPT ![q] = next]
\* Fields of a part that request r is going to change on one of the sides.
Underway(r) ==
  CASE edit[r].op \in {"commit", "send"} -> {<<edit[r].part, f>> : f \in edit[r].news}
    [] edit[r].op = "arrive" -> {<<edit[r].part, edit[r].field>>}
    [] OTHER -> {}
Crossed(q, p, fields) ==
  {<<p, f>> : f \in fields} \cap UNION {Underway(r) : r \in Editors \ {q}}
---------------------------------------------------------------------------
(* Edits made in ASTRA *)

\* Mass of a SolidWorks part is CADPORT's (409).
MassIsUpstream(row) == row.format = "sldprt" /\ row.source = "cad"

\* The mass is set; the file follows if it can: one that is missing, cannot be
\* read or is lost while it is written does not stop the request.
Weigh(q, from, p, m) ==
  \/ LET want == Reweighed(p, m) IN
     /\ blob[p] # Nil
     /\ blob' = [blob EXCEPT ![p] = Rewritten(p, m)]
     /\ Becomes(q, Editing(from, p, want, Rolled(p, want), {"mass"}))
     /\ UNCHANGED excused
  \/ LET want == Weighed(item[p], m) IN
     /\ \E file \in {blob[p], Nil} : blob' = [blob EXCEPT ![p] = file]
     /\ Becomes(q, Editing(from, p, want, Rolled(p, want), {"mass"}))
     /\ excused' = excused \cup {<<p, "file">>}

PatchMass(q, p, m) ==
  /\ edit[q].op = "idle" /\ ~item[p].deleted /\ ~MassIsUpstream(item[p])
  /\ Weigh(q, "astra", p, m)
  /\ UNCHANGED <<item, asm, remote, stale>>

\* PATCH /name; /supplier is of the same form.
PatchName(q, p, n) ==
  /\ edit[q].op = "idle" /\ ~item[p].deleted
  /\ Becomes(q, Editing("astra", p, [item[p] EXCEPT !.name = n], NoTotals, {"name"}))
  /\ UNCHANGED <<item, blob, asm, remote, excused, stale>>

\* The general PATCH sets any column, mass and name included, and propagates
\* the material only. CADPORT keeps no material that could be compared.
PatchPart(q, p, field, v) ==
  /\ edit[q].op = "idle" /\ ~item[p].deleted
  /\ Becomes(q, Editing("astra", p, [item[p] EXCEPT ![field] = v], NoTotals,
                  IF field = "material" THEN {"material"} ELSE {}))
  /\ excused' = IF field = "material" THEN excused
                ELSE excused \cup {<<p, field>>, <<p, "row">>}
  /\ UNCHANGED <<item, blob, asm, remote, stale>>

DeleteCatalogPart(q, p) ==
  /\ edit[q].op = "idle" /\ ~item[p].deleted
  /\ item' = [item EXCEPT ![p].deleted = TRUE]
  /\ stale' = stale \cup Holding(p)
  /\ edit' = [Overtake(Holding(p)) EXCEPT ![q] =
       [op |-> "send", part |-> p, news |-> {"exists"}, row |-> Nil]]
  /\ UNCHANGED <<blob, asm, remote, excused>>

\* admin_force, and the forced deletion of its supplier: the row goes, and
\* CADPORT is not told.
EraseCatalogPart(q, p) ==
  LET held == IF item[p].deleted THEN {} ELSE Holding(p) IN
  /\ edit[q].op = "idle" /\ ~item[p].erased
  /\ item' = [item EXCEPT ![p].deleted = TRUE, ![p].erased = TRUE]
  /\ stale' = stale \cup held
  /\ excused' = excused \cup (IF item[p].deleted THEN {} ELSE {<<p, "exists">>})
  /\ edit' = [Overtake(held) EXCEPT ![q] = [op |-> "done"]]
  /\ UNCHANGED <<blob, asm, remote>>
---------------------------------------------------------------------------
(* Edits made in CADPORT *)

CadEdit(q, p, field, v) ==
  /\ edit[q].op = "idle" /\ remote[p] # Nil
  /\ remote' = [remote EXCEPT ![p][field] = v]
  /\ excused' = excused \cup Crossed(q, p, {field})
  /\ Becomes(q, [op |-> "arrive", part |-> p, field |-> field, value |-> v])
  /\ UNCHANGED <<item, blob, asm, stale>>

CadDelete(q, p) ==
  /\ edit[q].op = "idle" /\ remote[p] # Nil
  /\ remote' = [remote EXCEPT ![p] = Nil]
  /\ Becomes(q, [op |-> "arrive", part |-> p, field |-> "exists", value |-> Nil])
  /\ UNCHANGED <<item, blob, asm, excused, stale>>

\* sync_catalog_part_from_cadport: the same cascade, and no call back.
SyncFromCadport(q) ==
  LET p == edit[q].part  v == edit[q].value IN
  /\ edit[q].op = "arrive" /\ ~item[p].deleted
  /\ \/ /\ edit[q].field = "name"
        /\ Becomes(q, Editing("cadport", p, [item[p] EXCEPT !.name = v], NoTotals, {"name"}))
        /\ UNCHANGED <<blob, excused>>
     \/ edit[q].field = "mass" /\ Weigh(q, "cadport", p, v)
  /\ UNCHANGED <<item, asm, remote, stale>>

\* sync_delete_from_cadport, which may be repeated; edits of what is deleted (404).
SyncDelete(q) ==
  LET p == edit[q].part IN
  /\ edit[q].op = "arrive"
  /\ edit[q].field = "exists" \/ item[p].deleted
  /\ item' = [item EXCEPT ![p].deleted = TRUE]
  /\ stale' = IF item[p].deleted THEN stale ELSE stale \cup Holding(p)
  /\ edit' = [Overtake(IF item[p].deleted THEN {} ELSE Holding(p))
                EXCEPT ![q] = [op |-> "done"]]
  /\ UNCHANGED <<blob, asm, remote, excused>>

\* create_cadport_assembly: components and the total CADPORT has for them.
CadTotal(comps) ==
  SumFunction([c \in comps |-> IF remote[c.part] = Nil \/ remote[c.part].mass = Nil THEN 0
                               ELSE c.quantity * remote[c.part].mass])
ImportAssembly(q, a, comps) ==
  /\ edit[q].op = "idle"
  /\ asm' = [asm EXCEPT ![a] = [comps |-> comps, total |-> CadTotal(comps)]]
  /\ stale' = stale \cup {a}
  /\ edit' = [Overtake({a}) EXCEPT ![q] = [op |-> "done"]]
  /\ UNCHANGED <<item, blob, remote, excused>>
---------------------------------------------------------------------------
(* How a request goes on *)

\* An UPDATE sets the columns the request changed.
Applied_Row(now, saw, want) == [want EXCEPT !.deleted = now.deleted]
Applied(now, saw, want) ==
  [c \in DOMAIN now |-> IF saw[c] = want[c] THEN now[c] ELSE want[c]]

\* Another request that sets the mass of this part has loaded it too.
Overlapped(q) ==
  \E r \in Editors \ {q} :
    /\ edit[r].op = "commit" /\ edit[r].part = edit[q].part
    /\ "mass" \in edit[r].news \cap edit[q].news
\* The assemblies that count the part and do not count what becomes of it.
Affected(q) ==
  IF edit[q].want.mass = edit[q].saw.mass /\ edit[q].want.inertia = edit[q].saw.inertia THEN {}
  ELSE Holding(edit[q].part)

CommitEdit(q) ==
  LET e == edit[q]  p == e.part IN
  /\ e.op = "commit" /\ ~item[p].erased
  /\ item' = [item EXCEPT ![p] = Applied(item[p], e.saw, e.want)]
  /\ asm' = [a \in Assemblies |->
       IF a \in DOMAIN e.totals /\ e.totals[a] # e.sawTotals[a]
       THEN [asm[a] EXCEPT !.total = e.totals[a]] ELSE asm[a]]
  /\ stale' = (stale \ (e.held \ e.overtaken)) \cup (e.held \cap e.overtaken)
              \cup (Affected(q) \ e.held)
  /\ excused' = excused \cup Crossed(q, p, e.news)
                \cup (IF Overlapped(q) THEN {<<p, "row">>} ELSE {})
  /\ edit' = [Overtake(e.held \cup Affected(q)) EXCEPT ![q] =
       IF e.from = "astra"
       THEN [op |-> "send", part |-> p, news |-> e.news, row |-> item'[p]]
       ELSE [op |-> "done"]]
  /\ UNCHANGED <<blob, remote>>

\* The commit fails, or the row is gone: the columns are rolled back, the file is not.
AfterFailure_Sends(q) ==
  [op |-> "send", part |-> edit[q].part, news |-> edit[q].news, row |-> edit[q].want]
AfterFailure(q) == [op |-> "done"]
FailEdit(q) ==
  LET e == edit[q] IN
  /\ e.op = "commit"
  /\ excused' = excused
       \cup (IF "mass" \in e.news THEN {<<e.part, "row">>} ELSE {})
       \cup (IF e.from = "cadport" THEN {<<e.part, f>> : f \in e.news} ELSE {})
  /\ Becomes(q, AfterFailure(q))
  /\ UNCHANGED <<item, blob, asm, remote, stale>>

\* CADPORT's sync-from-astra and sync-delete-from-astra.
Delivered(copy, news, row) ==
  IF copy = Nil \/ "exists" \in news THEN Nil
  ELSE [f \in DOMAIN copy |-> IF f \in news THEN row[f] ELSE copy[f]]
Send(q) ==
  LET e == edit[q] IN
  /\ e.op = "send"
  /\ remote' = [remote EXCEPT ![e.part] = Delivered(@, e.news, e.row)]
  /\ Becomes(q, [op |-> "done"])
  /\ UNCHANGED <<item, blob, asm, excused, stale>>

\* A timeout, an error, or the process ends: nobody tries again.
Lose(q) ==
  /\ edit[q].op \in {"send", "arrive"}
  /\ excused' = excused \cup
       (IF edit[q].op = "send" THEN {<<edit[q].part, f>> : f \in edit[q].news}
        ELSE {<<edit[q].part, edit[q].field>>})
  /\ Becomes(q, [op |-> "done"])
  /\ UNCHANGED <<item, blob, asm, remote, stale>>

CadportNext ==
  \E q \in Editors :
    \/ \E p \in Synced :
         \/ \E m \in Masses \cup {Nil} : PatchMass(q, p, m)
         \/ \E n \in PartNames : PatchName(q, p, n) \/ PatchPart(q, p, "name", n)
         \/ \E m \in Masses : PatchPart(q, p, "mass", m)
         \/ \E k \in Materials : PatchPart(q, p, "material", k)
         \/ DeleteCatalogPart(q, p) \/ EraseCatalogPart(q, p)
         \/ \E m \in Masses : CadEdit(q, p, "mass", m)
         \/ \E n \in PartNames : CadEdit(q, p, "name", n)
         \/ CadDelete(q, p)
    \/ SyncFromCadport(q) \/ SyncDelete(q)
    \/ \E a \in Assemblies, comps \in Components : ImportAssembly(q, a, comps)
    \/ CommitEdit(q) \/ FailEdit(q) \/ Send(q) \/ Lose(q)
CadportSpec == CadportInit /\ [][CadportNext]_cadportVars
---------------------------------------------------------------------------
(* Nothing that is derived from the mass belongs to another mass: inertia  *)
(* and mass of a part match (catalog.py:1305), the hash is that of the     *)
(* YAML file, and the file is the row's (1198), after any edits, clears    *)
(* and propagated edits. Excepted are parts edited by two requests at      *)
(* once, one whose request failed after it had written the file, and one   *)
(* whose mass was set by the general PATCH, which rescales nothing. A file *)
(* a request could not rewrite (1217, "best-effort") may be of an older    *)
(* mass from then on; its hash and the inertia of the row still match.     *)
Derived(p, row, file) ==
  /\ row.inertia \in {Nil, row.mass}
  /\ file \in {Nil, row.sha}
  /\ <<p, "file">> \in excused \/ file = YamlFile(row)
DerivedFollowsMass ==
  \A p \in Synced :
    \/ <<p, "row">> \in excused
    \/ \E q \in Editors : edit[q].op = "commit" /\ edit[q].part = p
    \/ Derived(p, item[p], blob[p])

(* An assembly's total is that of the parts in it, whatever part was       *)
(* edited, on whatever side (catalog.py:1324, "Cascade to any assemblies   *)
(* containing this part"). Excepted until the next edit of one of its      *)
(* parts: totals that CADPORT sent, totals of requests that computed side  *)
(* by side, parts deleted since (nothing is rolled up then).               *)
TotalsAreCurrent ==
  \A a \in Assemblies \ stale : asm[a].total = Total(asm[a].comps, item)

(* "the rule that lets the bidirectional sync converge" (catalog.py:1522): *)
(* when nothing is under way, both sides agree on the mass and the name of *)
(* a part and on whether there is one. Excepted is what the code does not  *)
(* promise: a field edited again while an edit of it was on its way, a     *)
(* call that was lost, the fields the general PATCH does not send, and     *)
(* parts that were erased (catalog.py:1861): CADPORT goes on having them.  *)
SidesAgree ==
  (\A q \in Editors : edit[q].op \in {"idle", "done"}) =>
    \A p \in Synced :
      /\ <<p, "exists">> \in excused \/ (item[p].deleted <=> remote[p] = Nil)
      /\ \A f \in {"mass", "name"} :
           item[p].deleted \/ remote[p] = Nil \/ <<p, f>> \in excused
             \/ item[p][f] = remote[p][f]
=============================================================================
