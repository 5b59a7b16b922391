------------------------------- MODULE MCCatalog -------------------------------
(* Views of the part catalog: in the behaviours whose view is "imports", how   *)
(* parts get there; in those of "cadport", how they are edited and kept equal  *)
(* to CADPORT's copy; in those of "use", how projects use them.                *)
EXTENDS CatalogImports, ProjectParts, CadportSync, TLC
CONSTANTS q1, q2, q3, pdf, stp, cad, cad2, p1, p2, a1,
          s1, u1, l1, l2, j1, y1, n1

VARIABLE view
---------------------------------------------------------------------------
Numbered(rev) == [number |-> "n", revision |-> rev]
\* cad2 is a later content of the part cad was extracted from.
ImportKeys == [f \in Files |-> IF f = stp THEN Numbered("A") ELSE Numbered(None)]
Db(d, i, p) == [docs |-> d, imports |-> i, parts |-> p]
Doc(f, s) == [file |-> f, status |-> s]
Waiting(d, f) == [doc |-> d, key |-> ImportKeys[f], status |-> "pending", part |-> None]
ImportSeeds == {
  Db(<<>>, <<>>, <<>>),
  \* a STEP file and a CADPORT upload under review
  Db(<<Doc(stp, "pending_review"), Doc(cad, "uploaded")>>, <<Waiting(1, stp), Waiting(2, cad)>>, <<>>),
  \* the same CADPORT content uploaded twice
  Db(<<Doc(cad, "uploaded"), Doc(cad, "uploaded")>>, <<Waiting(1, cad), Waiting(2, cad)>>, <<>>),
  \* an approved STEP file
  Db(<<Doc(stp, "approved")>>, <<[Waiting(1, stp) EXCEPT !.status = "approved", !.part = 1]>>,
     <<[file |-> stp, key |-> ImportKeys[stp], doc |-> 1, by |-> 1, status |-> "live"]>>)}

Channels == pdf :> "datasheet" @@ stp :> "step" @@ cad :> "cadport" @@ cad2 :> "cadport"
CadportIds == [f \in Files |-> IF f \in {cad, cad2} THEN "c" ELSE "none"]
AllKeys == {Numbered("A"), Numbered(None)}
ASSUME ImportsAssumption
---------------------------------------------------------------------------
\* A SolidWorks part whose mass is CADPORT's, and a STEP part weighed by a user.
Row(m, source, format) ==
  [mass |-> m, inertia |-> m, source |-> source, format |-> format, material |-> None,
   name |-> "a", deleted |-> FALSE, erased |-> FALSE, sha |-> [mass |-> m, inertia |-> m]]
Component(p, n, suppressed) == [part |-> p, quantity |-> n, suppressed |-> suppressed]

EveryPart == {Component(p1, 1, FALSE), Component(p2, 2, FALSE)}
CadComponents == {EveryPart, {Component(p1, 1, FALSE), Component(p1, 1, TRUE)}}
CadSeed == p1 :> Row(1, "cad", "sldprt") @@ p2 :> Row(2, "user", "step")
ASSUME CadportAssumption
---------------------------------------------------------------------------
\* A part nothing uses; one a unit and a line use, next to a deleted one; and
\* one used by a jointed line.
UseRow(row) == [row |-> row, life |-> "active", supplier |-> IF row = "absent" THEN None ELSE s1]
UseLine(p, u) == [part |-> p, unit |-> u, parent |-> None]
UseDb(active, p, u, l, j) ==
  [supplier |-> s1 :> active, part |-> p, unit |-> u, line |-> l, joint |-> j, assigned |-> {}]
UseSeeds == {
  UseDb("active", p1 :> UseRow("live") @@ p2 :> UseRow("absent"), <<>>, <<>>, <<>>),
  UseDb("inactive", p1 :> [UseRow("live") EXCEPT !.life = "obsolete"] @@ p2 :> UseRow("deleted"),
        u1 :> [part |-> p1, name |-> n1], l1 :> UseLine(p1, u1) @@ l2 :> UseLine(None, None), <<>>),
  UseDb("active", p1 :> UseRow("live") @@ p2 :> UseRow("absent"), <<>>,
        l1 :> UseLine(p1, None), j1 :> [ends |-> {l1}, status |-> "active"])}

ASSUME ProjectAssumption
---------------------------------------------------------------------------
NoImports ==
  docs = <<>> /\ imports = <<>> /\ parts = <<>> /\ call = <<>> /\ link = <<>> /\ raced = {}
OneAssembly == CadportInit /\ asm = [a \in Assemblies |-> [comps |-> EveryPart, total |-> 5]]

NoUse ==
  /\ supplier = <<>> /\ part = [p \in Parts |-> UseRow("absent")] /\ unit = <<>> /\ line = <<>>
  /\ joint = <<>> /\ assigned = {} /\ request = <<>> /\ late = {}

MCInit ==
  \/ view = "imports" /\ Init /\ OneAssembly /\ NoUse
  \/ view = "cadport" /\ OneAssembly /\ NoImports /\ NoUse
  \/ view = "use" /\ ProjectInit /\ NoImports /\ OneAssembly
MCNext ==
  /\ UNCHANGED view
  /\ \/ view = "imports" /\ Next /\ UNCHANGED <<cadportVars, projectVars>>
     \/ view = "cadport" /\ CadportNext /\ UNCHANGED <<importVars, projectVars>>
     \/ view = "use" /\ ProjectNext /\ UNCHANGED <<importVars, cadportVars>>
MCSpec ==
  /\ MCInit /\ [][MCNext]_<<view, importVars, cadportVars, projectVars>>
  /\ \A q \in Calls : WF_importVars(view = "imports" /\ Going(q))

RequestSymmetry == Permutations(Calls)
===============================================================================
