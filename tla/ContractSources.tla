--------------------------- MODULE ContractSources ---------------------------
(***************************************************************************)
(* Source artifacts (backend/app/routers/projects.py) and the rule that a  *)
(* customer's requirement, level L0, names the document it comes from      *)
(* (services/level_validator.py).  The rule is checked by two of the four  *)
(* handlers that write the level of a requirement, on the row they loaded; *)
(* the foreign key of source_artifact_id is ON DELETE SET NULL.            *)
(***************************************************************************)
EXTENDS FiniteSets

CONSTANTS
  Items,       \* ids of requirements
  Documents,   \* ids of source artifacts
  Edits,       \* PATCH requests, each made once
  Removals,    \* DELETE requests for artifacts, each made once
  Unset        \* no artifact; a field that is not in the body

Levels == {"L0", "L1"}
ContractAssumption == Unset \notin Documents

VARIABLES
  item,        \* Requirement rows: level and source_artifact_id
  documents,   \* SourceArtifact rows
  edit,        \* update_requirement, from the load to the commit
  removal,     \* delete_artifact, from the count to the DELETE
  told,        \* artifacts with an artifact.deleted event
  loose        \* history: requirements that a way around the rule has met

contractVars == <<item, documents, edit, removal, told, loose>>

Absent == [level |-> "absent", source |-> Unset]
Rows == {r \in Items : item[r] # Absent}
Citing(d) == {r \in Rows : item[r].source = d}

ContractInit ==
  /\ item = [r \in Items |-> Absent]
  /\ documents = {}
  /\ edit = [e \in Edits |-> [pc |-> "idle"]]
  /\ removal = [d \in Removals |-> [pc |-> "idle"]]
  /\ told = {}
  /\ loose = {}

\* validate_l0_source_artifact
Named(level, source) == level = "L0" => source \in documents

-----------------------------------------------------------------------------
\* create_requirement: the foreign key refuses what the rule lets through.
CreateItem(r, level, source) ==
  /\ item[r] = Absent
  /\ Named(level, source)
  /\ source \in documents \cup {Unset}
  /\ item' = [item EXCEPT ![r] = [level |-> level, source |-> source]]
  /\ UNCHANGED <<documents, edit, removal, told, loose>>

\* A row written without an artifact and without asking the rule.
Unlinked(r, level) ==
  /\ item[r] = Absent
  /\ item' = [item EXCEPT ![r] = [level |-> level, source |-> Unset]]
  /\ loose' = loose \cup {x \in {r} : level = "L0"}
  /\ UNCHANGED <<documents, edit, removal, told>>

\* clone_requirement copies the level and not the artifact.
CloneItem(r, from) == from \in Rows /\ Unlinked(r, item[from].level)

\* confirm_import takes the level of a row from the client: the preview knows
\* L1 to L5 only, but it is not looked at again.
ConfirmImport(r, level) == Unlinked(r, level)

-----------------------------------------------------------------------------
(* update_requirement: level and artifact are fields of one body; a null     *)
(* artifact counts as none given for the rule, and is written all the same.  *)

\* Mutant: the level the row has, not the one it is given, is asked about.
Ruled_OldLevel(body, seen) ==
  Named(seen.level,
        IF "source" \in DOMAIN body /\ body.source # Unset
          THEN body.source ELSE seen.source)

Ruled(body, seen) ==
  Named(IF "level" \in DOMAIN body THEN body.level ELSE seen.level,
        IF "source" \in DOMAIN body /\ body.source # Unset
          THEN body.source ELSE seen.source)

LoadEdit(e, r, body) ==
  /\ edit[e].pc = "idle"
  /\ r \in Rows
  /\ Ruled(body, item[r])
  /\ LET new == {f \in DOMAIN body : body[f] # item[r][f]} IN
     edit' = [edit EXCEPT ![e] =
       [pc |-> "loaded", req |-> r, set |-> [f \in new |-> body[f]]]]
  /\ UNCHANGED <<item, documents, removal, told, loose>>

\* What the UPDATE leaves: only the columns given a new value are in it.
Updated(old, call) ==
  [f \in {"level", "source"} |-> IF f \in DOMAIN call.set THEN call.set[f] ELSE old[f]]

\* The rule lets a null pass, for a row that is L0 or is about to be.
AroundTheRule(call) == "source" \in DOMAIN call.set /\ call.set.source = Unset

\* The foreign key refuses an artifact that is gone.
CommitEdit(e) ==
  LET call == edit[e]
      new  == Updated(item[call.req], call) IN
  /\ call.pc = "loaded"
  /\ edit' = [edit EXCEPT ![e] = [pc |-> "done"]]
  /\ IF "source" \in DOMAIN call.set /\ new.source \notin documents \cup {Unset}
     THEN UNCHANGED <<item, loose>>
     ELSE /\ item' = [item EXCEPT ![call.req] = new]
          /\ loose' = loose \cup {r \in {call.req} : AroundTheRule(call)}
  /\ UNCHANGED <<documents, removal, told>>

-----------------------------------------------------------------------------
CreateDocument(d) ==
  /\ d \notin documents \cup told
  /\ documents' = documents \cup {d}
  /\ UNCHANGED <<item, edit, removal, told, loose>>

\* delete_artifact counts the requirements and writes its audit event, which
\* commits,
BeginRemoval(x, d) ==
  /\ removal[x].pc = "idle"
  /\ d \in documents
  /\ Citing(d) = {}
  /\ told' = told \cup {d}
  /\ removal' = [removal EXCEPT ![x] = [pc |-> "told", doc |-> d]]
  /\ UNCHANGED <<item, documents, edit, loose>>

\* and deletes the row; a requirement that came to cite it loses its artifact.
FinishRemoval(x) ==
  LET d == removal[x].doc IN
  /\ removal[x].pc = "told"
  /\ removal' = [removal EXCEPT ![x] = [pc |-> "done"]]
  /\ documents' = documents \ {d}
  /\ item' = [r \in Items |->
       IF r \in Citing(d) THEN [item[r] EXCEPT !.source = Unset] ELSE item[r]]
  /\ loose' = loose \cup Citing(d)
  /\ UNCHANGED <<edit, told>>

\* A request that dies between its two transactions, or before its only one.
Drop ==
  /\ \/ \E e \in Edits :
          /\ edit[e].pc = "loaded"
          /\ edit' = [edit EXCEPT ![e] = [pc |-> "done"]]
          /\ UNCHANGED removal
     \/ \E x \in Removals :
          /\ removal[x].pc = "told"
          /\ removal' = [removal EXCEPT ![x] = [pc |-> "done"]]
          /\ UNCHANGED edit
  /\ UNCHANGED <<item, documents, told, loose>>

Bodies ==
  [level : Levels] \cup [source : Documents \cup {Unset}]
  \cup [level : Levels, source : Documents \cup {Unset}]

ContractNext ==
  \/ \E r \in Items :
       \/ \E level \in Levels, source \in Documents \cup {Unset} :
            CreateItem(r, level, source)
       \/ \E level \in Levels : ConfirmImport(r, level)
       \/ \E from \in Items : CloneItem(r, from)
       \/ \E e \in Edits, body \in Bodies : LoadEdit(e, r, body)
  \/ \E e \in Edits : CommitEdit(e)
  \/ \E d \in Documents :
       \/ CreateDocument(d)
       \/ \E x \in Removals : BeginRemoval(x, d)
  \/ \E x \in Removals : FinishRemoval(x)
  \/ Drop

ContractSpec == ContractInit /\ [][ContractNext]_contractVars

-----------------------------------------------------------------------------
(* A customer's requirement names a document that exists ("required for L0   *)
(* reqs to link back", models/__init__.py:222), whatever is created, edited  *)
(* and deleted and in whatever order.  Left out are the ways around the rule *)
(* that the code leaves open: the clone of an L0 requirement, an import of   *)
(* an L0 row, an edit that sets the artifact to null, and a requirement that *)
(* came to cite an artifact between the count and the DELETE of its          *)
(* deletion.                                                                 *)
ContractNamesDocument ==
  \A r \in Rows \ loose : item[r].level = "L0" => item[r].source \in documents
===============================================================================
