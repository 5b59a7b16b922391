----------------------------- MODULE CatalogImports -----------------------------
(***************************************************************************)
(* From a file to a catalog part: backend/app/routers/catalog.py (uploads, *)
(* extraction, the review of pending imports), routers/cadport.py (the     *)
(* uploads CADPORT makes) and services/catalog/icd_extractor.py.           *)
(*                                                                         *)
(* A file comes in by one of three channels. A datasheet becomes a         *)
(* document that waits for its extraction. A STEP file and a CADPORT       *)
(* upload become a document and a pending import at once, and a CADPORT    *)
(* client may also create the part directly. A reviewer then approves or   *)
(* rejects the import; an approval inserts the part, tells CADPORT, asks   *)
(* HAROLD for a number and commits only then.                              *)
(*                                                                         *)
(* A request reads and decides, and writes later; several run at once      *)
(* (READ COMMITTED). Rows an approval has written stay locked until it     *)
(* ends. Row ids are positions and are never used again.                   *)
(***************************************************************************)
EXTENDS Naturals, Sequences, FiniteSets

CONSTANTS
  Files,     \* contents of files; a file stands for its hash
  channel,   \* [Files -> {"datasheet", "step", "cadport"}]
  cadId,     \* [Files -> ids of parts in CADPORT]
  keyOf,     \* [Files -> Keys], what is read from the file
  Keys,      \* records [number, revision]: the columns of uq_catalog_part_pn_rev
  Calls,     \* requests, each made once
  Seeds,     \* databases to start from: [docs, imports, parts]
  None

VARIABLES
  docs,      \* SupplierDocument rows: [file, status]
  imports,   \* PendingCatalogImport rows: [doc, key, status, part]
  parts,     \* CatalogPart rows: [file, key, doc, by, status]
  call,      \* what each request has read and is about to do
  link,      \* CADPORT's cadport_parts.catalog_part_id
  raced      \* imports two requests decided at once (properties only)

importVars == <<docs, imports, parts, call, link, raced>>

Gone == {"dropped", "erased"}     \* deleted with its import, or by an admin

\* Tables as earlier requests leave them: the rows are there and have their
\* columns, an import has a document, and a part names the import it is from.
IsSeq(s) == s \in Seq({s[x] : x \in DOMAIN s})
Sound(d, i, p) ==
  /\ IsSeq(d) /\ IsSeq(i) /\ IsSeq(p)
  /\ \A x \in DOMAIN d : {"file", "status"} \subseteq DOMAIN d[x]
  /\ \A x \in DOMAIN i :
       {"doc", "key", "status", "part"} \subseteq DOMAIN i[x] /\ i[x].doc \in DOMAIN d
  /\ \A x \in DOMAIN p :
       {"file", "key", "doc", "by", "status"} \subseteq DOMAIN p[x] /\ p[x].by \in DOMAIN i \cup {None}

\* What OneOutcome and KeepsSource say holds of what those requests did.
Settled(db) ==
  /\ Sound(db.docs, db.imports, db.parts)
  /\ \A i \in DOMAIN db.imports :
       LET row == db.imports[i]
           made == {p \in DOMAIN db.parts : db.parts[p].by = i /\
                                             db.parts[p].status \in {"live", "deleted"}} IN
       row.status \in Gone \/
       IF row.status = "approved"
       THEN /\ row.part \in DOMAIN db.parts
            /\ made = {row.part} \/ (made = {} /\ db.parts[row.part].file = db.docs[row.doc].file)
       ELSE made = {} /\ row.part = None
  /\ \A p \in DOMAIN db.parts :
       db.parts[p].status = "live" /\ db.parts[p].doc \in DOMAIN db.docs =>
         db.docs[db.parts[p].doc].status # "dropped"
ImportsAssumption == None \notin Nat /\ \A db \in Seeds : Settled(db)

Init ==
  /\ \E s \in Seeds : docs = s.docs /\ imports = s.imports /\ parts = s.parts
  /\ call = [q \in Calls |-> [op |-> "idle"]]
  /\ link = [c \in {cadId[f] : f \in Files} |-> None]
  /\ raced = {}

Present(rows) == {x \in DOMAIN rows : rows[x].status \notin Gone}
LiveParts == {p \in DOMAIN parts : parts[p].status = "live"}
Pending(i) == imports[i].status = "pending"
File(i) == docs[imports[i].doc].file

\* A row written by an approval that has not ended.
LockedImport(i) == \E q \in Calls : call[q].op = "commit" /\ call[q].arg = i
LockedDoc(d) == \E i \in DOMAIN imports : imports[i].doc = d /\ LockedImport(i)

Then(q, next) == call' = [call EXCEPT ![q] = next]
Ends(q) == Then(q, [op |-> "done"])
---------------------------------------------------------------------------
(* Uploads *)

HasLivePart(d) == \E p \in LiveParts : parts[p].doc = d
HasPending(d) == \E i \in DOMAIN imports : imports[i].doc = d /\ Pending(i)

\* Whether an upload of f is refused as one that is there already.
Duplicate(f) ==
  \E d \in Present(docs) :
    /\ docs[d].file = f
    /\ CASE channel[f] = "datasheet" -> TRUE
         [] channel[f] = "step" -> HasLivePart(d) \/ HasPending(d)
         [] channel[f] = "cadport" -> FALSE

Upload(q, f) ==
  /\ call[q].op = "idle" /\ ~Duplicate(f)
  /\ Then(q, [op |-> "store", arg |-> f])
  /\ UNCHANGED <<docs, imports, parts, link, raced>>

Document(f) == [file |-> f, status |-> IF channel[f] = "step" THEN "pending_review" ELSE "uploaded"]
Import(d, k) == [doc |-> d, key |-> k, status |-> "pending", part |-> None]

StoreDatasheet(q) ==
  LET f == call[q].arg IN
  /\ call[q].op = "store" /\ channel[f] = "datasheet"
  /\ docs' = Append(docs, Document(f))
  /\ Ends(q)
  /\ UNCHANGED <<imports, parts, link, raced>>

\* The document is committed with an import that waits for a review.
StoreForReview(q, f) ==
  /\ call[q].op = "store" /\ call[q].arg = f
  /\ docs' = Append(docs, Document(f))
  /\ imports' = Append(imports, Import(Len(docs'), keyOf[f]))
  /\ Ends(q)
  /\ UNCHANGED <<parts, link, raced>>
StoreStepFile(q) == \E f \in Files : channel[f] = "step" /\ StoreForReview(q, f)
StoreFromCadport(q) == \E f \in Files : channel[f] = "cadport" /\ StoreForReview(q, f)

Store(q) == StoreDatasheet(q) \/ StoreStepFile(q) \/ StoreFromCadport(q)

\* The lowest-numbered live part made from the same content, if any.
SameContent(f) == {p \in LiveParts : parts[p].file = f}
Lowest(S) == {p \in S : \A r \in S : p <= r}

\* An insert waits for one of the same unique value, and fails if that is kept.
Clash(f, k) ==
  {p \in DOMAIN parts :
     /\ parts[p].status # "gone"
     /\ \/ channel[f] = "cadport" /\ channel[parts[p].file] = "cadport"
           /\ cadId[parts[p].file] = cadId[f]
        \/ k.revision # None /\ parts[p].key = k}
MustWait(f, k) == \E p \in Clash(f, k) : parts[p].status = "new"

Part(f, k, d, by, status) ==
  [file |-> f, key |-> k, doc |-> d, by |-> by, status |-> status]

\* create_part_from_cadport: without a review.
CreateDirectly(q, f) ==
  /\ call[q].op = "idle" /\ channel[f] = "cadport" /\ SameContent(f) = {}
  /\ Then(q, [op |-> "create", arg |-> f])
  /\ UNCHANGED <<docs, imports, parts, link, raced>>

InsertDirectly(q) ==
  LET f == call[q].arg IN
  /\ call[q].op = "create" /\ ~MustWait(f, keyOf[f])
  /\ IF Clash(f, keyOf[f]) # {} THEN UNCHANGED <<docs, parts>>
     ELSE /\ docs' = Append(docs, Document(f))
          /\ parts' = Append(parts, Part(f, keyOf[f], Len(docs'), None, "live"))
  /\ Ends(q)
  /\ UNCHANGED <<imports, link, raced>>
---------------------------------------------------------------------------
(* Extraction of a datasheet *)

Extractable == {"uploaded", "failed"}

RequestExtraction(q, d) ==
  /\ call[q].op = "idle" /\ docs[d].status \in Extractable
  /\ Then(q, [op |-> "mark", arg |-> d])
  /\ UNCHANGED <<docs, imports, parts, link, raced>>

\* The status is set and committed, and the background task queued.
MarkExtracting(q) ==
  LET d == call[q].arg IN
  /\ call[q].op = "mark" /\ ~LockedDoc(d)
  /\ IF docs[d].status \in Gone THEN UNCHANGED docs /\ Ends(q)
     ELSE /\ docs' = [docs EXCEPT ![d].status = "extracting"]
          /\ Then(q, [op |-> "task", arg |-> d])
  /\ UNCHANGED <<imports, parts, link, raced>>

\* trigger_extraction, in the task: it runs only on a document that may still
\* be extracted, and leaves it failed or with a pending import.
Extract(q) ==
  LET d == call[q].arg IN
  /\ call[q].op = "task"
  /\ IF docs[d].status \notin Extractable THEN UNCHANGED <<docs, imports>>
     ELSE \/ docs' = [docs EXCEPT ![d].status = "failed"] /\ UNCHANGED imports
          \/ /\ docs' = [docs EXCEPT ![d].status = "pending_review"]
             /\ imports' = Append(imports, Import(d, keyOf[docs[d].file]))
  /\ Ends(q)
  /\ UNCHANGED <<parts, link, raced>>
---------------------------------------------------------------------------
(* Review of pending imports *)

\* PATCH replaces the extracted data, whatever the status.
Edit(q, i, k) ==
  /\ call[q].op = "idle" /\ imports[i].status \notin Gone /\ ~LockedImport(i)
  /\ channel[File(i)] # "cadport"
  /\ imports' = [imports EXCEPT ![i].key = k]
  /\ Ends(q)
  /\ UNCHANGED <<docs, parts, link, raced>>

\* What an approval read: the import, and the part it will reuse if there is one.
\* A datasheet or STEP import is refused when its key is taken, deleted or not.
Readable_Any(i) == imports[i].status \notin Gone
Readable(i) == Pending(i)

Approve(q, i) ==
  LET f == File(i)  k == imports[i].key
      same == IF channel[f] = "cadport" THEN SameContent(f) ELSE {} IN
  /\ call[q].op = "idle" /\ Readable(i)
  /\ channel[f] = "cadport" \/ \A p \in DOMAIN parts : parts[p].status \in {"new", "gone"} \/ parts[p].key # k
  /\ \E reuse \in IF same = {} THEN {None} ELSE Lowest(same) :
       Then(q, [op |-> "approve", arg |-> i, saw |-> imports[i].status, key |-> k, reuse |-> reuse])
  /\ UNCHANGED <<docs, imports, parts, link, raced>>

Decided(i, status, p) == imports' = [imports EXCEPT ![i].status = status, ![i].part = p]
Stamped(d, status) == docs' = [docs EXCEPT ![d].status = status]
\* The import was decided after request q read it.
Noticed(q, i) == IF call[q].saw = "pending" /\ ~Pending(i) THEN {i} ELSE {}

\* The reused part is committed with the import, and the document keeps its status.
ApproveReused(q) ==
  LET i == call[q].arg IN
  /\ call[q].op = "approve" /\ call[q].reuse # None /\ ~LockedImport(i)
  /\ IF imports[i].status \in Gone THEN UNCHANGED <<imports, raced>>
     ELSE Decided(i, "approved", call[q].reuse) /\ raced' = raced \cup Noticed(q, i)
  /\ Ends(q)
  /\ UNCHANGED <<docs, parts, link>>

\* The new part, the decision and the document's stamp are flushed and held; for
\* a CADPORT part the back-link is sent from here, and may be lost.
Tell(f, p) ==
  \/ UNCHANGED link
  \/ channel[f] = "cadport" /\ link' = [link EXCEPT ![cadId[f]] = p]

ApproveNew(q) ==
  LET i == call[q].arg  f == File(i)  k == call[q].key IN
  /\ call[q].op = "approve" /\ call[q].reuse = None
  /\ ~LockedImport(i) /\ ~MustWait(f, k)
  /\ IF imports[i].status \in Gone \/ Clash(f, k) # {}
     THEN Ends(q) /\ UNCHANGED <<parts, link, raced>>
     ELSE /\ parts' = Append(parts, Part(f, k, imports[i].doc, i, "new"))
          /\ raced' = raced \cup Noticed(q, i)
          /\ Tell(f, Len(parts'))
          /\ Then(q, [op |-> "commit", arg |-> i, part |-> Len(parts')])
  /\ UNCHANGED <<docs, imports>>

Commit(q) ==
  LET i == call[q].arg  p == call[q].part IN
  /\ call[q].op = "commit"
  /\ parts' = [parts EXCEPT ![p].status = "live"]
  /\ Decided(i, "approved", p)
  /\ Stamped(imports[i].doc, "approved")
  /\ Ends(q)
  /\ UNCHANGED <<link, raced>>

\* HAROLD holds the number already, or the commit fails: nothing is kept.
RollBack(q) ==
  /\ call[q].op = "commit"
  /\ parts' = [parts EXCEPT ![call[q].part].status = "gone"]
  /\ Ends(q)
  /\ UNCHANGED <<docs, imports, link, raced>>

Reject(q, i) ==
  /\ call[q].op = "idle" /\ Readable(i)
  /\ Then(q, [op |-> "reject", arg |-> i, saw |-> imports[i].status])
  /\ UNCHANGED <<docs, imports, parts, link, raced>>

CommitRejection(q) ==
  LET i == call[q].arg IN
  /\ call[q].op = "reject" /\ ~LockedImport(i)
  /\ IF imports[i].status \in Gone THEN UNCHANGED <<docs, imports, raced>>
     ELSE /\ Decided(i, "rejected", imports[i].part)
          /\ Stamped(imports[i].doc, "rejected")
          /\ raced' = raced \cup Noticed(q, i)
  /\ Ends(q)
  /\ UNCHANGED <<parts, link>>
---------------------------------------------------------------------------
(* Deletions *)

Cascade(d, gone) ==
  imports' = [i \in DOMAIN imports |->
                IF imports[i].doc = d /\ imports[i].status \notin Gone
                THEN [imports[i] EXCEPT !.status = gone] ELSE imports[i]]

\* Whether a document still serves something once import i is deleted.
StillUsed_Imports(d, i) == \E j \in Present(imports) \ {i} : imports[j].doc = d
StillUsed(d, i) ==
  \/ \E j \in Present(imports) \ {i} : imports[j].doc = d
  \/ HasLivePart(d)

\* delete_pending_import: the row, and its document if nothing else lives of it.
DeleteImport(q, i) ==
  LET d == imports[i].doc IN
  /\ call[q].op = "idle" /\ imports[i].status \notin Gone /\ ~LockedImport(i)
  /\ IF StillUsed(d, i)
     THEN imports' = [imports EXCEPT ![i].status = "dropped"] /\ UNCHANGED docs
     ELSE Cascade(d, "dropped") /\ Stamped(d, "dropped")
  /\ Ends(q)
  /\ UNCHANGED <<parts, link, raced>>

\* delete_document, by an admin: its imports go with it; parts forget it.
DeleteDocument(q, d) ==
  /\ call[q].op = "idle" /\ docs[d].status \notin Gone /\ ~LockedDoc(d)
  /\ Stamped(d, "erased") /\ Cascade(d, "erased")
  /\ Ends(q)
  /\ UNCHANGED <<parts, link, raced>>

\* The soft delete of a part that nothing uses.
DeletePart(q, p) ==
  /\ call[q].op = "idle" /\ parts[p].status = "live"
  /\ parts' = [parts EXCEPT ![p].status = "deleted"]
  /\ Ends(q)
  /\ UNCHANGED <<docs, imports, link, raced>>
---------------------------------------------------------------------------
Next ==
  \E q \in Calls :
    \/ \E f \in Files : Upload(q, f) \/ CreateDirectly(q, f)
    \/ Store(q) \/ InsertDirectly(q)
    \/ \E d \in DOMAIN docs : RequestExtraction(q, d) \/ DeleteDocument(q, d)
    \/ MarkExtracting(q) \/ Extract(q)
    \/ \E i \in DOMAIN imports : Approve(q, i) \/ Reject(q, i) \/ DeleteImport(q, i)
    \/ \E i \in DOMAIN imports, k \in Keys : Edit(q, i, k)
    \/ ApproveReused(q) \/ ApproveNew(q) \/ Commit(q) \/ RollBack(q)
    \/ CommitRejection(q)
    \/ \E p \in DOMAIN parts : DeletePart(q, p)

\* A request that began goes on, and a queued task is run.
Going(q) ==
  \/ Store(q) \/ InsertDirectly(q) \/ MarkExtracting(q) \/ Extract(q)
  \/ ApproveReused(q) \/ ApproveNew(q) \/ Commit(q) \/ RollBack(q) \/ CommitRejection(q)

Spec == Init /\ [][Next]_importVars /\ \A q \in Calls : WF_importVars(Going(q))
---------------------------------------------------------------------------
(* An import has one outcome: exactly one part was inserted from it if it  *)
(* is approved, unless a part of the same content was reused, and none if  *)
(* it is pending or rejected. Only decisions of two requests that both     *)
(* read it undecided are excepted (catalog.py:2637 and 2882 test a row     *)
(* that is not locked). An approval that is rolled back leaves nothing.    *)
PartsOf(i) == {p \in DOMAIN parts : parts[p].by = i /\ parts[p].status \in {"live", "deleted"}}
OneOutcome ==
  \A i \in Present(imports) \ raced :
    IF imports[i].status = "approved"
    THEN \/ PartsOf(i) = {imports[i].part}
         \/ PartsOf(i) = {} /\ parts[imports[i].part].file = File(i)
    ELSE PartsOf(i) = {} /\ imports[i].part = None

(* Clearing the review queue never takes the document a live part was made *)
(* from (catalog.py:2300 counts the live parts after the import is gone,   *)
(* behind any approval of it that was under way).                          *)
KeepsSource ==
  \A p \in LiveParts : parts[p].doc \in DOMAIN docs => docs[parts[p].doc].status # "dropped"

(* "Poll GET /catalog/documents/{id} to watch the extraction_status move   *)
(* UPLOADED -> EXTRACTING -> PENDING_REVIEW (or FAILED)": an extraction    *)
(* that was begun ends.                                                    *)
DocIds == 1..(Cardinality(Calls) + 2)
ExtractionEnds ==
  \A d \in DocIds :
    (d \in DOMAIN docs /\ docs[d].status = "extracting")
      ~> (d \in DOMAIN docs /\ docs[d].status # "extracting")
=============================================================================
