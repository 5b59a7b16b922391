-------------------------------- MODULE CatalogProofs --------------------------------
(***************************************************************************)
(* Theorems about CatalogImports, ProjectParts and CadportSync, for any     *)
(* number of files, documents, imports, parts, suppliers, units, lines,    *)
(* joints, assemblies and requests.                                        *)
(***************************************************************************)
EXTENDS CatalogImports, ProjectParts, CadportSync, SequenceTheorems, TLAPS

-----------------------------------------------------------------------------
(* The invariant                                                             *)

\* What an import that was not decided twice has led to.
Made(p, i) == parts[p].by = i /\ parts[p].status \in {"live", "deleted"}
Outcome(i) ==
  IF imports[i].status = "approved"
  THEN /\ imports[i].part \in DOMAIN parts
       /\ \/ \A p \in DOMAIN parts : Made(p, i) <=> p = imports[i].part
          \/ /\ \A p \in DOMAIN parts : ~Made(p, i)
             /\ parts[imports[i].part].file = File(i)
  ELSE imports[i].part = None /\ \A p \in DOMAIN parts : ~Made(p, i)

\* A request speaks of rows that exist. An approval that has inserted its part is
\* the only one of its import, which stays as it was read until the end, unless
\* someone had decided it by then.
CommitOK(q) ==
  LET i == call[q].arg  p == call[q].part IN
  /\ i \in DOMAIN imports /\ imports[i].status \notin Gone
  /\ i \notin raced => Pending(i)
  /\ p \in DOMAIN parts /\ parts[p].status = "new"
  /\ parts[p].by = i /\ parts[p].doc = imports[i].doc
  /\ \A o \in Calls : call[o].op = "commit" /\ call[o].arg = i => o = q
CallOK(q) ==
  /\ call[q].op \in {"mark", "task"} => call[q].arg \in DOMAIN docs
  /\ call[q].op \in {"approve", "reject"} => call[q].arg \in DOMAIN imports /\ call[q].saw = "pending"
  /\ call[q].op = "approve" /\ call[q].reuse # None =>
       call[q].reuse \in DOMAIN parts /\ parts[call[q].reuse].file = File(call[q].arg)
  /\ call[q].op = "commit" => CommitOK(q)

Outcomes == \A i \in DOMAIN imports : imports[i].status \notin Gone /\ i \notin raced => Outcome(i)
ImportsInvariant ==
  /\ DOMAIN call = Calls
  /\ Sound(docs, imports, parts)
  /\ Outcomes
  /\ KeepsSource
  /\ \A q \in Calls : CallOK(q)

-----------------------------------------------------------------------------
(* Sequences                                                                 *)

LEMMA SeqFacts ==
  ASSUME NEW s, IsSeq(s)
  PROVE  /\ Len(s) \in Nat /\ DOMAIN s = 1 .. Len(s)
         /\ s = [x \in DOMAIN s |-> s[x]]
BY LenProperties DEF IsSeq

LEMMA SeqOf ==
  ASSUME NEW n \in Nat, NEW s, s = [x \in 1 .. n |-> s[x]]
  PROVE  IsSeq(s) /\ Len(s) = n
<1> DEFINE S == {s[x] : x \in 1 .. n}
<1>1. s \in [1 .. n -> S]
  OBVIOUS
<1>2. s \in Seq(S)
  BY <1>1, SeqDef
<1>3. DOMAIN s = 1 .. n
  BY <1>1
<1> QED BY <1>1, <1>2, <1>3, LenProperties DEF IsSeq

LEMMA Appended ==
  ASSUME NEW s, IsSeq(s), NEW e
  PROVE  /\ IsSeq(Append(s, e)) /\ DOMAIN Append(s, e) = DOMAIN s \cup {Len(s) + 1}
         /\ Len(s) + 1 \notin DOMAIN s /\ Append(s, e)[Len(s) + 1] = e
         /\ \A x \in DOMAIN s : Append(s, e)[x] = s[x]
<1> DEFINE S == {s[x] : x \in DOMAIN s} \cup {e}
           n == Len(s)
           t == Append(s, e)
<1>1. s \in Seq(S)
  BY SeqMonotonic DEF IsSeq
<1>2. /\ t \in Seq(S) /\ Len(t) = n + 1 /\ t[n + 1] = e
      /\ \A x \in 1 .. n : t[x] = s[x]
  BY <1>1, AppendProperties
<1>3. n \in Nat /\ DOMAIN s = 1 .. n
  BY SeqFacts
<1>4. t \in [1 .. n + 1 -> S]
  BY <1>2, LenProperties
<1>5. IsSeq(t)
  <2>1. t = [x \in 1 .. n + 1 |-> t[x]]
    BY <1>4
  <2> HIDE DEF t
  <2> QED BY <1>3, <2>1, SeqOf
<1>6. DOMAIN t = 1 .. n + 1
  BY <1>4
<1> HIDE DEF t, n
<1>7. 1 .. n + 1 = 1 .. n \cup {n + 1} /\ n + 1 \notin 1 .. n
  BY <1>3
<1> QED BY <1>2, <1>3, <1>5, <1>6, <1>7 DEF t, n

LEMMA Replaced ==
  ASSUME NEW s, IsSeq(s), NEW k, NEW e
  PROVE  IsSeq([s EXCEPT ![k] = e])
<1>1. Len(s) \in Nat /\ DOMAIN s = 1 .. Len(s)
  BY SeqFacts
<1> PICK t : t = [s EXCEPT ![k] = e]
  OBVIOUS
<1>2. t = [x \in 1 .. Len(s) |-> t[x]]
  BY <1>1
<1> QED BY <1>1, <1>2, SeqOf

-----------------------------------------------------------------------------
(* How the tables change                                                     *)

\* Rows are never taken away, and keep what ties them to one another.
DocsKept ==
  /\ IsSeq(docs') /\ DOMAIN docs \subseteq DOMAIN docs'
  /\ \A x \in DOMAIN docs' : {"file", "status"} \subseteq DOMAIN docs'[x]
  /\ \A x \in DOMAIN docs : docs'[x].file = docs[x].file
ImportsKept ==
  /\ IsSeq(imports') /\ DOMAIN imports \subseteq DOMAIN imports'
  /\ \A x \in DOMAIN imports' :
       {"doc", "key", "status", "part"} \subseteq DOMAIN imports'[x] /\ imports'[x].doc \in DOMAIN docs'
  /\ \A x \in DOMAIN imports : imports'[x].doc = imports[x].doc
PartsKept ==
  /\ IsSeq(parts') /\ DOMAIN parts \subseteq DOMAIN parts'
  /\ \A x \in DOMAIN parts' :
       /\ {"file", "key", "doc", "by", "status"} \subseteq DOMAIN parts'[x]
       /\ parts'[x].by \in DOMAIN imports' \cup {None}
  /\ \A x \in DOMAIN parts :
       parts'[x].file = parts[x].file /\ parts'[x].doc = parts[x].doc /\ parts'[x].by = parts[x].by
TablesKept == DocsKept /\ ImportsKept /\ PartsKept

LEMMA Untouched ==
  ASSUME Sound(docs, imports, parts)
  PROVE  /\ docs' = docs => DocsKept
         /\ imports' = imports /\ DOMAIN docs \subseteq DOMAIN docs' => ImportsKept
         /\ parts' = parts /\ DOMAIN imports \subseteq DOMAIN imports' => PartsKept
BY DEF Sound, DocsKept, ImportsKept, PartsKept

LEMMA Stamping ==
  ASSUME Sound(docs, imports, parts), NEW d \in DOMAIN docs, NEW s, Stamped(d, s)
  PROVE  /\ DocsKept /\ DOMAIN docs' = DOMAIN docs
         /\ docs'[d].status = s /\ \A x \in DOMAIN docs \ {d} : docs'[x] = docs[x]
<1> PICK row : row = [docs[d] EXCEPT !.status = s]
  OBVIOUS
<1>1. docs' = [docs EXCEPT ![d] = row]
  BY DEF Stamped
<1>2. row.status = s /\ row.file = docs[d].file /\ DOMAIN row = DOMAIN docs[d]
  BY DEF Sound
<1>3. IsSeq(docs')
  BY <1>1, Replaced DEF Sound
<1> QED BY <1>1, <1>2, <1>3 DEF Sound, DocsKept

LEMMA Deciding ==
  ASSUME Sound(docs, imports, parts), NEW i \in DOMAIN imports, NEW s, NEW p,
         Decided(i, s, p), DOMAIN docs \subseteq DOMAIN docs'
  PROVE  /\ ImportsKept /\ DOMAIN imports' = DOMAIN imports
         /\ imports'[i].status = s /\ imports'[i].part = p
         /\ \A x \in DOMAIN imports \ {i} : imports'[x] = imports[x]
<1> PICK row : row = [imports[i] EXCEPT !.status = s, !.part = p]
  OBVIOUS
<1>1. imports' = [imports EXCEPT ![i] = row]
  BY DEF Decided
<1>2. /\ row.status = s /\ row.part = p /\ row.doc = imports[i].doc
      /\ DOMAIN row = DOMAIN imports[i]
  BY DEF Sound
<1>3. IsSeq(imports')
  BY <1>1, Replaced DEF Sound
<1> QED BY <1>1, <1>2, <1>3 DEF Sound, ImportsKept

Restated(p, s) == parts' = [parts EXCEPT ![p].status = s]
LEMMA Restating ==
  ASSUME Sound(docs, imports, parts), NEW p \in DOMAIN parts, NEW s, Restated(p, s), DOMAIN imports \subseteq DOMAIN imports'
  PROVE  /\ PartsKept /\ DOMAIN parts' = DOMAIN parts
         /\ parts'[p].status = s /\ \A x \in DOMAIN parts \ {p} : parts'[x] = parts[x]
<1> PICK row : row = [parts[p] EXCEPT !.status = s]
  OBVIOUS
<1>1. parts' = [parts EXCEPT ![p] = row]
  BY DEF Restated
<1>2. /\ row.status = s /\ row.file = parts[p].file /\ row.doc = parts[p].doc /\ row.by = parts[p].by
      /\ DOMAIN row = DOMAIN parts[p]
  BY DEF Sound
<1>3. IsSeq(parts')
  BY <1>1, Replaced DEF Sound
<1> QED BY <1>1, <1>2, <1>3 DEF Sound, PartsKept

LEMMA Filing ==
  ASSUME Sound(docs, imports, parts), NEW f, docs' = Append(docs, Document(f))
  PROVE  /\ DocsKept /\ DOMAIN docs' = DOMAIN docs \cup {Len(docs')} /\ Len(docs') \notin DOMAIN docs
         /\ docs'[Len(docs')].status # "dropped" /\ \A x \in DOMAIN docs : docs'[x] = docs[x]
<1> PICK row : row = Document(f)
  OBVIOUS
<1>1. DOMAIN row = {"file", "status"} /\ row.status \in {"pending_review", "uploaded"}
  BY DEF Document
<1>2. /\ IsSeq(docs') /\ DOMAIN docs' = DOMAIN docs \cup {Len(docs) + 1}
      /\ Len(docs) + 1 \notin DOMAIN docs /\ docs'[Len(docs) + 1] = row
      /\ \A x \in DOMAIN docs : docs'[x] = docs[x]
  BY Appended DEF Sound
<1>3. Len(docs') = Len(docs) + 1
  <2>1. /\ Len(docs) \in Nat /\ DOMAIN docs = 1 .. Len(docs)
        /\ Len(docs') \in Nat /\ DOMAIN docs' = 1 .. Len(docs')
    BY <1>2, SeqFacts DEF Sound
  <2> QED BY <1>2, <2>1
<1> QED BY <1>1, <1>2, <1>3 DEF Sound, DocsKept

LEMMA Importing ==
  ASSUME Sound(docs, imports, parts), NEW d \in DOMAIN docs', NEW k,
         imports' = Append(imports, Import(d, k)), DOMAIN docs \subseteq DOMAIN docs'
  PROVE  /\ ImportsKept /\ \A x \in DOMAIN imports : imports'[x] = imports[x]
         /\ \A x \in DOMAIN imports' \ DOMAIN imports :
              x \in Nat /\ imports'[x].status = "pending" /\ imports'[x].part = None
<1> PICK row : row = Import(d, k)
  OBVIOUS
<1>1. /\ DOMAIN row = {"doc", "key", "status", "part"} /\ row.doc = d
      /\ row.status = "pending" /\ row.part = None
  BY DEF Import
<1>2. /\ IsSeq(imports') /\ DOMAIN imports' = DOMAIN imports \cup {Len(imports) + 1}
      /\ imports'[Len(imports) + 1] = row /\ \A x \in DOMAIN imports : imports'[x] = imports[x]
  BY Appended DEF Sound
<1>3. Len(imports) \in Nat
  BY SeqFacts DEF Sound
<1> QED BY <1>1, <1>2, <1>3 DEF Sound, ImportsKept

LEMMA Inserting ==
  ASSUME Sound(docs, imports, parts), NEW f, NEW k, NEW d, NEW by \in DOMAIN imports \cup {None},
         NEW s, parts' = Append(parts, Part(f, k, d, by, s)), DOMAIN imports \subseteq DOMAIN imports'
  PROVE  /\ PartsKept /\ DOMAIN parts' = DOMAIN parts \cup {Len(parts')} /\ Len(parts') \notin DOMAIN parts
         /\ parts'[Len(parts')] = Part(f, k, d, by, s) /\ \A x \in DOMAIN parts : parts'[x] = parts[x]
<1> PICK row : row = Part(f, k, d, by, s)
  OBVIOUS
<1>1. DOMAIN row = {"file", "key", "doc", "by", "status"} /\ row.by = by
  BY DEF Part
<1>2. /\ IsSeq(parts') /\ DOMAIN parts' = DOMAIN parts \cup {Len(parts) + 1}
      /\ Len(parts) + 1 \notin DOMAIN parts /\ parts'[Len(parts) + 1] = row
      /\ \A x \in DOMAIN parts : parts'[x] = parts[x]
  BY Appended DEF Sound
<1>3. Len(parts') = Len(parts) + 1
  <2>1. /\ Len(parts) \in Nat /\ DOMAIN parts = 1 .. Len(parts)
        /\ Len(parts') \in Nat /\ DOMAIN parts' = 1 .. Len(parts')
    BY <1>2, SeqFacts DEF Sound
  <2> QED BY <1>2, <2>1
<1> QED BY <1>1, <1>2, <1>3 DEF Sound, PartsKept

-----------------------------------------------------------------------------
(* How a step keeps the invariant                                            *)

\* An approval under way is disturbed by nobody.
CommitsKept(q) ==
  \A o \in Calls \ {q} : call[o].op = "commit" =>
    /\ imports'[call[o].arg].status = imports[call[o].arg].status
    /\ parts'[call[o].part].status = "new"
    /\ call'[q].op = "commit" => call'[q].arg # call[o].arg

LEMMA StepKeeps ==
  ASSUME ImportsInvariant, NEW q \in Calls, NEW next, Then(q, next),
         TablesKept, raced \subseteq raced', CommitsKept(q),
         CallOK(q)', Outcomes', KeepsSource'
  PROVE  ImportsInvariant'
<1>1. /\ DOMAIN call' = Calls /\ call'[q] = next
      /\ \A o \in Calls \ {q} : call'[o] = call[o]
  BY DEF ImportsInvariant, Then
<1>2. Sound(docs', imports', parts')
  BY DEF TablesKept, DocsKept, ImportsKept, PartsKept, Sound
<1>3. ASSUME NEW o \in Calls \ {q} PROVE CallOK(o)'
  <2>1. call'[o] = call[o] /\ CallOK(o)
    BY <1>1, <1>3 DEF ImportsInvariant
  <2>2. ASSUME call[o].op = "commit" PROVE CommitOK(o)'
    <3> PICK i, p : i = call[o].arg /\ p = call[o].part
      OBVIOUS
    <3>1. CommitOK(o)
      BY <2>1, <2>2 DEF CallOK
    <3>2. /\ i \in DOMAIN imports' /\ imports'[i].status \notin Gone
          /\ i \notin raced' => imports'[i].status = "pending"
          /\ p \in DOMAIN parts' /\ parts'[p].status = "new"
          /\ parts'[p].by = i /\ parts'[p].doc = imports'[i].doc
      BY <1>3, <2>2, <3>1 DEF CommitOK, CommitsKept, TablesKept, ImportsKept, PartsKept, Pending
    <3>3. ASSUME NEW r \in Calls, call'[r].op = "commit", call'[r].arg = i PROVE r = o
      <4>1. CASE r = q
        BY <1>1, <1>3, <2>2, <3>3, <4>1 DEF CommitsKept
      <4>2. CASE r # q
        BY <1>1, <3>1, <3>3, <4>2 DEF CommitOK
      <4> QED BY <4>1, <4>2
    <3> QED BY <2>1, <3>2, <3>3 DEF CommitOK, Pending
  <2>3. \A i \in DOMAIN imports : i \in DOMAIN imports' /\ docs'[imports'[i].doc].file = File(i)
    BY DEF ImportsInvariant, Sound, TablesKept, DocsKept, ImportsKept, File
  <2> QED BY <2>1, <2>2, <2>3 DEF CallOK, TablesKept, DocsKept, ImportsKept, PartsKept, File
<1> QED BY <1>1, <1>2, <1>3 DEF ImportsInvariant

\* An import whose row and whose parts stay what they were keeps its outcome.
LEMMA OutcomeKept ==
  ASSUME ImportsInvariant, TablesKept, NEW i \in DOMAIN imports, Outcome(i),
         imports'[i].status = imports[i].status, imports'[i].part = imports[i].part,
         \A p \in DOMAIN parts : Made(p, i)' <=> Made(p, i),
         \A p \in DOMAIN parts' \ DOMAIN parts : ~Made(p, i)'
  PROVE  Outcome(i)'
<1>1. docs'[imports'[i].doc].file = File(i)
  BY DEF ImportsInvariant, Sound, TablesKept, DocsKept, ImportsKept, File
<1>2. DOMAIN parts \subseteq DOMAIN parts' /\ \A x \in DOMAIN parts : parts'[x].file = parts[x].file
  BY DEF TablesKept, PartsKept
<1>3. CASE imports[i].status = "approved"
  BY <1>1, <1>2, <1>3 DEF Outcome, File
<1>4. CASE imports[i].status # "approved"
  BY <1>2, <1>4 DEF Outcome
<1> QED BY <1>3, <1>4

\* The documents of the live parts are still there.
LEMMA SourceKept ==
  ASSUME ImportsInvariant, TablesKept,
         \A p \in DOMAIN parts' : parts'[p].status = "live" =>
           \/ p \in DOMAIN parts /\ parts[p].status = "live"
           \/ parts'[p].doc \in DOMAIN docs' => docs'[parts'[p].doc].status # "dropped",
         \A d \in DOMAIN docs : docs'[d].status = "dropped" /\ docs[d].status # "dropped" => ~HasLivePart(d),
         \A d \in DOMAIN docs' \ DOMAIN docs : docs'[d].status # "dropped"
  PROVE  KeepsSource'
BY DEF ImportsInvariant, KeepsSource, LiveParts, HasLivePart, TablesKept, PartsKept


\* A request that changes no table.
LEMMA TablesSame ==
  ASSUME ImportsInvariant, NEW q \in Calls, NEW next, Then(q, next),
         UNCHANGED <<docs, imports, parts, raced>>, CallOK(q)', next.op # "commit"
  PROVE  ImportsInvariant'
<1>1. TablesKept
  BY Untouched DEF ImportsInvariant, TablesKept
<1>2. Outcomes'
  BY DEF ImportsInvariant, Outcomes, Outcome, Made, File
<1>3. KeepsSource'
  BY DEF ImportsInvariant, KeepsSource, LiveParts
<1>4. call'[q] = next
  BY DEF ImportsInvariant, Then
<1>5. CommitsKept(q)
  BY <1>4 DEF ImportsInvariant, CallOK, CommitOK, CommitsKept
<1> QED BY <1>1, <1>2, <1>3, <1>5, StepKeeps

\* A request that ends, or goes on to something that is told of no rows.
LEMMA NothingOwed ==
  ASSUME ImportsInvariant, NEW q \in Calls, NEW next, Then(q, next),
         next.op \notin {"mark", "task", "approve", "reject", "commit"}
  PROVE  CallOK(q)'
<1>1. call'[q] = next
  BY DEF ImportsInvariant, Then
<1> QED BY <1>1 DEF CallOK

LEMMA ReadingStep ==
  ASSUME ImportsInvariant, NEW q \in Calls,
         \/ \E f \in Files : Upload(q, f) \/ CreateDirectly(q, f)
         \/ \E d \in DOMAIN docs : RequestExtraction(q, d)
         \/ \E i \in DOMAIN imports : Reject(q, i)
  PROVE  ImportsInvariant'
<1>1. ASSUME NEW f, Upload(q, f) \/ CreateDirectly(q, f) PROVE ImportsInvariant'
  BY <1>1, NothingOwed, TablesSame DEF Upload, CreateDirectly
<1>2. ASSUME NEW d \in DOMAIN docs, RequestExtraction(q, d) PROVE ImportsInvariant'
  <2>1. call'[q] = [op |-> "mark", arg |-> d] /\ docs' = docs
    BY <1>2 DEF RequestExtraction, ImportsInvariant, Then
  <2>2. CallOK(q)'
    BY <2>1 DEF CallOK
  <2> QED BY <1>2, <2>2, TablesSame DEF RequestExtraction
<1>3. ASSUME NEW i \in DOMAIN imports, Reject(q, i) PROVE ImportsInvariant'
  <2>1. /\ call'[q] = [op |-> "reject", arg |-> i, saw |-> imports[i].status]
        /\ imports' = imports /\ imports[i].status = "pending"
    BY <1>3 DEF Reject, Readable, Pending, ImportsInvariant, Then
  <2>2. CallOK(q)'
    BY <2>1 DEF CallOK
  <2> QED BY <1>3, <2>2, TablesSame DEF Reject
<1> QED BY <1>1, <1>2, <1>3

LEMMA ApproveStep ==
  ASSUME ImportsInvariant, NEW q \in Calls, NEW i \in DOMAIN imports, Approve(q, i)
  PROVE  ImportsInvariant'
<1>0. PICK same : same = IF channel[File(i)] = "cadport" THEN SameContent(File(i)) ELSE {}
  OBVIOUS
<1>1. PICK reuse \in IF same = {} THEN {None} ELSE Lowest(same) :
        Then(q, [op |-> "approve", arg |-> i, saw |-> imports[i].status, key |-> imports[i].key,
                 reuse |-> reuse])
  BY <1>0 DEF Approve
<1>2. imports[i].status = "pending" /\ UNCHANGED <<docs, imports, parts, raced>>
  BY DEF Approve, Readable, Pending
<1>3. /\ call'[q].op = "approve" /\ call'[q].arg = i /\ call'[q].saw = "pending"
      /\ call'[q].reuse = reuse
  BY <1>1, <1>2 DEF ImportsInvariant, Then
<1>4. reuse # None => reuse \in DOMAIN parts /\ parts[reuse].file = File(i)
  BY <1>0 DEF Lowest, SameContent, LiveParts
<1>5. CallOK(q)'
  BY <1>2, <1>3, <1>4 DEF CallOK, File
<1> QED BY <1>1, <1>2, <1>5, TablesSame

\* Imports whose rows stay as they are or go away, with no part made meanwhile.
LEMMA NoPartMade ==
  ASSUME ImportsInvariant, TablesKept, raced \subseteq raced',
         \A i \in DOMAIN imports : imports'[i].status \notin Gone /\ i \notin raced' =>
           imports'[i].status = imports[i].status /\ imports'[i].part = imports[i].part,
         \A i \in DOMAIN imports' \ DOMAIN imports :
           i \in Nat /\ imports'[i].status = "pending" /\ imports'[i].part = None,
         \A p \in DOMAIN parts : (parts'[p].status \in {"live", "deleted"}) = (parts[p].status \in {"live", "deleted"}),
         \A p \in DOMAIN parts' \ DOMAIN parts :
           parts'[p].status \in {"live", "deleted"} => parts'[p].by = None,
         ImportsAssumption
  PROVE  Outcomes'
<1>0. DOMAIN imports \subseteq Nat
  <2>1. DOMAIN imports = 1 .. Len(imports) /\ Len(imports) \in Nat
    BY SeqFacts DEF ImportsInvariant, Sound
  <2> QED BY <2>1
<1>1. ASSUME NEW i \in DOMAIN imports', imports'[i].status \notin Gone, i \notin raced'
      PROVE  Outcome(i)'
  <2>1. i \in Nat /\ i # None
    BY <1>0, <1>1 DEF ImportsAssumption
  <2>2. \A p \in DOMAIN parts' \ DOMAIN parts : ~Made(p, i)'
    BY <2>1 DEF Made
  <2>3. \A p \in DOMAIN parts : Made(p, i)' <=> Made(p, i)
    BY DEF TablesKept, PartsKept, Made
  <2>4. CASE i \in DOMAIN imports
    BY <1>1, <2>2, <2>3, <2>4, OutcomeKept DEF ImportsInvariant, Outcomes
  <2>5. CASE i \notin DOMAIN imports
    <3>1. \A p \in DOMAIN parts : ~Made(p, i)
      BY <2>1, <2>5 DEF Made, ImportsInvariant, Sound
    <3> QED BY <1>1, <2>2, <2>3, <2>5, <3>1 DEF Outcome
  <2> QED BY <2>4, <2>5
<1> QED BY <1>1 DEF Outcomes


LEMMA UnderWay ==
  ASSUME ImportsInvariant, NEW o \in Calls, call[o].op = "commit"
  PROVE  CommitOK(o)
BY DEF ImportsInvariant, CallOK

LEMMA Goes ==
  ASSUME ImportsInvariant, NEW q \in Calls, NEW next, Then(q, next)
  PROVE  call'[q] = next
BY DEF ImportsInvariant, Then

\* A request that ends, and leaves the rows of the approvals under way alone.
LEMMA Undisturbed ==
  ASSUME ImportsInvariant, NEW q \in Calls, Ends(q),
         \A o \in Calls \ {q}, i \in DOMAIN imports, p \in DOMAIN parts :
           call[o].op = "commit" /\ call[o].arg = i /\ call[o].part = p =>
             imports'[i].status = imports[i].status /\ parts'[p].status = parts[p].status
  PROVE  CommitsKept(q)
<1>1. call'[q].op = "done"
  BY Goes DEF Ends
<1> QED BY <1>1, UnderWay DEF CommitsKept, CommitOK

-----------------------------------------------------------------------------
(* Uploads and extraction                                                    *)

LEMMA StoreStep ==
  ASSUME ImportsAssumption, ImportsInvariant, NEW q \in Calls, Store(q)
  PROVE  ImportsInvariant'
<1>1. PICK f : /\ docs' = Append(docs, Document(f))
               /\ \/ imports' = imports
                  \/ imports' = Append(imports, Import(Len(docs'), keyOf[f]))
               /\ Ends(q) /\ UNCHANGED <<parts, raced>>
  BY DEF Store, StoreDatasheet, StoreStepFile, StoreFromCadport, StoreForReview
<1>2. Sound(docs, imports, parts)
  BY DEF ImportsInvariant
<1>3. /\ DocsKept /\ DOMAIN docs' = DOMAIN docs \cup {Len(docs')} /\ Len(docs') \notin DOMAIN docs
      /\ docs'[Len(docs')].status # "dropped" /\ \A x \in DOMAIN docs : docs'[x] = docs[x]
  BY <1>1, <1>2, Filing
<1>4. /\ ImportsKept /\ \A x \in DOMAIN imports : imports'[x] = imports[x]
      /\ \A x \in DOMAIN imports' \ DOMAIN imports :
           x \in Nat /\ imports'[x].status = "pending" /\ imports'[x].part = None
  <2>1. CASE imports' = imports
    BY <1>2, <1>3, <2>1, Untouched
  <2>2. CASE imports' # imports
    BY <1>1, <1>2, <1>3, <2>2, Importing
  <2> QED BY <2>1, <2>2
<1>5. TablesKept
  BY <1>1, <1>2, <1>3, <1>4, Untouched DEF TablesKept, ImportsKept
<1>6. Outcomes'
  BY <1>1, <1>4, <1>5, NoPartMade
<1>7. KeepsSource'
  BY <1>1, <1>3, <1>5, SourceKept
<1>8. CommitsKept(q)
  BY <1>1, <1>4, Undisturbed
<1>9. CallOK(q)'
  BY <1>1, NothingOwed DEF Ends
<1> QED BY <1>1, <1>5, <1>6, <1>7, <1>8, <1>9, StepKeeps DEF Ends

LEMMA InsertDirectlyStep ==
  ASSUME ImportsAssumption, ImportsInvariant, NEW q \in Calls, InsertDirectly(q)
  PROVE  ImportsInvariant'
<1>1. CallOK(q)' /\ Ends(q) /\ UNCHANGED <<imports, raced>>
  BY NothingOwed DEF InsertDirectly, Ends
<1>2. CASE UNCHANGED <<docs, parts>>
  BY <1>1, <1>2, TablesSame DEF Ends
<1>3. CASE ~UNCHANGED <<docs, parts>>
  <2>1. PICK f : /\ docs' = Append(docs, Document(f))
                 /\ parts' = Append(parts, Part(f, keyOf[f], Len(docs'), None, "live"))
    BY <1>3 DEF InsertDirectly
  <2>2. Sound(docs, imports, parts)
    BY DEF ImportsInvariant
  <2>3. /\ DocsKept /\ DOMAIN docs' = DOMAIN docs \cup {Len(docs')} /\ Len(docs') \notin DOMAIN docs
        /\ docs'[Len(docs')].status # "dropped" /\ \A x \in DOMAIN docs : docs'[x] = docs[x]
    BY <2>1, <2>2, Filing
  <2>4. /\ PartsKept /\ DOMAIN parts' = DOMAIN parts \cup {Len(parts')} /\ Len(parts') \notin DOMAIN parts
        /\ parts'[Len(parts')] = Part(f, keyOf[f], Len(docs'), None, "live")
        /\ \A x \in DOMAIN parts : parts'[x] = parts[x]
    BY <1>1, <2>1, <2>2, Inserting
  <2>5. TablesKept
    BY <1>1, <2>2, <2>3, <2>4, Untouched DEF TablesKept, DocsKept
  <2>6. parts'[Len(parts')].by = None /\ parts'[Len(parts')].doc = Len(docs')
    BY <2>4 DEF Part
  <2>7. Outcomes'
    BY <1>1, <2>4, <2>5, <2>6, NoPartMade
  <2>8. KeepsSource'
    BY <2>3, <2>4, <2>5, <2>6, SourceKept
  <2>9. CommitsKept(q)
    BY <1>1, <2>4, Undisturbed
  <2> QED BY <1>1, <2>5, <2>7, <2>8, <2>9, StepKeeps DEF Ends
<1> QED BY <1>2, <1>3

LEMMA MarkExtractingStep ==
  ASSUME ImportsAssumption, ImportsInvariant, NEW q \in Calls, MarkExtracting(q)
  PROVE  ImportsInvariant'
<1>1. PICK d : d = call[q].arg /\ d \in DOMAIN docs
  BY DEF MarkExtracting, ImportsInvariant, CallOK
<1>2. UNCHANGED <<imports, parts, raced>>
  BY DEF MarkExtracting
<1>3. CASE UNCHANGED docs /\ Ends(q)
  BY <1>2, <1>3, NothingOwed, TablesSame DEF Ends
<1>4. CASE Stamped(d, "extracting") /\ Then(q, [op |-> "task", arg |-> d])
  <2>1. Sound(docs, imports, parts)
    BY DEF ImportsInvariant
  <2>2. /\ DocsKept /\ DOMAIN docs' = DOMAIN docs
        /\ docs'[d].status = "extracting" /\ \A x \in DOMAIN docs \ {d} : docs'[x] = docs[x]
    BY <1>1, <1>4, <2>1, Stamping
  <2>3. TablesKept
    BY <1>2, <2>1, <2>2, Untouched DEF TablesKept
  <2>4. Outcomes'
    BY <1>2, <2>3, NoPartMade
  <2>5. KeepsSource'
    BY <1>2, <2>2, <2>3, SourceKept
  <2>6. call'[q].op = "task" /\ call'[q].arg = d
    BY <1>4, Goes
  <2>7. CallOK(q)'
    BY <1>1, <2>2, <2>6 DEF CallOK
  <2>8. CommitsKept(q)
    BY <1>2, <2>6, UnderWay DEF CommitsKept, CommitOK
  <2> QED BY <1>2, <1>4, <2>3, <2>4, <2>5, <2>7, <2>8, StepKeeps
<1> QED BY <1>1, <1>3, <1>4 DEF MarkExtracting, Stamped

LEMMA ExtractStep ==
  ASSUME ImportsAssumption, ImportsInvariant, NEW q \in Calls, Extract(q)
  PROVE  ImportsInvariant'
<1>1. PICK d : d = call[q].arg /\ d \in DOMAIN docs
  BY DEF Extract, ImportsInvariant, CallOK
<1>2. Ends(q) /\ UNCHANGED <<parts, raced>> /\ CallOK(q)'
  BY NothingOwed DEF Extract, Ends
<1>3. CASE UNCHANGED <<docs, imports>>
  BY <1>2, <1>3, TablesSame DEF Ends
<1>4. CASE ~UNCHANGED <<docs, imports>>
  <2>1. PICK s \in {"failed", "pending_review"} :
          /\ Stamped(d, s)
          /\ imports' = imports \/ imports' = Append(imports, Import(d, keyOf[docs[d].file]))
    BY <1>1, <1>4 DEF Extract, Stamped
  <2>2. Sound(docs, imports, parts)
    BY DEF ImportsInvariant
  <2>3. /\ DocsKept /\ DOMAIN docs' = DOMAIN docs
        /\ docs'[d].status = s /\ \A x \in DOMAIN docs \ {d} : docs'[x] = docs[x]
    BY <1>1, <2>1, <2>2, Stamping
  <2>4. /\ ImportsKept /\ \A x \in DOMAIN imports : imports'[x] = imports[x]
        /\ \A x \in DOMAIN imports' \ DOMAIN imports :
             x \in Nat /\ imports'[x].status = "pending" /\ imports'[x].part = None
    <3>1. CASE imports' = imports
      BY <2>2, <2>3, <3>1, Untouched
    <3>2. CASE imports' # imports
      BY <1>1, <2>1, <2>2, <2>3, <3>2, Importing
    <3> QED BY <3>1, <3>2
  <2>5. TablesKept
    BY <1>2, <2>2, <2>3, <2>4, Untouched DEF TablesKept, ImportsKept
  <2>6. Outcomes'
    BY <1>2, <2>4, <2>5, NoPartMade
  <2>7. KeepsSource'
    BY <1>2, <2>3, <2>5, SourceKept
  <2>8. CommitsKept(q)
    BY <1>2, <2>4, Undisturbed
  <2> QED BY <1>2, <2>5, <2>6, <2>7, <2>8, StepKeeps DEF Ends
<1> QED BY <1>3, <1>4


-----------------------------------------------------------------------------
(* Review                                                                    *)

\* A request that ends and changes no part, and no import that an approval holds.
LEMMA PartsSame ==
  ASSUME ImportsAssumption, ImportsInvariant, NEW q \in Calls, Ends(q), UNCHANGED parts,
         DocsKept, ImportsKept, DOMAIN imports' = DOMAIN imports, raced \subseteq raced',
         \A o \in Calls, i \in DOMAIN imports :
           call[o].op = "commit" /\ call[o].arg = i => imports'[i].status = imports[i].status,
         Outcomes', KeepsSource'
  PROVE  ImportsInvariant'
<1>1. TablesKept
  BY Untouched DEF ImportsInvariant, TablesKept
<1>2. CommitsKept(q)
  BY Undisturbed
<1>3. CallOK(q)'
  BY NothingOwed DEF Ends
<1> QED BY <1>1, <1>2, <1>3, StepKeeps DEF Ends

LEMMA EditStep ==
  ASSUME ImportsAssumption, ImportsInvariant, NEW q \in Calls, NEW i \in DOMAIN imports, NEW k,
         Edit(q, i, k)
  PROVE  ImportsInvariant'
<1>0. PICK row : row = [imports[i] EXCEPT !.key = k]
  OBVIOUS
<1>1. imports' = [imports EXCEPT ![i] = row] /\ Ends(q) /\ UNCHANGED <<docs, parts, raced>>
  BY <1>0 DEF Edit
<1>2. /\ row.status = imports[i].status /\ row.part = imports[i].part /\ row.doc = imports[i].doc
      /\ DOMAIN row = DOMAIN imports[i]
  BY <1>0 DEF ImportsInvariant, Sound
<1>3. IsSeq(imports')
  BY <1>1, Replaced DEF ImportsInvariant, Sound
<1>4. /\ DOMAIN imports' = DOMAIN imports
      /\ \A x \in DOMAIN imports : /\ imports'[x].status = imports[x].status
                                   /\ imports'[x].part = imports[x].part
                                   /\ imports'[x].doc = imports[x].doc
                                   /\ DOMAIN imports'[x] = DOMAIN imports[x]
  BY <1>1, <1>2
<1>5. DocsKept /\ ImportsKept
  BY <1>1, <1>3, <1>4, Untouched DEF ImportsInvariant, Sound, ImportsKept
<1>6. TablesKept
  BY <1>1, <1>4, <1>5, Untouched DEF ImportsInvariant, TablesKept
<1>7. Outcomes'
  BY <1>1, <1>4, <1>6, NoPartMade
<1>8. KeepsSource'
  BY <1>1, <1>6, SourceKept
<1> QED BY <1>1, <1>4, <1>5, <1>7, <1>8, PartsSame

\* A decision on an import that no approval holds: two requests that both read it
\* undecided are told apart from the others by Noticed.
LEMMA Freely ==
  ASSUME ImportsInvariant, NEW i, ~LockedImport(i), NEW o \in Calls, call[o].op = "commit"
  PROVE  call[o].arg # i
BY DEF LockedImport

LEMMA ApproveReusedStep ==
  ASSUME ImportsAssumption, ImportsInvariant, NEW q \in Calls, ApproveReused(q)
  PROVE  ImportsInvariant'
<1> PICK i, p : i = call[q].arg /\ p = call[q].reuse
  OBVIOUS
<1>1. /\ i \in DOMAIN imports /\ call[q].saw = "pending"
      /\ p \in DOMAIN parts /\ parts[p].file = File(i)
      /\ ~LockedImport(i) /\ Ends(q) /\ UNCHANGED <<docs, parts>>
  BY DEF ApproveReused, ImportsInvariant, CallOK
<1>2. CASE UNCHANGED <<imports, raced>>
  BY <1>1, <1>2, NothingOwed, TablesSame DEF Ends
<1>3. CASE Decided(i, "approved", p) /\ imports[i].status \notin Gone /\ raced' = raced \cup Noticed(q, i)
  <2>1. Sound(docs, imports, parts)
    BY DEF ImportsInvariant
  <2>2. /\ ImportsKept /\ DOMAIN imports' = DOMAIN imports
        /\ imports'[i].status = "approved" /\ imports'[i].part = p
        /\ \A x \in DOMAIN imports \ {i} : imports'[x] = imports[x]
    BY <1>1, <1>3, <2>1, Deciding
  <2>3. TablesKept /\ DocsKept
    BY <1>1, <2>1, <2>2, Untouched DEF TablesKept
  <2>4. i \notin raced' => imports[i].status = "pending" /\ i \notin raced
    BY <1>1, <1>3 DEF Noticed, Pending
  <2>5. ASSUME i \notin raced' PROVE Outcome(i)'
    <3>1. \A x \in DOMAIN parts : ~Made(x, i)
      BY <1>1, <2>4, <2>5 DEF ImportsInvariant, Outcomes, Outcome, Gone
    <3>2. docs'[imports'[i].doc].file = parts'[p].file
      BY <1>1, <2>2 DEF ImportsKept, File
    <3> QED BY <1>1, <2>2, <3>1, <3>2 DEF Outcome, Made, File
  <2>6. ASSUME NEW j \in DOMAIN imports \ {i}, imports'[j].status \notin Gone, j \notin raced'
        PROVE  Outcome(j)'
    <3>1. Outcome(j) /\ imports'[j] = imports[j]
      BY <1>3, <2>2, <2>6 DEF ImportsInvariant, Outcomes
    <3> QED BY <1>1, <2>3, <2>6, <3>1, OutcomeKept DEF Made
  <2>7. Outcomes'
    BY <2>2, <2>5, <2>6 DEF Outcomes
  <2>8. KeepsSource'
    BY <1>1, <2>3, SourceKept
  <2>9. \A o \in Calls, x \in DOMAIN imports :
          call[o].op = "commit" /\ call[o].arg = x => imports'[x].status = imports[x].status
    BY <1>1, <2>2, Freely
  <2> QED BY <1>1, <1>3, <2>2, <2>3, <2>7, <2>8, <2>9, PartsSame
<1> QED BY <1>2, <1>3 DEF ApproveReused

LEMMA CommitRejectionStep ==
  ASSUME ImportsAssumption, ImportsInvariant, NEW q \in Calls, CommitRejection(q)
  PROVE  ImportsInvariant'
<1> PICK i : i = call[q].arg
  OBVIOUS
<1>1. /\ i \in DOMAIN imports /\ call[q].saw = "pending"
      /\ ~LockedImport(i) /\ Ends(q) /\ UNCHANGED parts
  BY DEF CommitRejection, ImportsInvariant, CallOK
<1>2. CASE UNCHANGED <<docs, imports, raced>>
  BY <1>1, <1>2, NothingOwed, TablesSame DEF Ends
<1>3. CASE /\ Decided(i, "rejected", imports[i].part) /\ Stamped(imports[i].doc, "rejected")
           /\ imports[i].status \notin Gone /\ raced' = raced \cup Noticed(q, i)
  <2>1. Sound(docs, imports, parts) /\ imports[i].doc \in DOMAIN docs
    BY <1>1 DEF ImportsInvariant, Sound
  <2>2. /\ DocsKept /\ DOMAIN docs' = DOMAIN docs /\ docs'[imports[i].doc].status = "rejected"
        /\ \A x \in DOMAIN docs \ {imports[i].doc} : docs'[x] = docs[x]
    BY <1>3, <2>1, Stamping
  <2>3. /\ ImportsKept /\ DOMAIN imports' = DOMAIN imports
        /\ imports'[i].status = "rejected" /\ imports'[i].part = imports[i].part
        /\ \A x \in DOMAIN imports \ {i} : imports'[x] = imports[x]
    BY <1>1, <1>3, <2>1, <2>2, Deciding
  <2>4. TablesKept
    BY <1>1, <2>1, <2>2, <2>3, Untouched DEF TablesKept
  <2>5. ASSUME i \notin raced' PROVE Outcome(i)'
    <3>1. Outcome(i) /\ imports[i].status = "pending"
      BY <1>1, <1>3, <2>5 DEF ImportsInvariant, Outcomes, Noticed, Pending
    <3> QED BY <1>1, <2>3, <3>1 DEF Outcome, Made
  <2>6. ASSUME NEW j \in DOMAIN imports \ {i}, imports'[j].status \notin Gone, j \notin raced'
        PROVE  Outcome(j)'
    <3>1. Outcome(j) /\ imports'[j] = imports[j]
      BY <1>3, <2>3, <2>6 DEF ImportsInvariant, Outcomes
    <3> QED BY <1>1, <2>4, <2>6, <3>1, OutcomeKept DEF Made
  <2>7. Outcomes'
    BY <2>3, <2>5, <2>6 DEF Outcomes
  <2>8. KeepsSource'
    BY <1>1, <2>2, <2>4, SourceKept
  <2>9. \A o \in Calls, x \in DOMAIN imports :
          call[o].op = "commit" /\ call[o].arg = x => imports'[x].status = imports[x].status
    BY <1>1, <2>3, Freely
  <2> QED BY <1>1, <1>3, <2>2, <2>3, <2>7, <2>8, <2>9, PartsSame
<1> QED BY <1>2, <1>3 DEF CommitRejection


LEMMA ApproveNewStep ==
  ASSUME ImportsAssumption, ImportsInvariant, NEW q \in Calls, ApproveNew(q)
  PROVE  ImportsInvariant'
<1> PICK i : i = call[q].arg
  OBVIOUS
<1>1. /\ i \in DOMAIN imports /\ call[q].saw = "pending" /\ ~LockedImport(i)
      /\ UNCHANGED <<docs, imports>>
  BY DEF ApproveNew, ImportsInvariant, CallOK
<1>2. CASE Ends(q) /\ UNCHANGED <<parts, raced>>
  BY <1>1, <1>2, NothingOwed, TablesSame DEF Ends
<1>3. CASE ~(Ends(q) /\ UNCHANGED <<parts, raced>>)
  <2>1. PICK f, k, p :
          /\ parts' = Append(parts, Part(f, k, imports[i].doc, i, "new")) /\ p = Len(parts')
          /\ imports[i].status \notin Gone /\ raced' = raced \cup Noticed(q, i)
          /\ Then(q, [op |-> "commit", arg |-> i, part |-> p])
    BY <1>3 DEF ApproveNew
  <2>2. Sound(docs, imports, parts)
    BY DEF ImportsInvariant
  <2>3. /\ PartsKept /\ DOMAIN parts' = DOMAIN parts \cup {p} /\ p \notin DOMAIN parts
        /\ parts'[p] = Part(f, k, imports[i].doc, i, "new")
        /\ \A x \in DOMAIN parts : parts'[x] = parts[x]
    BY <1>1, <2>1, <2>2, Inserting
  <2>4. parts'[p].status = "new" /\ parts'[p].by = i /\ parts'[p].doc = imports[i].doc
    BY <2>3 DEF Part
  <2>5. TablesKept
    BY <1>1, <2>2, <2>3, Untouched DEF TablesKept
  <2>6. Outcomes'
    BY <1>1, <2>1, <2>3, <2>4, <2>5, NoPartMade
  <2>7. KeepsSource'
    BY <1>1, <2>3, <2>4, <2>5, SourceKept
  <2>8. /\ call'[q].op = "commit" /\ call'[q].arg = i /\ call'[q].part = p
        /\ \A o \in Calls \ {q} : call'[o] = call[o]
    BY <2>1, Goes DEF ImportsInvariant, Then
  <2>9. CommitsKept(q)
    <3>1. ASSUME NEW o \in Calls \ {q}, call[o].op = "commit"
          PROVE  /\ imports'[call[o].arg].status = imports[call[o].arg].status
                 /\ parts'[call[o].part].status = "new" /\ call[o].arg # i
      <4>1. CommitOK(o)
        BY <3>1, UnderWay
      <4> QED BY <1>1, <2>3, <3>1, <4>1, Freely DEF CommitOK
    <3> QED BY <2>8, <3>1 DEF CommitsKept
  <2>10. CallOK(q)'
    <3>1. \A o \in Calls : call'[o].op = "commit" /\ call'[o].arg = i => o = q
      BY <1>1, <2>8, Freely
    <3>2. i \notin raced' => imports'[i].status = "pending"
      BY <1>1, <2>1 DEF Noticed, Pending
    <3>3. CommitOK(q)'
      BY <1>1, <2>1, <2>3, <2>4, <2>8, <3>1, <3>2 DEF CommitOK, Pending
    <3> QED BY <2>8, <3>3 DEF CallOK
  <2> QED BY <2>1, <2>5, <2>6, <2>7, <2>9, <2>10, StepKeeps
<1> QED BY <1>2, <1>3

LEMMA CommitStep ==
  ASSUME ImportsAssumption, ImportsInvariant, NEW q \in Calls, Commit(q)
  PROVE  ImportsInvariant'
<1> PICK i, p : i = call[q].arg /\ p = call[q].part
  OBVIOUS
<1>1. /\ CommitOK(q) /\ Ends(q) /\ raced' = raced
      /\ Restated(p, "live") /\ Decided(i, "approved", p) /\ Stamped(imports[i].doc, "approved")
  BY UnderWay DEF Commit, Restated
<1>2. /\ i \in DOMAIN imports /\ imports[i].status \notin Gone /\ (i \notin raced => Pending(i))
      /\ p \in DOMAIN parts /\ parts[p].status = "new"
      /\ parts[p].by = i /\ parts[p].doc = imports[i].doc
  BY <1>1 DEF CommitOK
<1>3. Sound(docs, imports, parts) /\ imports[i].doc \in DOMAIN docs
  BY <1>2 DEF ImportsInvariant, Sound
<1>4. /\ DocsKept /\ DOMAIN docs' = DOMAIN docs /\ docs'[imports[i].doc].status = "approved"
      /\ \A x \in DOMAIN docs \ {imports[i].doc} : docs'[x] = docs[x]
  BY <1>1, <1>3, Stamping
<1>5. /\ ImportsKept /\ DOMAIN imports' = DOMAIN imports
      /\ imports'[i].status = "approved" /\ imports'[i].part = p
      /\ \A x \in DOMAIN imports \ {i} : imports'[x] = imports[x]
  BY <1>1, <1>2, <1>3, <1>4, Deciding
<1>6. /\ PartsKept /\ DOMAIN parts' = DOMAIN parts /\ parts'[p].status = "live"
      /\ \A x \in DOMAIN parts \ {p} : parts'[x] = parts[x]
  BY <1>1, <1>2, <1>3, <1>5, Restating
<1>7. TablesKept
  BY <1>4, <1>5, <1>6 DEF TablesKept
<1>8. parts'[p].by = i /\ parts'[p].doc = imports[i].doc
  BY <1>2, <1>6 DEF PartsKept
<1>9. ASSUME i \notin raced PROVE Outcome(i)'
  <2>1. \A x \in DOMAIN parts : ~Made(x, i)
    BY <1>2, <1>9 DEF ImportsInvariant, Outcomes, Outcome, Pending
  <2>2. \A x \in DOMAIN parts' : Made(x, i)' <=> x = p
    BY <1>6, <1>8, <2>1 DEF Made
  <2> QED BY <1>2, <1>5, <1>6, <2>2 DEF Outcome
<1>10. ASSUME NEW j \in DOMAIN imports \ {i}, imports'[j].status \notin Gone, j \notin raced
       PROVE  Outcome(j)'
  <2>1. Outcome(j) /\ imports'[j] = imports[j]
    BY <1>5, <1>10 DEF ImportsInvariant, Outcomes
  <2>2. \A x \in DOMAIN parts : Made(x, j)' <=> Made(x, j)
    BY <1>2, <1>6, <1>8, <1>10 DEF Made
  <2> QED BY <1>6, <1>7, <1>10, <2>1, <2>2, OutcomeKept
<1>11. Outcomes'
  BY <1>1, <1>5, <1>9, <1>10 DEF Outcomes
<1>12. KeepsSource'
  BY <1>3, <1>4, <1>6, <1>7, <1>8, SourceKept
<1>13. CommitsKept(q)
  <2>1. ASSUME NEW o \in Calls \ {q}, call[o].op = "commit"
        PROVE  call[o].arg # i /\ call[o].part # p
    <3>1. CommitOK(o)
      BY <2>1, UnderWay
    <3>2. call[o].arg # i
      BY <1>1, <2>1 DEF CommitOK
    <3> QED BY <1>2, <3>1, <3>2 DEF CommitOK
  <2> QED BY <1>1, <1>5, <1>6, <2>1, Undisturbed
<1>14. CallOK(q)'
  BY <1>1, NothingOwed DEF Ends
<1> QED BY <1>1, <1>7, <1>11, <1>12, <1>13, <1>14, StepKeeps DEF Ends

\* A part that is not live afterwards, and counts as made if it did before.
LEMMA PartRestated ==
  ASSUME ImportsAssumption, ImportsInvariant, NEW q \in Calls, Ends(q),
         UNCHANGED <<docs, imports, raced>>, NEW p \in DOMAIN parts, NEW s, Restated(p, s),
         \/ parts[p].status = "live" /\ s = "deleted"
         \/ parts[p].status = "new" /\ s = "gone",
         \A o \in Calls \ {q} : call[o].op = "commit" => call[o].part # p
  PROVE  ImportsInvariant'
<1>1. /\ PartsKept /\ DOMAIN parts' = DOMAIN parts /\ parts'[p].status = s
      /\ \A x \in DOMAIN parts \ {p} : parts'[x] = parts[x]
  BY Restating DEF ImportsInvariant
<1>2. TablesKept
  BY <1>1, Untouched DEF ImportsInvariant, TablesKept
<1>3. Outcomes'
  BY <1>1, <1>2, NoPartMade
<1>4. KeepsSource'
  BY <1>1, <1>2, SourceKept
<1>5. CommitsKept(q)
  BY <1>1, Undisturbed
<1>6. CallOK(q)'
  BY NothingOwed DEF Ends
<1> QED BY <1>2, <1>3, <1>4, <1>5, <1>6, StepKeeps DEF Ends

LEMMA RollBackStep ==
  ASSUME ImportsAssumption, ImportsInvariant, NEW q \in Calls, RollBack(q)
  PROVE  ImportsInvariant'
<1> PICK p : p = call[q].part
  OBVIOUS
<1>1. CommitOK(q) /\ Restated(p, "gone") /\ Ends(q) /\ UNCHANGED <<docs, imports, raced>>
  BY UnderWay DEF RollBack, Restated
<1>2. p \in DOMAIN parts /\ parts[p].status = "new" /\ parts[p].by = call[q].arg
  BY <1>1 DEF CommitOK
<1>3. ASSUME NEW o \in Calls \ {q}, call[o].op = "commit" PROVE call[o].part # p
  <2>1. CommitOK(o)
    BY <1>3, UnderWay
  <2> QED BY <1>1, <1>2, <1>3, <2>1 DEF CommitOK
<1> QED BY <1>1, <1>2, <1>3, PartRestated

LEMMA DeletePartStep ==
  ASSUME ImportsAssumption, ImportsInvariant, NEW q \in Calls, NEW p \in DOMAIN parts, DeletePart(q, p)
  PROVE  ImportsInvariant'
<1>1. /\ parts[p].status = "live" /\ Restated(p, "deleted") /\ Ends(q)
      /\ UNCHANGED <<docs, imports, raced>>
  BY DEF DeletePart, Restated
<1>2. ASSUME NEW o \in Calls \ {q}, call[o].op = "commit" PROVE call[o].part # p
  <2>1. CommitOK(o)
    BY <1>2, UnderWay
  <2> QED BY <1>1, <2>1 DEF CommitOK
<1> QED BY <1>1, <1>2, PartRestated
-----------------------------------------------------------------------------
(* Deletions                                                                 *)

LEMMA Cascading ==
  ASSUME Sound(docs, imports, parts), NEW d, NEW gone, Cascade(d, gone),
         DOMAIN docs \subseteq DOMAIN docs'
  PROVE  /\ ImportsKept /\ DOMAIN imports' = DOMAIN imports
         /\ \A x \in DOMAIN imports :
              IF imports[x].doc = d /\ imports[x].status \notin Gone
              THEN imports'[x].status = gone ELSE imports'[x] = imports[x]
<1>1. /\ DOMAIN imports' = DOMAIN imports /\ imports' = [x \in DOMAIN imports |-> imports'[x]]
      /\ \A x \in DOMAIN imports :
           imports'[x] = IF imports[x].doc = d /\ imports[x].status \notin Gone
                         THEN [imports[x] EXCEPT !.status = gone] ELSE imports[x]
  BY DEF Cascade
<1>2. IsSeq(imports')
  <2>1. Len(imports) \in Nat /\ DOMAIN imports = 1 .. Len(imports)
    BY SeqFacts DEF Sound
  <2> QED BY <1>1, <2>1, SeqOf
<1>3. ASSUME NEW x \in DOMAIN imports
      PROVE  /\ DOMAIN imports'[x] = DOMAIN imports[x] /\ imports'[x].doc = imports[x].doc
             /\ IF imports[x].doc = d /\ imports[x].status \notin Gone
                THEN imports'[x].status = gone ELSE imports'[x] = imports[x]
  <2>1. {"doc", "key", "status", "part"} \subseteq DOMAIN imports[x]
    BY DEF Sound
  <2> QED BY <1>1, <2>1
<1> QED BY <1>1, <1>2, <1>3 DEF Sound, ImportsKept

LEMMA DeleteImportStep ==
  ASSUME ImportsAssumption, ImportsInvariant, NEW q \in Calls, NEW i \in DOMAIN imports,
         DeleteImport(q, i)
  PROVE  ImportsInvariant'
<1> PICK d : d = imports[i].doc
  OBVIOUS
<1>1. Ends(q) /\ UNCHANGED <<parts, raced>> /\ ~LockedImport(i)
  BY DEF DeleteImport
<1>2. Sound(docs, imports, parts) /\ d \in DOMAIN docs
  BY DEF ImportsInvariant, Sound
<1>3. CASE imports' = [imports EXCEPT ![i].status = "dropped"] /\ docs' = docs
  <2> PICK row : row = [imports[i] EXCEPT !.status = "dropped"]
    OBVIOUS
  <2>1. imports' = [imports EXCEPT ![i] = row]
    BY <1>3
  <2>2. row.status = "dropped" /\ row.doc = d /\ DOMAIN row = DOMAIN imports[i]
    BY <1>2 DEF Sound
  <2>3. IsSeq(imports')
    BY <1>2, <2>1, Replaced DEF Sound
  <2>4. /\ DocsKept /\ ImportsKept /\ DOMAIN imports' = DOMAIN imports
        /\ imports'[i].status = "dropped" /\ \A x \in DOMAIN imports \ {i} : imports'[x] = imports[x]
    BY <1>2, <1>3, <2>1, <2>2, <2>3, Untouched DEF Sound, ImportsKept
  <2>5. TablesKept
    BY <1>1, <1>2, <2>4, Untouched DEF TablesKept
  <2>6. Outcomes'
    BY <1>1, <2>4, <2>5, NoPartMade DEF Gone
  <2>7. KeepsSource'
    BY <1>1, <1>3, <2>5, SourceKept
  <2>8. \A o \in Calls, x \in DOMAIN imports :
          call[o].op = "commit" /\ call[o].arg = x => imports'[x].status = imports[x].status
    BY <1>1, <2>4, Freely
  <2> QED BY <1>1, <2>4, <2>6, <2>7, <2>8, PartsSame
<1>4. CASE Cascade(d, "dropped") /\ Stamped(d, "dropped") /\ ~StillUsed(d, i)
  <2>1. /\ DocsKept /\ DOMAIN docs' = DOMAIN docs
        /\ \A x \in DOMAIN docs \ {d} : docs'[x] = docs[x]
    BY <1>2, <1>4, Stamping
  <2>2. /\ ImportsKept /\ DOMAIN imports' = DOMAIN imports
        /\ \A x \in DOMAIN imports :
             IF imports[x].doc = d /\ imports[x].status \notin Gone
             THEN imports'[x].status = "dropped" ELSE imports'[x] = imports[x]
    BY <1>2, <1>4, <2>1, Cascading
  <2>3. TablesKept
    BY <1>1, <1>2, <2>1, <2>2, Untouched DEF TablesKept
  <2>4. Outcomes'
    BY <1>1, <2>2, <2>3, NoPartMade DEF Gone
  <2>5. KeepsSource'
    BY <1>1, <1>4, <2>1, <2>3, SourceKept DEF StillUsed
  <2>6. ASSUME NEW o \in Calls, NEW x \in DOMAIN imports, call[o].op = "commit", call[o].arg = x
        PROVE  imports'[x].status = imports[x].status
    <3>1. x # i /\ imports[x].status \notin Gone
      BY <1>1, <2>6, Freely, UnderWay DEF CommitOK
    <3>2. imports[x].doc # d
      BY <1>4, <3>1 DEF StillUsed, Present
    <3> QED BY <2>2, <3>2
  <2> QED BY <1>1, <2>1, <2>2, <2>4, <2>5, <2>6, PartsSame
<1> QED BY <1>3, <1>4 DEF DeleteImport

LEMMA DeleteDocumentStep ==
  ASSUME ImportsAssumption, ImportsInvariant, NEW q \in Calls, NEW d \in DOMAIN docs,
         DeleteDocument(q, d)
  PROVE  ImportsInvariant'
<1>1. /\ Ends(q) /\ UNCHANGED <<parts, raced>> /\ ~LockedDoc(d)
      /\ Stamped(d, "erased") /\ Cascade(d, "erased")
  BY DEF DeleteDocument
<1>2. Sound(docs, imports, parts)
  BY DEF ImportsInvariant
<1>3. /\ DocsKept /\ DOMAIN docs' = DOMAIN docs /\ docs'[d].status = "erased"
      /\ \A x \in DOMAIN docs \ {d} : docs'[x] = docs[x]
  BY <1>1, <1>2, Stamping
<1>4. /\ ImportsKept /\ DOMAIN imports' = DOMAIN imports
      /\ \A x \in DOMAIN imports :
           IF imports[x].doc = d /\ imports[x].status \notin Gone
           THEN imports'[x].status = "erased" ELSE imports'[x] = imports[x]
  BY <1>1, <1>2, <1>3, Cascading
<1>5. TablesKept
  BY <1>1, <1>2, <1>3, <1>4, Untouched DEF TablesKept
<1>6. Outcomes'
  BY <1>1, <1>4, <1>5, NoPartMade DEF Gone
<1>7. KeepsSource'
  BY <1>1, <1>3, <1>5, SourceKept
<1>8. ASSUME NEW o \in Calls, NEW x \in DOMAIN imports, call[o].op = "commit", call[o].arg = x
      PROVE  imports'[x].status = imports[x].status
  <2>1. imports[x].doc # d
    BY <1>1, <1>8 DEF LockedDoc, LockedImport
  <2> QED BY <1>4, <2>1
<1> QED BY <1>1, <1>3, <1>4, <1>6, <1>7, <1>8, PartsSame
-----------------------------------------------------------------------------
(* The theorems                                                              *)

LEMMA ImportsStep ==
  ASSUME ImportsAssumption, ImportsInvariant, [Next]_importVars
  PROVE  ImportsInvariant'
<1>1. CASE UNCHANGED importVars
  BY <1>1 DEF importVars, ImportsInvariant, Outcomes, Outcome, Made, File, KeepsSource, LiveParts,
     CallOK, CommitOK, Pending
<1>2. CASE Next
  BY <1>2, ReadingStep, ApproveStep, StoreStep, InsertDirectlyStep, MarkExtractingStep, ExtractStep,
     EditStep, ApproveReusedStep, ApproveNewStep, CommitStep, RollBackStep, CommitRejectionStep,
     DeleteImportStep, DeleteDocumentStep, DeletePartStep DEF Next
<1> QED BY <1>1, <1>2

LEMMA ImportsHold ==
  ASSUME ImportsAssumption
  PROVE  Spec => []ImportsInvariant
<1>1. Init => ImportsInvariant
  <2>1. ASSUME Init PROVE ImportsInvariant
    <3>1. PICK s \in Seeds : docs = s.docs /\ imports = s.imports /\ parts = s.parts
      BY <2>1 DEF Init
    <3>2. Settled(s)
      BY DEF ImportsAssumption
    <3>3. call = [q \in Calls |-> [op |-> "idle"]]
      BY <2>1 DEF Init
    <3>4. Outcomes
      BY <3>1, <3>2 DEF Settled, Outcomes, Outcome, Made, File
    <3>5. KeepsSource
      BY <3>1, <3>2 DEF Settled, KeepsSource, LiveParts
    <3>6. Sound(docs, imports, parts)
      BY <3>1, <3>2 DEF Settled
    <3> QED BY <3>3, <3>4, <3>5, <3>6 DEF ImportsInvariant, CallOK
  <2> QED BY <2>1
<1>2. ImportsInvariant /\ [Next]_importVars => ImportsInvariant'
  BY ImportsStep
<1> QED BY <1>1, <1>2, PTL DEF Spec

\* An import has one outcome, for any number of requests that review, edit,
\* delete and extract: the part it says was made from it, a part of the same
\* content, or nothing, unless two requests decided it at once
\* (approve_pending_import and reject_pending_import, routers/catalog.py).
THEOREM ImportsHaveOneOutcome ==
  ASSUME ImportsAssumption
  PROVE  Spec => []OneOutcome
<1>1. ImportsInvariant => OneOutcome
  <2>1. ASSUME ImportsInvariant, NEW i \in DOMAIN imports, imports[i].status \notin Gone, i \notin raced
        PROVE  IF imports[i].status = "approved"
               THEN \/ PartsOf(i) = {imports[i].part}
                    \/ PartsOf(i) = {} /\ parts[imports[i].part].file = File(i)
               ELSE PartsOf(i) = {} /\ imports[i].part = None
    <3>1. Outcome(i)
      BY <2>1 DEF ImportsInvariant, Outcomes
    <3>2. \A p : p \in PartsOf(i) <=> p \in DOMAIN parts /\ Made(p, i)
      BY DEF PartsOf, Made
    <3> QED BY <3>1, <3>2 DEF Outcome
  <2> QED BY <2>1 DEF OneOutcome, Present
<1> QED BY <1>1, ImportsHold, PTL

\* The document a live part was made from is not taken away when the review queue
\* is cleared, for any number of requests (delete_pending_import).
THEOREM SourcesAreKept ==
  ASSUME ImportsAssumption
  PROVE  Spec => []KeepsSource
<1>1. ImportsInvariant => KeepsSource
  BY DEF ImportsInvariant
<1> QED BY <1>1, ImportsHold, PTL

-----------------------------------------------------------------------------
(* How projects use the catalog                                              *)

\* The rows of a table that name a part.
Naming(rows, p) == {x \in DOMAIN rows : rows[x].part = p}

PartsOK == /\ part = [p \in Parts |-> part[p]]
           /\ \A p \in Parts : "row" \in DOMAIN part[p]
TableOK(rows, ids) ==
  DOMAIN rows \subseteq ids /\ \A x \in DOMAIN rows : "part" \in DOMAIN rows[x]
RequestOK(r) ==
  /\ r.op \in {"place part", "create unit", "relink unit"} => r.unit \in Units
  /\ r.op = "vary part" => r.from \in Parts
  /\ r.op \in {"add line", "update line"} => r.line \in Lines
\* What names a part that is leaving is marked.
Marked(rows, marks) ==
  \A p \in Parts : Leaving(p) => \A x \in Naming(rows, p) : <<x, p>> \in marks

ProjectInvariant ==
  /\ PartsOK /\ TableOK(unit, Units) /\ TableOK(line, Lines)
  /\ DOMAIN request = UseCalls /\ \A q \in UseCalls : RequestOK(request[q])
  /\ Marked(unit, late) /\ Marked(line, late)

LEMMA MarkedParts ==
  ASSUME ProjectInvariant PROVE DeletedPartsWereUnused
BY DEF ProjectInvariant, Marked, Leaving, Naming, DeletedPartsWereUnused

LEMMA ProjectStart ==
  ASSUME ProjectAssumption, ProjectInit PROVE ProjectInvariant
<1> PICK db \in Databases :
      part = db.part /\ unit = db.unit /\ line = db.line
  BY DEF ProjectInit
<1>1. /\ DOMAIN request = UseCalls /\ \A q \in UseCalls : request[q].op = "idle"
  BY DEF ProjectInit
<1>2. PartsOK /\ TableOK(unit, Units) /\ TableOK(line, Lines)
  BY DEF ProjectAssumption, PartsOK, TableOK
<1>3. ASSUME NEW p \in Parts, Leaving(p) PROVE Naming(unit, p) = {} /\ Naming(line, p) = {}
  <2>1. part[p].row = "deleted"
    BY <1>1, <1>3 DEF Leaving
  <2>2. db.part[p].row = "deleted" =>
          (\A u \in DOMAIN db.unit : db.unit[u].part # p) /\ (\A l \in DOMAIN db.line : db.line[l].part # p)
    BY DEF ProjectAssumption
  <2> QED BY <2>1, <2>2 DEF Naming
<1> QED BY <1>1, <1>2, <1>3 DEF ProjectInvariant, RequestOK, Marked

\* A request goes on or ends. Whoever is going has been going, so what names a
\* part need only be told where it was not before.
Ended(q, next) ==
  request' = [request EXCEPT ![q] = next] /\ next.op \in {"done", "end supplier"}

LEMMA UseKept ==
  ASSUME ProjectInvariant, NEW q \in UseCalls, NEW next, Ended(q, next),
         PartsOK', TableOK(unit, Units)', TableOK(line, Lines)',
         \A p \in Parts : part'[p].row = "deleted" => Leaving(p),
         Marked(unit', late'), Marked(line', late')
  PROVE  ProjectInvariant'
<1>1. /\ DOMAIN request' = UseCalls /\ request'[q] = next
      /\ \A o \in UseCalls \ {q} : request'[o] = request[o]
  BY DEF Ended, ProjectInvariant
<1>2. ASSUME NEW p \in Parts PROVE Leaving(p)' => Leaving(p)
  BY <1>1 DEF Leaving, Ended
<1>3. Marked(unit, late)' /\ Marked(line, late)'
  BY <1>2 DEF Marked, Naming
<1>4. \A o \in UseCalls : RequestOK(request[o])'
  BY <1>1 DEF ProjectInvariant, RequestOK, Ended
<1> QED BY <1>1, <1>3, <1>4 DEF ProjectInvariant

\* Rows a step leaves alone are still told.
LEMMA RowsKept ==
  ASSUME ProjectInvariant, UNCHANGED <<part, unit, line, late>>
  PROVE  /\ PartsOK' /\ TableOK(unit, Units)' /\ TableOK(line, Lines)'
         /\ \A p \in Parts : part'[p].row = "deleted" => Leaving(p)
         /\ Marked(unit', late') /\ Marked(line', late')
BY DEF ProjectInvariant, PartsOK, TableOK, Leaving, Marked, Naming

LEMMA QuietStep ==
  ASSUME ProjectInvariant, NEW q \in UseCalls, NEW next, Ended(q, next),
         UNCHANGED <<part, unit, line, late>>
  PROVE  ProjectInvariant'
BY RowsKept, UseKept

\* A part comes or changes, and only its deletion deletes it.
LEMMA PartWritten ==
  ASSUME ProjectInvariant, NEW q \in UseCalls, NEW next, Ended(q, next),
         UNCHANGED <<unit, line, late>>,
         NEW k, NEW row, part' = [part EXCEPT ![k] = row],
         k \in Parts => "row" \in DOMAIN row /\ (row.row = "deleted" => Leaving(k))
  PROVE  ProjectInvariant'
<1>1. PartsOK' /\ \A p \in Parts : part'[p].row = "deleted" => Leaving(p)
  BY DEF ProjectInvariant, PartsOK, Leaving
<1>2. /\ TableOK(unit, Units)' /\ TableOK(line, Lines)'
      /\ Marked(unit', late') /\ Marked(line', late')
  BY DEF ProjectInvariant, TableOK, Marked
<1> QED BY <1>1, <1>2, UseKept

LEMMA PartStep ==
  ASSUME ProjectInvariant, NEW q \in UseCalls, NEW next, Ended(q, next),
         NEW r, r = request[q],
         \/ r.op = "create part" /\ CreatePart(r)
         \/ r.op = "vary part" /\ VaryPart(r)
         \/ r.op = "retire part" /\ RetirePart(r)
         \/ r.op = "delete part" /\ DeleteUnused(r)
  PROVE  ProjectInvariant'
<1> PICK k : k = r.part
  OBVIOUS
<1>1. CASE r.op = "create part" /\ CreatePart(r)
  <2> PICK row : row = [row |-> "live", life |-> "active", supplier |-> r.supplier]
    OBVIOUS
  <2>1. part' = [part EXCEPT ![k] = row] /\ UNCHANGED <<unit, line, late>>
    BY <1>1 DEF CreatePart
  <2> QED BY <2>1, PartWritten
<1>2. CASE r.op = "vary part" /\ VaryPart(r)
  <2> PICK row : row = [part[r.from] EXCEPT !.row = "live"]
    OBVIOUS
  <2>1. part' = [part EXCEPT ![k] = row] /\ UNCHANGED <<unit, line, late>>
    BY <1>2 DEF VaryPart
  <2>2. "row" \in DOMAIN part[r.from]
    BY <1>2 DEF ProjectInvariant, RequestOK, PartsOK
  <2>3. "row" \in DOMAIN row /\ row.row = "live"
    BY <2>2
  <2> QED BY <2>1, <2>3, PartWritten
<1>3. CASE r.op = "retire part" /\ RetirePart(r)
  <2>1. PICK life : part' = [part EXCEPT ![k].life = life]
    BY <1>3 DEF RetirePart
  <2> PICK row : row = [part[k] EXCEPT !.life = life]
    OBVIOUS
  <2>2. part' = [part EXCEPT ![k] = row] /\ UNCHANGED <<unit, line, late>>
    BY <1>3, <2>1 DEF RetirePart
  <2>3. k \in Parts => "row" \in DOMAIN part[k]
    BY DEF ProjectInvariant, PartsOK
  <2>4. k \in Parts => "row" \in DOMAIN row /\ row.row = part[k].row
    BY <2>3
  <2> QED BY <2>2, <2>4, PartWritten DEF Leaving
<1>4. CASE r.op = "delete part" /\ DeleteUnused(r)
  <2> PICK row : row = [part[k] EXCEPT !.row = "deleted"]
    OBVIOUS
  <2>1. part' = [part EXCEPT ![k] = row] /\ UNCHANGED <<unit, line, late>>
    BY <1>4 DEF DeleteUnused
  <2>2. k \in Parts => "row" \in DOMAIN row
    BY DEF ProjectInvariant, PartsOK
  <2>3. Leaving(k)
    BY <1>4 DEF Leaving
  <2> QED BY <2>1, <2>2, <2>3, PartWritten
<1> QED BY <1>1, <1>2, <1>3, <1>4

\* What names a part that CADPORT deletes is marked with it.
LEMMA DeleteUnaskedStep ==
  ASSUME ProjectInvariant, NEW q \in UseCalls, NEW next, Ended(q, next),
         NEW r, DeleteUnasked(r)
  PROVE  ProjectInvariant'
<1> PICK k : k = r.part
  OBVIOUS
<1>1. /\ part' = [part EXCEPT ![k].row = "deleted"] /\ UNCHANGED <<unit, line>>
      /\ late' = late \cup {<<u, k>> : u \in {u \in DOMAIN unit : unit[u].part = k}}
                      \cup {<<l, k>> : l \in {l \in DOMAIN line : line[l].part = k}}
  BY DEF DeleteUnasked
<1>2. /\ DOMAIN request' = UseCalls /\ request'[q] = next
      /\ \A o \in UseCalls \ {q} : request'[o] = request[o]
  BY DEF Ended, ProjectInvariant
<1>3. PartsOK' /\ \A p \in Parts \ {k} : part'[p] = part[p]
  BY <1>1 DEF ProjectInvariant, PartsOK
<1>4. ASSUME NEW p \in Parts, Leaving(p)', NEW x \in Naming(unit, p) \cup Naming(line, p)
      PROVE  <<x, p>> \in late'
  <2>1. CASE p = k
    BY <1>1, <1>4, <2>1 DEF Naming
  <2>2. CASE p # k
    <3>1. Leaving(p)
      BY <1>2, <1>3, <1>4, <2>2 DEF Leaving, Ended
    <3> QED BY <1>1, <1>4, <3>1 DEF ProjectInvariant, Marked
  <2> QED BY <2>1, <2>2
<1>5. Marked(unit, late)' /\ Marked(line, late)'
  BY <1>1, <1>4 DEF Marked, Naming
<1>6. \A o \in UseCalls : RequestOK(request[o])'
  BY <1>2 DEF ProjectInvariant, RequestOK, Ended
<1> QED BY <1>1, <1>2, <1>3, <1>5, <1>6 DEF ProjectInvariant, TableOK

\* Parts that are erased are named no more.
LEMMA Forgotten ==
  ASSUME NEW rows, NEW ids, NEW ps, TableOK(rows, ids), NEW new, new = Forget(rows, ps)
  PROVE  /\ TableOK(new, ids)
         /\ \A p : p # Null => Naming(new, p) \subseteq Naming(rows, p)
BY DEF Forget, TableOK, Naming

LEMMA EraseStep ==
  ASSUME ProjectAssumption, ProjectInvariant, NEW q \in UseCalls, NEW next, Ended(q, next),
         NEW ps, Erase(ps), late' = late
  PROVE  ProjectInvariant'
<1>1. /\ part' = [p \in Parts |-> IF p \in ps THEN [part[p] EXCEPT !.row = "erased"] ELSE part[p]]
      /\ unit' = Forget(unit, ps) /\ line' = Forget(line, ps)
  BY DEF Erase
<1>2. PartsOK' /\ \A p \in Parts : part'[p].row = "deleted" => Leaving(p)
  BY <1>1 DEF ProjectInvariant, PartsOK, Leaving
<1>3. /\ TableOK(unit, Units)' /\ TableOK(line, Lines)'
      /\ \A p \in Parts : Naming(unit, p)' \subseteq Naming(unit, p)
      /\ \A p \in Parts : Naming(line, p)' \subseteq Naming(line, p)
  BY <1>1, Forgotten DEF ProjectInvariant, ProjectAssumption
<1>4. Marked(unit', late') /\ Marked(line', late')
  BY <1>3 DEF ProjectInvariant, Marked, Naming
<1> QED BY <1>2, <1>3, <1>4, UseKept

\* A row that takes a part is told of it; other rows are as they were.
LEMMA RowPut ==
  ASSUME NEW rows, NEW ids, TableOK(rows, ids), NEW k \in ids, NEW row, "part" \in DOMAIN row,
         NEW new, new = Put(rows, k, row)
  PROVE  /\ TableOK(new, ids)
         /\ \A p : \A x \in Naming(new, p) : x \in Naming(rows, p) \/ (x = k /\ p = row.part)
BY DEF Put, TableOK, Naming

LEMMA Taken ==
  ASSUME ProjectAssumption, NEW x, NEW p, Takes(x, p)
  PROVE  /\ late \subseteq late'
         /\ p \in Parts /\ Leaving(p) => <<x, p>> \in late'
BY DEF Takes, ProjectAssumption

LEMMA PutUnitStep ==
  ASSUME ProjectAssumption, ProjectInvariant, NEW q \in UseCalls, NEW next, Ended(q, next),
         NEW u \in Units, NEW k, NEW name, PutUnit(u, k, name)
  PROVE  ProjectInvariant'
<1> PICK row : row = [part |-> k, name |-> name]
  OBVIOUS
<1>1. unit' = Put(unit, u, row) /\ Takes(u, k) /\ part' = part /\ line' = line
  BY DEF PutUnit
<1>2. "part" \in DOMAIN row /\ row.part = k
  OBVIOUS
<1>3. /\ TableOK(unit', Units)
      /\ \A p : \A x \in Naming(unit', p) : x \in Naming(unit, p) \/ (x = u /\ p = k)
  BY <1>1, <1>2, RowPut DEF ProjectInvariant
<1>4. late \subseteq late' /\ (k \in Parts /\ Leaving(k) => <<u, k>> \in late')
  BY <1>1, Taken
<1>5. ASSUME NEW p \in Parts, Leaving(p), NEW x \in Naming(unit', p) PROVE <<x, p>> \in late'
  <2>1. CASE x \in Naming(unit, p)
    BY <1>4, <1>5, <2>1 DEF ProjectInvariant, Marked
  <2>2. CASE x = u /\ p = k
    BY <1>4, <1>5, <2>2
  <2> QED BY <1>3, <2>1, <2>2
<1>6. Marked(line', late')
  BY <1>1, <1>4 DEF ProjectInvariant, Marked, Naming
<1>7. PartsOK' /\ TableOK(line, Lines)' /\ \A p \in Parts : part'[p].row = "deleted" => Leaving(p)
  BY <1>1 DEF ProjectInvariant, PartsOK, TableOK, Leaving
<1>8. Marked(unit', late')
  BY <1>5 DEF Marked
<1> QED BY <1>3, <1>6, <1>7, <1>8, UseKept DEF TableOK

LEMMA PutLineStep ==
  ASSUME ProjectAssumption, ProjectInvariant, NEW q \in UseCalls, NEW next, Ended(q, next),
         NEW r, r.line \in Lines, PutLine(r)
  PROVE  ProjectInvariant'
<1> PICK row : row = [part |-> r.part, unit |-> r.unit, parent |-> r.parent]
  OBVIOUS
<1>1. line' = Put(line, r.line, row) /\ Takes(r.line, r.part) /\ part' = part /\ unit' = unit
  BY DEF PutLine
<1>2. "part" \in DOMAIN row /\ row.part = r.part
  OBVIOUS
<1>3. /\ TableOK(line', Lines)
      /\ \A p : \A x \in Naming(line', p) : x \in Naming(line, p) \/ (x = r.line /\ p = r.part)
  BY <1>1, <1>2, RowPut DEF ProjectInvariant
<1>4. late \subseteq late' /\ (r.part \in Parts /\ Leaving(r.part) => <<r.line, r.part>> \in late')
  BY <1>1, Taken
<1>5. ASSUME NEW p \in Parts, Leaving(p), NEW x \in Naming(line', p) PROVE <<x, p>> \in late'
  <2>1. CASE x \in Naming(line, p)
    BY <1>4, <1>5, <2>1 DEF ProjectInvariant, Marked
  <2>2. CASE x = r.line /\ p = r.part
    BY <1>4, <1>5, <2>2
  <2> QED BY <1>3, <2>1, <2>2
<1>6. Marked(unit', late')
  BY <1>1, <1>4 DEF ProjectInvariant, Marked, Naming
<1>7. PartsOK' /\ TableOK(unit, Units)' /\ \A p \in Parts : part'[p].row = "deleted" => Leaving(p)
  BY <1>1 DEF ProjectInvariant, PartsOK, TableOK, Leaving
<1>8. Marked(line', late')
  BY <1>5 DEF Marked
<1> QED BY <1>3, <1>6, <1>7, <1>8, UseKept DEF TableOK

\* What is left of the rows without k.
Left(new, rows, k) ==
  /\ DOMAIN new \subseteq DOMAIN rows \ {k}
  /\ \A x \in DOMAIN new : "part" \in DOMAIN new[x] /\ new[x].part = rows[x].part

\* A row that is deleted takes its marks along, and only those.
LEMMA RowDropped ==
  ASSUME ProjectInvariant, NEW k, late' = {x \in late : x[1] # k}, part' = part,
         NEW rows, NEW ids, TableOK(rows, ids),
         Marked(rows, late), NEW new, Left(new, rows, k)
  PROVE  TableOK(new, ids) /\ Marked(new, late')
<1>1. ASSUME NEW p \in Parts, Leaving(p), NEW x \in Naming(new, p) PROVE <<x, p>> \in late'
  <2>1. x \in Naming(rows, p) /\ x # k
    BY <1>1 DEF Left, Naming
  <2>2. <<x, p>> \in late /\ <<x, p>>[1] = x
    BY <1>1, <2>1 DEF Marked
  <2> QED BY <2>1, <2>2
<1> QED BY <1>1 DEF TableOK, Left, Marked

LEMMA DeleteUnitStep ==
  ASSUME ProjectAssumption, ProjectInvariant, NEW q \in UseCalls, NEW next, Ended(q, next),
         NEW r, DeleteUnit(r)
  PROVE  ProjectInvariant'
<1> PICK k : k = r.unit
  OBVIOUS
<1>1. /\ k \in DOMAIN unit /\ late' = {x \in late : x[1] # k} /\ part' = part
      /\ unit' = Drop(unit, k)
      /\ line' = [l \in DOMAIN line |-> IF line[l].unit = k THEN [line[l] EXCEPT !.unit = Null] ELSE line[l]]
  BY DEF DeleteUnit
<1>2. TableOK(unit, Units) /\ TableOK(line, Lines) /\ k \in Units /\ k \notin Lines
  BY <1>1 DEF ProjectInvariant, TableOK, ProjectAssumption
<1>3. Left(unit', unit, k)
  BY <1>1, <1>2 DEF Drop, TableOK, Left
<1>4. Left(line', line, k)
  BY <1>1, <1>2 DEF TableOK, Left
<1>5. Marked(unit, late) /\ Marked(line, late)
  BY DEF ProjectInvariant
<1>6. TableOK(unit', Units) /\ Marked(unit', late')
  BY <1>1, <1>2, <1>3, <1>5, RowDropped
<1>7. TableOK(line', Lines) /\ Marked(line', late')
  BY <1>1, <1>2, <1>4, <1>5, RowDropped
<1>8. PartsOK' /\ \A p \in Parts : part'[p].row = "deleted" => Leaving(p)
  BY <1>1 DEF ProjectInvariant, PartsOK, Leaving
<1> QED BY <1>6, <1>7, <1>8, UseKept DEF TableOK

LEMMA RemoveLineStep ==
  ASSUME ProjectAssumption, ProjectInvariant, NEW q \in UseCalls, NEW next, Ended(q, next),
         NEW r, RemoveLine(r)
  PROVE  ProjectInvariant'
<1> PICK k, rest : k = r.line /\ rest = Drop(line, k)
  OBVIOUS
<1>1. /\ k \in DOMAIN line /\ late' = {x \in late : x[1] # k} /\ part' = part /\ unit' = unit
      /\ line' = [l \in DOMAIN rest |-> IF rest[l].parent = k THEN [rest[l] EXCEPT !.parent = Null] ELSE rest[l]]
  BY DEF RemoveLine
<1>2. TableOK(unit, Units) /\ TableOK(line, Lines) /\ k \in Lines /\ k \notin Units
  BY <1>1 DEF ProjectInvariant, TableOK, ProjectAssumption
<1>3. Left(unit', unit, k)
  BY <1>1, <1>2 DEF TableOK, Left
<1>4. Left(line', line, k)
  BY <1>1, <1>2 DEF TableOK, Drop, Left
<1>5. Marked(unit, late) /\ Marked(line, late)
  BY DEF ProjectInvariant
<1>6. TableOK(unit', Units) /\ Marked(unit', late')
  BY <1>1, <1>2, <1>3, <1>5, RowDropped
<1>7. TableOK(line', Lines) /\ Marked(line', late')
  BY <1>1, <1>2, <1>4, <1>5, RowDropped
<1>8. PartsOK' /\ \A p \in Parts : part'[p].row = "deleted" => Leaving(p)
  BY <1>1 DEF ProjectInvariant, PartsOK, Leaving
<1> QED BY <1>6, <1>7, <1>8, UseKept DEF TableOK

\* A deletion begins when nothing names the part.
LEMMA BeginStep ==
  ASSUME ProjectInvariant, NEW q \in UseCalls, NEW r \in Requests, Begin(q, r)
  PROVE  ProjectInvariant'
<1>1. /\ DOMAIN request' = UseCalls /\ request'[q] = r
      /\ \A o \in UseCalls \ {q} : request'[o] = request[o]
      /\ UNCHANGED <<part, unit, line, late>> /\ Ready(r)
  BY DEF Begin, ProjectInvariant
<1>2. RequestOK(r)
  <2>1. CASE r \in SupplierRequests
    BY <2>1 DEF SupplierRequests, RequestOK
  <2>2. CASE r \in PartRequests
    BY <2>2 DEF PartRequests, RequestOK
  <2>3. CASE r \in UnitRequests
    BY <2>3 DEF UnitRequests, RequestOK
  <2>4. CASE r \in LineRequests
    BY <2>4 DEF LineRequests, RequestOK
  <2>5. CASE r \in JointRequests
    <3> DEFINE pairs == {{l, k} : l \in Lines, k \in Lines}
    <3>1. JointRequests = [op : {"create joint"}, joint : Joints, ends : pairs] \cup
            [op : {"activate joint"}, joint : Joints] \cup
            [op : {"delete joint"}, joint : Joints, active : BOOLEAN]
      BY DEF JointRequests
    <3> HIDE DEF pairs
    <3> QED BY <2>5, <3>1 DEF RequestOK
  <2> QED BY <2>1, <2>2, <2>3, <2>4, <2>5 DEF Requests
<1>3. ASSUME NEW p \in Parts, Leaving(p)'
      PROVE  \A x \in Naming(unit, p) \cup Naming(line, p) : <<x, p>> \in late
  <2>1. CASE r.op = "delete part" /\ r.part = p
    <3>1. Usage(p) = {}
      BY <1>1, <2>1 DEF Ready
    <3> QED BY <3>1 DEF Usage, Naming
  <2>2. CASE ~(r.op = "delete part" /\ r.part = p)
    <3>1. Leaving(p)
      BY <1>1, <1>3, <2>2 DEF Leaving
    <3> QED BY <3>1 DEF ProjectInvariant, Marked
  <2> QED BY <2>1, <2>2
<1>4. \A o \in UseCalls : RequestOK(request[o])'
  BY <1>1, <1>2 DEF ProjectInvariant, RequestOK
<1>5. Marked(unit, late)' /\ Marked(line, late)'
  BY <1>1, <1>3 DEF Marked, Naming
<1> QED BY <1>1, <1>4, <1>5 DEF ProjectInvariant, PartsOK, TableOK

LEMMA CommitUseStep ==
  ASSUME ProjectAssumption, ProjectInvariant, NEW q \in UseCalls, CommitUse(q)
  PROVE  ProjectInvariant'
<1> PICK r : r = request[q]
  OBVIOUS
<1> PICK next : next = IF r.op = "delete supplier" THEN [op |-> "end supplier", supplier |-> r.supplier]
                       ELSE [op |-> "done"]
  OBVIOUS
<1>1. Ended(q, next) /\ Writes(r) /\ RequestOK(r)
  BY DEF CommitUse, Ended, ProjectInvariant
<1>2. CASE \/ r.op = "create supplier" /\ CreateSupplier(r)
           \/ r.op = "update supplier" /\ UpdateSupplier(r)
           \/ r.op = "assign line" /\ AssignLine(r)
           \/ r.op = "unassign line" /\ UnassignLine(r)
           \/ r.op = "create joint" /\ CreateJoint(r)
           \/ r.op = "activate joint" /\ ActivateJoint(r)
           \/ r.op = "delete joint" /\ DeleteJoint(r)
  BY <1>1, <1>2, QuietStep DEF CreateSupplier, UpdateSupplier, AssignLine, UnassignLine,
                               CreateJoint, ActivateJoint, DeleteJoint
<1>3. CASE r.op = "delete supplier" /\ DeleteSupplier(r)
  BY <1>1, <1>3, QuietStep, EraseStep DEF DeleteSupplier
<1>4. CASE \/ r.op = "create part" /\ CreatePart(r)
           \/ r.op = "vary part" /\ VaryPart(r)
           \/ r.op = "retire part" /\ RetirePart(r)
           \/ r.op = "delete part" /\ DeleteUnused(r)
  BY <1>1, <1>4, PartStep
<1>5. CASE r.op = "erase part" /\ ErasePart(r)
  BY <1>1, <1>5, EraseStep DEF ErasePart
<1>6. CASE \/ r.op \in {"place part", "create unit"} /\ NewUnit(r)
           \/ r.op = "relink unit" /\ RelinkUnit(r)
  BY <1>1, <1>6, PutUnitStep DEF NewUnit, RelinkUnit, RequestOK
<1>7. CASE r.op = "delete unit" /\ DeleteUnit(r)
  BY <1>1, <1>7, DeleteUnitStep
<1>8. CASE \/ r.op = "add line" /\ AddLine(r)
           \/ r.op = "update line" /\ UpdateLine(r)
  BY <1>1, <1>8, PutLineStep DEF AddLine, UpdateLine, RequestOK
<1>9. CASE r.op = "remove line" /\ RemoveLine(r)
  BY <1>1, <1>9, RemoveLineStep
<1>10. CASE r.op = "CADPORT deletes part" /\ DeleteUnasked(r)
  BY <1>1, <1>10, DeleteUnaskedStep
<1> QED BY <1>1, <1>2, <1>3, <1>4, <1>5, <1>6, <1>7, <1>8, <1>9, <1>10 DEF Writes

LEMMA ProjectStep ==
  ASSUME ProjectAssumption, ProjectInvariant, [ProjectNext]_projectVars
  PROVE  ProjectInvariant'
<1>1. ASSUME NEW q \in UseCalls, EndSupplier(q) \/ Fail(q) PROVE ProjectInvariant'
  <2> PICK next : next = [op |-> "done"]
    OBVIOUS
  <2>1. Ended(q, next) /\ UNCHANGED <<part, unit, line, late>>
    BY <1>1 DEF EndSupplier, Fail, Ended
  <2> QED BY <2>1, QuietStep
<1>2. CASE UNCHANGED projectVars
  BY <1>2 DEF projectVars, ProjectInvariant, PartsOK, TableOK, RequestOK, Marked, Leaving, Naming
<1> QED BY <1>1, <1>2, BeginStep, CommitUseStep DEF ProjectNext

\* A part that was deleted softly was used nowhere when its deletion began, and
\* what names it now took it since (delete_catalog_part, catalog.py), or had it
\* when CADPORT deleted it unasked (sync_delete_from_cadport), for any number of
\* parts, units, lines, joints and requests.
THEOREM DeletedPartsUnused ==
  ASSUME ProjectAssumption PROVE ProjectSpec => []DeletedPartsWereUnused
<1> QED BY MarkedParts, ProjectStart, ProjectStep, PTL DEF ProjectSpec

---------------------------------------------------------------------------
(* CADPORT's copies                                                        *)

\* A request between its two halves: what it read, wrote and is to tell is sound.
Sent == {"mass", "name"}
Columns == {"mass", "inertia", "sha"}
Writing(e) == e.op = "commit"
EditOK(q) ==
  LET e == edit[q] IN
  /\ Writing(e) =>
       /\ e.from \in {"astra", "cadport"} /\ e.part \in Synced /\ RowOK(e.saw) /\ RowOK(e.want) /\ "exists" \notin e.news
       /\ e.saw.deleted = e.want.deleted
       /\ \A f \in Sent \ e.news : e.saw[f] = e.want[f] \/ <<e.part, f>> \in excused
       /\ \/ "mass" \in e.news \/ <<e.part, "row">> \in excused
          \/ \A c \in Columns : e.saw[c] = e.want[c]
  /\ e.op = "send" => e.part \in Synced /\ ("exists" \in e.news \/ RowOK(e.row))
  /\ e.op = "arrive" =>
       /\ e.part \in Synced
       /\ \/ e.field = "exists"
          \/ e.field = "mass" /\ e.value \in Masses
          \/ e.field = "name" /\ e.value \in PartNames

CadportTypes ==
  /\ DOMAIN item = Synced /\ DOMAIN blob = Synced /\ \A p \in Synced : RowOK(item[p])
  /\ remote \in [Synced -> Copies \cup {Nil}]
  /\ DOMAIN edit = Editors /\ \A q \in Editors : EditOK(q)

\* What is derived from the mass of p, by the only request that is writing it or by none.
Weighing(e, p) == Writing(e) /\ e.part = p /\ "mass" \in e.news
DerivedOK(p) ==
  \/ <<p, "row">> \in excused
  \/ /\ (\A q \in Editors : ~Weighing(edit[q], p)) => Derived(p, item[p], blob[p])
     /\ \A q \in Editors :
          Weighing(edit[q], p) =>
            /\ \A c \in Columns : edit[q].saw[c] = item[p][c]
            /\ \/ Derived(p, edit[q].want, blob[p])
               \/ \E r \in Editors \ {q} : Weighing(edit[r], p)

\* The request that carries field f of p from one side to the other.
Renewing(e, p, f) == Writing(e) /\ e.part = p /\ f \in e.news
Carries(e, p, f) ==
  \/ Renewing(e, p, f) /\ e.from = "cadport"
  \/ e.op = "send" /\ e.part = p /\ f \in e.news
  \/ e.op = "arrive" /\ e.part = p /\ e.field = f
\* What it carries is what that side has.
Current(q, p, f) ==
  LET e == edit[q] IN
  /\ Renewing(e, p, f) /\ e.from = "cadport" => e.want[f] = remote[p][f]
  /\ e.op = "send" => e.row[f] = item[p][f]
  /\ e.op = "arrive" => e.value = remote[p][f]
FieldOK(p, f) ==
  \/ <<p, f>> \in excused
  \/ /\ \A q \in Editors : Renewing(edit[q], p, f) => edit[q].saw[f] = item[p][f]
     /\ \A q, r \in Editors : Carries(edit[q], p, f) /\ Carries(edit[r], p, f) => q = r
     /\ \/ item[p].deleted \/ remote[p] = Nil
        \/ /\ \A q \in Editors : Carries(edit[q], p, f) => Current(q, p, f)
           /\ item[p][f] = remote[p][f] \/ \E q \in Editors : Carries(edit[q], p, f)

\* A deletion is told as long as it is not lost.
Tells(e, p) == e.op = "send" /\ e.part = p /\ "exists" \in e.news
Told(e, p) == e.op = "arrive" /\ e.part = p /\ e.field = "exists"
ExistsOK(p) ==
  /\ \A q \in Editors : /\ Tells(edit[q], p) => item[p].deleted
                        /\ Told(edit[q], p) => remote[p] = Nil
  /\ \/ <<p, "exists">> \in excused
     \/ item[p].deleted <=> remote[p] = Nil
     \/ item[p].deleted /\ \E q \in Editors : Tells(edit[q], p)
     \/ remote[p] = Nil /\ \E q \in Editors : Told(edit[q], p)

CadportInvariant ==
  /\ CadportTypes
  /\ \A p \in Synced : DerivedOK(p) /\ ExistsOK(p) /\ \A f \in Sent : FieldOK(p, f)

\* A request as the invariant sees it: which assemblies overtook it does not matter.
Like(d, e) ==
  /\ d.op = e.op
  /\ IF Writing(e) THEN /\ d.part = e.part /\ d.news = e.news /\ d.from = e.from
                        /\ d.saw = e.saw /\ d.want = e.want
     ELSE d = e
\* All of them but q stay.
Others(q) == DOMAIN edit' = Editors /\ \A r \in Editors \ {q} : Like(edit'[r], edit[r])

LEMMA Changing ==
  ASSUME CadportTypes, NEW q \in Editors, NEW e, Becomes(q, e)
  PROVE  Others(q) /\ edit'[q] = e
BY DEF Becomes, Others, Like, CadportTypes

LEMMA Overtaking ==
  ASSUME CadportTypes, NEW q \in Editors, NEW e, NEW As,
         edit' = [Overtake(As) EXCEPT ![q] = e]
  PROVE  Others(q) /\ edit'[q] = e
<1>1. \A r \in Editors : Like(Overtake(As)[r], edit[r])
  <2> TAKE r \in Editors
  <2>1. CASE Writing(edit[r])
    <3> PICK d : d = edit[r]
      OBVIOUS
    <3> PICK n : n = [d EXCEPT !.overtaken = @ \cup As]
      OBVIOUS
    <3>1. Overtake(As)[r] = n
      BY <2>1 DEF Overtake, Writing
    <3>2. n.op = d.op /\ n.part = d.part /\ n.news = d.news /\ n.from = d.from
          /\ n.saw = d.saw /\ n.want = d.want
      OBVIOUS
    <3> QED BY <2>1, <3>1, <3>2 DEF Like, Writing
  <2>2. CASE ~Writing(edit[r])
    BY <2>2 DEF Overtake, Like, Writing
  <2> QED BY <2>1, <2>2
<1>2. DOMAIN Overtake(As) = Editors
  BY DEF Overtake
<1> QED BY <1>1, <1>2 DEF Others

LEMMA TypesKept ==
  ASSUME CadportTypes, excused \subseteq excused', NEW q \in Editors, Others(q),
         EditOK(q)',
         DOMAIN item' = Synced, \A p \in Synced : RowOK(item'[p]), DOMAIN blob' = Synced,
         remote' \in [Synced -> Copies \cup {Nil}]
  PROVE  CadportTypes'
<1>1. ASSUME NEW r \in Editors \ {q} PROVE EditOK(r)'
  <2>1. Like(edit'[r], edit[r]) /\ EditOK(r)
    BY DEF Others, CadportTypes
  <2>2. CASE Writing(edit[r])
    BY <2>1, <2>2 DEF Like, EditOK, Writing
  <2>3. CASE ~Writing(edit[r])
    BY <2>1, <2>3 DEF Like, EditOK, Writing
  <2> QED BY <2>2, <2>3
<1>2. \A r \in Editors : EditOK(r)'
  BY <1>1
<1> QED BY <1>2 DEF CadportTypes, Others, EditOK

\* A request that carries nothing of p before and after leaves what it does not write.
LEMMA FieldStays ==
  ASSUME CadportTypes, excused \subseteq excused', NEW q \in Editors, Others(q),
         NEW p \in Synced, NEW f \in Sent, FieldOK(p, f),
         item'[p][f] = item[p][f], item[p].deleted => item'[p].deleted,
         remote'[p] = Nil \/ (remote[p] # Nil /\ remote'[p][f] = remote[p][f]),
         ~Carries(edit[q], p, f), ~Carries(edit'[q], p, f),
         Renewing(edit'[q], p, f) => edit'[q].saw[f] = item'[p][f]
  PROVE  FieldOK(p, f)'
<1>1. CASE <<p, f>> \in excused
  BY <1>1 DEF FieldOK
<1>2. CASE <<p, f>> \notin excused
  <2>1. \A r \in Editors \ {q} :
          /\ Renewing(edit'[r], p, f) <=> Renewing(edit[r], p, f)
          /\ Carries(edit'[r], p, f) <=> Carries(edit[r], p, f)
          /\ Renewing(edit[r], p, f) => edit'[r].saw = edit[r].saw
    BY DEF Others, Like, Renewing, Carries, Writing
  <2>2. \A r \in Editors : Renewing(edit'[r], p, f) => edit'[r].saw[f] = item'[p][f]
    BY <1>2, <2>1 DEF FieldOK
  <2>3. \A r, s \in Editors : Carries(edit'[r], p, f) /\ Carries(edit'[s], p, f) => r = s
    BY <1>2, <2>1 DEF FieldOK
  <2>4. ASSUME ~item'[p].deleted, remote'[p] # Nil
        PROVE  /\ \A r \in Editors : Carries(edit'[r], p, f) => Current(r, p, f)'
               /\ item'[p][f] = remote'[p][f] \/ \E r \in Editors : Carries(edit'[r], p, f)
    <3>1. /\ \A r \in Editors : Carries(edit[r], p, f) => Current(r, p, f)
          /\ item[p][f] = remote[p][f] \/ \E r \in Editors : Carries(edit[r], p, f)
      BY <1>2, <2>4 DEF FieldOK
    <3>2. ASSUME NEW r \in Editors \ {q}, Carries(edit'[r], p, f) PROVE Current(r, p, f)'
      <4>1. Current(r, p, f) /\ Like(edit'[r], edit[r])
        BY <2>1, <3>1, <3>2 DEF Others
      <4> QED BY <2>4, <4>1 DEF Current, Like, Renewing, Writing
    <3> QED BY <2>1, <2>4, <3>1, <3>2
  <2> QED BY <2>2, <2>3, <2>4 DEF FieldOK, Renewing, Carries, Writing, Current
<1> QED BY <1>1, <1>2

LEMMA DerivedStays ==
  ASSUME CadportTypes, excused \subseteq excused', NEW q \in Editors, Others(q),
         NEW p \in Synced, DerivedOK(p),
         \A c \in Columns : item'[p][c] = item[p][c],
         blob'[p] = blob[p],
         ~Weighing(edit[q], p), ~Weighing(edit'[q], p)
  PROVE  DerivedOK(p)'
<1>1. CASE <<p, "row">> \in excused
  BY <1>1 DEF DerivedOK
<1>2. CASE <<p, "row">> \notin excused
  <2>1. \A r \in Editors \ {q} :
          /\ Weighing(edit'[r], p) <=> Weighing(edit[r], p)
          /\ Weighing(edit[r], p) => edit'[r].saw = edit[r].saw /\ edit'[r].want = edit[r].want
    BY DEF Others, Like, Weighing, Writing
  <2>2. Derived(p, item[p], blob[p]) => Derived(p, item[p], blob[p])'
    BY DEF Derived, YamlFile, Columns
  <2>3. (\A r \in Editors : ~Weighing(edit'[r], p)) => Derived(p, item[p], blob[p])'
    BY <1>2, <2>1, <2>2 DEF DerivedOK
  <2>4. ASSUME NEW r \in Editors, Weighing(edit'[r], p)
        PROVE  /\ \A c \in Columns : edit'[r].saw[c] = item'[p][c]
               /\ \/ Derived(p, edit[r].want, blob[p])'
                  \/ \E s \in Editors \ {r} : Weighing(edit'[s], p)
    <3>1. r # q /\ Weighing(edit[r], p) /\ edit'[r].saw = edit[r].saw /\ edit'[r].want = edit[r].want
      BY <2>1, <2>4
    <3>2. Derived(p, edit[r].want, blob[p]) => Derived(p, edit[r].want, blob[p])'
      BY <3>1 DEF Derived
    <3> QED BY <1>2, <2>1, <3>1, <3>2 DEF DerivedOK
  <2> QED BY <2>3, <2>4 DEF DerivedOK, Weighing, Writing, Derived, YamlFile
<1> QED BY <1>1, <1>2

LEMMA ExistsStays ==
  ASSUME CadportTypes, excused \subseteq excused', NEW q \in Editors, Others(q),
         NEW p \in Synced, ExistsOK(p),
         item'[p].deleted = item[p].deleted, remote'[p] = Nil <=> remote[p] = Nil,
         ~Tells(edit[q], p), ~Tells(edit'[q], p), ~Told(edit[q], p), ~Told(edit'[q], p)
  PROVE  ExistsOK(p)'
<1>1. \A r \in Editors : /\ Tells(edit'[r], p) <=> Tells(edit[r], p)
                         /\ Told(edit'[r], p) <=> Told(edit[r], p)
  BY DEF Others, Like, Tells, Told, Writing
<1> QED BY <1>1 DEF ExistsOK, Tells, Told

LEMMA RowWeighed ==
  ASSUME NEW p \in Synced, RowOK(item[p]), NEW m \in Masses \cup {Nil},
         NEW w, w = Reweighed(p, m) \/ w = Weighed(item[p], m)
  PROVE  /\ RowOK(w) /\ w.name = item[p].name /\ w.deleted = item[p].deleted /\ w.mass = m
         /\ w.inertia = Scaled(item[p].inertia, item[p].mass, m)
         /\ w = Reweighed(p, m) => w.sha = Rewritten(p, m)
         /\ w = Weighed(item[p], m) => w.sha = item[p].sha
<1> PICK row : row = item[p]
  OBVIOUS
<1> PICK s : s = Rewritten(p, m)
  OBVIOUS
<1> PICK v : v = Weighed(row, m)
  OBVIOUS
<1>1. /\ DOMAIN v = DOMAIN row /\ v.mass = m /\ v.inertia = Scaled(row.inertia, row.mass, m)
      /\ v.name = row.name /\ v.deleted = row.deleted /\ v.erased = row.erased /\ v.sha = row.sha
  BY DEF Weighed, RowOK
<1> PICK u : u = [v EXCEPT !.sha = s]
  OBVIOUS
<1>2. /\ DOMAIN u = DOMAIN v /\ u.mass = v.mass /\ u.inertia = v.inertia /\ u.sha = s
      /\ u.name = v.name /\ u.deleted = v.deleted /\ u.erased = v.erased
  BY <1>1 DEF RowOK
<1>3. Reweighed(p, m) = u /\ Weighed(item[p], m) = v
  BY DEF Reweighed
<1>4. RowOK(u) /\ RowOK(v)
  BY <1>1, <1>2 DEF RowOK
<1>5. CASE w = u
  BY <1>1, <1>2, <1>3, <1>4, <1>5
<1>6. CASE w = v
  BY <1>1, <1>2, <1>3, <1>4, <1>6
<1> QED BY <1>3, <1>5, <1>6

LEMMA Rescaled ==
  ASSUME NEW p, NEW row, NEW file, Derived(p, row, file), excused \subseteq excused',
         NEW m, NEW w, NEW new, w.mass = m, w.inertia = Scaled(row.inertia, row.mass, m),
         \/ /\ new = [mass |-> m, inertia |-> Scaled(file.inertia, file.mass, m)]
            /\ w.sha = new
         \/ new \in {file, Nil} /\ w.sha = row.sha /\ <<p, "file">> \in excused'
  PROVE  Derived(p, w, new)'
<1>1. w.inertia \in {Nil, w.mass}
  BY DEF Derived, Scaled
<1>2. CASE new \in {file, Nil} /\ w.sha = row.sha /\ <<p, "file">> \in excused'
  BY <1>1, <1>2 DEF Derived
<1>3. CASE new = [mass |-> m, inertia |-> Scaled(file.inertia, file.mass, m)] /\ w.sha = new
  <2>1. <<p, "file">> \in excused \/ (file.inertia = row.inertia /\ file.mass = row.mass)
    BY DEF Derived, YamlFile
  <2> QED BY <1>1, <1>3, <2>1 DEF Derived, YamlFile
<1> QED BY <1>2, <1>3

\* The file goes with the row, or cannot.
Refreshed(p, m, want) ==
  \/ want.sha = Rewritten(p, m) /\ blob' = [blob EXCEPT ![p] = Rewritten(p, m)]
  \/ /\ want.sha = item[p].sha /\ <<p, "file">> \in excused'
     /\ \E file \in {blob[p], Nil} : blob' = [blob EXCEPT ![p] = file]

LEMMA Weighs ==
  ASSUME CadportTypes, NEW q \in Editors, NEW from, NEW p \in Synced,
         NEW m \in Masses \cup {Nil}, Weigh(q, from, p, m)
  PROVE  \E want, totals :
           /\ totals = Rolled(p, want)
           /\ Becomes(q, Editing(from, p, want, totals, {"mass"}))
           /\ RowOK(want) /\ want.name = item[p].name /\ want.deleted = item[p].deleted
           /\ want.mass = m /\ want.inertia = Scaled(item[p].inertia, item[p].mass, m)
           /\ Refreshed(p, m, want) /\ excused \subseteq excused'
<1>0. RowOK(item[p])
  BY DEF CadportTypes
<1>1. CASE blob' = [blob EXCEPT ![p] = Rewritten(p, m)] /\ UNCHANGED excused
           /\ Becomes(q, Editing(from, p, Reweighed(p, m), Rolled(p, Reweighed(p, m)), {"mass"}))
  <2> PICK want : want = Reweighed(p, m)
    OBVIOUS
  <2>1. /\ RowOK(want) /\ want.name = item[p].name /\ want.deleted = item[p].deleted
        /\ want.mass = m /\ want.inertia = Scaled(item[p].inertia, item[p].mass, m)
        /\ want.sha = Rewritten(p, m)
    BY <1>0, RowWeighed
  <2> QED BY <1>1, <2>1 DEF Refreshed
<1>2. CASE /\ \E file \in {blob[p], Nil} : blob' = [blob EXCEPT ![p] = file]
           /\ Becomes(q, Editing(from, p, Weighed(item[p], m), Rolled(p, Weighed(item[p], m)), {"mass"}))
           /\ excused' = excused \cup {<<p, "file">>}
  <2> PICK want : want = Weighed(item[p], m)
    OBVIOUS
  <2>1. /\ RowOK(want) /\ want.name = item[p].name /\ want.deleted = item[p].deleted
        /\ want.mass = m /\ want.inertia = Scaled(item[p].inertia, item[p].mass, m)
        /\ want.sha = item[p].sha
    BY <1>0, RowWeighed
  <2>2. Refreshed(p, m, want) /\ excused \subseteq excused'
    BY <1>2, <2>1 DEF Refreshed
  <2> QED BY <1>2, <2>1, <2>2
<1> QED BY <1>1, <1>2 DEF Weigh

LEMMA Begun ==
  ASSUME NEW from, NEW p, NEW want, NEW totals, NEW news,
         NEW e, e = Editing(from, p, want, totals, news)
  PROVE  /\ e.op = "commit" /\ e.from = from /\ e.part = p /\ e.saw = item[p]
         /\ e.want = want /\ e.news = news
BY DEF Editing

\* A request sets out to write the mass of p and has written the file.
LEMMA WeighingBegins ==
  ASSUME CadportInvariant, excused \subseteq excused', NEW q \in Editors, Others(q),
         NEW p \in Synced, NEW m \in Masses \cup {Nil}, ~Writing(edit[q]),
         NEW want, want.mass = m, want.inertia = Scaled(item[p].inertia, item[p].mass, m),
         Refreshed(p, m, want),
         Weighing(edit'[q], p), edit'[q].saw = item[p], edit'[q].want = want, UNCHANGED item
  PROVE  \A x \in Synced : DerivedOK(x)'
<1> TAKE x \in Synced
<1>1. CASE x # p
  <2>1. ~Weighing(edit[q], x) /\ ~Weighing(edit'[q], x) /\ blob'[x] = blob[x] /\ DerivedOK(x)
    BY <1>1 DEF Weighing, CadportInvariant, CadportTypes, Refreshed
  <2> QED BY <2>1, DerivedStays DEF CadportInvariant
<1>2. CASE x = p
  <2>1. CASE <<p, "row">> \in excused
    BY <1>2, <2>1 DEF DerivedOK
  <2>2. CASE <<p, "row">> \notin excused
    <3>1. \A r \in Editors \ {q} :
            /\ Weighing(edit'[r], p) <=> Weighing(edit[r], p)
            /\ Weighing(edit[r], p) => edit'[r].saw = edit[r].saw
      BY DEF Others, Like, Weighing, Writing
    <3>2. \A r \in Editors : Weighing(edit'[r], p) =>
            \A c \in Columns : edit'[r].saw[c] = item'[p][c]
      BY <2>2, <3>1 DEF DerivedOK, CadportInvariant, Columns
    <3>3. CASE \E r \in Editors \ {q} : Weighing(edit[r], p)
      BY <3>1, <3>2, <3>3, <1>2 DEF DerivedOK, Weighing, Writing, Columns
    <3>4. CASE ~\E r \in Editors \ {q} : Weighing(edit[r], p)
      <4>1. Derived(p, item[p], blob[p])
        BY <2>2, <3>4 DEF DerivedOK, CadportInvariant, Weighing
      <4> PICK new : new = blob'[p]
        OBVIOUS
      <4>2. \/ /\ new = [mass |-> m, inertia |-> Scaled(blob[p].inertia, blob[p].mass, m)]
               /\ want.sha = new
            \/ new \in {blob[p], Nil} /\ want.sha = item[p].sha /\ <<p, "file">> \in excused'
        BY DEF Refreshed, Rewritten, CadportInvariant, CadportTypes
      <4>3. Derived(p, want, new)'
        BY <4>1, <4>2, Rescaled
      <4>4. Derived(p, edit[q].want, blob[p])'
        BY <4>3 DEF Derived
      <4>5. \A r \in Editors : Weighing(edit'[r], p) => r = q
        BY <3>1, <3>4
      <4> QED BY <3>2, <4>4, <4>5, <1>2 DEF DerivedOK
    <3> QED BY <3>3, <3>4
  <2> QED BY <2>1, <2>2
<1> QED BY <1>1, <1>2

\* A request of ASTRA sets out to write a row.
LEMMA EditBegins ==
  ASSUME CadportInvariant, excused \subseteq excused', NEW q \in Editors, edit[q].op = "idle",
         NEW p \in Synced, NEW want, NEW totals, NEW news,
         Becomes(q, Editing("astra", p, want, totals, news)),
         RowOK(want), want.deleted = item[p].deleted, "exists" \notin news,
         \A f \in Sent \ news : want[f] = item[p][f] \/ <<p, f>> \in excused',
         \/ "mass" \in news \/ <<p, "row">> \in excused'
         \/ \A c \in Columns : want[c] = item[p][c],
         DOMAIN blob' = Synced,
         \/ "mass" \notin news /\ UNCHANGED blob
         \/ \A x \in Synced : DerivedOK(x)',
         UNCHANGED <<item, remote>>
  PROVE  CadportInvariant'
<1> PICK e : e = Editing("astra", p, want, totals, news)
  OBVIOUS
<1>0. /\ e.op = "commit" /\ e.from = "astra" /\ e.part = p /\ e.saw = item[p]
      /\ e.want = want /\ e.news = news
  BY Begun
<1>1. /\ Others(q) /\ edit'[q] = e /\ CadportTypes
      /\ e.op = "commit" /\ e.from = "astra" /\ e.part = p /\ e.saw = item[p]
      /\ e.want = want /\ e.news = news
  BY <1>0, Changing DEF CadportInvariant
<1>2. CadportTypes'
  <2>1. EditOK(q)'
    BY <1>1 DEF EditOK, Writing, CadportTypes
  <2> QED BY <1>1, <2>1, TypesKept DEF CadportTypes
<1>3. ASSUME NEW x \in Synced PROVE DerivedOK(x)'
  <2>1. CASE "mass" \notin news /\ UNCHANGED blob
    <3>1. ~Weighing(edit[q], x) /\ ~Weighing(edit'[q], x) /\ DerivedOK(x)
      BY <1>1, <2>1 DEF Weighing, Writing, CadportInvariant
    <3> QED BY <1>1, <2>1, <3>1, DerivedStays
  <2> QED BY <2>1
<1>4. ASSUME NEW x \in Synced PROVE ExistsOK(x)'
  <2>1. /\ ~Tells(edit[q], x) /\ ~Tells(edit'[q], x) /\ ~Told(edit[q], x) /\ ~Told(edit'[q], x)
        /\ ExistsOK(x)
    BY <1>1 DEF Tells, Told, CadportInvariant
  <2> QED BY <1>1, <2>1, ExistsStays
<1>5. ASSUME NEW x \in Synced, NEW f \in Sent PROVE FieldOK(x, f)'
  <2>1. ~Carries(edit[q], x, f) /\ ~Carries(edit'[q], x, f) /\ FieldOK(x, f)
    BY <1>1 DEF Carries, Renewing, Writing, CadportInvariant
  <2>2. Renewing(edit'[q], x, f) => edit'[q].saw[f] = item'[x][f]
    BY <1>1 DEF Renewing
  <2> QED BY <1>1, <2>1, <2>2, FieldStays
<1> QED BY <1>2, <1>3, <1>4, <1>5 DEF CadportInvariant

LEMMA PatchMassStep ==
  ASSUME CadportInvariant, NEW q \in Editors, NEW p \in Synced, NEW m \in Masses \cup {Nil},
         PatchMass(q, p, m)
  PROVE  CadportInvariant'
<1>w. CadportTypes /\ Weigh(q, "astra", p, m)
  BY DEF PatchMass, CadportInvariant
<1>1. PICK want, totals :
        /\ totals = Rolled(p, want)
        /\ Becomes(q, Editing("astra", p, want, totals, {"mass"}))
        /\ RowOK(want) /\ want.name = item[p].name /\ want.deleted = item[p].deleted
        /\ want.mass = m /\ want.inertia = Scaled(item[p].inertia, item[p].mass, m)
        /\ Refreshed(p, m, want) /\ excused \subseteq excused'
  BY <1>w, Weighs
<1>2. edit[q].op = "idle" /\ UNCHANGED <<item, remote>>
  BY DEF PatchMass
<1> PICK e : e = Editing("astra", p, want, totals, {"mass"})
  OBVIOUS
<1>3. /\ Others(q) /\ edit'[q] = e
      /\ e.op = "commit" /\ e.part = p /\ e.saw = item[p] /\ e.want = want /\ e.news = {"mass"}
  BY <1>1, Changing, Begun DEF CadportInvariant
<1>4. Weighing(edit'[q], p) /\ ~Writing(edit[q])
  BY <1>2, <1>3 DEF Weighing, Writing
<1>5. \A x \in Synced : DerivedOK(x)'
  BY <1>1, <1>2, <1>3, <1>4, WeighingBegins
<1>6. DOMAIN blob' = Synced
  BY <1>1 DEF CadportInvariant, CadportTypes, Refreshed
<1>7. /\ \A f \in Sent \ {"mass"} : want[f] = item[p][f] \/ <<p, f>> \in excused'
      /\ "exists" \notin {"mass"} /\ "mass" \in {"mass"} /\ excused \subseteq excused'
  BY <1>1, <1>2 DEF Sent
<1> QED BY <1>1, <1>2, <1>5, <1>6, <1>7, EditBegins

LEMMA PatchFieldStep ==
  ASSUME CadportInvariant, NEW q \in Editors, NEW p \in Synced,
         NEW f \in {"mass", "name", "material"}, NEW v,
         f = "mass" => v \in Masses, f = "name" => v \in PartNames,
         PatchPart(q, p, f, v) \/ (f = "name" /\ PatchName(q, p, v))
  PROVE  CadportInvariant'
<1>w. PICK want : want = [item[p] EXCEPT ![f] = v]
  OBVIOUS
<1>1. /\ RowOK(want) /\ want.deleted = item[p].deleted
      /\ \A c \in (Columns \cup Sent) \ {f} : want[c] = item[p][c]
  <2>1. RowOK(item[p])
    BY DEF CadportInvariant, CadportTypes
  <2>2. /\ RowOK(want) /\ want.deleted = item[p].deleted /\ want[f] = v
        /\ \A c \in (Columns \cup Sent) \ {f} : want[c] = item[p][c]
    <3>r. PICK row : row = item[p]
      OBVIOUS
    <3>1. RowOK(row) /\ want = [row EXCEPT ![f] = v]
      BY <1>w, <2>1, <3>r
    <3>2. /\ RowOK(want) /\ want.deleted = row.deleted /\ want[f] = v
          /\ \A c \in (Columns \cup Sent) \ {f} : want[c] = row[c]
      <4>1. /\ DOMAIN want = DOMAIN row /\ want[f] = v
            /\ \A c \in DOMAIN row \ {f} : want[c] = row[c]
        BY <3>1 DEF RowOK
      <4>2. RowOK(want) /\ want.deleted = row.deleted
        BY <3>1, <4>1 DEF RowOK
      <4>3. \A c \in (Columns \cup Sent) \ {f} : want[c] = row[c]
        BY <3>1, <4>1 DEF RowOK, Columns, Sent
      <4> QED BY <4>1, <4>2, <4>3
    <3> QED BY <3>2, <3>r
  <2> QED BY <2>2
<1>o. DOMAIN blob = Synced
  BY DEF CadportInvariant, CadportTypes
<1>2. PICK news :
        /\ edit[q].op = "idle" /\ Becomes(q, Editing("astra", p, want, NoTotals, news))
        /\ UNCHANGED <<item, blob, remote>> /\ excused \subseteq excused'
        /\ "mass" \notin news /\ "exists" \notin news
        /\ f \in news \/ (<<p, f>> \in excused' /\ <<p, "row">> \in excused')
  <2>1. CASE f = "name" /\ PatchName(q, p, v)
    <3>1. /\ edit[q].op = "idle" /\ Becomes(q, Editing("astra", p, want, NoTotals, {"name"}))
          /\ UNCHANGED <<item, blob, remote, excused>>
      BY <2>1, <1>w DEF PatchName
    <3> QED BY <2>1, <3>1
  <2>2. CASE PatchPart(q, p, f, v)
    <3> PICK news : news = IF f = "material" THEN {"material"} ELSE {}
      OBVIOUS
    <3>1. /\ edit[q].op = "idle" /\ Becomes(q, Editing("astra", p, want, NoTotals, news))
          /\ UNCHANGED <<item, blob, remote>>
          /\ excused \subseteq excused'
          /\ f # "material" => <<p, f>> \in excused' /\ <<p, "row">> \in excused'
      BY <2>2, <1>w DEF PatchPart
    <3> QED BY <3>1
  <2> QED BY <2>1, <2>2
<1>3. \A g \in Sent \ news : want[g] = item[p][g] \/ <<p, g>> \in excused'
  BY <1>1, <1>2
<1>4. <<p, "row">> \in excused' \/ \A c \in Columns : want[c] = item[p][c]
  <2>1. f \in Columns => f \notin news
    BY <1>2 DEF Columns
  <2> QED BY <1>1, <1>2, <2>1
<1>5. DOMAIN blob' = Synced
  BY <1>o, <1>2
<1> QED BY <1>1, <1>2, <1>3, <1>4, <1>5, EditBegins

\* A part that is gone on one side leaves nothing to agree on.
LEMMA FieldGone ==
  ASSUME CadportTypes, excused \subseteq excused', NEW q \in Editors, Others(q),
         NEW p \in Synced, NEW f \in Sent, FieldOK(p, f),
         item'[p][f] = item[p][f], item'[p].deleted \/ remote'[p] = Nil,
         ~Renewing(edit'[q], p, f), Carries(edit'[q], p, f) => Carries(edit[q], p, f)
  PROVE  FieldOK(p, f)'
<1>1. CASE <<p, f>> \in excused
  BY <1>1 DEF FieldOK
<1>2. CASE <<p, f>> \notin excused
  <2>1. \A r \in Editors \ {q} :
          /\ Renewing(edit'[r], p, f) <=> Renewing(edit[r], p, f)
          /\ Carries(edit'[r], p, f) <=> Carries(edit[r], p, f)
          /\ Renewing(edit[r], p, f) => edit'[r].saw = edit[r].saw
    BY DEF Others, Like, Renewing, Carries, Writing
  <2>2. \A r \in Editors : Renewing(edit'[r], p, f) => edit'[r].saw[f] = item'[p][f]
    BY <1>2, <2>1 DEF FieldOK
  <2>3. \A r, s \in Editors : Carries(edit'[r], p, f) /\ Carries(edit'[s], p, f) => r = s
    BY <1>2, <2>1 DEF FieldOK
  <2> QED BY <2>2, <2>3 DEF FieldOK, Renewing, Carries, Writing
<1> QED BY <1>1, <1>2

\* Who crosses nobody is the only one to change the field.
LEMMA Crossing ==
  ASSUME NEW q \in Editors, NEW p, NEW fields, NEW f \in fields,
         <<p, f>> \notin Crossed(q, p, fields), NEW r \in Editors \ {q}
  PROVE  ~Renewing(edit[r], p, f) /\ ~Carries(edit[r], p, f)
<1>1. <<p, f>> \notin Underway(r)
  BY DEF Crossed
<1>2. CASE edit[r].op \in {"commit", "send"}
  <2>1. Underway(r) = {<<edit[r].part, g>> : g \in edit[r].news}
    BY <1>2 DEF Underway
  <2> QED BY <1>1, <1>2, <2>1 DEF Renewing, Carries, Writing
<1>3. CASE edit[r].op = "arrive"
  <2>1. Underway(r) = {<<edit[r].part, edit[r].field>>}
    BY <1>3 DEF Underway
  <2> QED BY <1>1, <1>3, <2>1 DEF Renewing, Carries, Writing
<1> QED BY <1>2, <1>3 DEF Renewing, Carries, Writing

\* A request ends, by itself or lost, and changes nothing.
LEMMA EndStep ==
  ASSUME CadportInvariant, excused \subseteq excused', NEW q \in Editors, Others(q),
         edit'[q].op = "done", UNCHANGED <<item, blob, remote>>,
         \A p \in Synced :
           /\ Weighing(edit[q], p) => <<p, "row">> \in excused'
           /\ \A f \in Sent : Carries(edit[q], p, f) => <<p, f>> \in excused'
           /\ Tells(edit[q], p) \/ Told(edit[q], p) => <<p, "exists">> \in excused'
  PROVE  CadportInvariant'
<1>1. ~Writing(edit'[q]) /\ CadportTypes
  BY DEF Writing, CadportInvariant
<1>2. CadportTypes'
  <2>1. EditOK(q)'
    BY DEF EditOK, Writing
  <2> QED BY <1>1, <2>1, TypesKept DEF CadportTypes
<1>3. ASSUME NEW p \in Synced PROVE DerivedOK(p)'
  <2>1. CASE Weighing(edit[q], p)
    BY <2>1 DEF DerivedOK
  <2>2. CASE ~Weighing(edit[q], p)
    BY <1>1, <2>2, DerivedStays DEF Weighing, CadportInvariant
  <2> QED BY <2>1, <2>2
<1>4. ASSUME NEW p \in Synced, NEW f \in Sent PROVE FieldOK(p, f)'
  <2>1. ~Renewing(edit'[q], p, f) /\ ~Carries(edit'[q], p, f) /\ FieldOK(p, f)
    BY <1>1 DEF Renewing, Carries, CadportInvariant
  <2>2. CASE Carries(edit[q], p, f)
    BY <2>2 DEF FieldOK
  <2>3. CASE ~Carries(edit[q], p, f)
    BY <1>1, <2>1, <2>3, FieldStays
  <2> QED BY <2>2, <2>3
<1>5. ASSUME NEW p \in Synced PROVE ExistsOK(p)'
  <2>1. ~Tells(edit'[q], p) /\ ~Told(edit'[q], p) /\ ExistsOK(p)
    BY DEF Tells, Told, CadportInvariant
  <2>2. CASE Tells(edit[q], p) \/ Told(edit[q], p)
    <3>1. \A r \in Editors \ {q} : /\ Tells(edit'[r], p) <=> Tells(edit[r], p)
                                   /\ Told(edit'[r], p) <=> Told(edit[r], p)
      BY DEF Others, Like, Tells, Told, Writing
    <3> QED BY <2>1, <2>2, <3>1 DEF ExistsOK, Tells, Told
  <2>3. CASE ~Tells(edit[q], p) /\ ~Told(edit[q], p)
    BY <1>1, <2>1, <2>3, ExistsStays
  <2> QED BY <2>2, <2>3
<1> QED BY <1>2, <1>3, <1>4, <1>5 DEF CadportInvariant

LEMMA QuietSteps ==
  ASSUME CadportInvariant, NEW q \in Editors,
         \/ \E a \in Assemblies, comps \in Components : ImportAssembly(q, a, comps)
         \/ FailEdit(q) \/ Lose(q)
  PROVE  CadportInvariant'
<1>1. CadportTypes /\ EditOK(q)
  BY DEF CadportInvariant, CadportTypes
<1> PICK done : done = [op |-> "done"]
  OBVIOUS
<1>2. ASSUME NEW a \in Assemblies, NEW comps \in Components, ImportAssembly(q, a, comps)
      PROVE  CadportInvariant'
  <2>1. /\ edit[q].op = "idle" /\ UNCHANGED <<item, blob, remote, excused>>
        /\ edit' = [Overtake({a}) EXCEPT ![q] = done]
    BY <1>2 DEF ImportAssembly
  <2>2. Others(q) /\ edit'[q].op = "done"
    BY <1>1, <2>1, Overtaking
  <2> QED BY <2>1, <2>2, EndStep DEF Weighing, Writing, Carries, Renewing, Tells, Told
<1>3. CASE FailEdit(q)
  <2>1. /\ edit[q].op = "commit" /\ UNCHANGED <<item, blob, remote>> /\ Becomes(q, done)
        /\ excused' = excused
             \cup (IF "mass" \in edit[q].news THEN {<<edit[q].part, "row">>} ELSE {})
             \cup (IF edit[q].from = "cadport" THEN {<<edit[q].part, f>> : f \in edit[q].news} ELSE {})
    BY <1>3 DEF FailEdit, AfterFailure
  <2>2. Others(q) /\ edit'[q].op = "done"
    BY <1>1, <2>1, Changing
  <2>3. \A p \in Synced :
           /\ Weighing(edit[q], p) => <<p, "row">> \in excused'
           /\ \A f \in Sent : Carries(edit[q], p, f) => <<p, f>> \in excused'
           /\ ~Tells(edit[q], p) /\ ~Told(edit[q], p)
    BY <2>1 DEF Weighing, Carries, Renewing, Writing, Tells, Told
  <2> QED BY <2>1, <2>2, <2>3, EndStep
<1>4. CASE Lose(q)
  <2>1. /\ edit[q].op \in {"send", "arrive"} /\ UNCHANGED <<item, blob, remote>> /\ Becomes(q, done)
        /\ excused' = excused \cup
             (IF edit[q].op = "send" THEN {<<edit[q].part, f>> : f \in edit[q].news}
              ELSE {<<edit[q].part, edit[q].field>>})
    BY <1>4 DEF Lose
  <2>2. Others(q) /\ edit'[q].op = "done"
    BY <1>1, <2>1, Changing
  <2>3. \A p \in Synced :
           /\ ~Weighing(edit[q], p)
           /\ \A f \in Sent : Carries(edit[q], p, f) => <<p, f>> \in excused'
           /\ Tells(edit[q], p) \/ Told(edit[q], p) => <<p, "exists">> \in excused'
    BY <2>1 DEF Weighing, Carries, Renewing, Writing, Tells, Told
  <2> QED BY <2>1, <2>2, <2>3, EndStep
<1> QED BY <1>2, <1>3, <1>4

\* The row of p is deleted, one way or the other.
Vanishes(p) ==
  /\ DOMAIN item' = Synced /\ RowOK(item'[p]) /\ item'[p].deleted
  /\ \A c \in Columns \cup Sent : item'[p][c] = item[p][c]
  /\ \A x \in Synced \ {p} : item'[x] = item[x]

LEMMA RowGone ==
  ASSUME CadportTypes, NEW p \in Synced,
         \/ item' = [item EXCEPT ![p].deleted = TRUE]
         \/ item' = [item EXCEPT ![p].deleted = TRUE, ![p].erased = TRUE]
  PROVE  Vanishes(p)
<1> PICK row : row = item[p]
  OBVIOUS
<1>1. RowOK(row) /\ DOMAIN item = Synced
  BY DEF CadportTypes
<1> PICK new : new = item'[p]
  OBVIOUS
<1>2. /\ new = [row EXCEPT !.deleted = TRUE] \/ new = [row EXCEPT !.deleted = TRUE, !.erased = TRUE]
      /\ DOMAIN item' = Synced /\ \A x \in Synced \ {p} : item'[x] = item[x]
  BY <1>1
<1>3. /\ DOMAIN new = DOMAIN row /\ new.deleted = TRUE /\ new.erased \in BOOLEAN
      /\ \A c \in DOMAIN row \ {"deleted", "erased"} : new[c] = row[c]
  BY <1>1, <1>2 DEF RowOK
<1>4. RowOK(new) /\ \A c \in Columns \cup Sent : new[c] = row[c]
  BY <1>1, <1>3 DEF RowOK, Columns, Sent
<1> QED BY <1>2, <1>3, <1>4 DEF Vanishes

\* By a request that ends or is to tell it.
LEMMA RowDeleted ==
  ASSUME CadportInvariant, NEW q \in Editors, Others(q), EditOK(q)', NEW p \in Synced,
         Vanishes(p), excused \subseteq excused', UNCHANGED <<blob, remote>>,
         ~Writing(edit[q]), ~Writing(edit'[q]),
         edit'[q].op # "arrive", \A f \in Sent, x \in Synced : ~Carries(edit'[q], x, f),
         \A f \in Sent, x \in Synced \ {p} : ~Carries(edit[q], x, f),
         \A x \in Synced \ {p} : ~Tells(edit[q], x) /\ ~Told(edit[q], x) /\ ~Tells(edit'[q], x),
         ~Tells(edit[q], p),
         \/ Tells(edit'[q], p) \/ remote[p] = Nil \/ (item[p].deleted /\ ~Told(edit[q], p))
         \/ <<p, "exists">> \in excused'
  PROVE  CadportInvariant'
<1>1. /\ CadportTypes /\ DOMAIN item = Synced
      /\ \A x \in Synced : RowOK(item[x])
  BY DEF CadportInvariant, CadportTypes
<1>2. /\ DOMAIN item' = Synced /\ RowOK(item'[p]) /\ item'[p].deleted
      /\ \A c \in Columns \cup Sent : item'[p][c] = item[p][c]
      /\ \A x \in Synced \ {p} : item'[x] = item[x]
  BY DEF Vanishes
<1>3. CadportTypes'
  BY <1>1, <1>2, TypesKept DEF CadportTypes
<1>4. ASSUME NEW x \in Synced PROVE DerivedOK(x)'
  <2>1. ~Weighing(edit[q], x) /\ ~Weighing(edit'[q], x) /\ DerivedOK(x)
    BY DEF Weighing, CadportInvariant
  <2>2. blob'[x] = blob[x] /\ \A c \in Columns : item'[x][c] = item[x][c]
    BY <1>2
  <2> QED BY <1>1, <2>1, <2>2, DerivedStays
<1>5. ASSUME NEW x \in Synced, NEW f \in Sent PROVE FieldOK(x, f)'
  <2>1. /\ ~Renewing(edit'[q], x, f) /\ ~Carries(edit'[q], x, f) /\ FieldOK(x, f)
        /\ item'[x][f] = item[x][f]
    BY <1>2 DEF Renewing, CadportInvariant
  <2>2. CASE x = p
    BY <1>1, <1>2, <2>1, <2>2, FieldGone
  <2>3. CASE x # p
    <3>1. ~Carries(edit[q], x, f) /\ item'[x] = item[x] /\ remote'[x] = remote[x]
      BY <1>2, <2>3
    <3>2. item[x].deleted => item'[x].deleted
      BY <3>1
    <3> QED BY <1>1, <2>1, <3>1, <3>2, FieldStays
  <2> QED BY <2>2, <2>3
<1>6. ASSUME NEW x \in Synced PROVE ExistsOK(x)'
  <2>1. ~Told(edit'[q], x) /\ ExistsOK(x)
    BY DEF Told, CadportInvariant
  <2>2. CASE x # p
    <3>1. item'[x].deleted = item[x].deleted
      BY <1>2, <2>2
    <3> QED BY <1>1, <2>1, <2>2, <3>1, ExistsStays
  <2>3. CASE x = p
    <3>1. \A r \in Editors \ {q} : /\ Tells(edit'[r], p) <=> Tells(edit[r], p)
                                   /\ Told(edit'[r], p) <=> Told(edit[r], p)
      BY DEF Others, Like, Tells, Told, Writing
    <3>2. \A r \in Editors : /\ Tells(edit'[r], p) => item'[p].deleted
                             /\ Told(edit'[r], p) => remote'[p] = Nil
      BY <1>2, <2>1, <2>3, <3>1 DEF ExistsOK
    <3>3. CASE Tells(edit'[q], p) \/ remote[p] = Nil \/ <<p, "exists">> \in excused'
      BY <1>2, <2>3, <3>2, <3>3 DEF ExistsOK, Tells, Told
    <3>4. CASE item[p].deleted /\ ~Told(edit[q], p)
      BY <1>2, <2>1, <2>3, <3>1, <3>2, <3>4 DEF ExistsOK, Tells, Told
    <3> QED BY <3>3, <3>4
  <2> QED BY <2>2, <2>3
<1> QED BY <1>3, <1>4, <1>5, <1>6 DEF CadportInvariant

LEMMA DeleteSteps ==
  ASSUME CadportInvariant, NEW q \in Editors,
         (\E p \in Synced : DeleteCatalogPart(q, p) \/ EraseCatalogPart(q, p)) \/ SyncDelete(q)
  PROVE  CadportInvariant'
<1>1. CadportTypes /\ EditOK(q)
  BY DEF CadportInvariant, CadportTypes
<1>2. ASSUME NEW p \in Synced, DeleteCatalogPart(q, p) PROVE CadportInvariant'
  <2> PICK e : e = [op |-> "send", part |-> p, news |-> {"exists"}, row |-> Nil]
    OBVIOUS
  <2>1. e.op = "send" /\ e.part = p /\ e.news = {"exists"}
    OBVIOUS
  <2>2. /\ edit[q].op = "idle" /\ item' = [item EXCEPT ![p].deleted = TRUE]
        /\ UNCHANGED <<blob, remote, excused>>
        /\ edit' = [Overtake(Holding(p)) EXCEPT ![q] = e] /\ Vanishes(p)
    BY <1>1, <1>2, RowGone DEF DeleteCatalogPart
  <2>3. Others(q) /\ edit'[q] = e
    BY <1>1, <2>2, Overtaking
  <2>4. EditOK(q)'
    BY <2>1, <2>3 DEF EditOK, Writing
  <2>5. /\ ~Writing(edit[q]) /\ ~Writing(edit'[q]) /\ edit'[q].op # "arrive"
        /\ \A f \in Sent, x \in Synced : ~Carries(edit'[q], x, f) /\ ~Carries(edit[q], x, f)
        /\ \A x \in Synced : ~Tells(edit[q], x) /\ ~Told(edit[q], x)
        /\ \A x \in Synced \ {p} : ~Tells(edit'[q], x)
        /\ Tells(edit'[q], p)
    BY <2>1, <2>2, <2>3 DEF Writing, Carries, Renewing, Tells, Told, Sent
  <2> QED BY <2>2, <2>3, <2>4, <2>5, RowDeleted
<1>3. CASE SyncDelete(q)
  <2> PICK done : done = [op |-> "done"]
    OBVIOUS
  <2> PICK p : p = edit[q].part
    OBVIOUS
  <2>1. done.op = "done"
    OBVIOUS
  <2> PICK As : As = IF item[p].deleted THEN {} ELSE Holding(p)
    OBVIOUS
  <2>2. /\ edit[q].op = "arrive" /\ item' = [item EXCEPT ![p].deleted = TRUE]
        /\ edit[q].field = "exists" \/ item[p].deleted
        /\ UNCHANGED <<blob, remote, excused>>
        /\ edit' = [Overtake(As) EXCEPT ![q] = done]
    BY <1>3 DEF SyncDelete
  <2>3. Others(q) /\ edit'[q] = done /\ p \in Synced
    BY <1>1, <2>2, Overtaking DEF EditOK
  <2>g. Vanishes(p)
    BY <1>1, <2>2, <2>3, RowGone
  <2>4. EditOK(q)'
    BY <2>1, <2>3 DEF EditOK, Writing
  <2>5. /\ ~Writing(edit[q]) /\ ~Writing(edit'[q]) /\ edit'[q].op # "arrive"
        /\ \A f \in Sent, x \in Synced : ~Carries(edit'[q], x, f)
        /\ \A f \in Sent, x \in Synced \ {p} : ~Carries(edit[q], x, f)
        /\ \A x \in Synced : ~Tells(edit[q], x) /\ ~Tells(edit'[q], x)
        /\ \A x \in Synced \ {p} : ~Told(edit[q], x)
    BY <2>1, <2>2, <2>3 DEF Writing, Carries, Renewing, Tells, Told
  <2>6. remote[p] = Nil \/ (item[p].deleted /\ ~Told(edit[q], p))
    <3>1. Told(edit[q], p) => remote[p] = Nil
      BY <2>3 DEF CadportInvariant, ExistsOK
    <3> QED BY <2>2, <3>1 DEF Told
  <2> QED BY <2>2, <2>3, <2>4, <2>5, <2>6, <2>g, RowDeleted
<1>4. ASSUME NEW p \in Synced, EraseCatalogPart(q, p) PROVE CadportInvariant'
  <2> PICK done : done = [op |-> "done"]
    OBVIOUS
  <2> PICK As : As = IF item[p].deleted THEN {} ELSE Holding(p)
    OBVIOUS
  <2>1. done.op = "done"
    OBVIOUS
  <2>2. /\ edit[q].op = "idle" /\ Vanishes(p) /\ UNCHANGED <<blob, remote>>
        /\ excused' = excused \cup (IF item[p].deleted THEN {} ELSE {<<p, "exists">>})
        /\ edit' = [Overtake(As) EXCEPT ![q] = done]
    BY <1>1, <1>4, RowGone DEF EraseCatalogPart
  <2>3. Others(q) /\ edit'[q] = done
    BY <1>1, <2>2, Overtaking
  <2>4. EditOK(q)'
    BY <2>1, <2>3 DEF EditOK, Writing
  <2>5. /\ ~Writing(edit[q]) /\ ~Writing(edit'[q]) /\ edit'[q].op # "arrive"
        /\ \A f \in Sent, x \in Synced : ~Carries(edit'[q], x, f) /\ ~Carries(edit[q], x, f)
        /\ \A x \in Synced : ~Tells(edit[q], x) /\ ~Told(edit[q], x) /\ ~Tells(edit'[q], x)
        /\ excused \subseteq excused' /\ (item[p].deleted \/ <<p, "exists">> \in excused')
    BY <2>1, <2>2, <2>3 DEF Writing, Carries, Renewing, Tells, Told
  <2> QED BY <2>2, <2>3, <2>4, <2>5, RowDeleted
<1> QED BY <1>2, <1>3, <1>4

LEMMA CadDeleteStep ==
  ASSUME CadportInvariant, NEW q \in Editors, NEW p \in Synced, CadDelete(q, p)
  PROVE  CadportInvariant'
<1>1. CadportTypes /\ remote \in [Synced -> Copies \cup {Nil}]
  BY DEF CadportInvariant, CadportTypes
<1> PICK e : e = [op |-> "arrive", part |-> p, field |-> "exists", value |-> Nil]
  OBVIOUS
<1>2. e.op = "arrive" /\ e.part = p /\ e.field = "exists"
  OBVIOUS
<1>3. /\ edit[q].op = "idle" /\ remote' = [remote EXCEPT ![p] = Nil] /\ Becomes(q, e)
      /\ UNCHANGED <<item, blob, excused>>
  BY DEF CadDelete
<1>4. Others(q) /\ edit'[q] = e /\ excused \subseteq excused'
  BY <1>1, <1>3, Changing
<1>5. CadportTypes'
  <2>1. EditOK(q)'
    BY <1>2, <1>4 DEF EditOK, Writing
  <2>2. remote' \in [Synced -> Copies \cup {Nil}]
    BY <1>1, <1>3
  <2> QED BY <1>1, <1>3, <1>4, <2>1, <2>2, TypesKept DEF CadportTypes
<1>6. ASSUME NEW x \in Synced PROVE DerivedOK(x)'
  <2>1. ~Weighing(edit[q], x) /\ ~Weighing(edit'[q], x) /\ DerivedOK(x)
    BY <1>2, <1>3, <1>4 DEF Weighing, Writing, CadportInvariant
  <2> QED BY <1>1, <1>3, <1>4, <2>1, DerivedStays
<1>7. ASSUME NEW x \in Synced, NEW f \in Sent PROVE FieldOK(x, f)'
  <2>1. /\ ~Renewing(edit'[q], x, f) /\ ~Carries(edit'[q], x, f) /\ ~Carries(edit[q], x, f)
        /\ FieldOK(x, f)
    BY <1>2, <1>3, <1>4 DEF Renewing, Carries, Writing, Sent, CadportInvariant
  <2>2. remote'[x] = IF x = p THEN Nil ELSE remote[x]
    BY <1>1, <1>3
  <2>3. remote'[x] = Nil \/ (remote[x] # Nil /\ remote'[x][f] = remote[x][f])
    BY <2>2
  <2> QED BY <1>1, <1>3, <1>4, <2>1, <2>3, FieldStays
<1>8. ASSUME NEW x \in Synced PROVE ExistsOK(x)'
  <2>1. remote'[x] = IF x = p THEN Nil ELSE remote[x]
    BY <1>1, <1>3
  <2>2. ~Tells(edit[q], x) /\ ~Told(edit[q], x) /\ ~Tells(edit'[q], x) /\ ExistsOK(x)
    BY <1>2, <1>3, <1>4 DEF Tells, Told, CadportInvariant
  <2>3. CASE x = p
    <3>1. \A r \in Editors \ {q} : /\ Tells(edit'[r], p) <=> Tells(edit[r], p)
                                   /\ Told(edit'[r], p) <=> Told(edit[r], p)
      BY <1>4 DEF Others, Like, Tells, Told, Writing
    <3>2. Told(edit'[q], p)
      BY <1>2, <1>4 DEF Told
    <3> QED BY <1>3, <2>1, <2>2, <2>3, <3>1, <3>2 DEF ExistsOK, Tells, Told
  <2>4. CASE x # p
    <3>1. ~Told(edit'[q], x)
      BY <1>2, <1>4, <2>4 DEF Told
    <3> QED BY <1>1, <1>3, <1>4, <2>1, <2>2, <2>4, <3>1, ExistsStays
  <2> QED BY <2>3, <2>4
<1> QED BY <1>5, <1>6, <1>7, <1>8 DEF CadportInvariant

LEMMA CadEditStep ==
  ASSUME CadportAssumption, CadportInvariant, NEW q \in Editors, NEW p \in Synced,
         NEW f \in Sent, NEW v,
         f = "mass" => v \in Masses, f = "name" => v \in PartNames, CadEdit(q, p, f, v)
  PROVE  CadportInvariant'
<1>1. CadportTypes /\ remote \in [Synced -> Copies \cup {Nil}]
  BY DEF CadportInvariant, CadportTypes
<1> PICK e : e = [op |-> "arrive", part |-> p, field |-> f, value |-> v]
  OBVIOUS
<1>2. e.op = "arrive" /\ e.part = p /\ e.field = f /\ e.value = v
  OBVIOUS
<1>3. /\ edit[q].op = "idle" /\ remote[p] # Nil /\ Becomes(q, e)
      /\ remote' = [remote EXCEPT ![p][f] = v]
      /\ excused' = excused \cup Crossed(q, p, {f})
      /\ UNCHANGED <<item, blob>>
  BY DEF CadEdit
<1>4. Others(q) /\ edit'[q] = e /\ excused \subseteq excused'
  BY <1>1, <1>3, Changing
<1>5. /\ remote' \in [Synced -> Copies \cup {Nil}]
      /\ remote'[p] # Nil /\ remote'[p][f] = v
      /\ \A g \in Sent \ {f} : remote'[p][g] = remote[p][g]
      /\ \A x \in Synced \ {p} : remote'[x] = remote[x]
  <2>1. remote[p] \in Copies
    BY <1>1, <1>3
  <2> PICK c : c = [remote[p] EXCEPT ![f] = v]
    OBVIOUS
  <2>2. c \in Copies /\ c[f] = v /\ \A g \in Sent \ {f} : c[g] = remote[p][g]
    BY <2>1 DEF Copies, Sent
  <2>3. remote' = [remote EXCEPT ![p] = c]
    BY <1>3
  <2> QED BY <1>1, <2>2, <2>3 DEF CadportAssumption
<1>6. CadportTypes'
  <2>1. EditOK(q)'
    BY <1>2, <1>4 DEF EditOK, Writing, Sent
  <2> QED BY <1>1, <1>3, <1>4, <1>5, <2>1, TypesKept DEF CadportTypes
<1>7. ASSUME NEW x \in Synced PROVE DerivedOK(x)'
  <2>1. ~Weighing(edit[q], x) /\ ~Weighing(edit'[q], x) /\ DerivedOK(x)
    BY <1>2, <1>3, <1>4 DEF Weighing, Writing, CadportInvariant
  <2> QED BY <1>1, <1>3, <1>4, <2>1, DerivedStays
<1>8. ASSUME NEW x \in Synced PROVE ExistsOK(x)'
  <2>1. /\ ~Tells(edit[q], x) /\ ~Told(edit[q], x) /\ ~Tells(edit'[q], x) /\ ~Told(edit'[q], x)
        /\ ExistsOK(x)
    BY <1>2, <1>3, <1>4 DEF Tells, Told, Sent, CadportInvariant
  <2> QED BY <1>1, <1>3, <1>4, <1>5, <2>1, ExistsStays
<1>9. ASSUME NEW x \in Synced, NEW g \in Sent PROVE FieldOK(x, g)'
  <2>1. /\ ~Renewing(edit'[q], x, g) /\ ~Carries(edit[q], x, g) /\ FieldOK(x, g)
    BY <1>2, <1>3, <1>4 DEF Renewing, Carries, Writing, CadportInvariant
  <2>2. CASE x # p \/ g # f
    <3>1. ~Carries(edit'[q], x, g)
      BY <1>2, <1>4, <2>2 DEF Carries, Renewing, Writing
    <3>2. remote'[x] = Nil \/ (remote[x] # Nil /\ remote'[x][g] = remote[x][g])
      BY <1>3, <1>5, <2>2
    <3> QED BY <1>1, <1>3, <1>4, <2>1, <3>1, <3>2, FieldStays
  <2>3. CASE x = p /\ g = f /\ <<p, f>> \notin excused'
    <3>1. \A r \in Editors \ {q} : ~Renewing(edit[r], p, f) /\ ~Carries(edit[r], p, f)
      BY <1>3, <2>3, Crossing
    <3>2. \A r \in Editors \ {q} : ~Renewing(edit'[r], p, f) /\ ~Carries(edit'[r], p, f)
      BY <1>4, <3>1 DEF Others, Like, Renewing, Carries, Writing
    <3>3. Carries(edit'[q], p, f) /\ Current(q, p, f)'
      BY <1>2, <1>4, <1>5 DEF Carries, Current, Renewing, Writing
    <3> QED BY <2>1, <2>3, <3>2, <3>3 DEF FieldOK, Carries, Renewing, Writing
  <2>4. CASE x = p /\ g = f /\ <<p, f>> \in excused'
    BY <2>4 DEF FieldOK
  <2> QED BY <2>2, <2>3, <2>4
<1> QED BY <1>6, <1>7, <1>8, <1>9 DEF CadportInvariant

LEMMA SyncStep ==
  ASSUME CadportInvariant, NEW q \in Editors, SyncFromCadport(q)
  PROVE  CadportInvariant'
<1> PICK p : p = edit[q].part
  OBVIOUS
<1> PICK v : v = edit[q].value
  OBVIOUS
<1> PICK f : f = edit[q].field
  OBVIOUS
<1>1. /\ CadportTypes /\ p \in Synced /\ RowOK(item[p]) /\ DOMAIN blob = Synced
      /\ edit[q].op = "arrive" /\ f \in Sent
      /\ UNCHANGED <<item, remote>>
      /\ f = "mass" => v \in Masses
      /\ f = "name" => v \in PartNames
  BY DEF CadportInvariant, CadportTypes, EditOK, SyncFromCadport, Sent
<1>2. \E want, totals :
        /\ RowOK(want) /\ want.deleted = item[p].deleted /\ want[f] = v
        /\ \A g \in Sent \ {f} : want[g] = item[p][g]
        /\ f = "name" => UNCHANGED blob /\ \A c \in Columns : want[c] = item[p][c]
        /\ f = "mass" => /\ want.mass = v /\ Refreshed(p, v, want)
                         /\ want.inertia = Scaled(item[p].inertia, item[p].mass, v)
        /\ Becomes(q, Editing("cadport", p, want, totals, {f})) /\ excused \subseteq excused'
  <2>1. CASE f = "name"
    <3>1. PICK want : want = [item[p] EXCEPT !.name = v]
      OBVIOUS
    <3>2. /\ RowOK(want) /\ want.deleted = item[p].deleted /\ want.name = v
          /\ \A c \in (Columns \cup Sent) \ {"name"} : want[c] = item[p][c]
      <4>1. v \in PartNames
        BY <1>1, <2>1
      <4> PICK row : row = item[p]
        OBVIOUS
      <4>2. RowOK(row) /\ want = [row EXCEPT !["name"] = v]
        BY <1>1, <3>1
      <4>3. DOMAIN want = DOMAIN row /\ want.name = v /\ \A c \in DOMAIN row \ {"name"} : want[c] = row[c]
        BY <4>2 DEF RowOK
      <4>4. RowOK(want) /\ want.deleted = row.deleted
        BY <4>1, <4>2, <4>3 DEF RowOK
      <4>5. \A c \in (Columns \cup Sent) \ {"name"} : want[c] = row[c]
        BY <4>2, <4>3 DEF RowOK, Columns, Sent
      <4> QED BY <4>3, <4>4, <4>5
    <3>3. UNCHANGED <<blob, excused>> /\ Becomes(q, Editing("cadport", p, want, NoTotals, {f}))
      BY <2>1, <3>1 DEF SyncFromCadport
    <3>4. /\ \A g \in Sent \ {f} : want[g] = item[p][g]
          /\ \A c \in Columns : want[c] = item[p][c]
      BY <2>1, <3>2 DEF Columns
    <3> QED BY <2>1, <3>2, <3>3, <3>4
  <2>2. CASE f = "mass"
    <3>1. Weigh(q, "cadport", p, v) /\ v \in Masses
      BY <1>1, <2>2 DEF SyncFromCadport
    <3>2. PICK want, totals :
            /\ totals = Rolled(p, want)
            /\ Becomes(q, Editing("cadport", p, want, totals, {"mass"}))
            /\ RowOK(want) /\ want.name = item[p].name /\ want.deleted = item[p].deleted
            /\ want.mass = v /\ want.inertia = Scaled(item[p].inertia, item[p].mass, v)
            /\ Refreshed(p, v, want) /\ excused \subseteq excused'
      BY <1>1, <3>1, Weighs
    <3> QED BY <2>2, <3>2 DEF Sent
  <2> QED BY <1>1, <2>1, <2>2 DEF Sent
<1>3. PICK want, totals :
        /\ RowOK(want) /\ want.deleted = item[p].deleted /\ want[f] = v
        /\ \A g \in Sent \ {f} : want[g] = item[p][g]
        /\ f = "name" => UNCHANGED blob /\ \A c \in Columns : want[c] = item[p][c]
        /\ f = "mass" => /\ want.mass = v /\ Refreshed(p, v, want)
                         /\ want.inertia = Scaled(item[p].inertia, item[p].mass, v)
        /\ Becomes(q, Editing("cadport", p, want, totals, {f})) /\ excused \subseteq excused'
  BY <1>2
<1>e. PICK e : e = Editing("cadport", p, want, totals, {f})
  OBVIOUS
<1>4. e.op = "commit" /\ e.from = "cadport" /\ e.part = p /\ e.saw = item[p] /\ e.want = want
      /\ e.news = {f}
  BY <1>e, Begun
<1>5. Others(q) /\ edit'[q] = e /\ excused \subseteq excused'
  <2>1. Becomes(q, e)
    BY <1>3, <1>e
  <2> QED BY <1>1, <1>3, <2>1, Changing
<1>6. DOMAIN blob' = Synced
  BY <1>1, <1>3 DEF Sent, Refreshed
<1>7. CadportTypes'
  <2>1. RowOK(want) /\ item'[p].deleted = want.deleted /\ "exists" \notin {f}
        /\ (\A g \in Sent \ {f} : item[p][g] = want[g])
        /\ ("mass" \in {f} \/ \A c \in Columns : item[p][c] = want[c])
    BY <1>1, <1>3 DEF Sent
  <2>2. EditOK(q)'
    BY <1>1, <1>4, <1>5, <2>1 DEF EditOK, Writing
  <2> QED BY <1>1, <1>5, <1>6, <2>2, TypesKept DEF CadportTypes
<1>8. ASSUME NEW x \in Synced PROVE DerivedOK(x)'
  <2>1. CASE f = "name"
    <3>1. ~Weighing(edit[q], x) /\ ~Weighing(edit'[q], x) /\ DerivedOK(x) /\ UNCHANGED blob
      BY <1>1, <1>3, <1>4, <1>5, <2>1 DEF Weighing, Writing, CadportInvariant
    <3> QED BY <1>1, <1>5, <3>1, DerivedStays
  <2>2. CASE f = "mass"
    <3>1. Weighing(edit'[q], p) /\ ~Writing(edit[q])
      BY <1>1, <1>4, <1>5, <2>2 DEF Weighing, Writing
    <3> QED BY <1>1, <1>3, <1>4, <1>5, <2>2, <3>1, WeighingBegins
  <2> QED BY <1>1, <2>1, <2>2 DEF Sent
<1>9. ASSUME NEW x \in Synced PROVE ExistsOK(x)'
  <2>1. /\ ~Tells(edit[q], x) /\ ~Tells(edit'[q], x) /\ ~Told(edit[q], x) /\ ~Told(edit'[q], x)
        /\ ExistsOK(x)
    BY <1>1, <1>4, <1>5 DEF Tells, Told, Sent, CadportInvariant
  <2> QED BY <1>1, <1>5, <2>1, ExistsStays
<1>10. ASSUME NEW x \in Synced, NEW g \in Sent PROVE FieldOK(x, g)'
  <2>1. FieldOK(x, g) /\ (Renewing(edit'[q], x, g) => edit'[q].saw[g] = item'[x][g])
    BY <1>1, <1>4, <1>5 DEF Renewing, CadportInvariant
  <2>2. CASE x # p \/ g # f
    <3>1. ~Carries(edit[q], x, g) /\ ~Carries(edit'[q], x, g)
      BY <1>1, <1>4, <1>5, <2>2 DEF Carries, Renewing, Writing
    <3> QED BY <1>1, <1>5, <2>1, <3>1, FieldStays
  <2>3. CASE x = p /\ g = f /\ <<p, f>> \in excused
    BY <1>5, <2>3 DEF FieldOK
  <2>4. CASE x = p /\ g = f /\ <<p, f>> \notin excused
    <3>1. \A r \in Editors \ {q} :
            /\ Renewing(edit'[r], p, f) <=> Renewing(edit[r], p, f)
            /\ Carries(edit'[r], p, f) <=> Carries(edit[r], p, f)
            /\ Renewing(edit[r], p, f) => edit'[r].saw = edit[r].saw
      BY <1>5 DEF Others, Like, Renewing, Carries, Writing
    <3>2. Carries(edit[q], p, f) /\ Carries(edit'[q], p, f)
      BY <1>1, <1>4, <1>5 DEF Carries, Renewing, Writing
    <3>3. \A r \in Editors \ {q} : ~Carries(edit[r], p, f)
      BY <2>1, <2>4, <3>2 DEF FieldOK
    <3>4. \A r \in Editors : Renewing(edit'[r], p, f) => edit'[r].saw[f] = item'[p][f]
      BY <1>1, <2>1, <2>4, <3>1 DEF FieldOK
    <3>5. item[p].deleted \/ remote[p] = Nil \/ Current(q, p, f)'
      <4>1. item[p].deleted \/ remote[p] = Nil \/ Current(q, p, f)
        BY <2>1, <2>4, <3>2 DEF FieldOK
      <4>2. item[p].deleted \/ remote[p] = Nil \/ v = remote[p][f]
        BY <1>1, <4>1 DEF Current
      <4>3. e.want[f] = v
        BY <1>3, <1>4
      <4>4. UNCHANGED remote
        BY <1>1
      <4>5. edit'[q].op = "commit" /\ edit'[q].want[f] = v
        BY <1>4, <1>5, <4>3
      <4>6. CASE item[p].deleted \/ remote[p] = Nil
        BY <4>6, <4>4, <1>1
      <4>7. CASE v = remote[p][f]
        <5>1. edit'[q].want[f] = remote'[p][f] /\ edit'[q].op = "commit"
          BY <4>7, <4>4, <4>5
        <5> QED BY <5>1 DEF Current
      <4> QED BY <4>2, <4>6, <4>7
    <3>6. \A r \in Editors : Carries(edit'[r], p, f) => r = q
      BY <3>1, <3>3
    <3>7. \A r \in Editors : Carries(edit'[r], p, f) => (item[p].deleted \/ remote[p] = Nil \/ Current(r, p, f)')
      BY <3>5, <3>6
    <3>8. (item[p].deleted <=> item'[p].deleted) /\ remote'[p] = remote[p]
      BY <1>1
    <3> QED BY <2>4, <3>2, <3>4, <3>6, <3>7, <3>8 DEF FieldOK
  <2> QED BY <2>2, <2>3, <2>4
<1> QED BY <1>7, <1>8, <1>9, <1>10 DEF CadportInvariant

LEMMA SendStep ==
  ASSUME CadportAssumption, CadportInvariant, NEW q \in Editors, Send(q)
  PROVE  CadportInvariant'
<1> PICK p : p = edit[q].part
  OBVIOUS
<1> PICK done : done = [op |-> "done"]
  OBVIOUS
<1> PICK d : d = Delivered(remote[p], edit[q].news, edit[q].row)
  OBVIOUS
<1>1. /\ edit[q].op = "send" /\ remote' = [remote EXCEPT ![p] = d] /\ Becomes(q, done)
      /\ UNCHANGED <<item, blob, excused>>
  BY DEF Send
<1>2. /\ CadportTypes /\ p \in Synced /\ remote \in [Synced -> Copies \cup {Nil}]
      /\ "exists" \in edit[q].news \/ RowOK(edit[q].row)
  BY <1>1 DEF CadportInvariant, CadportTypes, EditOK
<1>3. /\ Others(q) /\ edit'[q].op = "done" /\ excused \subseteq excused'
      /\ ~Writing(edit[q]) /\ ~Writing(edit'[q])
  BY <1>1, <1>2, Changing DEF Writing
<1>4. /\ d = Nil <=> remote[p] = Nil \/ "exists" \in edit[q].news
      /\ d # Nil => /\ d \in Copies
                    /\ \A f \in Sent : d[f] = IF f \in edit[q].news THEN edit[q].row[f] ELSE remote[p][f]
  <2>1. CASE remote[p] = Nil \/ "exists" \in edit[q].news
    BY <2>1 DEF Delivered
  <2>2. CASE ~(remote[p] = Nil \/ "exists" \in edit[q].news)
    <3>1. remote[p] \in Copies /\ RowOK(edit[q].row)
      BY <1>2, <2>2
    <3>2. d = [f \in DOMAIN remote[p] |-> IF f \in edit[q].news THEN edit[q].row[f] ELSE remote[p][f]]
      BY <2>2 DEF Delivered
    <3>3. DOMAIN remote[p] = Sent
      BY <3>1 DEF Copies, Sent
    <3>4. remote[p].mass \in Masses \cup {Nil} /\ remote[p].name \in PartNames
      BY <3>1 DEF Copies
    <3>5. edit[q].row.mass \in Masses \cup {Nil} /\ edit[q].row.name \in PartNames
      BY <3>1 DEF RowOK
    <3>6. d = [mass |-> d.mass, name |-> d.name]
      BY <3>2, <3>3 DEF Sent
    <3>7. d.mass \in Masses \cup {Nil} /\ d.name \in PartNames
      BY <3>2, <3>3, <3>4, <3>5 DEF Sent
    <3>8. d \in Copies
      BY <3>6, <3>7 DEF Copies
    <3> QED BY <2>2, <3>2, <3>3, <3>8 DEF CadportAssumption
  <2> QED BY <2>1, <2>2
<1>5. /\ remote' \in [Synced -> Copies \cup {Nil}] /\ remote'[p] = d
      /\ \A x \in Synced \ {p} : remote'[x] = remote[x]
  BY <1>1, <1>2, <1>4
<1>6. CadportTypes'
  <2>1. EditOK(q)'
    BY <1>3 DEF EditOK, Writing
  <2> QED BY <1>1, <1>2, <1>3, <1>5, <2>1, TypesKept DEF CadportTypes
<1>7. ASSUME NEW x \in Synced PROVE DerivedOK(x)'
  <2>1. ~Weighing(edit[q], x) /\ ~Weighing(edit'[q], x) /\ DerivedOK(x)
    BY <1>3 DEF Weighing, CadportInvariant
  <2> QED BY <1>1, <1>2, <1>3, <2>1, DerivedStays
<1>8. ASSUME NEW x \in Synced PROVE ExistsOK(x)'
  <2>1. /\ ~Told(edit[q], x) /\ ~Told(edit'[q], x) /\ ~Tells(edit'[q], x) /\ ExistsOK(x)
    BY <1>1, <1>3 DEF Tells, Told, CadportInvariant
  <2>2. CASE Tells(edit[q], x)
    <3>1. \A r \in Editors \ {q} : /\ Tells(edit'[r], x) <=> Tells(edit[r], x)
                                   /\ Told(edit'[r], x) <=> Told(edit[r], x)
      BY <1>3 DEF Others, Like, Tells, Told, Writing
    <3>2. x = p /\ "exists" \in edit[q].news
      BY <2>2 DEF Tells
    <3>3. item'[x].deleted /\ remote'[x] = Nil
      BY <1>1, <1>4, <1>5, <2>1, <2>2, <3>2 DEF ExistsOK
    <3> QED BY <2>1, <3>1, <3>3 DEF ExistsOK, Tells, Told
  <2>3. CASE ~Tells(edit[q], x)
    <3>1. remote'[x] = Nil <=> remote[x] = Nil
      BY <1>1, <1>4, <1>5, <2>3 DEF Tells
    <3> QED BY <1>1, <1>2, <1>3, <2>1, <2>3, <3>1, ExistsStays
  <2> QED BY <2>2, <2>3
<1>9. ASSUME NEW x \in Synced, NEW f \in Sent PROVE FieldOK(x, f)'
  <2>1. ~Renewing(edit'[q], x, f) /\ ~Carries(edit'[q], x, f) /\ FieldOK(x, f)
    BY <1>3 DEF Renewing, Carries, Writing, CadportInvariant
  <2>2. CASE x # p \/ f \notin edit[q].news
    <3>1. ~Carries(edit[q], x, f)
      BY <1>1, <2>2 DEF Carries, Renewing, Writing
    <3>2. remote'[x] = Nil \/ (remote[x] # Nil /\ remote'[x][f] = remote[x][f])
      BY <1>4, <1>5, <2>2
    <3> QED BY <1>1, <1>2, <1>3, <2>1, <3>1, <3>2, FieldStays
  <2>3. CASE x = p /\ f \in edit[q].news /\ remote'[p] = Nil
    BY <1>1, <1>2, <1>3, <2>1, <2>3, FieldGone
  <2>4. CASE x = p /\ f \in edit[q].news /\ remote'[p] # Nil /\ <<p, f>> \in excused
    BY <1>1, <2>4 DEF FieldOK
  <2>5. CASE x = p /\ f \in edit[q].news /\ remote'[p] # Nil /\ <<p, f>> \notin excused
    <3>1. \A r \in Editors \ {q} :
            /\ Renewing(edit'[r], p, f) <=> Renewing(edit[r], p, f)
            /\ Carries(edit'[r], p, f) <=> Carries(edit[r], p, f)
            /\ Renewing(edit[r], p, f) => edit'[r].saw = edit[r].saw
      BY <1>3 DEF Others, Like, Renewing, Carries, Writing
    <3>2. Carries(edit[q], p, f)
      BY <1>1, <2>5 DEF Carries
    <3>3. \A r \in Editors : ~Carries(edit'[r], p, f)
      BY <2>1, <2>5, <3>1, <3>2 DEF FieldOK
    <3>4. \A r \in Editors : Renewing(edit'[r], p, f) => edit'[r].saw[f] = item'[p][f]
      BY <1>1, <2>1, <2>5, <3>1 DEF FieldOK
    <3>5. item[p].deleted \/ item[p][f] = remote'[p][f]
      <4>1. remote[p] # Nil /\ remote'[p][f] = edit[q].row[f]
        BY <1>4, <1>5, <2>5
      <4>2. item[p].deleted \/ Current(q, p, f)
        BY <2>1, <2>5, <3>2, <4>1 DEF FieldOK
      <4> QED BY <1>1, <4>1, <4>2 DEF Current
    <3> QED BY <1>1, <2>5, <3>3, <3>4, <3>5 DEF FieldOK, Renewing, Carries, Writing
  <2> QED BY <2>2, <2>3, <2>4, <2>5
<1> QED BY <1>6, <1>7, <1>8, <1>9 DEF CadportInvariant

LEMMA RowApplied ==
  ASSUME NEW now, RowOK(now), NEW saw, RowOK(saw), NEW want, RowOK(want),
         saw.deleted = want.deleted, NEW w, w = Applied(now, saw, want)
  PROVE  /\ RowOK(w) /\ w.deleted = now.deleted
         /\ \A c \in Columns \cup Sent : w[c] = IF saw[c] = want[c] THEN now[c] ELSE want[c]
<1>1. DOMAIN w = DOMAIN now
      /\ \A c \in DOMAIN now : w[c] = IF saw[c] = want[c] THEN now[c] ELSE want[c]
  BY DEF Applied
<1>2. \A c \in Columns \cup Sent \cup {"deleted"} : c \in DOMAIN now
  BY DEF RowOK, Columns, Sent
<1>3. w.deleted = now.deleted
  BY <1>1, <1>2
<1>4. /\ w.mass = IF saw.mass = want.mass THEN now.mass ELSE want.mass
      /\ w.name = IF saw.name = want.name THEN now.name ELSE want.name
  BY <1>1, <1>2 DEF Sent
<1>5. RowOK(w)
  BY <1>1, <1>3, <1>4 DEF RowOK
<1> QED BY <1>1, <1>2, <1>3, <1>5

LEMMA CommitEditStep ==
  ASSUME CadportInvariant, NEW q \in Editors, CommitEdit(q)
  PROVE  CadportInvariant'
<1>e. PICK e : e = edit[q]
  OBVIOUS
<1>p. PICK p : p = e.part
  OBVIOUS
<1>w. PICK w : w = Applied(item[p], e.saw, e.want)
  OBVIOUS
<1>n. PICK next : next = IF e.from = "astra"
                         THEN [op |-> "send", part |-> p, news |-> e.news, row |-> w]
                         ELSE [op |-> "done"]
  OBVIOUS
<1>1. /\ CadportTypes /\ p \in Synced /\ DOMAIN item = Synced /\ \A x \in Synced : RowOK(item[x])
      /\ e.op = "commit" /\ EditOK(q)
      /\ RowOK(e.saw) /\ RowOK(e.want) /\ e.saw.deleted = e.want.deleted
      /\ "exists" \notin e.news /\ e.from \in {"astra", "cadport"}
  BY <1>e, <1>p DEF CadportInvariant, CadportTypes, EditOK, Writing, CommitEdit
<1>2. /\ item' = [item EXCEPT ![p] = w] /\ UNCHANGED <<blob, remote>>
      /\ excused' = excused \cup Crossed(q, p, e.news)
                    \cup (IF Overlapped(q) THEN {<<p, "row">>} ELSE {})
  BY <1>e, <1>p, <1>w DEF CommitEdit
<1>3. /\ item'[p] = w /\ DOMAIN item' = Synced /\ \A x \in Synced \ {p} : item'[x] = item[x]
      /\ excused \subseteq excused'
  BY <1>1, <1>2
<1>4. Others(q) /\ edit'[q] = next
  <2>1. edit' = [Overtake(e.held \cup Affected(q)) EXCEPT ![q] =
                   IF e.from = "astra"
                   THEN [op |-> "send", part |-> p, news |-> e.news, row |-> item'[p]]
                   ELSE [op |-> "done"]]
    BY <1>e, <1>p DEF CommitEdit
  <2>2. edit' = [Overtake(e.held \cup Affected(q)) EXCEPT ![q] = next]
    BY <1>3, <1>n, <2>1
  <2> QED BY <1>1, <2>2, Overtaking
<1>5. /\ e.from = "astra" => /\ next.op = "send" /\ next.part = p /\ next.news = e.news
                             /\ next.row = w
      /\ e.from = "cadport" => next.op = "done"
  BY <1>n
<1>6. /\ RowOK(w) /\ w.deleted = item[p].deleted
      /\ \A c \in Columns \cup Sent : w[c] = IF e.saw[c] = e.want[c] THEN item[p][c] ELSE e.want[c]
  BY <1>1, <1>w, RowApplied
<1>7. ~Writing(edit'[q]) /\ edit'[q].op # "arrive"
  BY <1>1, <1>4, <1>5 DEF Writing
<1>8. CadportTypes'
  <2>1. EditOK(q)'
    BY <1>1, <1>4, <1>5, <1>6, <1>7 DEF EditOK
  <2>2. \A x \in Synced : RowOK(item'[x])
    BY <1>1, <1>3, <1>6
  <2> QED BY <1>1, <1>2, <1>3, <1>4, <2>1, <2>2, TypesKept DEF CadportTypes
<1>9. ASSUME NEW x \in Synced PROVE ExistsOK(x)'
  <2>1. /\ ~Tells(edit[q], x) /\ ~Tells(edit'[q], x) /\ ~Told(edit[q], x) /\ ~Told(edit'[q], x)
        /\ ExistsOK(x)
    BY <1>e, <1>1, <1>4, <1>5, <1>7 DEF Tells, Told, CadportInvariant
  <2>2. item'[x].deleted = item[x].deleted
    BY <1>3, <1>6
  <2> QED BY <1>1, <1>2, <1>3, <1>4, <2>1, <2>2, ExistsStays
<1>10. ASSUME NEW x \in Synced PROVE DerivedOK(x)'
  <2>1. ~Weighing(edit'[q], x) /\ DerivedOK(x)
    BY <1>7 DEF Weighing, CadportInvariant
  <2>2. CASE x # p
    <3>1. ~Weighing(edit[q], x) /\ item'[x] = item[x]
      BY <1>e, <1>p, <1>3, <2>2 DEF Weighing
    <3>2. \A c \in Columns : item'[x][c] = item[x][c]
      BY <3>1
    <3> QED BY <1>1, <1>2, <1>3, <1>4, <2>1, <3>1, <3>2, DerivedStays
  <2>3. CASE x = p /\ <<p, "row">> \in excused'
    BY <2>3 DEF DerivedOK
  <2>4. CASE x = p /\ <<p, "row">> \notin excused' /\ "mass" \notin e.news
    <3>1. \A c \in Columns : e.saw[c] = e.want[c]
      BY <1>e, <1>p, <1>1, <1>3, <2>4 DEF EditOK, Writing
    <3>2. \A c \in Columns : item'[p][c] = item[p][c]
      BY <1>3, <1>6, <3>1
    <3>3. ~Weighing(edit[q], p)
      BY <1>e, <2>4 DEF Weighing
    <3> QED BY <1>1, <1>2, <1>3, <1>4, <2>1, <2>4, <3>2, <3>3, DerivedStays
  <2>5. CASE x = p /\ <<p, "row">> \notin excused' /\ "mass" \in e.news
    <3>1. Weighing(edit[q], p)
      BY <1>e, <1>p, <1>1, <2>5 DEF Weighing, Writing
    <3>2. \A r \in Editors \ {q} : ~Weighing(edit[r], p)
      <4>1. ~Overlapped(q)
        BY <1>2, <2>5
      <4> QED BY <1>e, <1>p, <2>5, <4>1 DEF Overlapped, Weighing, Writing
    <3>3. Derived(p, e.want, blob[p]) /\ \A c \in Columns : e.saw[c] = item[p][c]
      BY <1>e, <1>3, <2>1, <2>5, <3>1, <3>2 DEF DerivedOK
    <3>4. \A c \in Columns : item'[p][c] = e.want[c]
      BY <1>3, <1>6, <3>3
    <3>5. Derived(p, item[p], blob[p])'
      BY <1>2, <3>3, <3>4 DEF Derived, YamlFile, Columns
    <3>6. \A r \in Editors : ~Weighing(edit'[r], p)
      BY <1>4, <2>1, <2>5, <3>2 DEF Others, Like, Weighing, Writing
    <3> QED BY <2>5, <3>5, <3>6 DEF DerivedOK, Weighing, Writing, Derived, YamlFile
  <2> QED BY <2>2, <2>3, <2>4, <2>5
<1>11. ASSUME NEW x \in Synced, NEW f \in Sent PROVE FieldOK(x, f)'
  <2>1. ~Renewing(edit'[q], x, f) /\ FieldOK(x, f)
    BY <1>7 DEF Renewing, CadportInvariant
  <2>2. item[x].deleted => item'[x].deleted
    BY <1>3, <1>6
  <2>3. remote'[x] = Nil \/ (remote[x] # Nil /\ remote'[x][f] = remote[x][f])
    BY <1>2
  <2>4. CASE <<x, f>> \in excused'
    BY <2>4 DEF FieldOK
  <2>5. CASE <<x, f>> \notin excused' /\ (x # p \/ f \notin e.news)
    <3>1. ~Carries(edit[q], x, f) /\ ~Carries(edit'[q], x, f)
      BY <1>e, <1>p, <1>1, <1>4, <1>5, <1>7, <2>5 DEF Carries, Renewing
    <3>2. item'[x][f] = item[x][f]
      <4>1. CASE x # p
        BY <1>3, <4>1
      <4>2. CASE x = p
        <5>1. e.saw[f] = e.want[f]
          BY <1>e, <1>p, <1>1, <1>3, <2>5, <4>2 DEF EditOK, Writing
        <5> QED BY <1>3, <1>6, <4>2, <5>1
      <4> QED BY <4>1, <4>2
    <3> QED BY <1>1, <1>3, <1>4, <2>1, <2>2, <2>3, <3>1, <3>2, FieldStays
  <2>6. CASE <<x, f>> \notin excused' /\ x = p /\ f \in e.news
    <3>1. \A r \in Editors \ {q} : ~Renewing(edit[r], p, f) /\ ~Carries(edit[r], p, f)
      <4>1. <<p, f>> \notin Crossed(q, p, e.news)
        BY <1>2, <2>6
      <4> QED BY <2>6, <4>1, Crossing
    <3>2. \A r \in Editors \ {q} : ~Renewing(edit'[r], p, f) /\ ~Carries(edit'[r], p, f)
      BY <1>4, <3>1 DEF Others, Like, Renewing, Carries, Writing
    <3>3. Renewing(e, p, f) /\ <<p, f>> \notin excused
      BY <1>p, <1>1, <1>3, <2>6 DEF Renewing, Writing
    <3>4. e.saw[f] = item[p][f]
      BY <1>e, <2>1, <2>6, <3>3 DEF FieldOK
    <3>5. item'[p][f] = e.want[f]
      BY <1>3, <1>6, <3>4
    <3>6. CASE e.from = "astra"
      <4>1. Current(q, p, f)'
        BY <1>3, <1>4, <1>5, <2>1, <2>6, <3>6 DEF Current
      <4>2. Carries(edit'[q], p, f)
        BY <1>4, <1>5, <2>6, <3>6 DEF Carries
      <4> QED BY <2>1, <2>6, <3>2, <4>1, <4>2 DEF FieldOK, Carries, Renewing, Writing
    <3>7. CASE e.from = "cadport"
      <4>1. ~Carries(edit'[q], p, f)
        BY <1>4, <1>5, <1>7, <3>7 DEF Carries, Renewing
      <4>2. item[p].deleted \/ remote[p] = Nil \/ e.want[f] = remote[p][f]
        BY <1>e, <2>1, <2>6, <3>3, <3>7 DEF FieldOK, Carries, Current
      <4>3. item'[p].deleted \/ remote'[p] = Nil \/ item'[p][f] = remote'[p][f]
        BY <1>2, <2>2, <2>6, <3>5, <4>2
      <4> QED BY <2>1, <2>6, <3>2, <4>1, <4>3 DEF FieldOK, Carries, Renewing, Writing
    <3> QED BY <1>1, <3>6, <3>7
  <2> QED BY <2>4, <2>5, <2>6
<1> QED BY <1>8, <1>9, <1>10, <1>11 DEF CadportInvariant

LEMMA CadportStart ==
  ASSUME CadportAssumption, CadportInit
  PROVE  CadportInvariant
<1>1. \A q \in Editors : edit[q].op = "idle"
  BY DEF CadportInit
<1>2. \A q \in Editors : EditOK(q)
  BY <1>1 DEF EditOK, Writing
<1>3. ASSUME NEW p \in Synced
      PROVE  /\ item[p] = SeedPart[p] /\ blob[p] = YamlFile(SeedPart[p])
             /\ RowOK(SeedPart[p]) /\ ~SeedPart[p].deleted
             /\ SeedPart[p].inertia \in {Nil, SeedPart[p].mass}
             /\ SeedPart[p].sha = YamlFile(SeedPart[p])
             /\ remote[p] \in Copies /\ remote[p] # Nil
             /\ remote[p].mass = SeedPart[p].mass /\ remote[p].name = SeedPart[p].name
  <2>1. /\ item[p] = SeedPart[p] /\ blob[p] = YamlFile(SeedPart[p])
        /\ RowOK(SeedPart[p]) /\ ~SeedPart[p].deleted
        /\ SeedPart[p].inertia \in {Nil, SeedPart[p].mass}
        /\ SeedPart[p].sha = YamlFile(SeedPart[p])
        /\ remote[p] = [mass |-> SeedPart[p].mass, name |-> SeedPart[p].name]
    BY DEF CadportInit, CadportAssumption
  <2>2. remote[p] \in Copies
    BY <2>1 DEF Copies, RowOK
  <2> QED BY <2>1, <2>2 DEF CadportAssumption
<1>4. \A p \in Synced : remote[p] \in Copies /\ remote[p] # Nil
  BY <1>3
<1>5. CadportTypes
  <2>1. remote = [p \in Synced |-> remote[p]]
    BY DEF CadportInit
  <2>2. remote \in [Synced -> Copies \cup {Nil}]
    BY <1>4, <2>1
  <2> QED BY <1>2, <1>3, <2>2 DEF CadportTypes, CadportInit, CadportAssumption
<1>6. ASSUME NEW p \in Synced PROVE DerivedOK(p) /\ ExistsOK(p)
  <2>1. DerivedOK(p)
    BY <1>1, <1>3 DEF DerivedOK, Weighing, Writing, Derived
  <2>2. ExistsOK(p)
    BY <1>1, <1>3, <1>4 DEF ExistsOK, Tells, Told
  <2> QED BY <2>1, <2>2
<1>7. ASSUME NEW p \in Synced, NEW f \in Sent PROVE FieldOK(p, f)
  <2>1. item[p][f] = remote[p][f]
    BY <1>3 DEF Sent
  <2> QED BY <1>1, <2>1 DEF FieldOK, Carries, Renewing, Writing
<1> QED BY <1>5, <1>6, <1>7 DEF CadportInvariant

LEMMA CadportStep ==
  ASSUME CadportAssumption, CadportInvariant, [CadportNext]_cadportVars
  PROVE  CadportInvariant'
<1>1. ASSUME NEW q \in Editors, NEW p \in Synced, NEW n \in PartNames,
             PatchName(q, p, n) \/ PatchPart(q, p, "name", n)
      PROVE  CadportInvariant'
  BY <1>1, PatchFieldStep
<1>2. ASSUME NEW q \in Editors, NEW p \in Synced, NEW m \in Masses, PatchPart(q, p, "mass", m)
      PROVE  CadportInvariant'
  BY <1>2, PatchFieldStep
<1>3. ASSUME NEW q \in Editors, NEW p \in Synced, NEW k \in Materials, PatchPart(q, p, "material", k)
      PROVE  CadportInvariant'
  BY <1>3, PatchFieldStep
<1>4. ASSUME NEW q \in Editors, NEW p \in Synced, NEW m \in Masses, CadEdit(q, p, "mass", m)
      PROVE  CadportInvariant'
  BY <1>4, CadEditStep DEF Sent
<1>5. ASSUME NEW q \in Editors, NEW p \in Synced, NEW n \in PartNames, CadEdit(q, p, "name", n)
      PROVE  CadportInvariant'
  BY <1>5, CadEditStep DEF Sent
<1>6. CASE UNCHANGED cadportVars
  BY <1>6 DEF cadportVars, CadportInvariant, CadportTypes, EditOK, DerivedOK, Derived, ExistsOK, FieldOK, Current
<1> QED
  BY <1>1, <1>2, <1>3, <1>4, <1>5, <1>6, PatchMassStep, DeleteSteps, CadDeleteStep, SyncStep,
     QuietSteps, CommitEditStep, SendStep DEF CadportNext

LEMMA CadportHolds == ASSUME CadportAssumption PROVE CadportSpec => []CadportInvariant
<1> QED BY CadportStart, CadportStep, PTL DEF CadportSpec

\* What is derived from a part's mass, its inertia, its YAML file and the hash
\* of it, is of that mass after any edits on either side (update_part_mass,
\* sync_catalog_part_from_cadport), for any number of parts and requests.
THEOREM MassesAreDerived ==
  ASSUME CadportAssumption PROVE CadportSpec => []DerivedFollowsMass
<1>1. CadportInvariant => DerivedFollowsMass
  BY DEF CadportInvariant, DerivedOK, DerivedFollowsMass, Weighing, Writing
<1> QED BY <1>1, CadportHolds, PTL

\* Once nothing is under way, ASTRA and CADPORT hold the same mass and name of a
\* part and the same view of whether there is one, save for crossed and lost calls.
THEOREM SidesConverge ==
  ASSUME CadportAssumption PROVE CadportSpec => []SidesAgree
<1>1. ASSUME CadportInvariant, \A q \in Editors : edit[q].op \in {"idle", "done"},
             NEW p \in Synced
      PROVE  /\ <<p, "exists">> \in excused \/ (item[p].deleted <=> remote[p] = Nil)
             /\ \A f \in {"mass", "name"} :
                  item[p].deleted \/ remote[p] = Nil \/ <<p, f>> \in excused
                    \/ item[p][f] = remote[p][f]
  <2>1. \A q \in Editors : /\ ~Tells(edit[q], p) /\ ~Told(edit[q], p)
                           /\ \A f \in Sent : ~Carries(edit[q], p, f)
    BY <1>1 DEF Tells, Told, Carries, Renewing, Writing
  <2>2. ExistsOK(p) /\ \A f \in Sent : FieldOK(p, f)
    BY <1>1 DEF CadportInvariant
  <2>3. <<p, "exists">> \in excused \/ (item[p].deleted <=> remote[p] = Nil)
    BY <2>1, <2>2 DEF ExistsOK
  <2>4. \A f \in Sent : item[p].deleted \/ remote[p] = Nil \/ <<p, f>> \in excused
                          \/ item[p][f] = remote[p][f]
    BY <2>1, <2>2 DEF FieldOK
  <2> QED BY <2>3, <2>4 DEF Sent
<1>2. CadportInvariant => SidesAgree
  BY <1>1 DEF SidesAgree
<1> QED BY <1>2, CadportHolds, PTL

\* What a request has rolled up and nobody overtook is what it will be.
SameMass(x, y) == x.mass = y.mass /\ x.inertia = y.inertia /\ x.deleted = y.deleted
RolledUp(e, a) ==
  /\ a \in Holding(e.part) /\ SameMass(e.saw, item[e.part]) /\ e.sawTotals[a] = asm[a].total
  /\ e.totals[a] = Total(asm[a].comps, [item EXCEPT ![e.part] = e.want])
RollOK(q) ==
  LET e == edit[q] IN
  Writing(e) => /\ "overtaken" \in DOMAIN e /\ DOMAIN e.totals = e.held
                /\ \A a \in e.held \ e.overtaken : RolledUp(e, a)
TotalsInvariant ==
  /\ DOMAIN asm = Assemblies
  /\ \A a \in Assemblies : /\ asm[a] = [comps |-> asm[a].comps, total |-> asm[a].total]
                           /\ asm[a].comps \in Components
  /\ \A q \in Editors : RollOK(q)
  /\ TotalsAreCurrent

\* What rolling up reads of a row.
LEMMA SameTotal ==
  ASSUME NEW comps, NEW rows, NEW now,
         \A c \in comps : SameMass(now[c.part], rows[c.part])
  PROVE  Total(comps, now) = Total(comps, rows)
<1>1. \A c \in comps : Contribution(c, now) = Contribution(c, rows)
  BY DEF Contribution, SameMass
<1>2. [c \in comps |-> Contribution(c, now)] = [c \in comps |-> Contribution(c, rows)]
  BY <1>1
<1> QED BY <1>2 DEF Total

\* The other requests know that these assemblies have changed.
Overtaken(q, As) ==
  \A r \in Editors \ {q} :
    Writing(edit[r]) =>
      /\ edit'[r].held = edit[r].held /\ edit'[r].totals = edit[r].totals
      /\ edit'[r].sawTotals = edit[r].sawTotals /\ DOMAIN edit'[r] = DOMAIN edit[r]
      /\ edit'[r].overtaken = edit[r].overtaken \cup As

LEMMA NobodyOvertaken ==
  ASSUME CadportTypes, NEW q \in Editors, NEW e, Becomes(q, e)
  PROVE  Others(q) /\ edit'[q] = e /\ Overtaken(q, {})
BY Changing DEF Becomes, Overtaken, CadportTypes

LEMMA AllOvertaken ==
  ASSUME CadportTypes, \A r \in Editors : RollOK(r), NEW q \in Editors, NEW e, NEW As,
         edit' = [Overtake(As) EXCEPT ![q] = e]
  PROVE  Others(q) /\ edit'[q] = e /\ Overtaken(q, As)
<1>1. ASSUME NEW r \in Editors \ {q}, Writing(edit[r])
      PROVE  /\ edit'[r].held = edit[r].held /\ edit'[r].totals = edit[r].totals
             /\ edit'[r].sawTotals = edit[r].sawTotals /\ DOMAIN edit'[r] = DOMAIN edit[r]
             /\ edit'[r].overtaken = edit[r].overtaken \cup As
  <2> PICK d : d = edit[r]
    OBVIOUS
  <2>n. PICK n : n = [d EXCEPT !.overtaken = @ \cup As]
    OBVIOUS
  <2>1. edit'[r] = n
    <3>1. DOMAIN Overtake(As) = Editors /\ edit'[r] = Overtake(As)[r]
      BY DEF Overtake
    <3> QED BY <1>1, <2>n, <3>1 DEF Overtake, Writing
  <2>2. n.held = d.held /\ n.totals = d.totals /\ n.sawTotals = d.sawTotals
        /\ DOMAIN n = DOMAIN d
    BY <2>n
  <2>3. n.overtaken = d.overtaken \cup As
    <3>1. "overtaken" \in DOMAIN d
      BY <1>1 DEF RollOK
    <3> QED BY <2>n, <3>1
  <2> QED BY <2>1, <2>2, <2>3
<1> QED BY <1>1, Overtaking DEF Overtaken

\* What stays of assemblies that nobody overtakes.
SameAssembly(a) ==
  asm'[a] = asm[a] /\ \A c \in asm[a].comps : SameMass(item'[c.part], item[c.part])

LEMMA TotalStays ==
  ASSUME NEW a, SameAssembly(a), asm[a].total = Total(asm[a].comps, item)
  PROVE  asm'[a].total = Total(asm'[a].comps, item')
<1>1. Total(asm[a].comps, item') = Total(asm[a].comps, item)
  BY SameTotal DEF SameAssembly
<1> QED BY <1>1 DEF SameAssembly

LEMMA RollsStay ==
  ASSUME CadportTypes, CadportAssumption, TotalsInvariant, NEW q \in Editors, NEW As,
         Others(q), Overtaken(q, As), DOMAIN item' = Synced,
         \A a \in Assemblies \ As : SameAssembly(a),
         NEW r \in Editors \ {q}
  PROVE  RollOK(r)'
<1> PICK e : e = edit[r]
  OBVIOUS
<1> PICK d : d = edit'[r]
  OBVIOUS
<1>1. CASE ~Writing(e)
  BY <1>1 DEF RollOK, Others, Like, Writing
<1>2. CASE Writing(e)
  <2>1. /\ "overtaken" \in DOMAIN e /\ DOMAIN e.totals = e.held /\ e.part \in Synced
        /\ \A a \in e.held \ e.overtaken : RolledUp(e, a)
    BY <1>2 DEF TotalsInvariant, RollOK, CadportTypes, EditOK
  <2>2. /\ d.held = e.held /\ d.totals = e.totals /\ d.sawTotals = e.sawTotals
        /\ d.overtaken = e.overtaken \cup As
    BY <1>2 DEF Overtaken
  <2>3. d.part = e.part /\ d.saw = e.saw /\ d.want = e.want
    BY <1>2 DEF Others, Like
  <2>4. "overtaken" \in DOMAIN d
    BY <1>2, <2>1 DEF Overtaken
  <2>5. ASSUME NEW a \in e.held \ (e.overtaken \cup As) PROVE RolledUp(d, a)'
    <3>1. RolledUp(e, a)
      BY <2>1
    <3>2. a \in Holding(e.part) /\ a \in Assemblies /\ SameAssembly(a)
      BY <3>1 DEF RolledUp, Holding
    <3>3. a \in Holding(e.part)'
      BY <3>2 DEF Holding, SameAssembly
    <3>4. SameMass(e.saw, item'[e.part])
      BY <3>1, <3>2 DEF RolledUp, SameAssembly, Holding, SameMass
    <3> PICK rows : rows = [item EXCEPT ![e.part] = e.want]
      OBVIOUS
    <3> PICK now : now = [item' EXCEPT ![e.part] = e.want]
      OBVIOUS
    <3>5. \A c \in asm[a].comps : SameMass(now[c.part], rows[c.part])
      <4>1. \A c \in asm[a].comps : c.part \in Synced
        BY <3>2 DEF TotalsInvariant, CadportAssumption
      <4>2. \A x \in Synced : /\ rows[x] = IF x = e.part THEN e.want ELSE item[x]
                              /\ now[x] = IF x = e.part THEN e.want ELSE item'[x]
        BY DEF CadportTypes
      <4> QED BY <3>2, <4>1, <4>2 DEF SameAssembly, SameMass
    <3>6. Total(asm[a].comps, now) = Total(asm[a].comps, rows)
      BY <3>5, SameTotal
    <3> QED BY <2>2, <2>3, <3>1, <3>2, <3>3, <3>4, <3>6 DEF RolledUp, SameAssembly
  <2> QED BY <2>1, <2>2, <2>4, <2>5 DEF RollOK
<1> QED BY <1>1, <1>2

\* A step that overtakes the assemblies it changes and leaves them to be rolled up.
LEMMA TotalsStay ==
  ASSUME CadportTypes, CadportAssumption, TotalsInvariant, NEW q \in Editors, NEW As,
         Others(q), Overtaken(q, As), RollOK(q)', DOMAIN item' = Synced,
         \A a \in Assemblies \ As : SameAssembly(a),
         DOMAIN asm' = Assemblies,
         \A a \in Assemblies : /\ asm'[a] = [comps |-> asm'[a].comps, total |-> asm'[a].total]
                               /\ asm'[a].comps \in Components,
         stale \cup As \subseteq stale'
  PROVE  TotalsInvariant'
<1>1. \A r \in Editors : RollOK(r)'
  BY RollsStay
<1>2. ASSUME NEW a \in Assemblies \ stale' PROVE asm'[a].total = Total(asm'[a].comps, item')
  <2>1. SameAssembly(a) /\ a \notin stale
    BY <1>2
  <2> QED BY <2>1, TotalStays DEF TotalsInvariant, TotalsAreCurrent
<1> QED BY <1>1, <1>2 DEF TotalsInvariant, TotalsAreCurrent

\* Steps that leave rows and assemblies alone.
LEMMA RollsUnchanged ==
  ASSUME CadportTypes, CadportAssumption, TotalsInvariant, NEW q \in Editors,
         Others(q), Overtaken(q, {}), UNCHANGED <<item, asm, stale>>, RollOK(q)'
  PROVE  TotalsInvariant'
<1>1. \A a \in Assemblies : SameAssembly(a)
  BY DEF SameAssembly, SameMass
<1>2. DOMAIN item' = Synced
  BY DEF CadportTypes
<1>3. /\ DOMAIN asm' = Assemblies
      /\ \A a \in Assemblies : /\ asm'[a] = [comps |-> asm'[a].comps, total |-> asm'[a].total]
                               /\ asm'[a].comps \in Components
  BY DEF TotalsInvariant
<1> QED BY <1>1, <1>2, <1>3, TotalsStay

\* A request has rolled up the assemblies of the part it is going to write.
LEMMA RollBegins ==
  ASSUME CadportTypes, CadportAssumption, TotalsInvariant, NEW q \in Editors,
         NEW from, NEW p \in Synced, NEW want, NEW totals, NEW news,
         Becomes(q, Editing(from, p, want, totals, news)),
         \/ totals = Rolled(p, want) /\ "mass" \in news
         \/ totals = NoTotals /\ "mass" \notin news,
         UNCHANGED <<item, asm, stale>>
  PROVE  TotalsInvariant'
<1>e. PICK e : e = Editing(from, p, want, totals, news)
  OBVIOUS
<1>1. /\ e.op = "commit" /\ e.part = p /\ e.saw = item[p] /\ e.want = want /\ e.news = news
      /\ e.totals = totals /\ e.sawTotals = [a \in DOMAIN totals |-> asm[a].total]
      /\ e.held = (IF "mass" \in news THEN Holding(p) ELSE {})
      /\ "overtaken" \in DOMAIN e
  BY <1>e DEF Editing
<1>2. Others(q) /\ edit'[q] = e /\ Overtaken(q, {})
  BY <1>e, NobodyOvertaken
<1>3. RollOK(q)'
  <2>1. CASE totals = NoTotals /\ "mass" \notin news
    BY <1>1, <1>2, <2>1 DEF RollOK, NoTotals
  <2>2. CASE totals = Rolled(p, want) /\ "mass" \in news
    <3>1. DOMAIN totals = Holding(p)
          /\ \A a \in Holding(p) : totals[a] = Total(asm[a].comps, [item EXCEPT ![p] = want])
      BY <2>2 DEF Rolled
    <3>2. \A a \in Holding(p) : e.sawTotals[a] = asm[a].total
      BY <1>1, <3>1
    <3>3. ASSUME NEW a \in Holding(p) PROVE RolledUp(e, a)'
      <4>1. a \in Holding(p)'
        BY DEF Holding
      <4> QED BY <1>1, <3>1, <3>2, <4>1 DEF RolledUp, SameMass
    <3> QED BY <1>1, <1>2, <2>2, <3>1, <3>3 DEF RollOK
  <2> QED BY <2>1, <2>2
<1> QED BY <1>2, <1>3, RollsUnchanged

LEMMA RollSteps ==
  ASSUME CadportAssumption, CadportTypes, TotalsInvariant, NEW q \in Editors,
         \/ \E p \in Synced :
              \/ \E m \in Masses \cup {Nil} : PatchMass(q, p, m)
              \/ \E n \in PartNames : PatchName(q, p, n)
              \/ \E f, v : PatchPart(q, p, f, v)
         \/ SyncFromCadport(q)
  PROVE  TotalsInvariant'
<1>1. ASSUME NEW p \in Synced, NEW m \in Masses \cup {Nil}, PatchMass(q, p, m)
      PROVE  TotalsInvariant'
  <2>1. Weigh(q, "astra", p, m) /\ UNCHANGED <<item, asm, stale>>
    BY <1>1 DEF PatchMass
  <2> QED BY <2>1, Weighs, RollBegins
<1>2. ASSUME NEW p \in Synced, NEW n \in PartNames, PatchName(q, p, n)
      PROVE  TotalsInvariant'
  <2>w. PICK want : want = [item[p] EXCEPT !.name = n]
    OBVIOUS
  <2>1. /\ Becomes(q, Editing("astra", p, want, NoTotals, {"name"}))
        /\ UNCHANGED <<item, asm, stale>>
    BY <1>2, <2>w DEF PatchName
  <2>2. "mass" \notin {"name"}
    OBVIOUS
  <2> QED BY <2>1, <2>2, RollBegins
<1>3. ASSUME NEW p \in Synced, NEW f, NEW v, PatchPart(q, p, f, v)
      PROVE  TotalsInvariant'
  <2>w. PICK want : want = [item[p] EXCEPT ![f] = v]
    OBVIOUS
  <2> PICK news : news = IF f = "material" THEN {"material"} ELSE {}
    OBVIOUS
  <2>1. /\ Becomes(q, Editing("astra", p, want, NoTotals, news))
        /\ UNCHANGED <<item, asm, stale>>
    BY <1>3, <2>w DEF PatchPart
  <2>2. "mass" \notin news
    OBVIOUS
  <2> QED BY <2>1, <2>2, RollBegins
<1>4. CASE SyncFromCadport(q)
  <2> PICK p : p = edit[q].part
    OBVIOUS
  <2> PICK v : v = edit[q].value
    OBVIOUS
  <2>1. p \in Synced /\ UNCHANGED <<item, asm, stale>>
    BY <1>4 DEF CadportTypes, EditOK, SyncFromCadport
  <2>2. CASE edit[q].field = "name"
    <3>w. PICK want : want = [item[p] EXCEPT !.name = v]
      OBVIOUS
    <3>1. Becomes(q, Editing("cadport", p, want, NoTotals, {"name"}))
      BY <1>4, <2>2, <3>w DEF SyncFromCadport
    <3>2. "mass" \notin {"name"}
      OBVIOUS
    <3> QED BY <2>1, <3>1, <3>2, RollBegins
  <2>3. CASE edit[q].field = "mass"
    <3>1. Weigh(q, "cadport", p, v) /\ v \in Masses
      BY <1>4, <2>3 DEF SyncFromCadport, CadportTypes, EditOK
    <3> QED BY <2>1, <3>1, Weighs, RollBegins
  <2> QED BY <1>4, <2>2, <2>3 DEF SyncFromCadport
<1> QED BY <1>1, <1>2, <1>3, <1>4

LEMMA PassSteps ==
  ASSUME CadportAssumption, CadportTypes, TotalsInvariant, NEW q \in Editors,
         \/ \E p \in Synced : CadDelete(q, p) \/ \E f, v : CadEdit(q, p, f, v)
         \/ FailEdit(q) \/ Send(q) \/ Lose(q)
  PROVE  TotalsInvariant'
<1>1. ASSUME NEW e, e.op # "commit", Becomes(q, e), UNCHANGED <<item, asm, stale>>
      PROVE  TotalsInvariant'
  <2>1. Others(q) /\ edit'[q] = e /\ Overtaken(q, {})
    BY <1>1, NobodyOvertaken
  <2>2. RollOK(q)'
    BY <1>1, <2>1 DEF RollOK, Writing
  <2> QED BY <1>1, <2>1, <2>2, RollsUnchanged
<1>2. ASSUME NEW p \in Synced, NEW f, NEW v,
             CadDelete(q, p) \/ CadEdit(q, p, f, v)
      PROVE  TotalsInvariant'
  <2>1. \A g, x : [op |-> "arrive", part |-> p, field |-> g, value |-> x].op # "commit"
    OBVIOUS
  <2> QED BY <1>1, <1>2, <2>1 DEF CadDelete, CadEdit
<1>3. CASE FailEdit(q) \/ Send(q) \/ Lose(q)
  <2> PICK done : done = [op |-> "done"]
    OBVIOUS
  <2>1. Becomes(q, done) /\ UNCHANGED <<item, asm, stale>>
    BY <1>3 DEF FailEdit, AfterFailure, Send, Lose
  <2> QED BY <1>1, <2>1
<1> QED BY <1>2, <1>3

LEMMA RowDeletedTotals ==
  ASSUME CadportAssumption, CadportTypes, TotalsInvariant, NEW q \in Editors, NEW p \in Synced,
         NEW As, NEW e, e.op # "commit", edit' = [Overtake(As) EXCEPT ![q] = e],
         Vanishes(p), UNCHANGED asm,
         As = Holding(p) \/ item[p].deleted, stale \cup As \subseteq stale'
  PROVE  TotalsInvariant'
<1>1. Others(q) /\ edit'[q] = e /\ Overtaken(q, As)
  BY AllOvertaken DEF TotalsInvariant
<1>2. RollOK(q)'
  BY <1>1 DEF RollOK, Writing
<1>3. /\ DOMAIN item' = Synced /\ \A x \in Synced \ {p} : item'[x] = item[x]
      /\ item'[p].mass = item[p].mass /\ item'[p].inertia = item[p].inertia
      /\ item'[p].deleted
  BY DEF Vanishes, Columns, Sent
<1>4. ASSUME NEW a \in Assemblies \ As PROVE SameAssembly(a)
  <2>1. \A c \in asm[a].comps : c.part \in Synced
    BY DEF TotalsInvariant, CadportAssumption
  <2>2. ASSUME NEW c \in asm[a].comps PROVE SameMass(item'[c.part], item[c.part])
    <3>1. CASE c.part # p
      BY <1>3, <2>1, <3>1 DEF SameMass
    <3>2. CASE c.part = p
      <4>1. item[p].deleted
        BY <1>4, <3>2 DEF Holding
      <4>2. item[p].deleted = item'[p].deleted
        <5>1. item[p].deleted \in BOOLEAN
          BY DEF CadportTypes, RowOK
        <5>2. item'[p].deleted \in BOOLEAN /\ item'[p].deleted
          BY <1>3 DEF Vanishes, RowOK
        <5> QED BY <4>1, <5>1, <5>2
      <4> QED BY <1>3, <3>2, <4>2 DEF SameMass
    <3> QED BY <3>1, <3>2
  <2> QED BY <2>2 DEF SameAssembly
<1>5. /\ DOMAIN asm' = Assemblies
      /\ \A a \in Assemblies : /\ asm'[a] = [comps |-> asm'[a].comps, total |-> asm'[a].total]
                               /\ asm'[a].comps \in Components
  BY DEF TotalsInvariant
<1> QED BY <1>1, <1>2, <1>3, <1>4, <1>5, TotalsStay

LEMMA OvertakingSteps ==
  ASSUME CadportAssumption, CadportTypes, TotalsInvariant, NEW q \in Editors,
         \/ \E p \in Synced : DeleteCatalogPart(q, p) \/ EraseCatalogPart(q, p)
         \/ SyncDelete(q)
         \/ \E a \in Assemblies, comps \in Components : ImportAssembly(q, a, comps)
  PROVE  TotalsInvariant'
<1>1. ASSUME NEW p \in Synced, DeleteCatalogPart(q, p) PROVE TotalsInvariant'
  <2> PICK e : e = [op |-> "send", part |-> p, news |-> {"exists"}, row |-> Nil]
    OBVIOUS
  <2>1. e.op # "commit"
    OBVIOUS
  <2>2. /\ Vanishes(p) /\ UNCHANGED asm
        /\ edit' = [Overtake(Holding(p)) EXCEPT ![q] = e]
        /\ stale \cup Holding(p) \subseteq stale'
    BY <1>1, RowGone DEF DeleteCatalogPart
  <2> QED BY <2>1, <2>2, RowDeletedTotals
<1>2. CASE SyncDelete(q)
  <2> PICK done : done = [op |-> "done"]
    OBVIOUS
  <2> PICK p : p = edit[q].part
    OBVIOUS
  <2> PICK As : As = IF item[p].deleted THEN {} ELSE Holding(p)
    OBVIOUS
  <2>1. done.op # "commit" /\ (As = Holding(p) \/ item[p].deleted)
    OBVIOUS
  <2>2. /\ p \in Synced /\ item' = [item EXCEPT ![p].deleted = TRUE] /\ UNCHANGED asm
        /\ edit' = [Overtake(As) EXCEPT ![q] = done]
        /\ stale \cup As \subseteq stale'
    BY <1>2 DEF SyncDelete, CadportTypes, EditOK
  <2>3. Vanishes(p)
    BY <2>2, RowGone
  <2> QED BY <2>1, <2>2, <2>3, RowDeletedTotals
<1>4. ASSUME NEW p \in Synced, EraseCatalogPart(q, p) PROVE TotalsInvariant'
  <2> PICK done : done = [op |-> "done"]
    OBVIOUS
  <2> PICK As : As = IF item[p].deleted THEN {} ELSE Holding(p)
    OBVIOUS
  <2>1. done.op # "commit" /\ (As = Holding(p) \/ item[p].deleted)
    OBVIOUS
  <2>2. /\ Vanishes(p) /\ UNCHANGED asm /\ edit' = [Overtake(As) EXCEPT ![q] = done]
        /\ stale \cup As \subseteq stale'
    BY <1>4, RowGone DEF EraseCatalogPart
  <2> QED BY <2>1, <2>2, RowDeletedTotals
<1>3. ASSUME NEW a \in Assemblies, NEW comps \in Components, ImportAssembly(q, a, comps)
      PROVE  TotalsInvariant'
  <2> PICK done : done = [op |-> "done"]
    OBVIOUS
  <2> PICK t : t = CadTotal(comps)
    OBVIOUS
  <2>1. /\ edit' = [Overtake({a}) EXCEPT ![q] = done] /\ UNCHANGED item
        /\ stale' = stale \cup {a}
        /\ asm' = [asm EXCEPT ![a] = [comps |-> comps, total |-> t]]
    BY <1>3 DEF ImportAssembly
  <2>2. Others(q) /\ edit'[q] = done /\ Overtaken(q, {a})
    BY <2>1, AllOvertaken DEF TotalsInvariant
  <2>3. RollOK(q)'
    BY <2>2 DEF RollOK, Writing
  <2>4. /\ DOMAIN asm' = Assemblies
        /\ \A b \in Assemblies : /\ asm'[b] = [comps |-> asm'[b].comps, total |-> asm'[b].total]
                                 /\ asm'[b].comps \in Components
    BY <2>1 DEF TotalsInvariant
  <2>5. \A b \in Assemblies \ {a} : SameAssembly(b)
    BY <2>1 DEF SameAssembly, SameMass, TotalsInvariant
  <2>6. DOMAIN item' = Synced /\ stale \cup {a} \subseteq stale'
    BY <2>1 DEF CadportTypes
  <2> QED BY <2>2, <2>3, <2>4, <2>5, <2>6, TotalsStay
<1> QED BY <1>1, <1>2, <1>3, <1>4

LEMMA CommitTotals ==
  ASSUME CadportAssumption, CadportTypes, TotalsInvariant, NEW q \in Editors, CommitEdit(q)
  PROVE  TotalsInvariant'
<1>e. PICK e : e = edit[q]
  OBVIOUS
<1>p. PICK p : p = e.part
  OBVIOUS
<1>w. PICK w : w = Applied(item[p], e.saw, e.want)
  OBVIOUS
<1>A. PICK As : As = e.held \cup Affected(q)
  OBVIOUS
<1>1. /\ p \in Synced /\ DOMAIN item = Synced /\ RowOK(item[p])
      /\ RowOK(e.saw) /\ RowOK(e.want) /\ e.saw.deleted = e.want.deleted
      /\ DOMAIN e.totals = e.held
      /\ \A a \in e.held \ e.overtaken : RolledUp(e, a)
  BY <1>e, <1>p DEF CadportTypes, EditOK, TotalsInvariant, RollOK, Writing, CommitEdit
<1>2. /\ item' = [item EXCEPT ![p] = w]
      /\ asm' = [a \in Assemblies |->
                   IF a \in DOMAIN e.totals /\ e.totals[a] # e.sawTotals[a]
                   THEN [asm[a] EXCEPT !.total = e.totals[a]] ELSE asm[a]]
      /\ stale' = (stale \ (e.held \ e.overtaken)) \cup (e.held \cap e.overtaken)
                  \cup (Affected(q) \ e.held)
  BY <1>e, <1>p, <1>w DEF CommitEdit
<1>3. /\ DOMAIN item' = Synced /\ item'[p] = w /\ \A x \in Synced \ {p} : item'[x] = item[x]
  BY <1>1, <1>2
<1>4. Others(q) /\ Overtaken(q, As) /\ edit'[q].op # "commit"
  <2> PICK next : next = IF e.from = "astra"
                         THEN [op |-> "send", part |-> p, news |-> e.news, row |-> item'[p]]
                         ELSE [op |-> "done"]
    OBVIOUS
  <2>1. next.op # "commit"
    OBVIOUS
  <2>2. edit' = [Overtake(As) EXCEPT ![q] = next]
    BY <1>e, <1>p, <1>A DEF CommitEdit
  <2> QED BY <2>1, <2>2, AllOvertaken DEF TotalsInvariant
<1>5. /\ w.mass = IF e.saw.mass = e.want.mass THEN item[p].mass ELSE e.want.mass
      /\ w.inertia = IF e.saw.inertia = e.want.inertia THEN item[p].inertia ELSE e.want.inertia
      /\ w.deleted = item[p].deleted
  BY <1>1, <1>w, RowApplied DEF Columns
<1>6. ASSUME NEW a \in Assemblies
      PROVE  /\ asm'[a] = [comps |-> asm'[a].comps, total |-> asm'[a].total]
             /\ asm'[a].comps = asm[a].comps /\ asm'[a].comps \in Components
             /\ a \notin e.held => asm'[a] = asm[a]
             /\ a \in e.held /\ e.sawTotals[a] = asm[a].total => asm'[a].total = e.totals[a]
  <2>1. asm[a] = [comps |-> asm[a].comps, total |-> asm[a].total] /\ asm[a].comps \in Components
    BY DEF TotalsInvariant
  <2>2. asm'[a] = IF a \in e.held /\ e.totals[a] # e.sawTotals[a]
                  THEN [asm[a] EXCEPT !.total = e.totals[a]] ELSE asm[a]
    BY <1>1, <1>2
  <2>3. CASE a \in e.held /\ e.totals[a] # e.sawTotals[a]
    <3>1. asm'[a] = [comps |-> asm[a].comps, total |-> e.totals[a]]
      BY <2>1, <2>2, <2>3
    <3>2. asm'[a].comps = asm[a].comps /\ asm'[a].total = e.totals[a]
      BY <3>1
    <3> QED BY <2>1, <2>3, <3>1, <3>2
  <2>4. CASE ~(a \in e.held /\ e.totals[a] # e.sawTotals[a])
    <3>1. asm'[a] = asm[a]
      BY <2>2, <2>4
    <3> QED BY <2>1, <2>4, <3>1
  <2> QED BY <2>3, <2>4
<1>7. ASSUME NEW a \in Assemblies \ As PROVE SameAssembly(a)
  <2>1. asm'[a] = asm[a]
    BY <1>6, <1>7, <1>A
  <2>2. ASSUME NEW c \in asm[a].comps PROVE SameMass(item'[c.part], item[c.part])
    <3>1. c.part \in Synced
      BY <1>6 DEF CadportAssumption
    <3>2. CASE c.part # p
      BY <1>3, <3>1, <3>2 DEF SameMass
    <3>3. CASE c.part = p
      <4>1. a \notin Affected(q) /\ a \in Holding(p)
        BY <1>7, <1>A, <3>3 DEF Holding
      <4>2. e.want.mass = e.saw.mass /\ e.want.inertia = e.saw.inertia
        BY <1>e, <1>p, <4>1 DEF Affected
      <4> QED BY <1>3, <1>5, <3>3, <4>2 DEF SameMass
    <3> QED BY <3>2, <3>3
  <2> QED BY <2>1, <2>2 DEF SameAssembly
<1>8. ASSUME NEW r \in Editors PROVE RollOK(r)'
  <2>1. CASE r = q
    BY <1>4, <2>1 DEF RollOK, Writing
  <2>2. CASE r # q
    BY <1>3, <1>4, <1>7, <2>2, RollsStay
  <2> QED BY <2>1, <2>2
<1>9. ASSUME NEW a \in Assemblies \ stale' PROVE asm'[a].total = Total(asm'[a].comps, item')
  <2>1. CASE a \in e.held
    <3>1. RolledUp(e, a)
      BY <1>1, <1>2, <1>9, <2>1
    <3>2. asm'[a].total = e.totals[a] /\ asm'[a].comps = asm[a].comps
      <4>1. e.sawTotals[a] = asm[a].total
        BY <3>1 DEF RolledUp
      <4> QED BY <1>6, <2>1, <4>1
    <3> PICK rows : rows = [item EXCEPT ![p] = e.want]
      OBVIOUS
    <3>3. e.totals[a] = Total(asm[a].comps, rows)
      BY <1>p, <3>1 DEF RolledUp
    <3>4. SameMass(w, e.want)
      BY <1>1, <1>5, <1>p, <3>1 DEF RolledUp, SameMass
    <3>5. \A c \in asm[a].comps : SameMass(item'[c.part], rows[c.part])
      <4>1. \A c \in asm[a].comps : c.part \in Synced
        BY <1>6 DEF CadportAssumption
      <4>2. \A x \in Synced : rows[x] = IF x = p THEN e.want ELSE item[x]
        BY <1>1
      <4> QED BY <1>3, <3>4, <4>1, <4>2 DEF SameMass
    <3>6. Total(asm[a].comps, item') = Total(asm[a].comps, rows)
      BY <3>5, SameTotal
    <3> QED BY <3>2, <3>3, <3>6
  <2>2. CASE a \notin e.held
    <3>1. a \notin stale /\ a \notin As
      BY <1>2, <1>9, <1>A, <2>2
    <3> QED BY <1>7, <1>9, <3>1, TotalStays DEF TotalsInvariant, TotalsAreCurrent
  <2> QED BY <2>1, <2>2
<1>10. /\ DOMAIN asm' = Assemblies
       /\ \A a \in Assemblies : /\ asm'[a] = [comps |-> asm'[a].comps, total |-> asm'[a].total]
                                /\ asm'[a].comps \in Components
  <2>1. ASSUME NEW a \in Assemblies
        PROVE  /\ asm'[a] = [comps |-> asm'[a].comps, total |-> asm'[a].total]
               /\ asm'[a].comps \in Components
    BY <1>6
  <2> QED BY <1>2, <2>1, Zenon
<1> QED BY <1>8, <1>9, <1>10 DEF TotalsInvariant, TotalsAreCurrent

\* An assembly's total is that of its parts, whatever part was edited on whatever
\* side (rerollup_assemblies_containing_part), unless no request that saw all of
\* them has rolled it up; for any number of parts, assemblies and requests.
THEOREM TotalsCurrent ==
  ASSUME CadportAssumption PROVE CadportSpec => []TotalsAreCurrent
<1>1. CadportInit => TotalsInvariant
  <2> SUFFICES ASSUME CadportInit PROVE TotalsInvariant
    OBVIOUS
  <2>1. asm \in [Assemblies -> {[comps |-> s, total |-> Total(s, SeedPart)] : s \in Components}]
    BY DEF CadportInit
  <2>2. ASSUME NEW a \in Assemblies
        PROVE  /\ asm[a] = [comps |-> asm[a].comps, total |-> asm[a].total]
               /\ asm[a].comps \in Components /\ asm[a].total = Total(asm[a].comps, item)
    <3>1. PICK s \in Components : asm[a] = [comps |-> s, total |-> Total(s, SeedPart)]
      BY <2>1
    <3> QED BY <3>1 DEF CadportInit
  <2>3. \A q \in Editors : RollOK(q)
    BY DEF CadportInit, RollOK, Writing
  <2> QED BY <2>1, <2>2, <2>3 DEF TotalsInvariant, TotalsAreCurrent
<1>2. TotalsInvariant /\ CadportInvariant /\ [CadportNext]_cadportVars => TotalsInvariant'
  <2> SUFFICES ASSUME TotalsInvariant, CadportInvariant, [CadportNext]_cadportVars
               PROVE  TotalsInvariant'
    OBVIOUS
  <2>1. CadportTypes
    BY DEF CadportInvariant
  <2>2. CASE UNCHANGED cadportVars
    BY <2>2 DEF cadportVars, TotalsInvariant, TotalsAreCurrent, RollOK, RolledUp, Holding
  <2> QED BY <2>1, <2>2, RollSteps, PassSteps, OvertakingSteps, CommitTotals DEF CadportNext
<1>3. TotalsInvariant => TotalsAreCurrent
  BY DEF TotalsInvariant
<1> QED BY <1>1, <1>2, <1>3, CadportHolds, PTL DEF CadportSpec

=============================================================================
