---------------------------- MODULE NumbersProofs ----------------------------
(***************************************************************************)
(* Theorems about IdSequence, for any number of concurrent transactions,   *)
(* batches and count + 1 writers, and any legacy rows: no number is ever   *)
(* committed by two calls of next_human_id, with no unique constraint to   *)
(* fall back on and whichever rows and transactions roll back. And about   *)
(* PartsLibrary, for any number of requests, files and parser tasks; about *)
(* PartNumbers, for any number of requests, workers and faults; about      *)
(* EngineeringRevisions, for any number of requests, items, revisions and  *)
(* parts, whatever fails and whatever files are lost; and about            *)
(* WorkbookImport, for sheets of any length.                               *)
(***************************************************************************)
EXTENDS IdSequence, PartsLibrary, PartNumbers, EngineeringRevisions, WorkbookImport,
        Induction, FiniteSetTheorems, SequenceTheorems, TLAPS
---------------------------------------------------------------------------
(* Ids *)

LEMMA InitInvariant == Init => IdInvariant
<1> SUFFICES ASSUME Init PROVE IdInvariant
  OBVIOUS
<1>1. TypeOK
  BY IdAssumption DEF Init, At, TypeOK, CallRecord
<1>2. AllFinite
  BY IdAssumption, FS_EmptySet, Zenon DEF Init, At, AllFinite
<1>3. HolderOnly /\ PastCommitted /\ MintedOnce
  BY DEF Init, At, HolderOnly, PastCommitted, MintedOnce
<1> QED BY <1>1, <1>2, <1>3 DEF IdInvariant

\* Steps that change neither rows, nor minted, nor next_value, nor the numbers
\* of a call.
LEMMA SelectKeepsInvariant ==
  ASSUME IdInvariant, NEW c \in Calls,
         \/ \E count \in 1 .. MaxRows : Begin(c, count)
         \/ SelectForUpdate(c) \/ SelectMissing(c) \/ ScanExisting(c)
         \/ InsertSequence(c)
  PROVE  IdInvariant'
<1> USE IdAssumption DEF IdInvariant, CallRecord, TypeOK, AllFinite, HolderOnly, PastCommitted, MintedOnce
<1>1. CASE \E count \in 1 .. MaxRows : Begin(c, count)
  BY <1>1, FS_EmptySet DEF Begin, At
<1>2. CASE SelectForUpdate(c)
  <2>1. PICK seen \in Nat \ {0} :
          /\ call' = [call EXCEPT ![c].pc = "numbered", ![c].n = seen]
          /\ seen = IF call[c].next # 0 THEN call[c].next ELSE next_value
    BY <1>2 DEF SelectForUpdate
  <2>2. lock \in {c, Nobody} /\ lock' = c /\ call[c].pc = "idle" /\ call[c].left > 0
    BY <1>2 DEF SelectForUpdate, Lockable
  <2>3. UNCHANGED <<unique, next_value, rows, minted, counter, faults>>
    BY <1>2 DEF SelectForUpdate
  <2>4. TypeOK' /\ AllFinite' /\ MintedOnce'
    <3>1. \A d \in Calls : call'[d].mine = call[d].mine
      BY <2>1
    <3>2. AllFinite'
      <4>1. \A d \in Calls : IsFiniteSet(call[d].mine)
        OBVIOUS
      <4>2. \A d \in Calls : IsFiniteSet(call'[d].mine)
        BY <3>1, <4>1
      <4> QED BY <4>2, <2>3
    <3>3. TypeOK'
      <4>1. call[c] \in CallRecord
        OBVIOUS
      <4>2. [call[c] EXCEPT !.pc = "numbered", !.n = seen] \in CallRecord
        BY <4>1 DEF CallRecord
      <4>3. call' \in [Calls -> CallRecord]
        BY <2>1, <4>2
      <4> QED BY <4>3, <2>2, <2>3
    <3> QED BY <3>2, <3>3, <2>3
  <2>5. HolderOnly'
    BY <2>1, <2>2, <2>3
  <2>6. PastCommitted'
    BY <2>1, <2>2, <2>3
  <2> QED BY <2>4, <2>5, <2>6
<1>3. CASE SelectMissing(c)
  BY <1>3 DEF SelectMissing
<1>4. CASE ScanExisting(c)
  <2>1. PICK k \in Nat \ {0} : call' = [call EXCEPT ![c].pc = "seeding", ![c].n = k]
    <3>1. PICK m \in Nat : call' = [call EXCEPT ![c].pc = "seeding", ![c].n = m + 1]
      BY <1>4 DEF ScanExisting
    <3>2. m + 1 \in Nat \ {0}
      OBVIOUS
    <3> QED BY <3>1, <3>2
  <2>2. UNCHANGED <<unique, next_value, lock, rows, minted, counter, faults>> /\ call[c].pc = "missing"
    BY <1>4 DEF ScanExisting
  <2>3. TypeOK' /\ AllFinite' /\ MintedOnce'
    <3>1. \A d \in Calls : call'[d].mine = call[d].mine
      BY <2>1
    <3>2. AllFinite'
      <4>1. \A d \in Calls : IsFiniteSet(call[d].mine)
        OBVIOUS
      <4>2. \A d \in Calls : IsFiniteSet(call'[d].mine)
        BY <3>1, <4>1
      <4> QED BY <4>2, <2>2
    <3>3. TypeOK'
      <4>1. call[c] \in CallRecord
        OBVIOUS
      <4>2. [call[c] EXCEPT !.pc = "seeding", !.n = k] \in CallRecord
        BY <4>1
      <4>3. call' \in [Calls -> CallRecord]
        BY <2>1, <4>2
      <4> QED BY <4>3, <2>2
    <3> QED BY <3>2, <3>3, <2>2
  <2>4. HolderOnly' /\ PastCommitted'
    BY <2>1, <2>2
  <2> QED BY <2>3, <2>4
<1>5. CASE InsertSequence(c)
  BY <1>5 DEF InsertSequence
<1> QED BY <1>1, <1>2, <1>3, <1>4, <1>5

LEMMA InsertRowKeepsInvariant ==
  ASSUME IdInvariant, NEW c \in Calls, InsertRow(c)
  PROVE  IdInvariant'
<1> USE IdAssumption DEF IdInvariant, CallRecord, TypeOK, AllFinite, HolderOnly, PastCommitted, MintedOnce
<1> DEFINE n == call[c].n
<1>1. n \in Nat /\ n # 0 /\ call[c].left - 1 \in Nat
  BY DEF InsertRow
<1>2. IsFiniteSet(call[c].mine \cup {n})
  BY FS_AddElement
<1> QED BY <1>1, <1>2 DEF InsertRow, Increment

\* A row that fails leaves its transaction as the savepoint found it, or ends it.
LEMMA FailKeepsInvariant ==
  ASSUME IdInvariant, NEW c \in Calls, RowConflicts(c) \/ RowFails(c)
  PROVE  IdInvariant'
<1> USE IdAssumption DEF IdInvariant, CallRecord, TypeOK, AllFinite, HolderOnly, PastCommitted, MintedOnce
<1>1. call[c].pc \in {"missing", "seeding", "numbered"} /\ call[c].left - 1 \in Nat
  BY DEF RowConflicts, RowFails, Conflict
<1>2. FailRow(c) /\ faults' \in 0 .. MaxFaults
  BY DEF RowConflicts, RowFails
<1>3. CASE c \in Batches
  BY <1>1, <1>2, <1>3 DEF FailRow, AfterRowFailed
<1>4. CASE c \notin Batches
  BY <1>1, <1>2, <1>4, FS_EmptySet DEF FailRow, At
<1> QED BY <1>3, <1>4

LEMMA CommitKeepsInvariant ==
  ASSUME IdInvariant, NEW c \in Calls, Commit(c)
  PROVE  IdInvariant'
<1> USE IdAssumption DEF IdInvariant, CallRecord, TypeOK, AllFinite, HolderOnly, PastCommitted, MintedOnce
<1>1. TypeOK'
  <2>1. {[number |-> n, by |-> c] : n \in call[c].mine} \subseteq [number : Nat \ {0}, by : Calls]
    OBVIOUS
  <2>2. next_value' \in Nat /\ lock' \in Calls \cup {Nobody} /\ rows' \subseteq Nat
    BY DEF Commit
  <2>3. minted' \subseteq [number : Nat \ {0}, by : Calls]
    BY <2>1 DEF Commit
  <2>4. call' \in [Calls -> CallRecord]
    BY DEF Commit, At, CallRecord
  <2> QED BY <2>2, <2>3, <2>4 DEF Commit
<1>2. AllFinite'
  BY FS_Union, FS_EmptySet DEF Commit, At
<1>3. HolderOnly'
  BY DEF Commit, At
<1>4. PastCommitted'
  <2>1. CASE call[c].next = 0
    BY <2>1 DEF Commit, At
  <2>2. CASE call[c].next # 0
    BY <2>2 DEF Commit, At
  <2> QED BY <2>1, <2>2
<1>5. MintedOnce'
  BY DEF Commit
<1> QED BY <1>1, <1>2, <1>3, <1>4, <1>5

LEMMA CrashKeepsInvariant ==
  ASSUME IdInvariant, NEW c \in Calls, Crash(c)
  PROVE  IdInvariant'
BY IdAssumption, FS_EmptySet
DEF Crash, At, IdInvariant, CallRecord, TypeOK, AllFinite, HolderOnly, PastCommitted, MintedOnce

LEMMA OthersKeepInvariant ==
  ASSUME IdInvariant,
         \/ \E k \in Counters : CountRows(k) \/ InsertCounted(k)
         \/ \E n \in rows : DeleteRow(n)
  PROVE  IdInvariant'
<1> USE IdAssumption DEF IdInvariant, CallRecord, TypeOK, AllFinite, HolderOnly, PastCommitted, MintedOnce
<1>1. ASSUME NEW k \in Counters, CountRows(k) PROVE IdInvariant'
  <2>1. Cardinality(rows) + 1 \in Nat
    BY FS_CardinalityType
  <2> QED BY <1>1, <2>1 DEF CountRows
<1>2. ASSUME NEW k \in Counters, InsertCounted(k) PROVE IdInvariant'
  <2>1. IsFiniteSet(rows \cup {counter[k].n})
    BY FS_AddElement
  <2> QED BY <1>2, <2>1 DEF InsertCounted
<1>3. ASSUME NEW n \in rows, DeleteRow(n) PROVE IdInvariant'
  <2>1. IsFiniteSet(rows \ {n})
    BY FS_RemoveElement
  <2> QED BY <1>3, <2>1 DEF DeleteRow
<1> QED BY <1>1, <1>2, <1>3

\* Only the holder of the id_sequences row has numbers that are not committed,
\* and they are past the committed ones (next_human_id and its rollbacks).
THEOREM HolderHasTheNumbers == Spec => []IdInvariant
<1>1. IdInvariant /\ [Next]_vars => IdInvariant'
  <2>1. CASE UNCHANGED vars
    BY <2>1 DEF vars, IdInvariant, CallRecord, TypeOK, AllFinite, HolderOnly, PastCommitted, MintedOnce
  <2> QED BY <2>1, SelectKeepsInvariant, InsertRowKeepsInvariant, FailKeepsInvariant,
             CommitKeepsInvariant, CrashKeepsInvariant, OthersKeepInvariant
          DEF Next, CallStep
<1> QED BY InitInvariant, <1>1, PTL DEF Spec

\* No number is committed by two calls of next_human_id, or taken again after
\* the row that had it was deleted.
THEOREM NumbersAreMintedOnce == Spec => []MintedOnce
<1>1. IdInvariant => MintedOnce
  BY DEF IdInvariant
<1> QED BY <1>1, HolderHasTheNumbers, PTL
---------------------------------------------------------------------------
(* The parts library *)

PartRow ==
  [wpn : [base : Nat, rev : Nat], size : Sizes, status : {"draft", "approved", "superseded"},
   next : Nat \cup {Null}, file : Files \cup {Null}]
ImportRow ==
  [file : Files, status : {"pending", "under_review", "approved", "rejected"},
   part : Nat \cup {Null}]

\* A number is below the next one, and a revision points to a row.
LibOK ==
  /\ lib \in Seq(PartRow) /\ nextVal \in Nat
  /\ \A p \in DOMAIN lib : lib[p].wpn.base < nextVal /\ lib[p].next \in DOMAIN lib \cup {Null}
UploadsOK == uploads \in Seq(ImportRow)

\* What a request has read: the number of the part it revises is still the part's.
HandlerOK(q) ==
  /\ libCall[q].op \in {"revise", "write"} =>
       libCall[q].part \in DOMAIN lib /\ libCall[q].size \in Sizes
  /\ libCall[q].op = "revise" =>
       libCall[q].saw \in PartRow /\ libCall[q].saw.wpn = lib[libCall[q].part].wpn
  /\ libCall[q].op = "store" => libCall[q].file \in Files
  /\ libCall[q].op = "approve" => libCall[q].size \in Sizes
  /\ libCall[q].op \in {"approve", "reject"} => libCall[q].import \in DOMAIN uploads

LibraryInvariant ==
  /\ LibOK /\ UploadsOK
  /\ DOMAIN libCall = LibraryCalls /\ \A q \in LibraryCalls : HandlerOK(q)
  /\ RevisionsChain

LEMMA LibraryStart == LibraryInit => LibraryInvariant
BY DEF LibraryInit, LibraryInvariant, LibOK, UploadsOK, HandlerOK, RevisionsChain

\* Rows and their numbers stay, whoever writes.
LEMMA HandlersKept ==
  ASSUME LibraryInvariant, NEW q \in LibraryCalls, NEW next,
         libCall' = [libCall EXCEPT ![q] = next],
         next.op \notin {"revise", "write", "store", "approve", "reject"} \/ HandlerOK(q)',
         DOMAIN lib \subseteq DOMAIN lib', \A p \in DOMAIN lib : lib'[p].wpn = lib[p].wpn,
         DOMAIN uploads \subseteq DOMAIN uploads'
  PROVE  DOMAIN libCall' = LibraryCalls /\ \A o \in LibraryCalls : HandlerOK(o)'
<1>1. /\ DOMAIN libCall' = LibraryCalls /\ libCall'[q] = next
      /\ \A o \in LibraryCalls \ {q} : libCall'[o] = libCall[o]
  BY DEF LibraryInvariant
<1>2. HandlerOK(q)'
  BY <1>1 DEF HandlerOK
<1>3. \A o \in LibraryCalls \ {q} : HandlerOK(o)'
  BY <1>1 DEF LibraryInvariant, HandlerOK
<1> QED BY <1>1, <1>2, <1>3

\* A request reads, or a row of an import is written.
LEMMA LibLeftAlone ==
  ASSUME LibraryInvariant, UNCHANGED <<lib, nextVal>>
  PROVE  LibOK' /\ RevisionsChain'
BY DEF LibraryInvariant, LibOK, RevisionsChain

LEMMA ReadStep ==
  ASSUME LibraryInvariant, NEW q \in LibraryCalls, NEW next,
         libCall' = [libCall EXCEPT ![q] = next], UNCHANGED <<lib, nextVal, uploads>>,
         next.op \in {"revise", "write"} => next.part \in DOMAIN lib /\ next.size \in Sizes,
         next.op = "revise" => next.saw = lib[next.part],
         next.op = "store" => next.file \in Files,
         next.op = "approve" => next.size \in Sizes,
         next.op \in {"approve", "reject"} => next.import \in DOMAIN uploads
  PROVE  LibraryInvariant'
<1>1. libCall'[q] = next
  BY DEF LibraryInvariant
<1>2. next.op = "revise" => next.saw \in PartRow /\ next.saw.wpn = lib[next.part].wpn
  BY DEF LibraryInvariant, LibOK
<1>3. HandlerOK(q)'
  BY <1>1, <1>2 DEF HandlerOK
<1>4. DOMAIN libCall' = LibraryCalls /\ \A o \in LibraryCalls : HandlerOK(o)'
  BY <1>3, HandlersKept
<1> QED BY <1>4, LibLeftAlone DEF LibraryInvariant, UploadsOK

LEMMA UploadWritten ==
  ASSUME LibraryInvariant, NEW i \in DOMAIN uploads,
         NEW status \in {"pending", "under_review", "approved", "rejected"},
         uploads' = [uploads EXCEPT ![i].status = status]
  PROVE  UploadsOK' /\ DOMAIN uploads' = DOMAIN uploads
<1>1. uploads \in Seq(ImportRow) /\ uploads[i] \in ImportRow
  BY DEF LibraryInvariant, UploadsOK
<1>2. [uploads[i] EXCEPT !.status = status] \in ImportRow
  BY <1>1 DEF ImportRow
<1> PICK row : row = [uploads[i] EXCEPT !.status = status]
  OBVIOUS
<1>3. uploads' = [uploads EXCEPT ![i] = row]
  BY <1>1
<1> QED BY <1>1, <1>2, <1>3 DEF UploadsOK

LEMMA ParserStep ==
  ASSUME LibraryInvariant, NEW i \in DOMAIN uploads,
         StartParser(i) \/ FinishParser(i) \/ FailParser(i) \/ LoseParser(i)
  PROVE  LibraryInvariant'
<1>1. UNCHANGED <<lib, nextVal, libCall>>
  BY DEF StartParser, FinishParser, FailParser, LoseParser
<1>2. UploadsOK' /\ DOMAIN uploads' = DOMAIN uploads
  BY UploadWritten DEF StartParser, FinishParser, FailParser, LoseParser, LibraryInvariant, UploadsOK
<1>3. \A q \in LibraryCalls : HandlerOK(q)'
  BY <1>1, <1>2 DEF LibraryInvariant, HandlerOK
<1> QED BY <1>1, <1>2, <1>3, LibLeftAlone DEF LibraryInvariant

LEMMA StoreStep ==
  ASSUME LibraryInvariant, NEW q \in LibraryCalls, Store(q)
  PROVE  LibraryInvariant'
<1> DEFINE new == [file |-> libCall[q].file, status |-> "pending", part |-> Null]
<1>1. /\ uploads' = Append(uploads, new) /\ new \in ImportRow
      /\ UNCHANGED <<lib, nextVal>> /\ libCall' = [libCall EXCEPT ![q] = [op |-> "done"]]
  BY DEF Store, LibraryInvariant, HandlerOK, ImportRow, Returns, Goes
<1>2. UploadsOK' /\ DOMAIN uploads \subseteq DOMAIN uploads'
  <2> HIDE DEF new
  <2> QED BY <1>1 DEF LibraryInvariant, UploadsOK
<1>3. DOMAIN libCall' = LibraryCalls /\ \A o \in LibraryCalls : HandlerOK(o)'
  BY <1>1, <1>2, HandlersKept
<1> QED BY <1>1, <1>2, <1>3, LibLeftAlone DEF LibraryInvariant

\* RevisionsChain, of one row.
Linked(p) ==
  /\ lib[p].wpn.rev > 0 =>
       \E o \in DOMAIN lib : lib[o].status = "superseded" /\ lib[o].next = p
  /\ lib[p].status = "superseded" =>
       lib[p].next # Null /\ lib[lib[p].next].wpn = BumpRevision(lib[p].wpn)
  /\ lib[p].next # Null /\ lib[p].status # "superseded" =>
       lib[p].status = "approved" /\ lib[p].wpn.rev = 0
  /\ \A r \in DOMAIN lib \ {p} : lib[r].wpn # lib[p].wpn

LEMMA LinkedRows ==
  /\ RevisionsChain <=> \A p \in DOMAIN lib : Linked(p)
  /\ RevisionsChain' <=> \A p \in DOMAIN lib' : Linked(p)'
BY Zenon DEF RevisionsChain, Linked

LEMMA RowFacts ==
  ASSUME LibraryInvariant, NEW n \in Nat, n = Len(lib)
  PROVE  /\ lib \in Seq(PartRow) /\ DOMAIN lib = 1 .. n /\ nextVal \in Nat
         /\ \A p \in 1 .. n : /\ lib[p] \in PartRow /\ Linked(p)
                              /\ lib[p].wpn.base < nextVal
                              /\ lib[p].next # Null => lib[p].next \in 1 .. n
<1>1. /\ lib \in Seq(PartRow) /\ DOMAIN lib = 1 .. n /\ nextVal \in Nat
  BY DEF LibraryInvariant, LibOK
<1>2. \A p \in 1 .. n : lib[p] \in PartRow
  BY <1>1
<1>3. \A p \in 1 .. n : Linked(p)
  BY <1>1, LinkedRows DEF LibraryInvariant
<1>4. \A p \in 1 .. n : lib[p].wpn.base < nextVal /\ (lib[p].next # Null => lib[p].next \in 1 .. n)
  BY <1>1 DEF LibraryInvariant, LibOK
<1> QED BY <1>1, <1>2, <1>3, <1>4

\* A part of a new number comes to the end of the table.
LEMMA PartAdded ==
  ASSUME LibraryAssumption, LibraryInvariant, NEW new \in PartRow,
         new.wpn = Wpn(nextVal, 0), new.status # "superseded",
         new.next \in {Null} \cup (1 .. Len(lib) + 1),
         new.next # Null => new.status = "approved",
         lib' = Append(lib, new), nextVal' = nextVal + 1
  PROVE  /\ LibOK' /\ RevisionsChain' /\ DOMAIN lib \subseteq DOMAIN lib'
         /\ \A p \in DOMAIN lib : lib'[p].wpn = lib[p].wpn
<1> PICK n \in Nat : n = Len(lib)
  BY DEF LibraryInvariant, LibOK
<1> PICK m \in Nat : m = n + 1
  OBVIOUS
<1>1. /\ DOMAIN lib = 1 .. n /\ lib' \in Seq(PartRow) /\ DOMAIN lib' = 1 .. m /\ lib'[m] = new
      /\ \A p \in 1 .. n : lib'[p] = lib[p] /\ p \in 1 .. m /\ p # m
      /\ \A p \in 1 .. m : p = m \/ p \in 1 .. n
  BY DEF LibraryInvariant, LibOK
<1>2. new.wpn.base = nextVal /\ new.wpn.rev = 0 /\ nextVal \in Nat
  BY RowFacts DEF Wpn
<1>3. \A p \in 1 .. n : lib[p].wpn # new.wpn
  <2>1. ASSUME NEW p \in 1 .. n PROVE lib[p].wpn # new.wpn
    <3>1. lib[p] \in PartRow /\ lib[p].wpn.base < nextVal
      BY RowFacts
    <3>2. lib[p].wpn.base \in Nat
      BY <3>1 DEF PartRow
    <3>3. lib[p].wpn.base # new.wpn.base
      BY <1>2, <3>1, <3>2
    <3> QED BY <3>3
  <2> QED BY <2>1
<1>4. LibOK'
  <2>1. ASSUME NEW p \in 1 .. n
        PROVE  lib'[p].wpn.base < nextVal' /\ lib'[p].next \in 1 .. m \cup {Null}
    <3>1. lib[p] \in PartRow /\ lib[p].wpn.base < nextVal /\ (lib[p].next # Null => lib[p].next \in 1 .. n)
      BY RowFacts
    <3>2. lib[p].wpn.base \in Nat
      BY <3>1 DEF PartRow
    <3> QED BY <1>1, <1>2, <3>1, <3>2
  <2>2. lib'[m].wpn.base < nextVal' /\ lib'[m].next \in 1 .. m \cup {Null}
    BY <1>1, <1>2
  <2>3. \A p \in 1 .. m : lib'[p].wpn.base < nextVal' /\ lib'[p].next \in 1 .. m \cup {Null}
    BY <1>1, <2>1, <2>2
  <2> QED BY <1>1, <1>2, <2>3 DEF LibOK
<1>5. ASSUME NEW p \in 1 .. n PROVE Linked(p)'
  <2>1. Linked(p) /\ (lib[p].next # Null => lib[p].next \in 1 .. n) /\ lib'[p] = lib[p]
    BY <1>1, RowFacts
  <2>2. ASSUME NEW o \in 1 .. n, lib[o].status = "superseded", lib[o].next = p
        PROVE  \E x \in DOMAIN lib' : lib'[x].status = "superseded" /\ lib'[x].next = p
    BY <1>1, <2>2
  <2>3. lib[p].next # Null => lib'[lib[p].next] = lib[lib[p].next]
    BY <1>1, <2>1
  <2>4. ASSUME NEW r \in DOMAIN lib' \ {p} PROVE lib'[r].wpn # lib'[p].wpn
    <3>1. CASE r = m
      BY <1>1, <1>3, <2>1, <3>1
    <3>2. CASE r \in 1 .. n
      BY <1>1, <2>1, <2>4, <3>2 DEF Linked
    <3> QED BY <1>1, <3>1, <3>2
  <2> QED BY <1>1, <2>1, <2>2, <2>3, <2>4 DEF Linked
<1>6. Linked(m)'
  <2>1. ~(0 > 0)
    OBVIOUS
  <2>2. \A r \in DOMAIN lib' \ {m} : lib'[r].wpn # lib'[m].wpn
    BY <1>1, <1>3
  <2> QED BY <1>1, <1>2, <2>1, <2>2 DEF Linked
<1>7. RevisionsChain'
  BY <1>1, <1>5, <1>6, LinkedRows
<1>8. DOMAIN lib \subseteq DOMAIN lib' /\ \A p \in DOMAIN lib : lib'[p].wpn = lib[p].wpn
  BY <1>1
<1> QED BY <1>4, <1>7, <1>8

LEMMA CreatePartStep ==
  ASSUME LibraryAssumption, LibraryInvariant, NEW q \in LibraryCalls, NEW size \in Sizes,
         CreatePart(q, size)
  PROVE  LibraryInvariant'
<1> DEFINE new == Part(AssignWpn, size, "draft", Null)
<1>1. /\ new \in PartRow /\ new.wpn = Wpn(nextVal, 0) /\ new.status # "superseded"
      /\ new.next = Null
  BY DEF Part, PartRow, AssignWpn, Wpn, LibraryInvariant, LibOK
<1>2. /\ lib' = Append(lib, new) /\ nextVal' = nextVal + 1 /\ UNCHANGED uploads
      /\ libCall' = [libCall EXCEPT ![q] = [op |-> "done"]]
  BY DEF CreatePart, Returns, Goes
<1>3. /\ LibOK' /\ RevisionsChain' /\ DOMAIN lib \subseteq DOMAIN lib'
      /\ \A p \in DOMAIN lib : lib'[p].wpn = lib[p].wpn
  <2> HIDE DEF new
  <2> QED BY <1>1, <1>2, PartAdded
<1>4. DOMAIN libCall' = LibraryCalls /\ \A o \in LibraryCalls : HandlerOK(o)'
  BY <1>2, <1>3, HandlersKept
<1> QED BY <1>2, <1>3, <1>4 DEF LibraryInvariant, UploadsOK

LEMMA CommitApprovalStep ==
  ASSUME LibraryAssumption, LibraryInvariant, NEW q \in LibraryCalls, CommitApproval(q)
  PROVE  LibraryInvariant'
<1> PICK i : i = libCall[q].import
  OBVIOUS
<1> PICK f : f = uploads[i].file
  OBVIOUS
<1> PICK next : /\ next \in {Null} \cup (1 .. Len(lib) + 1)
                /\ lib' = Append(lib, [Part(AssignWpn, libCall[q].size, "approved", f)
                                          EXCEPT !.next = next])
  BY DEF CommitApproval
<1> DEFINE bare == Part(AssignWpn, libCall[q].size, "approved", f)
           new == [bare EXCEPT !.next = next]
<1>1. i \in DOMAIN uploads /\ uploads[i] \in ImportRow /\ libCall[q].size \in Sizes
  BY DEF CommitApproval, LibraryInvariant, HandlerOK, UploadsOK
<1>2. /\ new \in PartRow /\ new.wpn = Wpn(nextVal, 0) /\ new.status = "approved"
      /\ new.next \in {Null} \cup (1 .. Len(lib) + 1)
  <2>1. bare \in PartRow /\ bare.wpn = Wpn(nextVal, 0) /\ bare.status = "approved"
    BY <1>1 DEF Part, PartRow, ImportRow, AssignWpn, Wpn, LibraryInvariant, LibOK
  <2>2. Len(lib) \in Nat /\ next \in Nat \cup {Null}
    BY DEF LibraryInvariant, LibOK
  <2> HIDE DEF bare
  <2> QED BY <2>1, <2>2 DEF PartRow
<1>3. /\ lib' = Append(lib, new) /\ nextVal' = nextVal + 1
      /\ uploads' = [uploads EXCEPT ![i].status = "approved", ![i].part = Len(lib')]
      /\ libCall' = [libCall EXCEPT ![q] = [op |-> "done"]]
  BY DEF CommitApproval, Returns, Goes
<1>4. /\ LibOK' /\ RevisionsChain' /\ DOMAIN lib \subseteq DOMAIN lib'
      /\ \A p \in DOMAIN lib : lib'[p].wpn = lib[p].wpn
  <2> HIDE DEF new
  <2> QED BY <1>2, <1>3, PartAdded
<1>5. UploadsOK' /\ DOMAIN uploads' = DOMAIN uploads
  <2> PICK row : row = [uploads[i] EXCEPT !.status = "approved", !.part = Len(lib')]
    OBVIOUS
  <2>1. Len(lib') \in Nat
    BY <1>4 DEF LibOK
  <2>2. row \in ImportRow
    BY <1>1, <2>1 DEF ImportRow
  <2>3. uploads' = [uploads EXCEPT ![i] = row]
    BY <1>1, <1>3 DEF LibraryInvariant, UploadsOK
  <2> QED BY <1>1, <2>2, <2>3 DEF LibraryInvariant, UploadsOK
<1>6. DOMAIN libCall' = LibraryCalls /\ \A o \in LibraryCalls : HandlerOK(o)'
  BY <1>3, <1>4, <1>5, HandlersKept
<1> QED BY <1>4, <1>5, <1>6 DEF LibraryInvariant

\* A dimension of a row is written in place.
LEMMA WriteStep ==
  ASSUME LibraryInvariant, NEW q \in LibraryCalls, Write(q)
  PROVE  LibraryInvariant'
<1> PICK p : p = libCall[q].part
  OBVIOUS
<1> PICK row : row = [lib[p] EXCEPT !.size = libCall[q].size]
  OBVIOUS
<1>1. /\ p \in DOMAIN lib /\ lib[p] \in PartRow /\ lib \in Seq(PartRow)
      /\ libCall[q].size \in Sizes
  BY DEF Write, LibraryInvariant, HandlerOK, LibOK
<1>2. /\ row \in PartRow /\ row.wpn = lib[p].wpn /\ row.status = lib[p].status
      /\ row.next = lib[p].next
  BY <1>1 DEF PartRow
<1>3. /\ lib' = [lib EXCEPT ![p] = row] /\ UNCHANGED <<nextVal, uploads>>
      /\ libCall' = [libCall EXCEPT ![q] = [op |-> "done"]]
  BY <1>1 DEF Write, Returns, Goes
<1>4. /\ lib' \in Seq(PartRow) /\ DOMAIN lib' = DOMAIN lib
      /\ \A x \in DOMAIN lib : /\ lib'[x].wpn = lib[x].wpn /\ lib'[x].status = lib[x].status
                               /\ lib'[x].next = lib[x].next
  BY <1>1, <1>2, <1>3
<1>5. LibOK'
  BY <1>3, <1>4 DEF LibraryInvariant, LibOK
<1>6. RevisionsChain'
  <2>1. ASSUME NEW x \in DOMAIN lib PROVE Linked(x)'
    <3>1. Linked(x) /\ (lib[x].next # Null => lib[x].next \in DOMAIN lib)
      BY LinkedRows DEF LibraryInvariant, LibOK
    <3> QED BY <1>4, <3>1 DEF Linked
  <2> QED BY <1>4, <2>1, LinkedRows
<1>7. DOMAIN libCall' = LibraryCalls /\ \A o \in LibraryCalls : HandlerOK(o)'
  BY <1>3, <1>4, HandlersKept
<1> QED BY <1>3, <1>5, <1>6, <1>7 DEF LibraryInvariant, UploadsOK

\* The row p is superseded by one at the end of the table.
Superseded(p, n) == [p EXCEPT !.status = "superseded", !.next = n]
LEMMA RowSuperseded ==
  ASSUME NEW p \in PartRow, NEW n \in Nat
  PROVE  /\ Superseded(p, n) \in PartRow /\ Superseded(p, n).wpn = p.wpn
         /\ Superseded(p, n).status = "superseded" /\ Superseded(p, n).next = n
BY DEF PartRow, Superseded

LEMMA RowRevised ==
  ASSUME LibraryAssumption, LibraryInvariant, NEW n \in Nat, n = Len(lib),
         NEW m \in Nat, m = n + 1, NEW p \in 1 .. n,
         NEW old \in PartRow, old.wpn = lib[p].wpn, old.status = "superseded", old.next = m,
         NEW new \in PartRow, new.wpn = BumpRevision(lib[p].wpn), new.status = "draft",
         new.next = Null, ~Taken(new.wpn), nextVal' = nextVal,
         lib' = Append([lib EXCEPT ![p] = old], new)
  PROVE  /\ LibOK' /\ RevisionsChain' /\ DOMAIN lib \subseteq DOMAIN lib'
         /\ \A x \in DOMAIN lib : lib'[x].wpn = lib[x].wpn
<1> PICK mid : mid = [lib EXCEPT ![p] = old]
  OBVIOUS
<1>1. /\ mid \in Seq(PartRow) /\ Len(mid) = n /\ mid[p] = old
      /\ \A x \in 1 .. n : x # p => mid[x] = lib[x]
  BY RowFacts, ExceptSeq
<1>2. /\ DOMAIN lib = 1 .. n /\ lib' \in Seq(PartRow) /\ DOMAIN lib' = 1 .. m
      /\ lib'[m] = new /\ lib'[p] = old
      /\ \A x \in 1 .. n : x # p => lib'[x] = lib[x]
      /\ \A x \in 1 .. n : x \in 1 .. m /\ x # m
      /\ \A x \in 1 .. m : x = m \/ x \in 1 .. n
  <2>1. lib' = Append(mid, new)
    OBVIOUS
  <2>2. lib' \in Seq(PartRow) /\ Len(lib') = m /\ lib'[m] = new
        /\ \A x \in 1 .. n : lib'[x] = mid[x]
    BY <1>1, <2>1
  <2> QED BY <1>1, <2>2, RowFacts
<1>3. \A x \in 1 .. n : lib'[x].wpn = lib[x].wpn
  BY <1>2
<1>4. \A x \in 1 .. n : lib[x].wpn # new.wpn
  BY <1>2 DEF Taken
<1>5. lib[p].status # "superseded"
  <2>1. Linked(p) /\ (lib[p].next # Null => lib[p].next \in 1 .. n)
    BY RowFacts
  <2> QED BY <1>4, <2>1 DEF Linked
<1>6. new.wpn.base < nextVal
  <2>1. new.wpn.base = lib[p].wpn.base /\ lib[p].wpn.base < nextVal
    BY RowFacts DEF BumpRevision, Wpn
  <2> QED BY <2>1
<1>7. LibOK'
  <2>1. ASSUME NEW x \in 1 .. n
        PROVE  lib'[x].wpn.base < nextVal' /\ lib'[x].next \in 1 .. m \cup {Null}
    <3>1. lib[x].wpn.base < nextVal /\ (lib[x].next # Null => lib[x].next \in 1 .. n)
      BY RowFacts
    <3>2. lib'[x].wpn.base < nextVal'
      BY <1>3, <3>1
    <3>3. lib'[x].next \in 1 .. m \cup {Null}
      <4>1. CASE x = p
        BY <1>2, <4>1
      <4>2. CASE x # p
        BY <1>2, <3>1, <4>2
      <4> QED BY <4>1, <4>2
    <3> QED BY <3>2, <3>3
  <2>2. lib'[m].wpn.base < nextVal' /\ lib'[m].next \in 1 .. m \cup {Null}
    BY <1>2, <1>6
  <2>3. \A x \in 1 .. m : lib'[x].wpn.base < nextVal' /\ lib'[x].next \in 1 .. m \cup {Null}
    BY <1>2, <2>1, <2>2
  <2>4. nextVal' \in Nat
    BY RowFacts
  <2> QED BY <1>2, <2>3, <2>4 DEF LibOK
<1>8. ASSUME NEW x \in 1 .. n PROVE Linked(x)'
  <2>1. Linked(x) /\ (lib[x].next # Null => lib[x].next \in 1 .. n)
    BY RowFacts
  <2>2. lib'[x].wpn.rev > 0 =>
          \E o \in DOMAIN lib' : lib'[o].status = "superseded" /\ lib'[o].next = x
    <3>1. ASSUME NEW o \in 1 .. n, lib[o].status = "superseded", lib[o].next = x
          PROVE  \E y \in DOMAIN lib' : lib'[y].status = "superseded" /\ lib'[y].next = x
      <4>1. o # p
        BY <1>5, <3>1
      <4> QED BY <1>2, <3>1, <4>1
    <3> QED BY <1>2, <1>3, <2>1, <3>1 DEF Linked
  <2>3. \A r \in DOMAIN lib' \ {x} : lib'[r].wpn # lib'[x].wpn
    <3>1. ASSUME NEW r \in 1 .. n, r # x PROVE lib'[r].wpn # lib'[x].wpn
      BY <1>2, <1>3, <2>1, <3>1 DEF Linked
    <3>2. lib'[m].wpn # lib'[x].wpn
      BY <1>2, <1>3, <1>4
    <3> QED BY <1>2, <3>1, <3>2
  <2>4. CASE x = p
    <3>1. /\ lib'[x].status = "superseded" /\ lib'[x].next = m /\ m # Null
          /\ lib'[m].wpn = BumpRevision(lib'[x].wpn)
      BY <1>2, <1>3, <2>4 DEF LibraryAssumption
    <3> QED BY <2>2, <2>3, <3>1 DEF Linked
  <2>5. CASE x # p
    <3>1. lib'[x] = lib[x]
      BY <1>2, <2>5
    <3>2. lib'[x].status = "superseded" =>
            lib'[x].next # Null /\ lib'[lib'[x].next].wpn = BumpRevision(lib'[x].wpn)
      BY <1>3, <2>1, <3>1 DEF Linked
    <3> QED BY <2>1, <2>2, <2>3, <3>1, <3>2 DEF Linked
  <2> QED BY <2>4, <2>5
<1>9. Linked(m)'
  <2>1. \E o \in DOMAIN lib' : lib'[o].status = "superseded" /\ lib'[o].next = m
    BY <1>2
  <2>2. \A r \in DOMAIN lib' \ {m} : lib'[r].wpn # lib'[m].wpn
    BY <1>2, <1>3, <1>4
  <2> QED BY <1>2, <2>1, <2>2 DEF Linked
<1>10. RevisionsChain'
  BY <1>2, <1>8, <1>9, LinkedRows
<1>11. DOMAIN lib \subseteq DOMAIN lib' /\ \A x \in DOMAIN lib : lib'[x].wpn = lib[x].wpn
  BY <1>2, <1>3
<1> QED BY <1>7, <1>10, <1>11

\* The next number is free only if the row was not superseded, whatever its
\* status was when it was read.
LEMMA ReviseStep ==
  ASSUME LibraryAssumption, LibraryInvariant, NEW q \in LibraryCalls, Revise(q)
  PROVE  LibraryInvariant'
<1> PICK n \in Nat : n = Len(lib)
  BY DEF LibraryInvariant, LibOK
<1> PICK m \in Nat : m = n + 1
  OBVIOUS
<1> PICK p, saw, size : p = libCall[q].part /\ saw = libCall[q].saw /\ size = libCall[q].size
  OBVIOUS
<1> DEFINE old == Superseded(lib[p], m)
           new == Part(BumpRevision(saw.wpn), size, "draft", saw.file)
<1>1. /\ DOMAIN lib = 1 .. n /\ p \in 1 .. n /\ lib[p] \in PartRow /\ saw \in PartRow
      /\ size \in Sizes /\ saw.wpn = lib[p].wpn
  BY RowFacts DEF Revise, LibraryInvariant, HandlerOK
<1>2. /\ old \in PartRow /\ old.wpn = lib[p].wpn /\ old.status = "superseded" /\ old.next = m
  BY <1>1, RowSuperseded
<1>3. BumpRevision(saw.wpn) \in [base : Nat, rev : Nat] /\ saw.file \in Files \cup {Null}
  BY <1>1 DEF BumpRevision, Wpn, PartRow
<1>4. /\ new \in PartRow /\ new.wpn = BumpRevision(lib[p].wpn) /\ new.status = "draft"
      /\ new.next = Null
  BY <1>1, <1>3 DEF Part, PartRow
<1>5. /\ UNCHANGED <<nextVal, uploads>>
      /\ libCall' = [libCall EXCEPT ![q] = [op |-> "done"]]
      /\ \/ lib' = lib
         \/ ~Taken(BumpRevision(saw.wpn)) /\ lib' = Append([lib EXCEPT ![p] = old], new)
  BY <1>1 DEF Revise, Returns, Goes, Superseded
<1>6. CASE lib' = lib
  <2>1. DOMAIN libCall' = LibraryCalls /\ \A o \in LibraryCalls : HandlerOK(o)'
    BY <1>5, <1>6, HandlersKept
  <2> QED BY <1>5, <1>6, <2>1, LibLeftAlone DEF LibraryInvariant, UploadsOK
<1>7. CASE ~Taken(BumpRevision(saw.wpn)) /\ lib' = Append([lib EXCEPT ![p] = old], new)
  <2>1. ~Taken(new.wpn)
    BY <1>1, <1>4, <1>7
  <2> HIDE DEF old, new
  <2>2. /\ LibOK' /\ RevisionsChain' /\ DOMAIN lib \subseteq DOMAIN lib'
        /\ \A x \in DOMAIN lib : lib'[x].wpn = lib[x].wpn
    BY <1>1, <1>2, <1>4, <1>5, <1>7, <2>1, RowRevised
  <2>3. DOMAIN libCall' = LibraryCalls /\ \A o \in LibraryCalls : HandlerOK(o)'
    BY <1>5, <2>2, HandlersKept
  <2> QED BY <1>5, <2>2, <2>3 DEF LibraryInvariant, UploadsOK
<1> QED BY <1>5, <1>6, <1>7

LEMMA LibraryStep ==
  ASSUME LibraryAssumption, LibraryInvariant, [LibraryNext]_libraryVars
  PROVE  LibraryInvariant'
<1>1. ASSUME NEW q \in LibraryCalls, NEW p \in DOMAIN lib, NEW size \in Sizes,
             UpdatePart(q, p, size)
      PROVE  LibraryInvariant'
  BY <1>1, ReadStep DEF UpdatePart, Goes
<1>2. ASSUME NEW q \in LibraryCalls, NEW f \in Files, UploadStepFile(q, f)
      PROVE  LibraryInvariant'
  BY <1>2, ReadStep DEF UploadStepFile, Goes
<1>3. ASSUME NEW q \in LibraryCalls, NEW i \in DOMAIN uploads, Approve(q, i) \/ Reject(q, i)
      PROVE  LibraryInvariant'
  BY <1>3, ReadStep DEF Approve, Reject, Goes
<1>4. ASSUME NEW q \in LibraryCalls, CommitRejection(q) PROVE LibraryInvariant'
  <2> PICK i : i = libCall[q].import
    OBVIOUS
  <2>1. /\ i \in DOMAIN uploads /\ uploads' = [uploads EXCEPT ![i].status = "rejected"]
        /\ UNCHANGED <<lib, nextVal>> /\ libCall' = [libCall EXCEPT ![q] = [op |-> "done"]]
    BY <1>4 DEF CommitRejection, LibraryInvariant, HandlerOK, Returns, Goes
  <2>2. UploadsOK' /\ DOMAIN uploads' = DOMAIN uploads
    BY <2>1, UploadWritten
  <2>3. DOMAIN libCall' = LibraryCalls /\ \A o \in LibraryCalls : HandlerOK(o)'
    BY <2>1, <2>2, HandlersKept
  <2> QED BY <2>1, <2>2, <2>3, LibLeftAlone DEF LibraryInvariant
<1>5. CASE UNCHANGED libraryVars
  BY <1>5, LibLeftAlone DEF libraryVars, LibraryInvariant, UploadsOK, HandlerOK
<1> QED BY <1>1, <1>2, <1>3, <1>4, <1>5, CreatePartStep, CommitApprovalStep, WriteStep, ReviseStep,
           StoreStep, ParserStep
        DEF LibraryNext

\* Revisions of a part follow one another without a gap and only the last is in
\* force, for any number of overlapping edits that all read the same revision
\* (update_part, parts_library.py): the unique number is the only guard.
THEOREM RevisionsFollow ==
  ASSUME LibraryAssumption PROVE LibrarySpec => []RevisionsChain
<1>1. LibraryInvariant => RevisionsChain
  BY DEF LibraryInvariant
<1> QED BY <1>1, LibraryStart, LibraryStep, PTL DEF LibrarySpec

-----------------------------------------------------------------------------
(* Numbers taken from HAROLD *)

Numbers == PartNumber \cup {NoNumber}
WpnRequest ==
  [op : {"none", "approve", "reject", "reconcile", "persist"},
   pc : {"new", "read", "blocked", "asking", "answered", "ended"},
   target : Imports \cup Configs \cup {"none"}, fresh : BOOLEAN, typed : Typed \cup {NoNumber},
   ask : {"none", "issue", "issue_specific", "allocate_next", "issue_revision", "release"},
   arg : Numbers, answer : {"none", "ok", "duplicate", "unavailable"}, wpn : Numbers]

WpnTypes ==
  /\ ledger \subseteq PartNumber
  /\ parts \subseteq [import : Imports, wpn : PartNumber, pending : BOOLEAN]
  /\ revisions \subseteq [config : Configs, wpn : PartNumber]
  /\ fallback \in Nat
  /\ wpnCall \in [WpnCalls -> WpnRequest]

\* What a request may ask, and what it is answered.
AskedFor(r) ==
  /\ r.op \in {"approve", "reject", "reconcile"} => r.target \in Imports
  /\ r.op = "persist" => r.target \in Configs
  /\ r.ask \in {"issue", "issue_specific"} => r.op \in {"approve", "reconcile"}
  /\ r.ask \in {"allocate_next", "issue_revision", "release"} => r.op = "persist"
  /\ r.ask # "none" => r.pc \in {"asking", "answered"}
  /\ r.ask \in {"issue_specific", "issue_revision", "release"} => r.arg \in PartNumber
  /\ r.ask = "issue_specific" => r.arg.code = "PART" \/ r.arg \in Typed
  /\ r.answer # "ok" \/ r.ask = "release" => r.wpn = NoNumber
  /\ r.answer # "none" => r.pc = "answered"
  /\ r.answer = "ok" /\ r.ask # "release" =>
       /\ r.ask # "none" /\ r.wpn \in PartNumber
       /\ r.ask = "issue" => r.wpn.code = "PART"
       /\ r.ask = "issue_specific" => r.wpn = r.arg

\* The number HAROLD issued to a request, as long as no row has it and it has
\* not been given back.
Owned(r) ==
  IF r.answer = "ok" /\ r.ask # "release" THEN {r.wpn}
  ELSE IF r.pc = "asking" /\ r.ask = "release" THEN {r.arg} ELSE {}
Unwritten(n) ==
  /\ n \in ledger
  /\ \A p \in parts : p.pending \/ p.wpn # n
  /\ \A r \in revisions : r.wpn # n
OwnersAlone ==
  \A c \in WpnCalls : \A n \in Owned(wpnCall[c]) :
    /\ Unwritten(n)
    /\ \A d \in WpnCalls \ {c} : n \notin Owned(wpnCall[d])

\* An import makes one part, and a number still to be registered stays the same.
Inserting(r) == r.op = "approve" /\ r.pc \in {"asking", "answered"}
OnePart ==
  /\ \A p, q \in parts : p.import = q.import => p = q
  /\ \A c \in WpnCalls : Inserting(wpnCall[c]) =>
       /\ \A p \in parts : p.import # wpnCall[c].target
       /\ \A d \in WpnCalls \ {c} :
            Inserting(wpnCall[d]) => wpnCall[d].target # wpnCall[c].target
Reconciled(r) ==
  r.op = "reconcile" =>
    /\ \E p \in parts : p.import = r.target
    /\ r.ask = "issue_specific" =>
         \A p \in parts : p.import = r.target /\ p.pending => p.wpn = r.arg

\* What keeps an engineering number from drifting: LedgerIsAccounted, without
\* the numbers that were given back.
Accounts(r, n) == n = r.wpn \/ (r.ask = "release" /\ r.answer # "ok" /\ n = r.arg)
Settled(n) ==
  \/ n.code # "CONFIG" \/ n \in Typed \/ n \in orphans
  \/ \E r \in revisions : r.wpn = n
  \/ \E d \in dropped : d.wpn = n /\ d.cause \in {"answer", "restart"}
AllAccounted ==
  \A n \in ledger : Settled(n) \/ \E c \in WpnCalls : Accounts(wpnCall[c], n)
Issued ==
  /\ \A p \in parts : IF p.pending THEN p.wpn.code = "PART" \/ p.wpn \in Typed
                                    ELSE p.wpn \in ledger
  /\ \A r \in revisions : r.wpn \in ledger

WpnInvariant ==
  /\ WpnTypes /\ OwnersAlone /\ OnePart
  /\ \A c \in WpnCalls : AskedFor(wpnCall[c]) /\ Reconciled(wpnCall[c])
  /\ Issued /\ AllAccounted

LEMMA AccountsForLedger ==
  ASSUME WpnInvariant PROVE LedgerIsAccounted
<1> SUFFICES ASSUME NEW n \in ledger, n.code = "CONFIG", n \notin Typed
             PROVE  \/ n \in {r.wpn : r \in revisions} \cup orphans
                    \/ \E c \in WpnCalls : n \in InHand(c)
                    \/ \E d \in dropped : d.wpn = n /\ d.cause \in {"answer", "restart"}
  BY DEF WpnInvariant, Issued, LedgerIsAccounted
<1>1. Settled(n) \/ \E c \in WpnCalls : Accounts(wpnCall[c], n)
  BY DEF WpnInvariant, AllAccounted
<1> QED BY <1>1 DEF Settled, Accounts, InHand

LEMMA WpnStart ==
  ASSUME PartAssumption, WpnInit PROVE WpnInvariant
BY DEF PartAssumption, WpnInit, WpnInvariant, WpnTypes, WpnRequest, AtRest, Numbers, AskedFor,
       Owned, OwnersAlone, OnePart, Inserting, Reconciled, Issued, AllAccounted

\* A step of one request that leaves the rows and the ledger as they are.
LEMMA WpnQuiet ==
  ASSUME WpnInvariant, NEW c \in WpnCalls, NEW r \in WpnRequest,
         wpnCall' = [wpnCall EXCEPT ![c] = r],
         UNCHANGED <<ledger, parts, revisions, fallback>>,
         orphans \subseteq orphans', dropped \subseteq dropped',
         AskedFor(r), Reconciled(r),
         Owned(r) \subseteq Owned(wpnCall[c]),
         Inserting(r) =>
           /\ \A p \in parts : p.import # r.target
           /\ \A d \in WpnCalls \ {c} :
                Inserting(wpnCall[d]) => wpnCall[d].target # r.target,
         \A n \in ledger : Accounts(wpnCall[c], n) => Accounts(r, n) \/ Settled(n)'
  PROVE  WpnInvariant'
<1>0. /\ WpnTypes /\ OwnersAlone /\ OnePart /\ Issued /\ AllAccounted
      /\ \A d \in WpnCalls : AskedFor(wpnCall[d]) /\ Reconciled(wpnCall[d])
  BY DEF WpnInvariant
<1>1. \A d \in WpnCalls : wpnCall'[d] = IF d = c THEN r ELSE wpnCall[d]
  BY <1>0 DEF WpnTypes
<1>2. WpnTypes'
  BY <1>0 DEF WpnTypes
<1>3. OwnersAlone'
  <2> SUFFICES ASSUME NEW d \in WpnCalls, NEW n \in Owned(wpnCall'[d])
               PROVE  /\ Unwritten(n)'
                      /\ \A e \in WpnCalls \ {d} : n \notin Owned(wpnCall'[e])
    BY DEF OwnersAlone, Owned
  <2>1. \A e \in WpnCalls : Owned(wpnCall'[e]) \subseteq Owned(wpnCall[e])
    BY <1>1
  <2>2. /\ Unwritten(n) /\ \A e \in WpnCalls \ {d} : n \notin Owned(wpnCall[e])
    BY <1>0, <2>1 DEF OwnersAlone
  <2> QED BY <2>1, <2>2 DEF Unwritten
<1>4. OnePart'
  BY <1>0, <1>1 DEF OnePart, Inserting
<1>5. \A d \in WpnCalls : AskedFor(wpnCall[d])' /\ Reconciled(wpnCall[d])'
  BY <1>0, <1>1 DEF Reconciled, AskedFor
<1>6. Issued'
  BY <1>0 DEF Issued
<1>7. AllAccounted'
  <2> SUFFICES ASSUME NEW n \in ledger PROVE Settled(n)' \/ \E d \in WpnCalls : Accounts(wpnCall'[d], n)
    BY DEF AllAccounted, Accounts
  <2>1. CASE Settled(n)
    BY <2>1 DEF Settled
  <2>2. CASE \E d \in WpnCalls : Accounts(wpnCall[d], n)
    BY <1>1, <2>2
  <2> QED BY <1>0, <2>1, <2>2 DEF AllAccounted
<1> QED BY <1>2, <1>3, <1>4, <1>5, <1>6, <1>7 DEF WpnInvariant

\* What is known of the request that takes a step.
LEMMA WpnKnown ==
  ASSUME PartAssumption, WpnInvariant, NEW c \in WpnCalls
  PROVE  /\ wpnCall[c] \in WpnRequest /\ AskedFor(wpnCall[c]) /\ Reconciled(wpnCall[c])
         /\ \A n \in ledger : n \in PartNumber /\ n # NoNumber
BY DEF WpnInvariant, WpnTypes, PartAssumption

\* A request that begins, or waits or ends before it has asked for a number.
LEMMA WpnBegins ==
  ASSUME PartAssumption, WpnInvariant, NEW c \in WpnCalls,
         wpnCall[c].pc \in {"new", "read", "blocked"}, NEW r \in WpnRequest,
         wpnCall' = [wpnCall EXCEPT ![c] = r],
         UNCHANGED <<ledger, parts, revisions, fallback, orphans, dropped>>,
         AskedFor(r), Reconciled(r), r.ask # "release", r.answer = "none",
         ~Inserting(r)
  PROVE  WpnInvariant'
<1>1. Owned(r) = {}
  BY DEF Owned
<1>2. \A n \in ledger : ~Accounts(wpnCall[c], n)
  BY WpnKnown DEF AskedFor, Accounts
<1> QED BY <1>1, <1>2, WpnQuiet

LEMMA WpnBeginSteps ==
  ASSUME PartAssumption, WpnInvariant, NEW c \in WpnCalls,
         \/ \E i \in Imports, typed \in Typed : Approve_Read(c, i, typed)
         \/ \E i \in Imports : Reject_Read(c, i)
         \/ \E p \in parts : Reconcile_Begin(c, p)
         \/ \E g \in Configs : Config_Create(c, g)
         \/ \E r \in revisions : Config_Revise(c, r)
  PROVE  WpnInvariant'
<1> USE DEF database
<1>0. /\ WpnTypes /\ OnePart /\ Issued /\ wpnCall[c].pc = "new"
      /\ \A n \in PartNumber : n # NoNumber
  BY DEF WpnInvariant, PartAssumption, Approve_Read, Reject_Read, Reconcile_Begin,
         Config_Create, Config_Revise
<1>1. ASSUME NEW i \in Imports, NEW typed \in Typed, Approve_Read(c, i, typed)
      PROVE  WpnInvariant'
  <2> DEFINE r == [AtRest("read") EXCEPT !.op = "approve", !.target = i, !.typed = typed,
                                         !.fresh = supplierOf[i] \notin suppliers]
  <2>1. wpnCall' = [wpnCall EXCEPT ![c] = r]
    BY <1>1 DEF Approve_Read
  <2>2. r \in WpnRequest /\ AskedFor(r) /\ Reconciled(r) /\ r.ask = "none" /\ r.answer = "none"
    BY DEF AtRest, WpnRequest, Numbers, AskedFor, Reconciled
  <2>3. ~Inserting(r)
    BY DEF AtRest, Inserting
  <2> QED BY <1>0, <1>1, <2>1, <2>2, <2>3, WpnBegins DEF Approve_Read
<1>2. ASSUME NEW i \in Imports, Reject_Read(c, i)
      PROVE  WpnInvariant'
  <2> DEFINE r == [AtRest("read") EXCEPT !.op = "reject", !.target = i]
  <2>1. wpnCall' = [wpnCall EXCEPT ![c] = r]
    BY <1>2 DEF Reject_Read
  <2>2. r \in WpnRequest /\ AskedFor(r) /\ Reconciled(r) /\ r.ask = "none" /\ r.answer = "none"
    BY DEF AtRest, WpnRequest, Numbers, AskedFor, Reconciled
  <2>3. ~Inserting(r)
    BY DEF AtRest, Inserting
  <2> QED BY <1>0, <1>2, <2>1, <2>2, <2>3, WpnBegins DEF Reject_Read
<1>3. ASSUME NEW p \in parts, Reconcile_Begin(c, p)
      PROVE  WpnInvariant'
  <2> DEFINE r == [AtRest("asking") EXCEPT !.op = "reconcile", !.target = p.import,
                                           !.ask = "issue_specific", !.arg = p.wpn]
  <2>1. wpnCall' = [wpnCall EXCEPT ![c] = r]
    BY <1>3 DEF Reconcile_Begin
  <2>2. p.import \in Imports /\ p.wpn \in PartNumber /\ (p.wpn.code = "PART" \/ p.wpn \in Typed)
    BY <1>0, <1>3 DEF WpnTypes, Issued, Reconcile_Begin
  <2>3. r \in WpnRequest /\ r.ask = "issue_specific" /\ r.answer = "none" /\ AskedFor(r)
    BY <2>2 DEF AtRest, WpnRequest, Numbers, AskedFor
  <2>4. Reconciled(r) /\ ~Inserting(r)
    BY <1>0 DEF AtRest, Reconciled, OnePart, Inserting
  <2> QED BY <1>0, <1>3, <2>1, <2>3, <2>4, WpnBegins DEF Reconcile_Begin
<1>4. ASSUME NEW g \in Configs, Config_Create(c, g)
      PROVE  WpnInvariant'
  <2> DEFINE r == [AtRest("asking") EXCEPT !.op = "persist", !.target = g,
                                           !.ask = "allocate_next"]
  <2>1. wpnCall' = [wpnCall EXCEPT ![c] = r]
    BY <1>4 DEF Config_Create
  <2>2. r \in WpnRequest /\ AskedFor(r) /\ Reconciled(r) /\ r.ask # "release" /\ r.answer = "none"
    BY DEF AtRest, WpnRequest, Numbers, AskedFor, Reconciled
  <2>3. ~Inserting(r)
    BY DEF AtRest, Inserting
  <2> QED BY <1>0, <1>4, <2>1, <2>2, <2>3, WpnBegins DEF Config_Create
<1>5. ASSUME NEW v \in revisions, Config_Revise(c, v)
      PROVE  WpnInvariant'
  <2> DEFINE r == [AtRest("asking") EXCEPT !.op = "persist", !.target = v.config,
                                           !.ask = "issue_revision", !.arg = v.wpn]
  <2>1. wpnCall' = [wpnCall EXCEPT ![c] = r]
    BY <1>5 DEF Config_Revise
  <2>2. v.config \in Configs /\ v.wpn \in PartNumber
    BY <1>0 DEF WpnTypes
  <2>3. r \in WpnRequest /\ AskedFor(r) /\ Reconciled(r) /\ r.ask # "release" /\ r.answer = "none"
    BY <2>2 DEF AtRest, WpnRequest, Numbers, AskedFor, Reconciled
  <2>4. ~Inserting(r)
    BY DEF AtRest, Inserting
  <2> QED BY <1>0, <1>5, <2>1, <2>3, <2>4, WpnBegins DEF Config_Revise
<1> QED BY <1>1, <1>2, <1>3, <1>4, <1>5

\* An approval or a rejection before it asks for a number.
LEMMA WpnWaitSteps ==
  ASSUME PartAssumption, WpnInvariant, NEW c \in WpnCalls,
         Approve_Wait(c) \/ Approve_Taken(c) \/ Reject_Commit(c)
  PROVE  WpnInvariant'
<1> USE DEF database
<1>0. /\ wpnCall[c] \in WpnRequest /\ AskedFor(wpnCall[c]) /\ Reconciled(wpnCall[c])
  BY WpnKnown
<1>1. CASE Approve_Wait(c)
  <2> DEFINE r == [wpnCall[c] EXCEPT !.pc = "blocked"]
  <2>1. wpnCall' = [wpnCall EXCEPT ![c] = r] /\ wpnCall[c].pc = "read" /\ wpnCall[c].op = "approve"
    BY <1>1 DEF Approve_Wait
  <2>2. r \in WpnRequest /\ r.ask = "none" /\ r.answer = "none"
    BY <1>0, <2>1 DEF WpnRequest, AskedFor
  <2>3. AskedFor(r)
    BY <1>0, <2>1, <2>2 DEF WpnRequest, AskedFor
  <2>4. Reconciled(r) /\ ~Inserting(r)
    BY <1>0, <2>1 DEF WpnRequest, Reconciled, Inserting
  <2> QED BY <1>1, <2>1, <2>2, <2>3, <2>4, WpnBegins DEF Approve_Wait
<1>2. CASE Approve_Taken(c) \/ Reject_Commit(c)
  <2> DEFINE r == AtRest("ended")
  <2>1. /\ wpnCall' = [wpnCall EXCEPT ![c] = r] /\ wpnCall[c].pc \in {"read", "blocked"}
        /\ UNCHANGED <<ledger, parts, revisions, fallback, orphans, dropped>>
    BY <1>2 DEF Approve_Taken, Reject_Commit, End
  <2>2. r \in WpnRequest /\ AskedFor(r) /\ Reconciled(r) /\ r.ask = "none" /\ r.answer = "none"
    BY DEF AtRest, WpnRequest, Numbers, AskedFor, Reconciled
  <2>3. ~Inserting(r)
    BY DEF AtRest, Inserting
  <2> QED BY <2>1, <2>2, <2>3, WpnBegins
<1> QED BY <1>1, <1>2

\* The part and the import it makes are in the hands of this approval alone.
LEMMA WpnInsertStep ==
  ASSUME PartAssumption, WpnInvariant, NEW c \in WpnCalls, Approve_Insert(c)
  PROVE  WpnInvariant'
<1>1. /\ wpnCall[c] \in WpnRequest /\ AskedFor(wpnCall[c])
      /\ \A n \in ledger : n \in PartNumber /\ n # NoNumber
  BY WpnKnown
<1>2. /\ wpnCall[c].op = "approve" /\ wpnCall[c].pc \in {"read", "blocked"}
      /\ ~ImportTaken(c) /\ Holders(c, wpnCall[c].target) = {}
      /\ UNCHANGED <<ledger, parts, revisions, fallback, orphans, dropped>>
  BY DEF Approve_Insert, database
<1> DEFINE r == IF wpnCall[c].typed = NoNumber THEN Ask(c, "issue", NoNumber)
                                               ELSE Ask(c, "issue_specific", wpnCall[c].typed)
<1>3. wpnCall' = [wpnCall EXCEPT ![c] = r]
  BY DEF Approve_Insert, Ask_Part
<1>4. wpnCall[c].typed # NoNumber => wpnCall[c].typed \in PartNumber \cap Typed
  BY <1>1 DEF WpnRequest, PartAssumption
<1>5. r \in WpnRequest /\ r.pc = "asking" /\ r.op = "approve" /\ r.target = wpnCall[c].target
      /\ r.answer = "none" /\ r.wpn = NoNumber
      /\ r.ask = (IF wpnCall[c].typed = NoNumber THEN "issue" ELSE "issue_specific")
      /\ r.arg = wpnCall[c].typed
  BY <1>1, <1>2, <1>4 DEF Ask, WpnRequest, Numbers
<1> HIDE DEF r
<1>6. AskedFor(r) /\ Reconciled(r) /\ Owned(r) = {}
  BY <1>1, <1>2, <1>4, <1>5 DEF AskedFor, Reconciled, Owned
<1>7. /\ \A p \in parts : p.import # r.target
      /\ \A d \in WpnCalls \ {c} : Inserting(wpnCall[d]) => wpnCall[d].target # r.target
  BY <1>2, <1>5 DEF ImportTaken, Holders, Inserting
<1>8. \A n \in ledger : ~Accounts(wpnCall[c], n)
  BY <1>1, <1>2 DEF AskedFor, Accounts
<1> QED BY <1>2, <1>3, <1>5, <1>6, <1>7, <1>8, WpnQuiet

WithAnswer(w, answer, n) == [w EXCEPT !.pc = "answered", !.answer = answer, !.wpn = n]
LEMMA AnswerRecord ==
  ASSUME NEW w \in WpnRequest, NEW answer \in {"ok", "duplicate", "unavailable"}, NEW n \in Numbers
  PROVE  LET r == WithAnswer(w, answer, n) IN
         /\ r \in WpnRequest /\ r.pc = "answered" /\ r.answer = answer /\ r.wpn = n
         /\ r.op = w.op /\ r.target = w.target /\ r.ask = w.ask /\ r.arg = w.arg
<1> DEFINE r == WithAnswer(w, answer, n)
<1>1. r.pc = "answered" /\ r.answer = answer /\ r.wpn = n
  BY DEF WpnRequest, WithAnswer
<1>2. r.op = w.op /\ r.target = w.target /\ r.ask = w.ask /\ r.arg = w.arg
  BY DEF WpnRequest, WithAnswer
<1>3. r \in WpnRequest
  BY DEF WpnRequest, WithAnswer
<1> QED BY <1>1, <1>2, <1>3

\* HAROLD does nothing: the number is taken, or HAROLD is out of reach.
LEMMA WpnNoAnswerSteps ==
  ASSUME PartAssumption, WpnInvariant, NEW c \in WpnCalls,
         HaroldRefuses(c) \/ HaroldUnavailable(c)
  PROVE  WpnInvariant'
<1>1. /\ wpnCall[c] \in WpnRequest /\ AskedFor(wpnCall[c]) /\ Reconciled(wpnCall[c])
      /\ \A n \in ledger : n \in PartNumber /\ n # NoNumber
  BY WpnKnown
<1>2. PICK answer \in {"duplicate", "unavailable"} :
        /\ wpnCall' = [wpnCall EXCEPT ![c] = WithAnswer(wpnCall[c], answer, NoNumber)]
        /\ answer = "duplicate" => wpnCall[c].ask # "release"
  BY DEF HaroldRefuses, HaroldUnavailable, Answered, WithAnswer
<1>3. /\ wpnCall[c].pc = "asking"
      /\ UNCHANGED <<ledger, parts, revisions, fallback, orphans, dropped>>
  BY DEF HaroldRefuses, HaroldUnavailable, database
<1> DEFINE r == WithAnswer(wpnCall[c], answer, NoNumber)
<1>4. /\ r \in WpnRequest /\ r.pc = "answered" /\ r.answer = answer /\ r.wpn = NoNumber
      /\ r.op = wpnCall[c].op /\ r.target = wpnCall[c].target /\ r.ask = wpnCall[c].ask
      /\ r.arg = wpnCall[c].arg
  <2>1. answer \in {"ok", "duplicate", "unavailable"} /\ NoNumber \in Numbers
    BY <1>2 DEF Numbers
  <2> QED BY <1>1, <2>1, AnswerRecord
<1>5. wpnCall' = [wpnCall EXCEPT ![c] = r]
  BY <1>2
<1> HIDE DEF r
<1>6. AskedFor(r) /\ Reconciled(r) /\ Owned(r) = {}
  BY <1>1, <1>2, <1>3, <1>4 DEF AskedFor, Reconciled, Owned
<1>7. Inserting(r) =>
        /\ \A p \in parts : p.import # r.target
        /\ \A d \in WpnCalls \ {c} : Inserting(wpnCall[d]) => wpnCall[d].target # r.target
  BY <1>3, <1>4 DEF WpnInvariant, OnePart, Inserting
<1>8. \A n \in ledger : Accounts(wpnCall[c], n) => Accounts(r, n)
  BY <1>1, <1>2, <1>3, <1>4 DEF AskedFor, Accounts
<1> QED BY <1>3, <1>4, <1>5, <1>6, <1>7, <1>8, WpnQuiet

\* A request goes on, or ends, and writes no row.
LEMMA WpnEnds ==
  ASSUME PartAssumption, WpnInvariant, NEW c \in WpnCalls,
         wpnCall' = [wpnCall EXCEPT ![c] = AtRest("ended")],
         UNCHANGED <<ledger, parts, revisions, fallback>>,
         orphans \subseteq orphans', dropped \subseteq dropped',
         \A n \in ledger : Accounts(wpnCall[c], n) => Settled(n)'
  PROVE  WpnInvariant'
<1> DEFINE r == AtRest("ended")
<1>1. r \in WpnRequest /\ AskedFor(r) /\ Reconciled(r) /\ Owned(r) = {} /\ ~Inserting(r)
  BY DEF AtRest, WpnRequest, Numbers, AskedFor, Reconciled, Owned, Inserting
<1> HIDE DEF r
<1> QED BY <1>1, WpnQuiet DEF r

LEMMA WpnEndSteps ==
  ASSUME PartAssumption, WpnInvariant, NEW c \in WpnCalls,
         \/ Approve_Rollback(c) \/ Reconcile_GiveUp(c)
         \/ Persist_NoNumber(c) \/ Persist_Released(c)
  PROVE  WpnInvariant'
<1>1. /\ wpnCall[c] \in WpnRequest /\ AskedFor(wpnCall[c])
      /\ \A n \in ledger : n \in PartNumber /\ n # NoNumber
  BY WpnKnown
<1>2. /\ wpnCall' = [wpnCall EXCEPT ![c] = AtRest("ended")]
      /\ UNCHANGED <<ledger, parts, revisions, fallback>>
      /\ orphans \subseteq orphans' /\ dropped \subseteq dropped'
  BY DEF Approve_Rollback, Reconcile_GiveUp, Persist_NoNumber, Persist_Released, End, Drop, database
<1>3. ASSUME NEW n \in ledger, Accounts(wpnCall[c], n) PROVE Settled(n)'
  <2>1. CASE Approve_Rollback(c) \/ Reconcile_GiveUp(c)
    <3>1. wpnCall[c].op \in {"approve", "reconcile"}
      BY <2>1 DEF Approve_Rollback, Reconcile_GiveUp, Resumes
    <3>2. n = wpnCall[c].wpn /\ wpnCall[c].ask \in {"issue", "issue_specific"}
      BY <1>1, <1>3, <3>1 DEF AskedFor, Accounts, WpnRequest
    <3>3. n.code = "PART" \/ n \in Typed
      BY <1>1, <1>3, <3>2 DEF AskedFor
    <3> QED BY <3>3 DEF Settled
  <2>2. CASE Persist_NoNumber(c)
    BY <1>1, <1>3, <2>2 DEF Persist_NoNumber, AskedFor, Accounts, Resumes
  <2>3. CASE Persist_Released(c)
    <3>1. wpnCall[c].ask = "release" /\ wpnCall[c].answer # "ok" /\ n = wpnCall[c].arg
      BY <1>1, <1>3, <2>3 DEF Persist_Released, AskedFor, Accounts
    <3> QED BY <2>3, <3>1 DEF Persist_Released, Settled
  <2> QED BY <2>1, <2>2, <2>3
<1> QED BY <1>2, <1>3, WpnEnds

\* The number that was taken by another, or the one that has to be given back.
LEMMA WpnAskSteps ==
  ASSUME PartAssumption, WpnInvariant, NEW c \in WpnCalls,
         Reconcile_Reissue(c) \/ Persist_Fail(c)
  PROVE  WpnInvariant'
<1>1. /\ wpnCall[c] \in WpnRequest /\ AskedFor(wpnCall[c]) /\ Reconciled(wpnCall[c])
      /\ \A n \in ledger : n \in PartNumber /\ n # NoNumber
  BY WpnKnown
<1>2. UNCHANGED <<ledger, parts, revisions, fallback, orphans, dropped>>
  BY DEF Reconcile_Reissue, Persist_Fail, database
<1>3. CASE Reconcile_Reissue(c)
  <2> DEFINE r == Ask(c, "issue", NoNumber)
  <2>1. /\ wpnCall' = [wpnCall EXCEPT ![c] = r]
        /\ wpnCall[c].op = "reconcile" /\ wpnCall[c].answer = "duplicate"
    BY <1>3 DEF Reconcile_Reissue, Resumes
  <2>2. /\ r \in WpnRequest /\ r.op = "reconcile" /\ r.target = wpnCall[c].target /\ r.ask = "issue"
        /\ r.answer = "none" /\ r.wpn = NoNumber /\ r.pc = "asking"
    BY <1>1, <2>1 DEF Ask, WpnRequest, Numbers
  <2> HIDE DEF r
  <2>3. AskedFor(r) /\ Reconciled(r) /\ Owned(r) = {} /\ ~Inserting(r)
    BY <1>1, <2>1, <2>2 DEF AskedFor, Reconciled, Owned, Inserting
  <2>4. \A n \in ledger : ~Accounts(wpnCall[c], n)
    BY <1>1, <2>1 DEF AskedFor, Accounts
  <2> QED BY <1>2, <2>1, <2>2, <2>3, <2>4, WpnQuiet
<1>4. CASE Persist_Fail(c)
  <2> DEFINE r == Ask(c, "release", wpnCall[c].wpn)
  <2>1. /\ wpnCall' = [wpnCall EXCEPT ![c] = r]
        /\ wpnCall[c].op = "persist" /\ wpnCall[c].answer = "ok" /\ wpnCall[c].ask # "release"
        /\ wpnCall[c].target \in Configs
    BY <1>1, <1>4 DEF Persist_Fail, Resumes, Release, AskedFor
  <2>2. wpnCall[c].wpn \in PartNumber
    BY <1>1, <2>1 DEF AskedFor
  <2>3. /\ r \in WpnRequest /\ r.op = "persist" /\ r.ask = "release" /\ r.arg = wpnCall[c].wpn
        /\ r.target = wpnCall[c].target /\ r.answer = "none" /\ r.wpn = NoNumber /\ r.pc = "asking"
    BY <1>1, <2>1 DEF Ask, WpnRequest, Numbers
  <2> HIDE DEF r
  <2>4. AskedFor(r) /\ Reconciled(r) /\ ~Inserting(r) /\ Owned(r) = Owned(wpnCall[c])
    BY <2>1, <2>2, <2>3 DEF AskedFor, Reconciled, Owned, Inserting
  <2>5. \A n \in ledger : Accounts(wpnCall[c], n) => Accounts(r, n)
    BY <2>1, <2>3 DEF Accounts
  <2> QED BY <1>2, <2>1, <2>3, <2>4, <2>5, WpnQuiet
<1> QED BY <1>3, <1>4

\* What HAROLD issues is a number it has not issued.
LEMMA IssuedIsNew ==
  ASSUME PartAssumption, WpnTypes, NEW w \in WpnRequest, AskedFor(w),
         NEW n \in Issuable(w.ask, w.arg)
  PROVE  /\ n \in PartNumber /\ n \notin ledger /\ w.ask \notin {"none", "release"}
         /\ w.ask = "issue" => n.code = "PART"
         /\ w.ask = "issue_specific" => n = w.arg
<1>1. CASE w.ask \in {"issue", "allocate_next"}
  <2>1. PICK code \in {"PART", "CONFIG"}, k \in 1 .. MaxIndex :
          /\ n = [code |-> code, index |-> k, rev |-> 1]
          /\ w.ask = "issue" => code = "PART"
          /\ \A m \in ledger : m.code = code => m.index < k
    BY <1>1 DEF Issuable
  <2> QED BY <1>1, <2>1 DEF PartAssumption, PartNumber, WpnTypes
<1>2. CASE w.ask = "issue_revision"
  <2>1. PICK k \in 1 .. MaxIndex :
          /\ n = [w.arg EXCEPT !.rev = k]
          /\ \A m \in ledger : m.code = w.arg.code /\ m.index = w.arg.index => m.rev < k
    BY <1>2 DEF Issuable
  <2>2. w.arg \in PartNumber
    BY <1>2 DEF AskedFor
  <2> QED BY <1>2, <2>1, <2>2 DEF PartAssumption, PartNumber, WpnTypes
<1>3. CASE w.ask = "issue_specific"
  BY <1>3 DEF Issuable, AskedFor
<1> QED BY <1>1, <1>2, <1>3 DEF Issuable, WpnRequest

\* HAROLD adds a number to its ledger, or takes one out that was given back.
LEMMA WpnLedger ==
  ASSUME WpnInvariant, NEW c \in WpnCalls, NEW r \in WpnRequest, NEW n \in PartNumber,
         wpnCall' = [wpnCall EXCEPT ![c] = r],
         UNCHANGED <<parts, revisions, fallback, orphans>>, dropped \subseteq dropped',
         AskedFor(r), Reconciled(r),
         Inserting(r) => Inserting(wpnCall[c]) /\ r.target = wpnCall[c].target,
         \/ n \notin ledger /\ ledger' = ledger \cup {n} /\ Owned(r) \subseteq {n}
         \/ n \in Owned(wpnCall[c]) /\ ledger' = ledger \ {n} /\ Owned(r) = {},
         \A m \in ledger' : m = n \/ Accounts(wpnCall[c], m) => Accounts(r, m) \/ Settled(m)'
  PROVE  WpnInvariant'
<1>0. /\ WpnTypes /\ OwnersAlone /\ OnePart /\ Issued /\ AllAccounted
      /\ \A d \in WpnCalls : AskedFor(wpnCall[d]) /\ Reconciled(wpnCall[d])
  BY DEF WpnInvariant
<1>1. \A d \in WpnCalls : wpnCall'[d] = IF d = c THEN r ELSE wpnCall[d]
  BY <1>0 DEF WpnTypes
<1>2. WpnTypes'
  BY <1>0 DEF WpnTypes
<1>3. /\ \A p \in parts : p.pending \/ (p.wpn # n /\ p.wpn \in ledger)
      /\ \A v \in revisions : v.wpn # n /\ v.wpn \in ledger
      /\ \A d \in WpnCalls \ {c} : n \notin Owned(wpnCall[d])
  BY <1>0 DEF Issued, OwnersAlone, Unwritten
<1>4. OwnersAlone'
  <2> SUFFICES ASSUME NEW d \in WpnCalls, NEW m \in Owned(wpnCall'[d])
               PROVE  /\ Unwritten(m)'
                      /\ \A e \in WpnCalls \ {d} : m \notin Owned(wpnCall'[e])
    BY DEF OwnersAlone, Owned
  <2>1. CASE d = c
    <3>1. m = n /\ n \in ledger'
      BY <1>1, <2>1
    <3> QED BY <1>1, <1>3, <2>1, <3>1 DEF Unwritten
  <2>2. CASE d # c
    <3>1. /\ m # n /\ Unwritten(m)
          /\ \A e \in WpnCalls \ {d} : m \notin Owned(wpnCall[e])
      BY <1>0, <1>1, <1>3, <2>2 DEF OwnersAlone
    <3> QED BY <1>1, <3>1 DEF Unwritten
  <2> QED BY <2>1, <2>2
<1>5. OnePart'
  BY <1>0, <1>1 DEF OnePart, Inserting
<1>6. \A d \in WpnCalls : AskedFor(wpnCall[d])' /\ Reconciled(wpnCall[d])'
  BY <1>0, <1>1 DEF Reconciled, AskedFor
<1>7. Issued'
  BY <1>0, <1>3 DEF Issued
<1>8. AllAccounted'
  <2> SUFFICES ASSUME NEW m \in ledger' PROVE Settled(m)' \/ \E d \in WpnCalls : Accounts(wpnCall'[d], m)
    BY DEF AllAccounted, Accounts
  <2>1. CASE m = n
    BY <1>1, <2>1
  <2>2. CASE m # n
    <3>1. m \in ledger
      BY <2>2
    <3>2. CASE Settled(m)
      BY <3>2 DEF Settled
    <3>3. CASE \E d \in WpnCalls : Accounts(wpnCall[d], m)
      BY <1>1, <3>3
    <3> QED BY <1>0, <3>1, <3>2, <3>3 DEF AllAccounted
  <2> QED BY <2>1, <2>2
<1> QED BY <1>2, <1>4, <1>5, <1>6, <1>7, <1>8 DEF WpnInvariant

LEMMA WpnIssueSteps ==
  ASSUME PartAssumption, WpnInvariant, NEW c \in WpnCalls,
         HaroldIssues(c) \/ HaroldReleases(c) \/ HaroldAnswerLost(c)
  PROVE  WpnInvariant'
<1>1. /\ wpnCall[c] \in WpnRequest /\ AskedFor(wpnCall[c]) /\ Reconciled(wpnCall[c])
      /\ \A n \in ledger : n \in PartNumber /\ n # NoNumber
      /\ wpnCall[c].pc = "asking" /\ wpnCall[c].answer = "none" /\ wpnCall[c].wpn = NoNumber
      /\ UNCHANGED <<parts, revisions, fallback, orphans>>
      /\ dropped \subseteq dropped' /\ WpnTypes
  BY WpnKnown DEF HaroldIssues, HaroldReleases, HaroldAnswerLost, AskedFor, database, WpnInvariant
<1> DEFINE After(r, answer, n) ==
      /\ r \in WpnRequest /\ r.pc = "answered" /\ r.answer = answer /\ r.wpn = n
      /\ r.op = wpnCall[c].op /\ r.target = wpnCall[c].target /\ r.ask = wpnCall[c].ask
      /\ r.arg = wpnCall[c].arg
<1>2. \A answer \in {"ok", "duplicate", "unavailable"}, n \in Numbers :
        After(WithAnswer(wpnCall[c], answer, n), answer, n)
  BY <1>1, AnswerRecord
<1>3. ASSUME NEW r, NEW answer, NEW n, After(r, answer, n)
      PROVE  /\ Reconciled(r)
             /\ Inserting(r) => Inserting(wpnCall[c]) /\ r.target = wpnCall[c].target
  BY <1>1, <1>3 DEF Reconciled, Inserting
<1>4. ASSUME NEW n \in Issuable(wpnCall[c].ask, wpnCall[c].arg), ledger' = ledger \cup {n},
             NEW r, wpnCall' = [wpnCall EXCEPT ![c] = r],
             \/ After(r, "ok", n)
             \/ After(r, "unavailable", NoNumber) /\ [wpn |-> n, cause |-> "answer"] \in dropped'
      PROVE  WpnInvariant'
  <2>1. /\ n \in PartNumber /\ n \notin ledger /\ wpnCall[c].ask \notin {"none", "release"}
        /\ wpnCall[c].ask = "issue" => n.code = "PART"
        /\ wpnCall[c].ask = "issue_specific" => n = wpnCall[c].arg
    BY <1>1, IssuedIsNew
  <2>2. AskedFor(r) /\ Owned(r) \subseteq {n}
    BY <1>1, <1>4, <2>1 DEF AskedFor, Owned
  <2>3. \A m \in ledger : ~Accounts(wpnCall[c], m)
    BY <1>1, <2>1 DEF Accounts
  <2>4. Accounts(r, n) \/ Settled(n)'
    BY <1>4 DEF Accounts, Settled
  <2>5. r \in WpnRequest /\ Reconciled(r)
        /\ (Inserting(r) => Inserting(wpnCall[c]) /\ r.target = wpnCall[c].target)
    BY <1>3, <1>4
  <2>6. \A m \in ledger' : m = n \/ Accounts(wpnCall[c], m) => Accounts(r, m) \/ Settled(m)'
    BY <1>4, <2>3, <2>4 DEF Settled
  <2> HIDE DEF After
  <2> QED BY <1>1, <1>4, <2>1, <2>2, <2>5, <2>6, WpnLedger
<1>5. ASSUME wpnCall[c].ask = "release", ledger' = ledger \ {wpnCall[c].arg},
             NEW r, wpnCall' = [wpnCall EXCEPT ![c] = r],
             After(r, "ok", NoNumber) \/ After(r, "unavailable", NoNumber)
      PROVE  WpnInvariant'
  <2>1. wpnCall[c].arg \in PartNumber /\ wpnCall[c].arg \in Owned(wpnCall[c])
    BY <1>1, <1>5 DEF AskedFor, Owned
  <2>2. AskedFor(r) /\ Owned(r) = {}
    BY <1>1, <1>5 DEF AskedFor, Owned
  <2>3. \A m \in ledger' : m # wpnCall[c].arg /\ ~Accounts(wpnCall[c], m)
    BY <1>1, <1>5 DEF Accounts
  <2>4. r \in WpnRequest /\ Reconciled(r)
        /\ (Inserting(r) => Inserting(wpnCall[c]) /\ r.target = wpnCall[c].target)
    BY <1>3, <1>5
  <2> HIDE DEF After
  <2> QED BY <1>1, <1>5, <2>1, <2>2, <2>3, <2>4, WpnLedger
<1> HIDE DEF After
<1>6. CASE HaroldIssues(c)
  <2>1. PICK n \in Issuable(wpnCall[c].ask, wpnCall[c].arg) :
          /\ ledger' = ledger \cup {n}
          /\ wpnCall' = [wpnCall EXCEPT ![c] = WithAnswer(wpnCall[c], "ok", n)]
    BY <1>6 DEF HaroldIssues, Answered, WithAnswer
  <2>2. n \in Numbers
    BY <1>1, IssuedIsNew DEF Numbers
  <2> QED BY <1>2, <1>4, <2>1, <2>2
<1>7. CASE HaroldReleases(c)
  <2>1. /\ wpnCall[c].ask = "release" /\ ledger' = ledger \ {wpnCall[c].arg}
        /\ wpnCall' = [wpnCall EXCEPT ![c] = WithAnswer(wpnCall[c], "ok", NoNumber)]
    BY <1>7 DEF HaroldReleases, Answered, WithAnswer
  <2>2. NoNumber \in Numbers
    BY DEF Numbers
  <2> QED BY <1>2, <1>5, <2>1, <2>2
<1>8. CASE HaroldAnswerLost(c)
  <2>1. wpnCall' = [wpnCall EXCEPT ![c] = WithAnswer(wpnCall[c], "unavailable", NoNumber)]
    BY <1>8 DEF HaroldAnswerLost, Answered, WithAnswer
  <2>2. NoNumber \in Numbers
    BY DEF Numbers
  <2>3. CASE wpnCall[c].ask = "release"
    BY <1>2, <1>5, <1>8, <2>1, <2>2, <2>3 DEF HaroldAnswerLost
  <2>4. CASE wpnCall[c].ask # "release"
    <3>1. PICK n \in Issuable(wpnCall[c].ask, wpnCall[c].arg) :
            ledger' = ledger \cup {n} /\ [wpn |-> n, cause |-> "answer"] \in dropped'
      BY <1>8, <2>4 DEF HaroldAnswerLost
    <3> QED BY <1>2, <1>4, <2>1, <2>2, <3>1
  <2> QED BY <2>3, <2>4
<1> QED BY <1>6, <1>7, <1>8

\* A request writes its rows and ends.
LEMMA WpnCommit ==
  ASSUME WpnInvariant, NEW c \in WpnCalls,
         wpnCall' = [wpnCall EXCEPT ![c] = AtRest("ended")],
         UNCHANGED <<ledger, orphans, dropped>>, revisions \subseteq revisions',
         fallback' \in Nat, Issued',
         parts' \subseteq [import : Imports, wpn : PartNumber, pending : BOOLEAN],
         revisions' \subseteq [config : Configs, wpn : PartNumber],
         \A p, q \in parts' : p.import = q.import => p = q,
         \A d \in WpnCalls \ {c} :
           /\ \A n \in Owned(wpnCall[d]) : /\ \A p \in parts' : p.pending \/ p.wpn # n
                                           /\ \A v \in revisions' : v.wpn # n
           /\ Inserting(wpnCall[d]) => \A p \in parts' : p.import # wpnCall[d].target
           /\ wpnCall[d].op = "reconcile" =>
                /\ \E p \in parts' : p.import = wpnCall[d].target
                /\ wpnCall[d].ask = "issue_specific" =>
                     \A p \in parts' : p.import = wpnCall[d].target /\ p.pending => p.wpn = wpnCall[d].arg,
         \A n \in ledger : Accounts(wpnCall[c], n) => Settled(n)'
  PROVE  WpnInvariant'
<1>0. /\ WpnTypes /\ OwnersAlone /\ OnePart /\ AllAccounted
      /\ \A d \in WpnCalls : AskedFor(wpnCall[d])
  BY DEF WpnInvariant
<1> DEFINE r == AtRest("ended")
<1>1. r \in WpnRequest /\ AskedFor(r) /\ Owned(r) = {} /\ ~Inserting(r) /\ r.op # "reconcile"
  BY DEF AtRest, WpnRequest, Numbers, AskedFor, Owned, Inserting
<1> HIDE DEF r
<1>2. \A d \in WpnCalls : wpnCall'[d] = IF d = c THEN r ELSE wpnCall[d]
  BY <1>0 DEF WpnTypes, r
<1>3. WpnTypes'
  BY <1>0, <1>1 DEF WpnTypes, r
<1>4. OwnersAlone'
  <2> SUFFICES ASSUME NEW d \in WpnCalls, NEW n \in Owned(wpnCall'[d])
               PROVE  /\ Unwritten(n)'
                      /\ \A e \in WpnCalls \ {d} : n \notin Owned(wpnCall'[e])
    BY DEF OwnersAlone, Owned
  <2>1. d # c /\ n \in Owned(wpnCall[d])
    BY <1>1, <1>2
  <2>2. n \in ledger /\ \A e \in WpnCalls \ {d} : n \notin Owned(wpnCall[e])
    BY <1>0, <2>1 DEF OwnersAlone, Unwritten
  <2> QED BY <1>1, <1>2, <2>1, <2>2 DEF Unwritten
<1>5. OnePart'
  BY <1>0, <1>1, <1>2 DEF OnePart, Inserting
<1>6. \A d \in WpnCalls : AskedFor(wpnCall[d])' /\ Reconciled(wpnCall[d])'
  BY <1>0, <1>1, <1>2 DEF Reconciled, AskedFor
<1>7. AllAccounted'
  <2> SUFFICES ASSUME NEW m \in ledger PROVE Settled(m)' \/ \E d \in WpnCalls : Accounts(wpnCall'[d], m)
    BY DEF AllAccounted, Accounts
  <2>1. CASE Settled(m)
    BY <2>1 DEF Settled
  <2>2. CASE \E d \in WpnCalls : Accounts(wpnCall[d], m)
    BY <1>2, <2>2
  <2> QED BY <1>0, <2>1, <2>2 DEF AllAccounted
<1> QED BY <1>3, <1>4, <1>5, <1>6, <1>7 DEF WpnInvariant

\* What a request that was answered holds.
LEMMA WpnHeld ==
  ASSUME PartAssumption, WpnInvariant, NEW c \in WpnCalls,
         wpnCall[c].answer = "ok", wpnCall[c].ask # "release"
  PROVE  LET n == wpnCall[c].wpn IN
         /\ n \in PartNumber /\ Unwritten(n)
         /\ \A d \in WpnCalls \ {c} : n \notin Owned(wpnCall[d])
         /\ wpnCall[c].ask \in {"issue", "issue_specific"} => n.code = "PART" \/ n \in Typed
BY WpnKnown DEF AskedFor, WpnInvariant, OwnersAlone, Owned

LEMMA WpnCommitSteps ==
  ASSUME PartAssumption, WpnInvariant, NEW c \in WpnCalls,
         Approve_Commit(c) \/ Reconcile_Registered(c) \/ Reconcile_Renumber(c) \/ Persist_Commit(c)
  PROVE  WpnInvariant'
<1> DEFINE w == wpnCall[c]
<1>1. /\ w \in WpnRequest /\ AskedFor(w) /\ Reconciled(w)
      /\ \A n \in ledger : n \in PartNumber /\ n # NoNumber
      /\ wpnCall' = [wpnCall EXCEPT ![c] = AtRest("ended")]
      /\ UNCHANGED <<ledger, orphans, dropped>>
      /\ w.pc = "answered"
  BY WpnKnown DEF Approve_Commit, Reconcile_Registered, Reconcile_Renumber, Persist_Commit, End,
                  database, Resumes
<1>2. /\ WpnTypes /\ OwnersAlone /\ OnePart /\ Issued
      /\ \A d \in WpnCalls : Reconciled(wpnCall[d])
  BY DEF WpnInvariant
<1>3. w.op \in {"approve", "reconcile"} => \A n \in ledger : Accounts(w, n) => Settled(n)'
  BY <1>1 DEF AskedFor, Accounts, Settled, WpnRequest
<1>4. w.answer = "ok" /\ w.ask # "release" =>
        /\ w.wpn \in PartNumber /\ Unwritten(w.wpn)
        /\ \A d \in WpnCalls \ {c} : w.wpn \notin Owned(wpnCall[d])
  BY WpnHeld
<1>5. \A d \in WpnCalls : \A n \in Owned(wpnCall[d]) : Unwritten(n)
  BY <1>2 DEF OwnersAlone
<1>6. CASE Approve_Commit(c)
  <2> DEFINE new == [import |-> w.target, wpn |-> Number(c), pending |-> Pending(c)]
  <2>1. /\ w.op = "approve" /\ w.target \in Imports /\ w.ask # "release"
        /\ parts' = parts \cup {new} /\ UNCHANGED revisions
        /\ fallback' \in Nat
    BY <1>1, <1>2, <1>6 DEF Approve_Commit, Resumes, AskedFor, WpnTypes
  <2>2. /\ new.wpn \in PartNumber /\ new.pending \in BOOLEAN /\ new.import = w.target
        /\ IF new.pending THEN new.wpn.code = "PART" \/ new.wpn \in Typed ELSE new.wpn = w.wpn
        /\ ~new.pending => w.answer = "ok"
    <3>1. CASE w.answer = "ok"
      BY <1>4, <2>1, <3>1 DEF Number, Pending
    <3>2. CASE w.answer # "ok" /\ w.typed # NoNumber
      BY <1>1, <3>2 DEF Number, Pending, PartAssumption, WpnRequest
    <3>3. CASE w.answer # "ok" /\ w.typed = NoNumber
      BY <1>2, <3>3 DEF Number, Pending, PartNumber, WpnTypes
    <3> QED BY <3>1, <3>2, <3>3
  <2>3. new \in [import : Imports, wpn : PartNumber, pending : BOOLEAN]
    BY <2>1, <2>2
  <2> HIDE DEF new
  <2>4. /\ \A p \in parts : p.import # w.target
        /\ \A d \in WpnCalls \ {c} : Inserting(wpnCall[d]) => wpnCall[d].target # w.target
    BY <1>1, <1>2, <2>1 DEF OnePart, Inserting
  <2>5. Issued'
    BY <1>1, <1>2, <1>4, <2>1, <2>2 DEF Issued, Unwritten
  <2>6. \A p, q \in parts' : p.import = q.import => p = q
    BY <1>2, <2>1, <2>2, <2>4 DEF OnePart
  <2>7. ASSUME NEW d \in WpnCalls \ {c}
        PROVE  /\ \A n \in Owned(wpnCall[d]) : /\ \A p \in parts' : p.pending \/ p.wpn # n
                                               /\ \A v \in revisions' : v.wpn # n
               /\ Inserting(wpnCall[d]) => \A p \in parts' : p.import # wpnCall[d].target
    BY <1>2, <1>4, <1>5, <2>1, <2>2, <2>4 DEF Unwritten, OnePart
  <2>8. ASSUME NEW d \in WpnCalls \ {c}, wpnCall[d].op = "reconcile"
        PROVE  /\ \E p \in parts' : p.import = wpnCall[d].target
               /\ wpnCall[d].ask = "issue_specific" =>
                    \A p \in parts' : p.import = wpnCall[d].target /\ p.pending => p.wpn = wpnCall[d].arg
    BY <1>2, <2>1, <2>2, <2>4, <2>8 DEF Reconciled
  <2> QED BY <1>1, <1>2, <1>3, <2>1, <2>3, <2>5, <2>6, <2>7, <2>8, WpnCommit DEF WpnTypes
<1>7. CASE Reconcile_Registered(c) \/ Reconcile_Renumber(c)
  <2> DEFINE Written(p) ==
        IF p.import # w.target THEN p
        ELSE IF w.ask = "issue" THEN [p EXCEPT !.pending = FALSE, !.wpn = w.wpn]
        ELSE [p EXCEPT !.pending = FALSE]
  <2>1. /\ w.op = "reconcile" /\ w.answer = "ok" /\ w.ask \in {"issue", "issue_specific"}
        /\ parts' = {Written(p) : p \in parts} /\ UNCHANGED <<revisions, fallback>>
    BY <1>7 DEF Reconcile_Registered, Reconcile_Renumber, Resumes
  <2>2. ASSUME NEW p \in parts
        PROVE  /\ Written(p) \in [import : Imports, wpn : PartNumber, pending : BOOLEAN]
               /\ Written(p).import = p.import
               /\ p.import # w.target => Written(p) = p
               /\ p.import = w.target => ~Written(p).pending
               /\ Written(p).wpn \in {p.wpn, w.wpn}
               /\ p.pending /\ p.import = w.target => Written(p).wpn = w.wpn
    <3>1. p \in [import : Imports, wpn : PartNumber, pending : BOOLEAN] /\ w.wpn \in PartNumber
      BY <1>2, <1>4, <2>1 DEF WpnTypes
    <3>2. w.ask = "issue_specific" /\ p.pending /\ p.import = w.target => p.wpn = w.wpn
      BY <1>1, <2>1 DEF Reconciled, AskedFor
    <3> QED BY <2>1, <3>1, <3>2
  <2> HIDE DEF Written
  <2>3. Issued'
    BY <1>1, <1>2, <1>4, <2>1, <2>2 DEF Issued, Unwritten
  <2>4. \A p, q \in parts' : p.import = q.import => p = q
    BY <1>2, <2>1, <2>2 DEF OnePart
  <2>5. ASSUME NEW d \in WpnCalls \ {c}
        PROVE  /\ \A n \in Owned(wpnCall[d]) : /\ \A p \in parts' : p.pending \/ p.wpn # n
                                               /\ \A v \in revisions' : v.wpn # n
               /\ Inserting(wpnCall[d]) => \A p \in parts' : p.import # wpnCall[d].target
    <3>1. ASSUME NEW n \in Owned(wpnCall[d]), NEW p \in parts
          PROVE  Written(p).pending \/ Written(p).wpn # n
      BY <1>4, <1>5, <2>1, <2>2, <3>1 DEF Unwritten
    <3> QED BY <1>2, <1>5, <2>1, <2>2, <3>1 DEF Unwritten, OnePart
  <2>6. ASSUME NEW d \in WpnCalls \ {c}, wpnCall[d].op = "reconcile"
        PROVE  /\ \E p \in parts' : p.import = wpnCall[d].target
               /\ wpnCall[d].ask = "issue_specific" =>
                    \A p \in parts' : p.import = wpnCall[d].target /\ p.pending => p.wpn = wpnCall[d].arg
    BY <1>2, <2>1, <2>2, <2>6 DEF Reconciled
  <2>7. /\ parts' \subseteq [import : Imports, wpn : PartNumber, pending : BOOLEAN]
        /\ revisions' \subseteq [config : Configs, wpn : PartNumber] /\ fallback' \in Nat
        /\ revisions \subseteq revisions'
    BY <1>2, <2>1, <2>2 DEF WpnTypes
  <2>8. \A n \in ledger : Accounts(w, n) => Settled(n)'
    BY <1>3, <2>1
  <2> QED BY <1>1, <2>3, <2>4, <2>5, <2>6, <2>7, <2>8, WpnCommit
<1>8. CASE Persist_Commit(c)
  <2> DEFINE new == [config |-> w.target, wpn |-> w.wpn]
  <2>1. /\ w.op = "persist" /\ w.ask # "release" /\ w.answer = "ok" /\ w.target \in Configs
        /\ revisions' = revisions \cup {new} /\ UNCHANGED <<parts, fallback>>
    BY <1>1, <1>8 DEF Persist_Commit, Resumes, AskedFor
  <2>2. new \in [config : Configs, wpn : PartNumber] /\ new.wpn = w.wpn
    BY <1>4, <2>1
  <2> HIDE DEF new
  <2>3. Issued'
    BY <1>1, <1>2, <1>4, <2>1, <2>2 DEF Issued, Unwritten
  <2>4. \A n \in ledger : Accounts(w, n) => Settled(n)'
    BY <2>1, <2>2 DEF Accounts, Settled
  <2>5. \A d \in WpnCalls \ {c} : \A n \in Owned(wpnCall[d]) :
          (\A p \in parts' : p.pending \/ p.wpn # n) /\ (\A v \in revisions' : v.wpn # n)
    BY <1>4, <1>5, <2>1, <2>2 DEF Unwritten
  <2> QED BY <1>1, <1>2, <2>1, <2>2, <2>3, <2>4, <2>5, WpnCommit DEF WpnTypes, OnePart, Reconciled
<1> QED BY <1>6, <1>7, <1>8

\* What dies with its worker is written down; everything else stays.
LEMMA WpnRestartStep ==
  ASSUME PartAssumption, WpnInvariant, NEW w \in Workers, Restart(w)
  PROVE  WpnInvariant'
<1> DEFINE gone == {c \in Active : workerOf[c] = w}
           r == AtRest("ended")
<1>0. /\ WpnTypes /\ OwnersAlone /\ OnePart /\ Issued /\ AllAccounted
      /\ \A d \in WpnCalls : AskedFor(wpnCall[d]) /\ Reconciled(wpnCall[d])
  BY DEF WpnInvariant
<1>1. r \in WpnRequest /\ AskedFor(r) /\ Owned(r) = {} /\ ~Inserting(r) /\ r.op # "reconcile"
  BY DEF AtRest, WpnRequest, Numbers, AskedFor, Owned, Inserting
<1>2. /\ wpnCall' = [c \in WpnCalls |-> IF c \in gone THEN r ELSE wpnCall[c]]
      /\ UNCHANGED <<ledger, parts, revisions, fallback, orphans>>
      /\ dropped' = dropped \cup {[wpn |-> n, cause |-> "restart"] :
                                    n \in (UNION {InHand(c) : c \in gone}) \ {NoNumber}}
  BY DEF Restart, database
<1> HIDE DEF r, gone
<1>3. \A d \in WpnCalls : wpnCall'[d] \in {r, wpnCall[d]} /\ (d \notin gone => wpnCall'[d] = wpnCall[d])
  BY <1>2
<1>4. WpnTypes'
  BY <1>0, <1>1, <1>2 DEF WpnTypes
<1>5. OwnersAlone'
  <2> SUFFICES ASSUME NEW d \in WpnCalls, NEW n \in Owned(wpnCall'[d])
               PROVE  /\ Unwritten(n)'
                      /\ \A e \in WpnCalls \ {d} : n \notin Owned(wpnCall'[e])
    BY DEF OwnersAlone, Owned
  <2>1. \A e \in WpnCalls : Owned(wpnCall'[e]) \subseteq Owned(wpnCall[e])
    BY <1>1, <1>3
  <2>2. Unwritten(n) /\ \A e \in WpnCalls \ {d} : n \notin Owned(wpnCall[e])
    BY <1>0, <2>1 DEF OwnersAlone
  <2> QED BY <1>2, <2>1, <2>2 DEF Unwritten
<1>6. OnePart'
  BY <1>0, <1>1, <1>2, <1>3 DEF OnePart, Inserting
<1>7. \A d \in WpnCalls : AskedFor(wpnCall[d])' /\ Reconciled(wpnCall[d])'
  BY <1>0, <1>1, <1>2, <1>3 DEF Reconciled, AskedFor
<1>8. Issued'
  BY <1>0, <1>2 DEF Issued
<1>9. AllAccounted'
  <2> SUFFICES ASSUME NEW m \in ledger PROVE Settled(m)' \/ \E d \in WpnCalls : Accounts(wpnCall'[d], m)
    BY <1>2 DEF AllAccounted, Accounts
  <2>1. CASE Settled(m)
    BY <1>2, <2>1 DEF Settled
  <2>2. ASSUME NEW d \in WpnCalls, Accounts(wpnCall[d], m)
        PROVE  Settled(m)' \/ Accounts(wpnCall'[d], m)
    <3>1. m # NoNumber /\ m \in InHand(d)
      BY <1>0, <2>2 DEF Accounts, InHand, WpnTypes, PartAssumption
    <3>2. CASE d \in gone
      <4>1. m \in (UNION {InHand(x) : x \in gone}) \ {NoNumber}
        BY <3>1, <3>2
      <4>2. [wpn |-> m, cause |-> "restart"] \in dropped'
        BY <1>2, <4>1
      <4> QED BY <4>2 DEF Settled
    <3> QED BY <1>3, <2>2, <3>2
  <2> QED BY <1>0, <2>1, <2>2 DEF AllAccounted
<1> QED BY <1>4, <1>5, <1>6, <1>7, <1>8, <1>9 DEF WpnInvariant

LEMMA WpnEveryStep ==
  ASSUME PartAssumption, WpnInvariant, [WpnNext]_wpnVars
  PROVE  WpnInvariant'
<1>1. CASE UNCHANGED wpnVars
  BY <1>1 DEF wpnVars, WpnInvariant, WpnTypes, OwnersAlone, Owned, Unwritten, OnePart, Inserting,
              AskedFor, Reconciled, Issued, AllAccounted, Settled, Accounts
<1>2. ASSUME NEW c \in WpnCalls, WpnCallStep(c) PROVE WpnInvariant'
  BY <1>2, WpnWaitSteps, WpnInsertStep, WpnEndSteps, WpnAskSteps, WpnCommitSteps DEF WpnCallStep
<1>3. ASSUME NEW c \in WpnCalls, HaroldStep(c) \/ HaroldUnavailable(c) \/ HaroldAnswerLost(c)
      PROVE  WpnInvariant'
  BY <1>3, WpnNoAnswerSteps, WpnIssueSteps DEF HaroldStep
<1> QED BY <1>1, <1>2, <1>3, WpnBeginSteps, WpnRestartStep DEF WpnNext

\* The ledger does not drift silently (allocate_and_persist, harold_naming/
\* service.py:248): what counts as issued is in it, and an engineering number of
\* it that no revision has is accounted for. For any number of requests, workers,
\* imports and faults.
THEOREM LedgerDoesNotDrift ==
  ASSUME PartAssumption PROVE WpnSpec => []LedgerIsAccounted
<1> QED BY AccountsForLedger, WpnStart, WpnEveryStep, PTL DEF WpnSpec

-----------------------------------------------------------------------------
(* Bundles                                                                   *)

\* A request that alone writes a new bundle finds no row for it, and the zip it
\* has opened, or closed, is its own. Only what has a row is rendered again.
IsWriting(q) == request[q].op \in {"write", "fill", "record"}
IsRendering(q) == request[q].op \in {"render", "refill"}
ZipOf(h, d, filling, q) == d.hash = h => d.manifest = q /\ d.filling = filling
WriterOK(q) ==
  IsWriting(q) /\ <<"bundle", request[q].hash>> \notin raced =>
    /\ \A e \in exports : e.hash # request[q].hash
    /\ \A o \in Requests : IsWriting(o) /\ request[o].hash = request[q].hash => o = q
    /\ request[q].op = "fill" => \A d \in disk : ZipOf(request[q].hash, d, q, q)
    /\ request[q].op = "record" => \A d \in disk : ZipOf(request[q].hash, d, None, q)
RenderOK(q) ==
  IsRendering(q) =>
    \E e \in exports : /\ e.hash = request[q].hash
                       /\ request[q].op = "render" => request[q].manifest = e.manifest
MayBeTorn(r) == request[r].op \in {"refill", "torn"}

BundleInvariant ==
  /\ DOMAIN request = Requests /\ None \notin Requests
  /\ \A e, f \in exports : e.hash = f.hash => e = f
  /\ BundleOnDisk
  /\ \A d \in disk : d.filling \in Requests \cup {None}
  /\ \A q \in Requests : WriterOK(q) /\ RenderOK(q)

\* A request that goes on without touching a bundle.
LEMMA NoBundle ==
  ASSUME BundleInvariant, NEW q \in Requests, NEW next, Then(q, next),
         next.op \notin {"write", "fill", "record", "refill"},
         MayBeTorn(q) => next.op = "torn",
         next.op = "render" =>
           \E e \in exports : e.hash = next.hash /\ next.manifest = e.manifest,
         UNCHANGED bundles, \A h : <<"bundle", h>> \in raced => <<"bundle", h>> \in raced'
  PROVE  BundleInvariant'
<1>1. /\ DOMAIN request' = Requests /\ request'[q] = next
      /\ \A o \in Requests \ {q} : request'[o] = request[o]
      /\ exports' = exports /\ disk' = disk
  BY DEF BundleInvariant, Then, bundles
<1>2. \A r \in Requests : MayBeTorn(r) => MayBeTorn(r)'
  BY <1>1 DEF MayBeTorn
<1>3. BundleOnDisk'
  BY <1>1, <1>2 DEF BundleInvariant, BundleOnDisk, MayBeTorn
<1>4. \A o \in Requests : WriterOK(o)'
  BY <1>1 DEF BundleInvariant, WriterOK, IsWriting
<1>5. \A o \in Requests : RenderOK(o)'
  BY <1>1 DEF BundleInvariant, RenderOK, IsRendering
<1> QED BY <1>1, <1>3, <1>4, <1>5 DEF BundleInvariant

LEMMA ReuseBundle ==
  ASSUME BundleInvariant, NEW q \in Requests, ReuseExport(q)
  PROVE  BundleInvariant'
<1> PICK h : h = request[q].hash
  OBVIOUS
<1>1. PICK e \in exports :
        /\ e.hash = h
        /\ \/ Then(q, [op |-> "render", hash |-> h, manifest |-> e.manifest])
           \/ Then(q, [op |-> "done"])
  BY DEF ReuseExport, Recorded, RenderedFrom, Ends
<1>2. request[q].op = "export" /\ UNCHANGED bundles /\ raced' = raced
  BY DEF ReuseExport
<1>3. ~MayBeTorn(q)
  BY <1>2 DEF MayBeTorn
<1> QED BY <1>1, <1>2, <1>3, NoBundle

LEMMA BeginBundle ==
  ASSUME BundleInvariant, NEW q \in Requests, StartBundle(q)
  PROVE  BundleInvariant'
<1> PICK h : h = request[q].hash
  OBVIOUS
<1>1. /\ request[q].op = "export" /\ exports' = exports /\ disk' = disk
      /\ \A e \in exports : e.hash # h
      /\ raced \subseteq raced'
      /\ \A o \in Requests : IsWriting(o) /\ request[o].hash = h => <<"bundle", h>> \in raced'
  BY DEF StartBundle, bundles, Recorded, Writing, IsWriting
<1>2. /\ DOMAIN request' = Requests /\ request'[q].op = "write" /\ request'[q].hash = h
      /\ \A o \in Requests \ {q} : request'[o] = request[o]
  BY DEF StartBundle, BundleInvariant, Then
<1>3. BundleOnDisk'
  <2>1. \A r \in Requests : MayBeTorn(r) => MayBeTorn(r)'
    BY <1>1, <1>2 DEF MayBeTorn
  <2> QED BY <1>1, <2>1 DEF BundleInvariant, BundleOnDisk, MayBeTorn
<1>4. ASSUME NEW o \in Requests PROVE WriterOK(o)' /\ RenderOK(o)'
  <2>1. CASE o = q
    BY <1>1, <1>2, <2>1 DEF WriterOK, IsWriting, RenderOK, IsRendering
  <2>2. CASE o # q
    <3>1. request'[o] = request[o] /\ WriterOK(o) /\ RenderOK(o)
      BY <1>2, <2>2 DEF BundleInvariant
    <3>2. WriterOK(o)'
      BY <1>1, <1>2, <3>1 DEF WriterOK, IsWriting
    <3>3. RenderOK(o)'
      BY <1>1, <3>1 DEF RenderOK, IsRendering
    <3> QED BY <3>2, <3>3
  <2> QED BY <2>1, <2>2
<1> QED BY <1>1, <1>2, <1>3, <1>4 DEF BundleInvariant

\* Whoever writes the bundle h, alone, is not disturbed by another's step on it.
LEMMA OthersWriteElsewhere ==
  ASSUME BundleInvariant, NEW q \in Requests, IsWriting(q) \/ IsRendering(q),
         NEW o \in Requests \ {q}, IsWriting(o), <<"bundle", request[o].hash>> \notin raced
  PROVE  request[o].hash # request[q].hash
<1>1. WriterOK(o) /\ RenderOK(q)
  BY DEF BundleInvariant
<1> QED BY <1>1 DEF WriterOK, RenderOK

LEMMA OpenZipStep ==
  ASSUME BundleInvariant, NEW q \in Requests, OpenZip(q)
  PROVE  BundleInvariant'
<1> PICK h : h = request[q].hash
  OBVIOUS
<1>1. PICK manifest, next :
        /\ \/ request[q].op = "write" /\ manifest = q /\ next = "fill"
           \/ request[q].op = "render" /\ manifest = request[q].manifest /\ next = "refill"
        /\ disk' = (disk \ OnDisk(h)) \cup {Zip(h, manifest, q)}
        /\ Then(q, [op |-> next, hash |-> h])
        /\ exports' = exports /\ raced' = raced
  BY DEF OpenZip
<1>2. /\ DOMAIN request' = Requests /\ request'[q].op = next /\ request'[q].hash = h
      /\ \A o \in Requests \ {q} : request'[o] = request[o]
  BY <1>1 DEF BundleInvariant, Then
<1>3. \A d \in disk' : \/ d \in disk /\ d.hash # h
                       \/ d.hash = h /\ d.manifest = manifest /\ d.filling = q
  BY <1>1 DEF OnDisk, Zip
<1>4. WriterOK(q) /\ RenderOK(q) /\ (IsWriting(q) \/ IsRendering(q)) /\ ~MayBeTorn(q)
  BY <1>1 DEF BundleInvariant, IsWriting, IsRendering, MayBeTorn
<1>5. BundleOnDisk'
  <2>1. ASSUME NEW e \in exports, NEW d \in disk', e.hash = d.hash, <<"bundle", e.hash>> \notin raced
        PROVE  d.manifest = e.manifest /\ (d.filling # None => MayBeTorn(d.filling)')
    <3>1. CASE d \in disk /\ d.hash # h
      <4>1. d.manifest = e.manifest /\ (d.filling # None => MayBeTorn(d.filling))
        BY <2>1, <3>1 DEF BundleInvariant, BundleOnDisk, MayBeTorn
      <4>2. d.filling \in Requests \cup {None}
        BY <3>1 DEF BundleInvariant
      <4> QED BY <1>2, <1>4, <4>1, <4>2 DEF MayBeTorn
    <3>2. CASE d.hash = h /\ d.manifest = manifest /\ d.filling = q
      <4>1. request[q].op = "render"
        BY <1>1, <1>4, <2>1, <3>2 DEF WriterOK, IsWriting
      <4>2. manifest = e.manifest
        BY <1>1, <1>4, <2>1, <3>2, <4>1 DEF RenderOK, IsRendering, BundleInvariant
      <4> QED BY <1>1, <1>2, <3>2, <4>1, <4>2 DEF MayBeTorn
    <3> QED BY <1>3, <3>1, <3>2
  <2> QED BY <1>1, <2>1 DEF BundleOnDisk, MayBeTorn
<1>6. ASSUME NEW o \in Requests PROVE WriterOK(o)'
  <2>1. CASE o = q
    <3>1. CASE next = "fill"
      <4>1. \A d \in disk' : ZipOf(h, d, q, q)
        BY <1>1, <1>3, <3>1 DEF ZipOf
      <4> QED BY <1>1, <1>2, <1>4, <2>1, <3>1, <4>1 DEF WriterOK, IsWriting
    <3>2. CASE next = "refill"
      BY <1>2, <2>1, <3>2 DEF WriterOK, IsWriting
    <3> QED BY <1>1, <3>1, <3>2
  <2>2. CASE o # q
    <3>1. request'[o] = request[o] /\ WriterOK(o)
      BY <1>2, <2>2 DEF BundleInvariant
    <3>2. ASSUME IsWriting(o), <<"bundle", request[o].hash>> \notin raced PROVE request[o].hash # h
      BY <1>4, <2>2, <3>2, OthersWriteElsewhere
    <3>3. \A p \in Requests : IsWriting(p)' => IsWriting(p) /\ request'[p].hash = request[p].hash
      BY <1>1, <1>2 DEF IsWriting
    <3>4. ASSUME IsWriting(o), <<"bundle", request[o].hash>> \notin raced,
                 NEW d \in disk', d.hash = request[o].hash
          PROVE  d \in disk
      BY <1>3, <3>2, <3>4
    <3> QED BY <1>1, <3>1, <3>3, <3>4 DEF WriterOK, IsWriting, ZipOf
  <2> QED BY <2>1, <2>2
<1>7. ASSUME NEW o \in Requests PROVE RenderOK(o)'
  <2>1. CASE o = q
    BY <1>1, <1>2, <1>4, <2>1 DEF RenderOK, IsRendering
  <2>2. CASE o # q
    <3>1. request'[o] = request[o] /\ RenderOK(o)
      BY <1>2, <2>2 DEF BundleInvariant
    <3> QED BY <1>1, <3>1 DEF RenderOK, IsRendering
  <2> QED BY <2>1, <2>2
<1>8. \A d \in disk' : d.filling \in Requests \cup {None}
  BY <1>3 DEF BundleInvariant
<1> QED BY <1>1, <1>2, <1>5, <1>6, <1>7, <1>8 DEF BundleInvariant

LEMMA CloseZipStep ==
  ASSUME BundleInvariant, NEW q \in Requests, CloseZip(q)
  PROVE  BundleInvariant'
<1> PICK h : h = request[q].hash
  OBVIOUS
<1>1. /\ request[q].op \in {"fill", "refill"} /\ exports' = exports /\ raced' = raced
      /\ disk' = {IF d.filling = q THEN Zip(d.hash, d.manifest, None) ELSE d : d \in disk}
      /\ IF request[q].op = "fill" THEN Then(q, [op |-> "record", hash |-> h])
         ELSE Then(q, [op |-> "done"])
  BY DEF CloseZip, Ends
<1>2. /\ DOMAIN request' = Requests
      /\ request[q].op = "fill" => request'[q].op = "record" /\ request'[q].hash = h
      /\ request[q].op = "refill" => request'[q].op = "done"
      /\ \A o \in Requests \ {q} : request'[o] = request[o]
  BY <1>1 DEF BundleInvariant, Then
<1>3. WriterOK(q) /\ (IsWriting(q) \/ IsRendering(q))
  BY <1>1 DEF BundleInvariant, IsWriting, IsRendering
<1>4. \A c \in disk' : \E d \in disk :
        \/ c = d /\ d.filling # q
        \/ d.filling = q /\ c = Zip(d.hash, d.manifest, None)
  BY <1>1
<1>5. BundleOnDisk' /\ \A c \in disk' : c.filling \in Requests \cup {None}
  <2>1. ASSUME NEW c \in disk'
        PROVE  /\ c.filling \in Requests \cup {None}
               /\ \A e \in exports : e.hash = c.hash /\ <<"bundle", e.hash>> \notin raced =>
                    c.manifest = e.manifest /\ (c.filling # None => MayBeTorn(c.filling)')
    <3> PICK d \in disk : \/ c = d /\ d.filling # q
                          \/ d.filling = q /\ c = Zip(d.hash, d.manifest, None)
      BY <1>4
    <3>1. /\ d.filling \in Requests \cup {None}
          /\ \A e \in exports : e.hash = d.hash /\ <<"bundle", e.hash>> \notin raced =>
               d.manifest = e.manifest /\ (d.filling # None => MayBeTorn(d.filling))
      BY DEF BundleInvariant, BundleOnDisk, MayBeTorn
    <3>2. CASE c = d /\ d.filling # q
      BY <1>2, <3>1, <3>2 DEF MayBeTorn
    <3>3. CASE d.filling = q /\ c = Zip(d.hash, d.manifest, None)
      <4>1. c.hash = d.hash /\ c.manifest = d.manifest /\ c.filling = None
        BY <3>3 DEF Zip
      <4> QED BY <3>1, <4>1
    <3> QED BY <3>2, <3>3
  <2> QED BY <1>1, <2>1 DEF BundleOnDisk, MayBeTorn
<1>7. ASSUME NEW o \in Requests PROVE WriterOK(o)'
  <2>1. CASE o = q
    <3>1. CASE request[q].op = "fill"
      <4>1. ASSUME <<"bundle", h>> \notin raced, NEW c \in disk' PROVE ZipOf(h, c, None, q)
        <5>1. \A d \in disk : ZipOf(h, d, q, q)
          BY <1>3, <3>1, <4>1 DEF WriterOK, IsWriting
        <5> PICK d \in disk : \/ c = d /\ d.filling # q
                              \/ d.filling = q /\ c = Zip(d.hash, d.manifest, None)
          BY <1>4, <4>1
        <5> QED BY <5>1 DEF ZipOf, Zip
      <4> QED BY <1>1, <1>2, <1>3, <2>1, <3>1, <4>1 DEF WriterOK, IsWriting
    <3>2. CASE request[q].op = "refill"
      BY <1>2, <2>1, <3>2 DEF WriterOK, IsWriting
    <3> QED BY <1>1, <3>1, <3>2
  <2>2. CASE o # q
    <3>1. request'[o] = request[o] /\ WriterOK(o)
      BY <1>2, <2>2 DEF BundleInvariant
    <3>2. \A p \in Requests : IsWriting(p)' => IsWriting(p) /\ request'[p].hash = request[p].hash
      BY <1>1, <1>2 DEF IsWriting
    <3>3. ASSUME NEW g, NEW filling \in {o, None}, \A d \in disk : ZipOf(g, d, filling, o),
                 NEW c \in disk'
          PROVE  ZipOf(g, c, filling, o)
      <4> PICK d \in disk : \/ c = d /\ d.filling # q
                            \/ d.filling = q /\ c = Zip(d.hash, d.manifest, None)
        BY <1>4, <3>3
      <4>1. filling # q
        BY <2>2 DEF BundleInvariant
      <4> QED BY <3>3, <4>1 DEF ZipOf, Zip
    <3> QED BY <1>1, <3>1, <3>2, <3>3 DEF WriterOK, IsWriting
  <2> QED BY <2>1, <2>2
<1>8. ASSUME NEW o \in Requests PROVE RenderOK(o)'
  <2>1. CASE o = q
    BY <1>1, <1>2, <2>1 DEF RenderOK, IsRendering
  <2>2. CASE o # q
    <3>1. request'[o] = request[o] /\ RenderOK(o)
      BY <1>2, <2>2 DEF BundleInvariant
    <3> QED BY <1>1, <3>1 DEF RenderOK, IsRendering
  <2> QED BY <2>1, <2>2
<1> QED BY <1>1, <1>2, <1>5, <1>7, <1>8 DEF BundleInvariant

LEMMA RecordBundle ==
  ASSUME BundleInvariant, NEW q \in Requests, RecordExport(q)
  PROVE  BundleInvariant'
<1> PICK h : h = request[q].hash
  OBVIOUS
<1>1. /\ request[q].op = "record" /\ disk' = disk /\ raced' = raced
      /\ exports' = IF Recorded(h) = {} THEN exports \cup {[hash |-> h, manifest |-> q]}
                    ELSE exports
  BY DEF RecordExport
<1>2. /\ DOMAIN request' = Requests /\ request'[q].op = "done"
      /\ \A o \in Requests \ {q} : request'[o] = request[o]
  BY DEF RecordExport, BundleInvariant, Ends, Then
<1>3. /\ exports \subseteq exports'
      /\ \/ exports' = exports
         \/ /\ exports' = exports \cup {[hash |-> h, manifest |-> q]}
            /\ \A e \in exports : e.hash # h
  BY <1>1 DEF Recorded
<1>4. \A e, f \in exports' : e.hash = f.hash => e = f
  BY <1>3 DEF BundleInvariant
<1>5. WriterOK(q) /\ ~MayBeTorn(q) /\ IsWriting(q)
  BY <1>1 DEF BundleInvariant, MayBeTorn, IsWriting
<1>6. BundleOnDisk'
  <2>1. ASSUME NEW e \in exports', NEW d \in disk, e.hash = d.hash,
               <<"bundle", e.hash>> \notin raced
        PROVE  d.manifest = e.manifest /\ (d.filling # None => MayBeTorn(d.filling)')
    <3>1. CASE e \in exports
      <4>1. d.manifest = e.manifest /\ (d.filling # None => MayBeTorn(d.filling))
        BY <2>1, <3>1 DEF BundleInvariant, BundleOnDisk, MayBeTorn
      <4>2. d.filling \in Requests \cup {None}
        BY DEF BundleInvariant
      <4> QED BY <1>2, <1>5, <4>1, <4>2 DEF MayBeTorn
    <3>2. CASE e = [hash |-> h, manifest |-> q]
      BY <1>1, <1>5, <2>1, <3>2 DEF WriterOK, IsWriting, ZipOf
    <3> QED BY <1>3, <2>1, <3>1, <3>2
  <2> QED BY <1>1, <2>1 DEF BundleOnDisk, MayBeTorn
<1>7. ASSUME NEW o \in Requests PROVE WriterOK(o)' /\ RenderOK(o)'
  <2>1. CASE o = q
    BY <1>2, <2>1 DEF WriterOK, IsWriting, RenderOK, IsRendering
  <2>2. CASE o # q
    <3>1. request'[o] = request[o] /\ WriterOK(o) /\ RenderOK(o)
      BY <1>2, <2>2 DEF BundleInvariant
    <3>2. ASSUME IsWriting(o), <<"bundle", request[o].hash>> \notin raced PROVE request[o].hash # h
      BY <1>5, <2>2, <3>2, OthersWriteElsewhere
    <3>3. WriterOK(o)'
      BY <1>1, <1>2, <1>3, <3>1, <3>2 DEF WriterOK, IsWriting
    <3>4. RenderOK(o)'
      BY <1>3, <3>1 DEF RenderOK, IsRendering
    <3> QED BY <3>3, <3>4
  <2> QED BY <2>1, <2>2
<1> QED BY <1>1, <1>2, <1>4, <1>6, <1>7 DEF BundleInvariant

LEMMA LosingFiles ==
  ASSUME BundleInvariant, NEW h, LoseFiles(h)
  PROVE  BundleInvariant'
<1>1. disk' \subseteq disk /\ exports' = exports /\ request' = request /\ raced' = raced
  BY DEF LoseFiles
<1>2. BundleOnDisk' /\ \A d \in disk' : d.filling \in Requests \cup {None}
  BY <1>1 DEF BundleInvariant, BundleOnDisk
<1>3. \A o \in Requests : WriterOK(o)' /\ RenderOK(o)'
  BY <1>1 DEF BundleInvariant, WriterOK, IsWriting, RenderOK, IsRendering
<1> QED BY <1>1, <1>2, <1>3 DEF BundleInvariant

LEMMA BundleStep ==
  ASSUME BundleInvariant, [EngineeringNext]_engVars
  PROVE  BundleInvariant'
<1>1. CASE UNCHANGED engVars
  BY <1>1 DEF engVars, bundles, BundleInvariant, BundleOnDisk, WriterOK, IsWriting, RenderOK, IsRendering
<1>2. ASSUME NEW q \in Requests,
             \/ \E changed \in BOOLEAN : RegisterFrame(q, changed)
             \/ \E b \in Bodies : CreateConfig(q, b) \/ \E k \in DOMAIN item : ReviseConfig(q, k, b)
             \/ \E k \in DOMAIN item : CloneConfig(q, k)
      PROVE  BundleInvariant'
  BY <1>2, NoBundle DEF RegisterFrame, CreateConfig, ReviseConfig, CloneConfig, SubmitConfig,
     NewItem, NewRevision, Ends, Idle, MayBeTorn
<1>3. ASSUME NEW q \in Requests, NEW name, NEW oml, IngestDeck(q, name, oml) PROVE BundleInvariant'
  BY <1>3, NoBundle DEF IngestDeck, NewItem, NewRevision, Idle, MayBeTorn
<1>4. ASSUME NEW q \in Requests, NEW name, NEW mass,
             IngestMotor(q, name, mass) \/ DesignMotor(q, name, mass)
      PROVE  BundleInvariant'
  BY <1>4, NoBundle DEF IngestMotor, DesignMotor, NewItem, NewRevision, Idle, MayBeTorn
<1>5. ASSUME NEW q \in Requests, NEW k, NEW oml, NEW mass, ReviseItem(q, k, oml, mass)
      PROVE  BundleInvariant'
  BY <1>5, NoBundle DEF ReviseItem, NewRevision, Idle, MayBeTorn
<1>6. ASSUME NEW q \in Requests, PersistItem(q) PROVE BundleInvariant'
  <2>1. raced \subseteq raced' /\ Then(q, [op |-> "done"]) /\ UNCHANGED bundles /\ ~MayBeTorn(q)
    BY <1>6 DEF PersistItem, EnsureCatalogEntry, Ends, MayBeTorn
  <2> QED BY <2>1, NoBundle
<1>7. ASSUME NEW q \in Requests, IssueLetter(q) \/ PersistRevision(q) \/ Refuse(q) \/ FailRevision(q)
      PROVE  BundleInvariant'
  BY <1>7, NoBundle DEF IssueLetter, PersistRevision, Refuse, FailRevision, Ends, MayBeTorn
<1>8. ASSUME NEW q \in Requests, FailExport(q) PROVE BundleInvariant'
  BY <1>8, NoBundle DEF FailExport, Ends, MayBeTorn
<1>9. ASSUME NEW q \in Requests, NEW k, NEW r,
             Select(q, k, r) \/ BeginExport(q, k, r) \/ FailSelection(q)
      PROVE  BundleInvariant'
  BY <1>9, NoBundle DEF Select, BeginExport, FailSelection, Ends, Idle, MayBeTorn
<1>10. ASSUME NEW q \in Requests, CommitSelection(q) PROVE BundleInvariant'
  <2>1. /\ \A h : <<"bundle", h>> \in raced => <<"bundle", h>> \in raced'
        /\ Then(q, [op |-> "done"]) /\ UNCHANGED bundles /\ ~MayBeTorn(q)
    BY <1>10 DEF CommitSelection, Ends, MayBeTorn
  <2> QED BY <2>1, NoBundle
<1>11. ASSUME NEW q \in Requests, NEW p, NEW mass,
              PatchMass(q, p, mass) \/ DeletePart(q, p) \/ DestroyPart(q, p)
       PROVE  BundleInvariant'
  BY <1>11, NoBundle DEF PatchMass, DeletePart, DestroyPart, Ends, Idle, MayBeTorn
<1> QED BY <1>1, <1>2, <1>3, <1>4, <1>5, <1>6, <1>7, <1>8, <1>9, <1>10, <1>11,
           ReuseBundle, BeginBundle, OpenZipStep, CloseZipStep, RecordBundle, LosingFiles
        DEF EngineeringNext

\* What is on disk for a recorded export is made from the manifest its row holds,
\* and is whole unless a worker renders it again or died over that, for any number
\* of exports that die, repeat or find their files lost, unless two new exports
\* wrote the bundle at once (services/engineering/bundle_export.py).
THEOREM BundlesMatchTheirRows ==
  ASSUME EngineeringAssumption PROVE EngineeringSpec => []BundleOnDisk
<1>1. EngineeringInit => BundleInvariant
  BY DEF EngineeringInit, EngineeringAssumption, BundleInvariant, BundleOnDisk, WriterOK, IsWriting,
         RenderOK, IsRendering
<1>2. BundleInvariant /\ [EngineeringNext]_engVars => BundleInvariant'
  BY BundleStep
<1>3. BundleInvariant => BundleOnDisk
  BY DEF BundleInvariant
<1> QED BY <1>1, <1>2, <1>3, PTL DEF EngineeringSpec

-----------------------------------------------------------------------------
(* Sequences                                                                 *)

LEMMA SeqFacts ==
  ASSUME NEW s, IsSeq(s)
  PROVE  /\ Len(s) \in Nat /\ DOMAIN s = 1 .. Len(s)
         /\ s = [x \in DOMAIN s |-> s[x]]
BY LenProperties DEF IsSeq

LEMMA SeqOf ==
  ASSUME NEW n \in Nat, NEW s, s = [x \in 1 .. n |-> s[x]]
  PROVE  IsSeq(s) /\ Len(s) = n
<1> DEFINE S == {s[x] : x \in 1 .. n}
<1>1. s \in [1 .. n -> S]
  OBVIOUS
<1>2. s \in Seq(S)
  BY <1>1, SeqDef
<1>3. DOMAIN s = 1 .. n
  BY <1>1
<1> QED BY <1>1, <1>2, <1>3, LenProperties DEF IsSeq

LEMMA Appended ==
  ASSUME NEW s, IsSeq(s), NEW e
  PROVE  /\ IsSeq(Append(s, e)) /\ DOMAIN Append(s, e) = DOMAIN s \cup {Len(s) + 1}
         /\ Len(s) + 1 \notin DOMAIN s /\ Append(s, e)[Len(s) + 1] = e
         /\ \A x \in DOMAIN s : Append(s, e)[x] = s[x]
<1> DEFINE S == {s[x] : x \in DOMAIN s} \cup {e}
           n == Len(s)
           t == Append(s, e)
<1>1. s \in Seq(S)
  BY SeqMonotonic DEF IsSeq
<1>2. /\ t \in Seq(S) /\ Len(t) = n + 1 /\ t[n + 1] = e
      /\ \A x \in 1 .. n : t[x] = s[x]
  BY <1>1, AppendProperties
<1>3. n \in Nat /\ DOMAIN s = 1 .. n
  BY SeqFacts
<1>4. t \in [1 .. n + 1 -> S]
  BY <1>2, LenProperties
<1>5. IsSeq(t)
  <2>1. t = [x \in 1 .. n + 1 |-> t[x]]
    BY <1>4
  <2> HIDE DEF t
  <2> QED BY <1>3, <2>1, SeqOf
<1>6. DOMAIN t = 1 .. n + 1
  BY <1>4
<1> HIDE DEF t, n
<1>7. 1 .. n + 1 = 1 .. n \cup {n + 1} /\ n + 1 \notin 1 .. n
  BY <1>3
<1> QED BY <1>2, <1>3, <1>5, <1>6, <1>7 DEF t, n

\* The sequence t is s with one more element.
Extends(t, s) == /\ IsSeq(t) /\ DOMAIN t = DOMAIN s \cup {Len(s) + 1}
                 /\ \A r \in DOMAIN s : t[r] = s[r]
LEMMA AppendedTo == \A s : IsSeq(s) => \A e : Extends(Append(s, e), s)
BY Appended DEF Extends

LEMMA Replaced ==
  ASSUME NEW s, IsSeq(s), NEW k, NEW e
  PROVE  IsSeq([s EXCEPT ![k] = e])
<1>1. Len(s) \in Nat /\ DOMAIN s = 1 .. Len(s)
  BY SeqFacts
<1> PICK t : t = [s EXCEPT ![k] = e]
  OBVIOUS
<1>2. t = [x \in 1 .. Len(s) |-> t[x]]
  BY <1>1
<1> QED BY <1>1, <1>2, SeqOf

-----------------------------------------------------------------------------
(* The mass of a motor                                                       *)

\* What a selection has read of its item stays: the item and the revision.
IsMotor(k) == item[k].kind = "motor"
SelectOK(q) ==
  request[q].op = "select" =>
    request[q].item \in DOMAIN item /\ request[q].rev \in DOMAIN item[request[q].item].revs

MotorInvariant ==
  /\ DOMAIN request = Requests
  /\ Consistent(item, part)
  /\ CatalogMassIsActive
  /\ \A q \in Requests : SelectOK(q)

\* A step that leaves the motors as they are, or takes note of those it does not.
MotorsKept ==
  /\ \A k \in DOMAIN item :
       /\ k \in DOMAIN item' /\ item'[k].kind = item[k].kind
       /\ IsMotor(k) => item'[k].active = item[k].active /\ item'[k].part \in {item[k].part, None}
       /\ \A r \in DOMAIN item[k].revs :
            r \in DOMAIN item'[k].revs /\ item'[k].revs[r] = item[k].revs[r]
       /\ IsMotor(k) /\ item[k].part # None =>
            \/ part'[item[k].part].mass = part[item[k].part].mass
            \/ <<"motor", k>> \in raced'
  /\ \A k \in DOMAIN item' \ DOMAIN item :
       item'[k].kind = "motor" =>
         \/ part'[item'[k].part].mass = item'[k].revs[item'[k].active].body.mass
         \/ <<"motor", k>> \in raced'

LEMMA Kept ==
  ASSUME MotorInvariant, NEW q \in Requests, NEW next, Then(q, next), next.op # "select",
         raced \subseteq raced', Consistent(item', part'), MotorsKept
  PROVE  MotorInvariant'
<1>1. /\ DOMAIN request' = Requests /\ request'[q] = next
      /\ \A o \in Requests \ {q} : request'[o] = request[o]
  BY DEF MotorInvariant, Then
<1>2. \A k \in DOMAIN item : item[k].active \in DOMAIN item[k].revs
  BY DEF MotorInvariant, Consistent
<1>3. CatalogMassIsActive'
  <2>1. ASSUME NEW k \in DOMAIN item', item'[k].kind = "motor"
        PROVE  \/ item'[k].part = None
               \/ part'[item'[k].part].mass = item'[k].revs[item'[k].active].body.mass
               \/ <<"motor", k>> \in raced'
    <3>1. CASE k \in DOMAIN item
      <4>1. IsMotor(k)
        BY <2>1, <3>1 DEF MotorsKept, IsMotor
      <4>2. \/ item[k].part = None
            \/ part[item[k].part].mass = item[k].revs[item[k].active].body.mass
            \/ <<"motor", k>> \in raced
        BY <3>1, <4>1 DEF MotorInvariant, CatalogMassIsActive, Of, IsMotor
      <4>3. item'[k].active = item[k].active /\ item'[k].part \in {item[k].part, None}
        BY <3>1, <4>1 DEF MotorsKept
      <4>4. item'[k].revs[item[k].active] = item[k].revs[item[k].active]
        BY <1>2, <3>1 DEF MotorsKept
      <4>5. item[k].part = None \/ part'[item[k].part].mass = part[item[k].part].mass
            \/ <<"motor", k>> \in raced'
        BY <3>1, <4>1 DEF MotorsKept
      <4> QED BY <4>2, <4>3, <4>4, <4>5
    <3> QED BY <2>1, <3>1 DEF MotorsKept
  <2> QED BY <2>1 DEF CatalogMassIsActive, Of
<1>4. ASSUME NEW o \in Requests PROVE SelectOK(o)'
  <2>1. CASE o = q
    BY <1>1, <2>1 DEF SelectOK
  <2>2. CASE o # q
    <3>1. request'[o] = request[o] /\ SelectOK(o)
      BY <1>1, <2>2 DEF MotorInvariant
    <3> QED BY <3>1 DEF SelectOK, MotorsKept
  <2> QED BY <2>1, <2>2
<1> QED BY <1>1, <1>3, <1>4 DEF MotorInvariant

LEMMA NoItem ==
  ASSUME MotorInvariant, NEW q \in Requests, NEW next, Then(q, next), next.op # "select",
         UNCHANGED <<item, part>>, raced \subseteq raced'
  PROVE  MotorInvariant'
BY Kept DEF MotorInvariant, MotorsKept

\* A new motor has a part made for it, or one that was found.
LEMMA PersistItemStep ==
  ASSUME MotorInvariant, NEW q \in Requests, PersistItem(q)
  PROVE  MotorInvariant'
<1> PICK c, k : c = request[q] /\ k = Len(item) + 1
  OBVIOUS
<1>1. PICK own :
        /\ item' = Append(item, NewRow(c, own)) /\ raced \subseteq raced' /\ Ends(q)
        /\ \/ c.kind = "motor" /\ own = Len(part) + 1 /\ part' = Append(part, MotorPart(c.body.mass))
           \/ c.kind = "motor" /\ own \in DOMAIN part /\ part' = part /\ <<"motor", k>> \in raced'
           \/ c.kind # "motor" /\ part' = part
  BY DEF PersistItem, EnsureCatalogEntry
<1> PICK row : row = NewRow(c, own)
  OBVIOUS
<1>2. IsSeq(item) /\ IsSeq(part)
  BY DEF MotorInvariant, Consistent
<1>3. /\ IsSeq(item') /\ DOMAIN item' = DOMAIN item \cup {k} /\ k \notin DOMAIN item
      /\ item'[k] = row /\ \A j \in DOMAIN item : item'[j] = item[j]
  BY <1>1, <1>2, Appended
<1>4. /\ IsSeq(part') /\ \A p \in DOMAIN part : p \in DOMAIN part' /\ part'[p] = part[p]
      /\ c.kind = "motor" =>
           /\ own \in DOMAIN part'
           /\ part'[own] = MotorPart(c.body.mass) \/ <<"motor", k>> \in raced'
      /\ \A p \in DOMAIN part' : p \in DOMAIN part \/ part'[p] = MotorPart(c.body.mass)
  <2>1. CASE part' = part
    BY <1>1, <1>2, <2>1
  <2>2. CASE c.kind = "motor" /\ own = Len(part) + 1 /\ part' = Append(part, MotorPart(c.body.mass))
    <3> PICK e : e = MotorPart(c.body.mass)
      OBVIOUS
    <3>1. /\ IsSeq(Append(part, e)) /\ DOMAIN Append(part, e) = DOMAIN part \cup {Len(part) + 1}
          /\ Append(part, e)[Len(part) + 1] = e
          /\ \A x \in DOMAIN part : Append(part, e)[x] = part[x]
      BY <1>2, Appended
    <3> QED BY <2>2, <3>1
  <2> QED BY <1>1, <1>2, <2>1, <2>2
<1>5. /\ row.kind = c.kind /\ row.active = 1 /\ DOMAIN row = {"kind", "name", "revs", "active", "oml", "part"}
      /\ row.revs = <<Revision(1, c.body)>> /\ row.part = own
  BY DEF NewRow
<1>6. IsSeq(row.revs) /\ 1 \in DOMAIN row.revs /\ row.revs[1].body = c.body
  <2> PICK rev, revs : rev = Revision(1, c.body) /\ revs = <<rev>>
    OBVIOUS
  <2>1. revs = [y \in 1 .. 1 |-> revs[y]] /\ revs[1] = rev
    OBVIOUS
  <2>2. IsSeq(revs) /\ 1 \in DOMAIN revs
    <3>1. IsSeq(revs)
      BY <2>1, SeqOf
    <3>2. DOMAIN revs = 1 .. 1
      BY <2>1
    <3> QED BY <3>1, <3>2
  <2>3. rev.body = c.body
    BY DEF Revision
  <2> QED BY <1>5, <2>1, <2>2, <2>3
<1>7. \A p \in DOMAIN part' : "mass" \in DOMAIN part'[p]
  BY <1>4 DEF MotorInvariant, Consistent, MotorPart
<1>8. Consistent(item', part')
  BY <1>3, <1>4, <1>5, <1>6, <1>7 DEF MotorInvariant, Consistent
<1>9. MotorsKept
  <2>1. ASSUME NEW j \in DOMAIN item, IsMotor(j), item[j].part # None
        PROVE  part'[item[j].part].mass = part[item[j].part].mass
    BY <1>4, <2>1 DEF MotorInvariant, Consistent, IsMotor
  <2>2. row.kind = "motor" =>
          \/ part'[row.part].mass = row.revs[row.active].body.mass
          \/ <<"motor", k>> \in raced'
    BY <1>4, <1>5, <1>6 DEF MotorPart
  <2> QED BY <1>3, <2>1, <2>2 DEF MotorsKept
<1> QED BY <1>1, <1>8, <1>9, Kept DEF Ends

LEMMA PersistRevisionStep ==
  ASSUME MotorInvariant, NEW q \in Requests, PersistRevision(q)
  PROVE  MotorInvariant'
<1> PICK c, k : c = request[q] /\ k = c.item
  OBVIOUS
<1>0. PICK row : row = [item[k] EXCEPT
      !.revs = Append(@, Revision(c.letter, c.body)),
      !.active = IF Activates(item[k].kind) THEN Len(item[k].revs) + 1 ELSE @,
      !.oml = IF c.oml # None THEN c.oml ELSE @]
  OBVIOUS
<1>1. /\ item' = [item EXCEPT ![k] = row] /\ part' = part /\ raced' = raced /\ Ends(q)
  BY <1>0 DEF PersistRevision
<1>2. CASE k \notin DOMAIN item
  <2>1. item' = item
    <3>1. item = [x \in DOMAIN item |-> item[x]]
      BY SeqFacts DEF MotorInvariant, Consistent
    <3> QED BY <1>1, <1>2, <3>1
  <2> QED BY <1>1, <2>1, NoItem DEF Ends
<1>3. CASE k \in DOMAIN item
  <2>1. /\ IsSeq(item) /\ IsSeq(item[k].revs) /\ item[k].active \in DOMAIN item[k].revs
        /\ {"kind", "revs", "active", "part"} \subseteq DOMAIN item[k]
    BY <1>3 DEF MotorInvariant, Consistent
  <2>2. /\ IsSeq(item') /\ DOMAIN item' = DOMAIN item /\ item'[k] = row
        /\ \A j \in DOMAIN item : j # k => item'[j] = item[j]
    BY <1>1, <1>3, <2>1, Replaced
  <2>3. /\ DOMAIN row = DOMAIN item[k] /\ row.kind = item[k].kind /\ row.part = item[k].part
        /\ row.revs = Append(item[k].revs, Revision(c.letter, c.body))
        /\ row.active = IF item[k].kind # "motor" THEN Len(item[k].revs) + 1 ELSE item[k].active
    BY <1>0, <2>1 DEF Activates
  <2>4. /\ IsSeq(row.revs) /\ DOMAIN row.revs = DOMAIN item[k].revs \cup {Len(item[k].revs) + 1}
        /\ \A r \in DOMAIN item[k].revs : row.revs[r] = item[k].revs[r]
    <3>1. IsSeq(item[k].revs)
      BY <2>1
    <3>2. Extends(Append(item[k].revs, Revision(c.letter, c.body)), item[k].revs)
      BY <3>1, AppendedTo
    <3>3. Extends(row.revs, item[k].revs)
      BY <2>3, <3>2
    <3> QED BY <3>3 DEF Extends
  <2>5. Consistent(item', part')
    <3>1. row.active \in DOMAIN row.revs
      BY <2>1, <2>3, <2>4
    <3>2. ASSUME NEW j \in DOMAIN item
          PROVE  /\ {"kind", "revs", "active", "part"} \subseteq DOMAIN item'[j]
                 /\ IsSeq(item'[j].revs) /\ item'[j].active \in DOMAIN item'[j].revs
                 /\ item'[j].kind = item[j].kind /\ item'[j].part = item[j].part
      <4>1. CASE j = k
        BY <2>1, <2>2, <2>3, <2>4, <3>1, <4>1
      <4>2. CASE j # k
        BY <2>2, <4>2 DEF MotorInvariant, Consistent
      <4> QED BY <4>1, <4>2
    <3> QED BY <1>1, <2>2, <3>2 DEF MotorInvariant, Consistent
  <2>6. MotorsKept
    <3>1. ASSUME NEW j \in DOMAIN item
          PROVE  /\ j \in DOMAIN item' /\ item'[j].kind = item[j].kind
                 /\ IsMotor(j) => item'[j].active = item[j].active /\ item'[j].part = item[j].part
                 /\ \A r \in DOMAIN item[j].revs :
                      r \in DOMAIN item'[j].revs /\ item'[j].revs[r] = item[j].revs[r]
      <4>1. CASE j = k
        BY <2>2, <2>3, <2>4, <4>1 DEF IsMotor
      <4>2. CASE j # k
        BY <2>2, <4>2
      <4> QED BY <4>1, <4>2
    <3> QED BY <1>1, <2>2, <3>1 DEF MotorsKept
  <2> QED BY <1>1, <2>5, <2>6, Kept DEF Ends
<1> QED BY <1>2, <1>3

LEMMA DeletePartStep ==
  ASSUME MotorInvariant, NEW q \in Requests, NEW p, DeletePart(q, p)
  PROVE  MotorInvariant'
<1>1. /\ part' = [part EXCEPT ![p].live = FALSE] /\ item' = item /\ raced' = raced /\ Ends(q)
  BY DEF DeletePart
<1>2. IsSeq(part') /\ DOMAIN part' = DOMAIN part
  <2>1. IsSeq(part)
    BY DEF MotorInvariant, Consistent
  <2> QED BY <1>1, <2>1, Replaced
<1>3. \A r \in DOMAIN part : "mass" \in DOMAIN part'[r] /\ part'[r].mass = part[r].mass
  BY <1>1 DEF MotorInvariant, Consistent
<1>4. Consistent(item', part')
  BY <1>1, <1>2, <1>3 DEF MotorInvariant, Consistent
<1>5. MotorsKept
  BY <1>1, <1>3 DEF MotorInvariant, Consistent, MotorsKept, IsMotor
<1> QED BY <1>1, <1>4, <1>5, Kept DEF Ends

\* The motors that had the part have none.
LEMMA DestroyPartStep ==
  ASSUME MotorInvariant, NEW q \in Requests, NEW p, DestroyPart(q, p)
  PROVE  MotorInvariant'
<1>1. /\ part' = [part EXCEPT ![p].live = FALSE] /\ raced' = raced /\ Ends(q)
      /\ item' = [k \in DOMAIN item |->
                   IF item[k].part = p THEN [item[k] EXCEPT !.part = None] ELSE item[k]]
  BY DEF DestroyPart
<1>2. IsSeq(part') /\ DOMAIN part' = DOMAIN part /\ IsSeq(item) /\ DOMAIN item' = DOMAIN item
  <2>1. IsSeq(part)
    BY DEF MotorInvariant, Consistent
  <2> QED BY <1>1, <2>1, Replaced DEF MotorInvariant, Consistent
<1>3. \A r \in DOMAIN part : "mass" \in DOMAIN part'[r] /\ part'[r].mass = part[r].mass
  BY <1>1 DEF MotorInvariant, Consistent
<1>4. \A k \in DOMAIN item :
        /\ DOMAIN item'[k] = DOMAIN item[k] /\ item'[k].kind = item[k].kind
        /\ item'[k].active = item[k].active /\ item'[k].revs = item[k].revs
        /\ item'[k].part \in {item[k].part, None}
  <2>1. ASSUME NEW k \in DOMAIN item PROVE "part" \in DOMAIN item[k]
    BY DEF MotorInvariant, Consistent
  <2> QED BY <1>1, <2>1
<1>5. IsSeq(item')
  <2>1. Len(item) \in Nat /\ DOMAIN item = 1 .. Len(item)
    BY <1>2, SeqFacts
  <2>2. item' = [x \in 1 .. Len(item) |-> item'[x]]
    BY <1>1, <2>1
  <2> QED BY <2>1, <2>2, SeqOf
<1>6. Consistent(item', part')
  <2>1. ASSUME NEW k \in DOMAIN item
        PROVE  /\ {"kind", "revs", "active", "part"} \subseteq DOMAIN item'[k]
               /\ IsSeq(item'[k].revs) /\ item'[k].active \in DOMAIN item'[k].revs
               /\ item'[k].kind = "motor" => item'[k].part \in DOMAIN part \cup {None}
    BY <1>4 DEF MotorInvariant, Consistent
  <2> QED BY <1>2, <1>3, <1>5, <2>1 DEF Consistent
<1>7. MotorsKept
  <2>1. ASSUME NEW k \in DOMAIN item, IsMotor(k), item[k].part # None
        PROVE  part'[item[k].part].mass = part[item[k].part].mass
    BY <1>3, <2>1 DEF MotorInvariant, Consistent, IsMotor
  <2> QED BY <1>2, <1>4, <2>1 DEF MotorsKept
<1> QED BY <1>1, <1>6, <1>7, Kept DEF Ends

LEMMA PatchMassStep ==
  ASSUME MotorInvariant, NEW q \in Requests, NEW p, NEW mass, PatchMass(q, p, mass)
  PROVE  MotorInvariant'
<1>1. /\ part' = [part EXCEPT ![p].mass = mass] /\ item' = item /\ Ends(q)
      /\ raced \subseteq raced'
      /\ \A k \in DOMAIN item : IsMotor(k) /\ item[k].part = p => <<"motor", k>> \in raced'
  BY DEF PatchMass, Of, IsMotor
<1>2. /\ IsSeq(part') /\ DOMAIN part' = DOMAIN part
      /\ \A r \in DOMAIN part : "mass" \in DOMAIN part'[r] /\ (r # p => part'[r] = part[r])
  <2>1. IsSeq(part)
    BY DEF MotorInvariant, Consistent
  <2> QED BY <1>1, <2>1, Replaced DEF MotorInvariant, Consistent
<1>3. Consistent(item', part')
  BY <1>1, <1>2 DEF MotorInvariant, Consistent
<1>4. MotorsKept
  <2>1. ASSUME NEW k \in DOMAIN item, IsMotor(k), item[k].part # None
        PROVE  part'[item[k].part].mass = part[item[k].part].mass \/ <<"motor", k>> \in raced'
    <3>1. item[k].part \in DOMAIN part
      BY <2>1 DEF MotorInvariant, Consistent, IsMotor
    <3> QED BY <1>1, <1>2, <2>1, <3>1
  <2> QED BY <1>1, <2>1 DEF MotorsKept
<1> QED BY <1>1, <1>3, <1>4, Kept DEF Ends

LEMMA SelectStep ==
  ASSUME MotorInvariant, NEW q \in Requests, NEW k \in DOMAIN item, NEW r \in DOMAIN item[k].revs,
         Select(q, k, r)
  PROVE  MotorInvariant'
<1>1. item' = item /\ part' = part /\ raced' = raced
  BY DEF Select, store
<1>2. /\ DOMAIN request' = Requests /\ request'[q].op = "select" /\ request'[q].item = k /\ request'[q].rev = r
      /\ \A o \in Requests \ {q} : request'[o] = request[o]
  BY DEF Select, Then, MotorInvariant
<1>3. CatalogMassIsActive' /\ Consistent(item', part')
  BY <1>1 DEF MotorInvariant, CatalogMassIsActive, Of
<1>4. \A o \in Requests : SelectOK(o)'
  BY <1>1, <1>2 DEF MotorInvariant, SelectOK
<1> QED BY <1>2, <1>3, <1>4 DEF MotorInvariant

\* A selection that commits over what it loaded makes mass and revision agree.
LEMMA CommitSelectionStep ==
  ASSUME MotorInvariant, NEW q \in Requests, CommitSelection(q)
  PROVE  MotorInvariant'
<1> PICK c, k, r, mass : /\ c = request[q] /\ k = c.item /\ r = c.rev
                         /\ mass = item[k].revs[r].body.mass
  OBVIOUS
<1>1. /\ c.op = "select"
      /\ Reweighs(c) => c.part = item[k].part
      /\ item' = IF r = c.sawActive THEN item ELSE [item EXCEPT ![k].active = r]
      /\ part' = IF Reweighs(c) THEN [part EXCEPT ![c.part].mass = mass] ELSE part
      /\ Reweighs(c) <=> (c.part # None /\ mass # c.sawMass)
  BY DEF CommitSelection, Reweighs
<1>2. k \in DOMAIN item /\ r \in DOMAIN item[k].revs
  BY <1>1 DEF MotorInvariant, SelectOK
<1>3. /\ DOMAIN request' = Requests /\ request'[q].op = "done"
      /\ \A o \in Requests \ {q} : request'[o] = request[o]
  BY DEF CommitSelection, Ends, Then, MotorInvariant
<1>4. /\ <<"motor", k>> \notin raced' => Loaded(c)
      /\ \A m : m # k /\ <<"motor", m>> \notin raced' =>
           <<"motor", m>> \notin raced /\ (Reweighs(c) => m \notin Sharing(c.part))
  BY DEF CommitSelection
<1>5. /\ IsSeq(item) /\ IsSeq(part)
      /\ {"kind", "revs", "active", "part"} \subseteq DOMAIN item[k]
  BY <1>2 DEF MotorInvariant, Consistent
<1>6. IsSeq(item') /\ IsSeq(part')
  BY <1>1, <1>5, Replaced
<1>7. /\ DOMAIN item' = DOMAIN item
      /\ \A j \in DOMAIN item :
           /\ DOMAIN item'[j] = DOMAIN item[j]
           /\ item'[j].kind = item[j].kind /\ item'[j].revs = item[j].revs
           /\ item'[j].part = item[j].part
           /\ j # k => item'[j].active = item[j].active
      /\ item'[k].active = IF r = c.sawActive THEN item[k].active ELSE r
  BY <1>1, <1>2, <1>5
<1>8. /\ DOMAIN part' = DOMAIN part
      /\ \A p \in DOMAIN part : /\ "mass" \in DOMAIN part'[p]
                                /\ ~Reweighs(c) \/ p # c.part => part'[p] = part[p]
      /\ Reweighs(c) /\ c.part \in DOMAIN part => part'[c.part].mass = mass
  BY <1>1 DEF MotorInvariant, Consistent
<1>9. Consistent(item', part')
  BY <1>2, <1>6, <1>7, <1>8 DEF MotorInvariant, Consistent
<1>10. CatalogMassIsActive'
  <2>1. ASSUME NEW m \in DOMAIN item, IsMotor(m), item[m].part # None, <<"motor", m>> \notin raced'
        PROVE  part'[item'[m].part].mass = item'[m].revs[item'[m].active].body.mass
    <3>0. item[m].part \in DOMAIN part
      BY <2>1 DEF MotorInvariant, Consistent, IsMotor
    <3>1. CASE m = k
      <4>1. c.part = item[k].part /\ c.sawActive = item[k].active /\ c.sawMass = part[item[k].part].mass
        BY <1>4, <2>1, <3>1 DEF Loaded, MassOf
      <4>2. item'[k].active = r
        BY <1>7, <4>1
      <4>3. part'[item[k].part].mass = mass
        BY <1>1, <1>8, <2>1, <3>0, <3>1, <4>1
      <4> QED BY <1>2, <1>7, <3>1, <4>2, <4>3
    <3>2. CASE m # k
      <4>1. part[item[m].part].mass = item[m].revs[item[m].active].body.mass
        BY <1>4, <2>1, <3>2 DEF MotorInvariant, CatalogMassIsActive, Of, IsMotor
      <4>2. Reweighs(c) => item[m].part # c.part
        BY <1>4, <2>1, <3>2 DEF Sharing, Of, IsMotor
      <4>3. part'[item[m].part] = part[item[m].part]
        BY <1>8, <3>0, <4>2
      <4> QED BY <1>7, <3>2, <4>1, <4>3
    <3> QED BY <3>1, <3>2
  <2>2. \A m \in Of("motor")' : m \in DOMAIN item /\ IsMotor(m) /\ item'[m].part = item[m].part
    BY <1>7 DEF Of, IsMotor
  <2> QED BY <2>1, <2>2 DEF CatalogMassIsActive
<1>11. ASSUME NEW o \in Requests PROVE SelectOK(o)'
  <2>1. CASE o = q
    BY <1>3, <2>1 DEF SelectOK
  <2>2. CASE o # q
    <3>1. request'[o] = request[o] /\ SelectOK(o)
      BY <1>3, <2>2 DEF MotorInvariant
    <3> QED BY <1>7, <3>1 DEF SelectOK
  <2> QED BY <2>1, <2>2
<1> QED BY <1>3, <1>9, <1>10, <1>11 DEF MotorInvariant

LEMMA MotorStep ==
  ASSUME MotorInvariant, [EngineeringNext]_engVars
  PROVE  MotorInvariant'
<1>1. CASE UNCHANGED engVars
  BY <1>1 DEF engVars, store, bundles, MotorInvariant, CatalogMassIsActive, Of, SelectOK, IsMotor
<1>2. ASSUME NEW q \in Requests,
             \/ \E changed \in BOOLEAN : RegisterFrame(q, changed)
             \/ \E b \in Bodies : CreateConfig(q, b) \/ \E k \in DOMAIN item : ReviseConfig(q, k, b)
             \/ \E k \in DOMAIN item : CloneConfig(q, k)
      PROVE  MotorInvariant'
  BY <1>2, NoItem DEF RegisterFrame, CreateConfig, ReviseConfig, CloneConfig, SubmitConfig,
     NewItem, NewRevision, Ends, store
<1>3. ASSUME NEW q \in Requests, NEW name, NEW oml, IngestDeck(q, name, oml) PROVE MotorInvariant'
  BY <1>3, NoItem DEF IngestDeck, NewItem, NewRevision, store
<1>4. ASSUME NEW q \in Requests, NEW name, NEW mass,
             IngestMotor(q, name, mass) \/ DesignMotor(q, name, mass)
      PROVE  MotorInvariant'
  BY <1>4, NoItem DEF IngestMotor, DesignMotor, NewItem, NewRevision, store
<1>5. ASSUME NEW q \in Requests, NEW k, NEW oml, NEW mass, ReviseItem(q, k, oml, mass)
      PROVE  MotorInvariant'
  BY <1>5, NoItem DEF ReviseItem, NewRevision, store
<1>6. ASSUME NEW q \in Requests, IssueLetter(q) \/ Refuse(q) \/ FailRevision(q)
      PROVE  MotorInvariant'
  BY <1>6, NoItem DEF IssueLetter, Refuse, FailRevision, Ends, store
<1>7. ASSUME NEW q \in Requests, NEW k, NEW r, BeginExport(q, k, r) \/ FailSelection(q)
      PROVE  MotorInvariant'
  BY <1>7, NoItem DEF BeginExport, FailSelection, Ends, store
<1>8. ASSUME NEW q \in Requests, ReuseExport(q) \/ StartBundle(q) \/ RecordExport(q) \/ FailExport(q)
      PROVE  MotorInvariant'
  BY <1>8, NoItem DEF ReuseExport, StartBundle, RecordExport, FailExport, Ends, store
<1>9. ASSUME NEW q \in Requests, OpenZip(q) \/ CloseZip(q) PROVE MotorInvariant'
  BY <1>9, NoItem DEF OpenZip, CloseZip, Ends, store
<1>10. ASSUME NEW h, LoseFiles(h) PROVE MotorInvariant'
  BY <1>10 DEF LoseFiles, store, MotorInvariant, CatalogMassIsActive, Of, SelectOK
<1> QED BY <1>1, <1>2, <1>3, <1>4, <1>5, <1>6, <1>7, <1>8, <1>9, <1>10, PersistItemStep,
           PersistRevisionStep, DeletePartStep, DestroyPartStep, PatchMassStep, SelectStep,
           CommitSelectionStep
        DEF EngineeringNext

\* A motor's part weighs what its active revision says, whatever is ingested,
\* revised, selected and deleted, from the last selection that committed over what
\* it had loaded until the part is edited by hand, reweighed for another motor or
\* written over stale values (set_active_revision, engineering_motors.py).
THEOREM MotorsWeighTheirRevision ==
  ASSUME EngineeringAssumption
  PROVE  EngineeringSpec => []CatalogMassIsActive
<1>1. EngineeringInit => MotorInvariant
  <2> SUFFICES ASSUME EngineeringInit PROVE MotorInvariant
    OBVIOUS
  <2>1. Consistent(item, part) /\ CatalogMassIsActive
    BY DEF EngineeringInit, EngineeringAssumption, CatalogMassIsActive, Of
  <2> QED BY <2>1 DEF EngineeringInit, MotorInvariant, SelectOK
<1>2. MotorInvariant /\ [EngineeringNext]_engVars => MotorInvariant'
  BY MotorStep
<1>3. MotorInvariant => CatalogMassIsActive
  BY DEF MotorInvariant
<1> QED BY <1>1, <1>2, <1>3, PTL DEF EngineeringSpec
-----------------------------------------------------------------------------
(* Workbooks *)

LEMMA Counted ==
  ASSUME NEW n \in Nat, NEW f, \A i, j \in 1 .. n : f[i] = f[j] => i = j
  PROVE  Cardinality({f[i] : i \in 1 .. n}) = n
<1> DEFINE S == {f[i] : i \in 1 .. n}
           g == [i \in 1 .. n |-> f[i]]
<1>1. g \in Bijection(1 .. n, S)
  BY Zenon DEF Bijection, Injection, Surjection, IsInjective
<1>2. ExistsBijection(1 .. n, S)
  BY <1>1 DEF ExistsBijection
<1> HIDE DEF S
<1>3. Cardinality(S) = n
  BY <1>2, FS_CountingElements
<1> QED BY <1>3 DEF S

LEMMA CountedAlike ==
  ASSUME NEW S, IsFiniteSet(S), NEW f, \A x, y \in S : f[x] = f[y] => x = y
  PROVE  Cardinality({f[x] : x \in S}) = Cardinality(S)
<1> DEFINE T == {f[x] : x \in S}
           g == [x \in S |-> f[x]]
<1>1. g \in Bijection(S, T)
  BY Zenon DEF Bijection, Injection, Surjection, IsInjective
<1>2. ExistsBijection(S, T)
  BY <1>1 DEF ExistsBijection
<1> HIDE DEF T
<1>3. Cardinality(T) = Cardinality(S)
  BY <1>2, FS_Bijection
<1> QED BY <1>3 DEF T

\* What rows make is never more than the rows, and as many just when no two make one.
LEMMA CountedAtMost ==
  ASSUME NEW n \in Nat, NEW f
  PROVE  /\ IsFiniteSet({f[i] : i \in 1 .. n})
         /\ Cardinality({f[i] : i \in 1 .. n}) \in Nat
         /\ Cardinality({f[i] : i \in 1 .. n}) <= n
         /\ Cardinality({f[i] : i \in 1 .. n}) = n <=> \A i, j \in 1 .. n : f[i] = f[j] => i = j
<1> DEFINE S == {f[i] : i \in 1 .. n}
           g == [i \in 1 .. n |-> f[i]]
<1>1. g \in Surjection(1 .. n, S)
  BY Zenon DEF Surjection
<1>2. IsFiniteSet(1 .. n) /\ Cardinality(1 .. n) = n
  BY FS_Interval
<1>3. g \in Injection(1 .. n, S) <=> \A i, j \in 1 .. n : f[i] = f[j] => i = j
  <2>1. g \in [1 .. n -> S] /\ \A i \in 1 .. n : g[i] = f[i]
    BY Zenon
  <2> HIDE DEF g, S
  <2> QED BY <2>1, Zenon DEF Injection, IsInjective
<1> HIDE DEF S, g
<1>4. /\ IsFiniteSet(S) /\ Cardinality(S) <= Cardinality(1 .. n)
      /\ Cardinality(S) = Cardinality(1 .. n) <=> g \in Injection(1 .. n, S)
  BY <1>1, <1>2, FS_Surjection
<1>5. Cardinality(S) \in Nat
  BY <1>4, FS_CardinalityType
<1> QED BY <1>2, <1>3, <1>4, <1>5 DEF S

\* The sheets of a workbook.
UnitRow == [unit : Cells, system : Cells]
PinRow == [unit : Cells, connector : Cells, pin : Cells]
BusRow == [unit : Cells, bus : Cells, pins : SUBSET (Cells \X Cells)]
MessageRow == [unit : Cells, bus : Cells, message : Cells, field : Cells]

LEMMA Sheets ==
  ASSUME WorkbookAssumption, book \in Books
  PROVE  /\ Len(book.units) \in Nat /\ DOMAIN book.units = 1 .. Len(book.units)
         /\ \A i \in DOMAIN book.units : book.units[i] \in UnitRow
         /\ Len(book.connectors) \in Nat /\ DOMAIN book.connectors = 1 .. Len(book.connectors)
         /\ \A i \in DOMAIN book.connectors : book.connectors[i] \in PinRow
         /\ Len(book.buses) \in Nat /\ DOMAIN book.buses = 1 .. Len(book.buses)
         /\ \A i \in DOMAIN book.buses : book.buses[i] \in BusRow
         /\ Len(book.messages) \in Nat /\ DOMAIN book.messages = 1 .. Len(book.messages)
         /\ \A i \in DOMAIN book.messages : book.messages[i] \in MessageRow
<1>1. /\ book.units \in Seq(UnitRow) /\ book.connectors \in Seq(PinRow)
      /\ book.buses \in Seq(BusRow) /\ book.messages \in Seq(MessageRow)
  BY DEF WorkbookAssumption, UnitRow, PinRow, BusRow, MessageRow
<1> QED BY <1>1

\* A confirmation that found nothing makes the units of its sheet.
FirstOne(c) == WorkbookAssumption /\ book \in Books /\ Valid(book) /\ import[c].units = {}
FirstOfAll(c) == FirstOne(c) /\ Regular
SheetUnits == {r.unit : r \in Rows(book.units)}

LEMMA UnitsMade ==
  ASSUME NEW c, FirstOne(c)
  PROVE  /\ NewUnits(c) = {<<u, c>> : u \in SheetUnits}
         /\ UnitNames(c) = SheetUnits
         /\ \A u \in SheetUnits : UnitOf(c, u) = <<u, c>>
         /\ Cardinality(NewUnits(c)) = Len(book.units)
<1> USE DEF FirstOne
<1>1. \A r \in Rows(book.units) : r.unit # Blank /\ r.system # Blank
  BY DEF Rows, Valid, ValidUnits
<1>2. NewUnits(c) = {<<u, c>> : u \in SheetUnits}
  BY <1>1 DEF NewUnits, NonBlank, SheetUnits
<1>3. UnitMap(c) = {<<u, c>> : u \in SheetUnits}
  BY <1>2 DEF UnitMap
<1>4. UnitNames(c) = SheetUnits
  <2>1. ASSUME NEW n PROVE n \in UnitNames(c) <=> n \in SheetUnits
    <3>1. \A u : <<u, c>>[1] = u
      OBVIOUS
    <3>2. n \in UnitNames(c) <=> \E x \in UnitMap(c) : n = x[1]
      BY Zenon DEF UnitNames
    <3>3. \A x : x \in UnitMap(c) <=> \E u \in SheetUnits : x = <<u, c>>
      BY <1>3
    <3>4. ASSUME NEW x \in UnitMap(c), n = x[1] PROVE n \in SheetUnits
      <4>1. PICK u \in SheetUnits : x = <<u, c>>
        BY <3>3, <3>4
      <4> QED BY <3>4, <4>1
    <3>5. ASSUME n \in SheetUnits PROVE <<n, c>> \in UnitMap(c) /\ n = <<n, c>>[1]
      BY <3>1, <3>3, <3>5
    <3> QED BY <3>2, <3>4, <3>5, Zenon
  <2> QED BY <2>1
<1>5. ASSUME NEW u \in SheetUnits PROVE UnitOf(c, u) = <<u, c>>
  <2>1. <<u, c>> \in UnitMap(c) /\ <<u, c>>[1] = u
    BY <1>3
  <2>2. \A x \in UnitMap(c) : x[1] = u => x = <<u, c>>
    BY <1>3
  <2> QED BY <2>1, <2>2 DEF UnitOf
<1>6. Cardinality(NewUnits(c)) = Len(book.units)
  <2> DEFINE f == [i \in 1 .. Len(book.units) |-> <<book.units[i].unit, c>>]
  <2>1. ASSUME NEW i \in 1 .. Len(book.units), NEW j \in 1 .. Len(book.units), f[i] = f[j]
        PROVE  i = j
    <3>1. \A k \in 1 .. Len(book.units) : \A l \in 1 .. k - 1 :
            book.units[l].unit # book.units[k].unit
      BY Sheets DEF Valid, ValidUnits
    <3>2. i \in Nat /\ j \in Nat /\ ~(i < j) /\ ~(j < i)
      BY <2>1, <3>1
    <3> QED BY <3>2
  <2>2. NewUnits(c) = {f[i] : i \in 1 .. Len(book.units)}
    BY <1>2, Sheets DEF SheetUnits, Rows
  <2> HIDE DEF f
  <2>3. Len(book.units) \in Nat
    BY Sheets
  <2>4. \A i, j \in 1 .. Len(book.units) : f[i] = f[j] => i = j
    BY <2>1
  <2>5. PICK n, g : n = Len(book.units) /\ g = f
    OBVIOUS
  <2>6. n \in Nat /\ \A i, j \in 1 .. n : g[i] = g[j] => i = j
    BY <2>3, <2>4, <2>5
  <2>7. Cardinality({g[i] : i \in 1 .. n}) = n
    BY <2>6, Counted
  <2> QED BY <2>2, <2>5, <2>7
<1> QED BY <1>2, <1>4, <1>5, <1>6

LEMMA ConnectorsMade ==
  ASSUME NEW c, FirstOfAll(c)
  PROVE  /\ Cardinality(NewConnectors(c)) = Previewed(book).connectors
         /\ Cardinality(NewPins(c)) = Len(book.connectors)
<1> DEFINE s == book.connectors
           N == Len(book.connectors)
<1>1. /\ N \in Nat /\ DOMAIN s = 1 .. N /\ \A i \in 1 .. N : s[i] \in PinRow
      /\ \A i \in 1 .. N : s[i].unit \in SheetUnits /\ s[i].connector # Blank
      /\ \A i \in 1 .. N : s[i].pin # Blank
      /\ \A i \in 1 .. N : \A j \in 1 .. i - 1 : s[j] # s[i]
  <2>1. N \in Nat /\ DOMAIN s = 1 .. N /\ \A i \in 1 .. N : s[i] \in PinRow
    BY Sheets DEF FirstOfAll, FirstOne
  <2>2. \A i \in 1 .. N : s[i].unit \in SheetUnits /\ s[i].connector # Blank
    BY <2>1 DEF FirstOfAll, FirstOne, Regular, Rows, SheetUnits
  <2> QED BY <2>1, <2>2 DEF FirstOfAll, FirstOne, Valid, ValidConnectors
<1>2. \A i \in 1 .. N : UnitOf(c, s[i].unit) = <<s[i].unit, c>>
  BY <1>1, UnitsMade DEF FirstOfAll
<1>3. ConnectorRows(c) = 1 .. N /\ PinRows(c) = 1 .. N
  BY <1>1, UnitsMade DEF FirstOfAll, ConnectorRows, PinRows
<1>4. Cardinality(NewConnectors(c)) = Previewed(book).connectors
  <2> DEFINE S == {<<s[i].unit, s[i].connector>> : i \in 1 .. N}
             f == [x \in S |-> <<<<x[1], c>>, x[2]>>]
  <2>1. NewConnectors(c) = {f[x] : x \in S}
    <3>1. NewConnectors(c) = {<<<<s[i].unit, c>>, s[i].connector>> : i \in 1 .. N}
      BY <1>2, <1>3 DEF NewConnectors
    <3>2. \A i \in 1 .. N : /\ <<s[i].unit, s[i].connector>> \in S
                           /\ f[<<s[i].unit, s[i].connector>>] = <<<<s[i].unit, c>>, s[i].connector>>
      OBVIOUS
    <3>3. \A x \in S : \E i \in 1 .. N : x = <<s[i].unit, s[i].connector>>
      OBVIOUS
    <3> HIDE DEF S, f, s, N
    <3>4. NewConnectors(c) \subseteq {f[x] : x \in S}
      BY <3>1, <3>2
    <3>5. \A x \in S : f[x] \in NewConnectors(c)
      BY <3>1, <3>2, <3>3, Zenon
    <3> QED BY <3>4, <3>5
  <2>2. S = {<<r.unit, r.connector>> : r \in {q \in Rows(s) : q.connector # Blank}}
    BY <1>1 DEF Rows
  <2>3. IsFiniteSet(S)
    <3> DEFINE g == [i \in 1 .. N |-> <<s[i].unit, s[i].connector>>]
    <3>1. g \in Surjection(1 .. N, S)
      BY DEF Surjection
    <3>2. N \in Nat
      BY <1>1
    <3> HIDE DEF g, S, N
    <3>3. IsFiniteSet(1 .. N)
      BY <3>2, FS_Interval
    <3> QED BY <3>1, <3>3, FS_Surjection
  <2>4. \A x, y \in S : f[x] = f[y] => x = y
    OBVIOUS
  <2>5. Previewed(book).connectors = Cardinality(S)
    BY <2>2 DEF Previewed
  <2> HIDE DEF S, f
  <2> QED BY <2>1, <2>3, <2>4, <2>5, CountedAlike
<1>5. Cardinality(NewPins(c)) = N
  <2> DEFINE f == [i \in 1 .. N |-> <<<<s[i].unit, c>>, s[i].connector, s[i].pin>>]
  <2>1. NewPins(c) = {f[i] : i \in 1 .. N}
    BY <1>2, <1>3 DEF NewPins, PinAt
  <2>2. ASSUME NEW i \in 1 .. N, NEW j \in 1 .. N, f[i] = f[j] PROVE i = j
    <3>1. s[i].unit = s[j].unit /\ s[i].connector = s[j].connector /\ s[i].pin = s[j].pin
      BY <2>2
    <3>2. s[i] = s[j]
      BY <1>1, <3>1 DEF PinRow
    <3>3. i \in Nat /\ j \in Nat
      BY <1>1
    <3>4. ASSUME NEW x \in 1 .. N, NEW y \in 1 .. N, x < y PROVE s[x] # s[y]
      <4>1. x \in 1 .. y - 1
        BY <1>1, <3>4
      <4> QED BY <1>1, <4>1
    <3>5. ~(i < j) /\ ~(j < i)
      <4> HIDE DEF s, N
      <4> QED BY <3>2, <3>4
    <3> QED BY <3>3, <3>5
  <2>3. \A i, j \in 1 .. N : f[i] = f[j] => i = j
    BY <2>2
  <2>4. PICK n, g : n = N /\ g = f
    OBVIOUS
  <2>5. n \in Nat
    BY <1>1, <2>4
  <2> HIDE DEF f, N
  <2>6. \A i, j \in 1 .. n : g[i] = g[j] => i = j
    BY <2>3, <2>4
  <2>7. Cardinality({g[i] : i \in 1 .. n}) = n
    BY <2>5, <2>6, Counted
  <2> QED BY <2>1, <2>4, <2>7
<1> QED BY <1>4, <1>5
-----------------------------------------------------------------------------
\* The sheet of the messages, as it is meant: a row that names a message heads
\* the rows below it, up to the next that names one.
Key(i) == LET r == book.messages[i] IN <<r.unit, r.bus, r.message>>
NamedRows(n) == {i \in 1 .. n : book.messages[i].message # Blank}
Keys(n) == {Key(i) : i \in NamedRows(n)}
MeantUpTo(n) ==
  [map |-> [k \in Keys(n) |-> k],
   current |-> IF n = 0 THEN <<>> ELSE Key(Heading(n)),
   fields |-> {<<Key(Heading(i)), i, book.messages[i].field>> : i \in 1 .. n}]

LEMMA Headed ==
  ASSUME NEW c, FirstOfAll(c), NEW n \in 1 .. Len(book.messages)
  PROVE  Heading(n) \in NamedRows(n) /\ \A k \in NamedRows(n) : k <= Heading(n)
<1> DEFINE N == Len(book.messages)
           T == {i \in Nat : i \in 1 .. N =>
                   \E h \in NamedRows(i) : \A k \in NamedRows(i) : k <= h}
<1>1. N \in Nat /\ 1 \in NamedRows(1)
  <2>1. N \in Nat
    BY Sheets DEF FirstOfAll, FirstOne
  <2>2. book.messages # <<>>
    BY <2>1
  <2>3. book.messages[1].message # Blank
    BY <2>2 DEF FirstOfAll, FirstOne, Regular
  <2> QED BY <2>1, <2>3 DEF NamedRows
<1>2. 0 \in T
  OBVIOUS
<1>3. ASSUME NEW i \in Nat, i \in T PROVE i + 1 \in T
  <2> SUFFICES ASSUME i + 1 \in 1 .. N
               PROVE  \E h \in NamedRows(i + 1) : \A k \in NamedRows(i + 1) : k <= h
    OBVIOUS
  <2>1. \A k \in NamedRows(i + 1) : k <= i + 1
    BY DEF NamedRows
  <2>2. CASE i + 1 \in NamedRows(i + 1)
    BY <2>1, <2>2
  <2>3. CASE i + 1 \notin NamedRows(i + 1)
    <3>1. NamedRows(i + 1) = NamedRows(i)
      BY <2>3 DEF NamedRows
    <3>2. i # 0
      BY <1>1, <2>3
    <3> QED BY <1>1, <1>3, <3>1, <3>2
  <2> QED BY <2>2, <2>3
<1>4. n \in T
  <2> HIDE DEF T
  <2> QED BY <1>1, <1>2, <1>3, AllNumbers
<1>5. PICK h \in NamedRows(n) : \A k \in NamedRows(n) : k <= h
  BY <1>4
<1> QED BY <1>5 DEF Heading, NamedRows

\* The unit and the bus of a row that names a message have been made.
LEMMA Found ==
  ASSUME NEW c, FirstOfAll(c), NEW i \in 1 .. Len(book.messages),
         book.messages[i].message # Blank
  PROVE  LET r == book.messages[i]
         IN /\ r.unit # Blank /\ r.bus # Blank
            /\ r.unit \in UnitNames(c) /\ UnitOf(c, r.unit) = <<r.unit, c>>
            /\ <<UnitOf(c, r.unit), r.bus, c>> \in NewBuses(c)
<1> DEFINE r == book.messages[i]
<1>1. i \in DOMAIN book.messages /\ r \in Rows(book.messages)
  BY Sheets DEF FirstOfAll, FirstOne, Rows
<1>2. r.unit # Blank /\ r.bus # Blank
  BY <1>1 DEF FirstOfAll, FirstOne, Valid, ValidMessages
<1>3. PICK b \in Rows(book.buses) : r.unit = b.unit /\ r.bus = b.bus
  BY <1>1 DEF FirstOfAll, FirstOne, Regular
<1>4. b.unit \in SheetUnits
  BY DEF FirstOfAll, FirstOne, Regular, SheetUnits
<1>5. b.unit \in UnitNames(c) /\ UnitOf(c, b.unit) = <<b.unit, c>>
  BY <1>4, UnitsMade DEF FirstOfAll
<1>6. <<UnitOf(c, b.unit), b.bus, c>> \in NewBuses(c)
  BY <1>5 DEF NewBuses
<1> QED BY <1>2, <1>3, <1>5, <1>6

LEMMA RowRead ==
  ASSUME NEW c, FirstOfAll(c), NEW n \in Nat, n + 1 \in 1 .. Len(book.messages)
  PROVE  ReadMessage(c, MeantUpTo(n), n + 1) = MeantUpTo(n + 1)
<1> DEFINE r == book.messages[n + 1]
           h == Heading(n + 1)
           acc == MeantUpTo(n)
<1> SUFFICES ReadMessage(c, acc, n + 1) = MeantUpTo(n + 1)
  OBVIOUS
<1>1. /\ h \in NamedRows(n + 1) /\ \A k \in NamedRows(n + 1) : k <= h
      /\ h \in 1 .. Len(book.messages) /\ book.messages[h].message # Blank
  BY Headed DEF NamedRows
<1>2. r.field # Blank
  BY Sheets DEF FirstOfAll, FirstOne, Valid, ValidMessages
<1>3. MeantUpTo(n + 1) = [map |-> [k \in Keys(n + 1) |-> k], current |-> Key(h),
                          fields |-> acc.fields \cup {<<Key(h), n + 1, r.field>>}]
  <2>1. {<<Key(Heading(i)), i, book.messages[i].field>> : i \in 1 .. n + 1}
          = acc.fields \cup {<<Key(h), n + 1, r.field>>}
    <3>1. 1 .. n + 1 = 1 .. n \cup {n + 1}
      OBVIOUS
    <3> QED BY <3>1 DEF MeantUpTo
  <2>2. n + 1 # 0
    OBVIOUS
  <2> QED BY <2>1, <2>2, Zenon DEF MeantUpTo
<1>4. CASE r.message # Blank
  <2>1. h = n + 1
    BY <1>1, <1>4 DEF NamedRows
  <2>2. NamedRows(n + 1) = NamedRows(n) \cup {n + 1}
    BY <1>4 DEF NamedRows
  <2>3. Keys(n + 1) = Keys(n) \cup {Key(n + 1)}
    BY <2>2 DEF Keys
  <2>4. /\ r.unit # Blank /\ r.bus # Blank /\ r.unit \in UnitNames(c)
        /\ <<UnitOf(c, r.unit), r.bus, c>> \in NewBuses(c)
    BY <1>4, Found
  <2>5. Key(n + 1) \in Keys(n) => n # 0 /\ acc.current = Key(n + 1)
    <3> SUFFICES ASSUME Key(n + 1) \in Keys(n)
                 PROVE  n # 0 /\ acc.current = Key(n + 1)
      OBVIOUS
    <3>1. PICK i \in NamedRows(n) : Key(i) = Key(n + 1)
      BY DEF Keys
    <3>2. i \in 1 .. n /\ i < n + 1 /\ n # 0 /\ n \in 1 .. Len(book.messages)
      BY <3>1 DEF NamedRows
    <3>3. Heading(n) \in i .. n + 1 /\ book.messages[Heading(n)].message # Blank
      BY <3>1, <3>2, Headed DEF NamedRows
    <3>4. i \in DOMAIN book.messages /\ n + 1 \in DOMAIN book.messages
      BY <3>2, Sheets DEF FirstOfAll, FirstOne
    <3>5. /\ book.messages[i].unit = r.unit /\ book.messages[i].bus = r.bus
          /\ book.messages[i].message = r.message
      BY <3>1 DEF Key
    <3>6. /\ book.messages[i].unit = book.messages[Heading(n)].unit
          /\ book.messages[i].bus = book.messages[Heading(n)].bus
          /\ book.messages[i].message = book.messages[Heading(n)].message
      BY <3>2, <3>3, <3>4, <3>5 DEF FirstOfAll, FirstOne, Regular
    <3>7. Key(Heading(n)) = Key(n + 1)
      BY <3>5, <3>6 DEF Key
    <3> QED BY <3>2, <3>7 DEF MeantUpTo
  <2>6. DOMAIN acc.map = Keys(n) /\ \A k \in Keys(n) : acc.map[k] = k
    BY DEF MeantUpTo
  <2>7. Key(n + 1) = <<r.unit, r.bus, r.message>>
    BY DEF Key
  <2>8. CASE Key(n + 1) \in Keys(n)
    <3>1. Keys(n + 1) = Keys(n)
      BY <2>3, <2>8
    <3>2. ReadMessage(c, acc, n + 1)
            = [map |-> acc.map, current |-> acc.current,
               fields |-> acc.fields \cup {<<Key(n + 1), n + 1, r.field>>}]
      <4> HIDE DEF acc
      <4> QED BY <1>2, <1>4, <2>4, <2>6, <2>7, <2>8 DEF ReadMessage, MessageKey
    <3>3. acc.map = [k \in Keys(n) |-> k]
      BY DEF MeantUpTo
    <3> HIDE DEF acc
    <3> QED BY <1>3, <2>1, <2>5, <2>8, <3>1, <3>2, <3>3, Zenon
  <2>9. CASE Key(n + 1) \notin Keys(n)
    <3> DEFINE map == [k \in Keys(n) \cup {Key(n + 1)} |->
                         IF k = Key(n + 1) THEN Key(n + 1) ELSE acc.map[k]]
    <3>1. ReadMessage(c, acc, n + 1)
            = [map |-> map, current |-> Key(n + 1),
               fields |-> acc.fields \cup {<<Key(n + 1), n + 1, r.field>>}]
      <4>1. map[Key(n + 1)] = Key(n + 1) /\ Key(n + 1) \in DOMAIN map
        OBVIOUS
      <4> HIDE DEF acc
      <4> QED BY <1>2, <1>4, <2>4, <2>6, <2>7, <2>9, <4>1 DEF ReadMessage, MessageKey
    <3>2. map = [k \in Keys(n + 1) |-> k]
      BY <2>3, <2>6
    <3> HIDE DEF map, acc
    <3> QED BY <1>3, <2>1, <3>1, <3>2, Zenon
  <2> QED BY <2>8, <2>9
<1>5. CASE r.message = Blank
  <2>1. NamedRows(n + 1) = NamedRows(n)
    BY <1>5 DEF NamedRows
  <2>2. n # 0 /\ n \in 1 .. Len(book.messages) /\ h = Heading(n)
    <3>1. h \in NamedRows(n)
      BY <1>1, <2>1
    <3>2. n # 0
      BY <3>1 DEF NamedRows
    <3> QED BY <2>1, <3>2 DEF Heading, NamedRows
  <2>3. r.unit = Blank /\ r.bus = Blank
    <3>1. r \in Rows(book.messages)
      BY Sheets DEF Rows, FirstOfAll, FirstOne
    <3> QED BY <1>5, <3>1 DEF FirstOfAll, FirstOne, Regular
  <2>4. acc.current = Key(h) /\ Key(h) # <<>>
    BY <2>2 DEF MeantUpTo, Key
  <2>5. Key(h) \in Keys(n) /\ Keys(n + 1) = Keys(n)
    BY <1>1, <2>1 DEF Keys
  <2>6. DOMAIN acc.map = Keys(n) /\ \A k \in Keys(n) : acc.map[k] = k
    BY DEF MeantUpTo
  <2>7. /\ Key(h)[1] = book.messages[h].unit /\ Key(h)[2] = book.messages[h].bus
        /\ Key(h)[3] = book.messages[h].message
        /\ Key(h) = <<Key(h)[1], Key(h)[2], Key(h)[3]>>
    BY DEF Key
  <2>8. /\ Key(h)[1] \in UnitNames(c)
        /\ <<UnitOf(c, Key(h)[1]), Key(h)[2], c>> \in NewBuses(c)
    BY <1>1, <2>7, Found
  <2>9. ReadMessage(c, acc, n + 1)
          = [map |-> acc.map, current |-> acc.current,
             fields |-> acc.fields \cup {<<Key(h), n + 1, r.field>>}]
    <3> HIDE DEF acc, h
    <3> QED BY <1>2, <1>5, <2>3, <2>4, <2>5, <2>6, <2>7, <2>8 DEF ReadMessage, MessageKey
  <2>10. acc.map = [k \in Keys(n) |-> k]
    BY DEF MeantUpTo
  <2> HIDE DEF acc
  <2> QED BY <1>3, <2>4, <2>5, <2>9, <2>10, Zenon
<1> QED BY <1>4, <1>5

\* Reading starts with nothing and goes on row by row: the function that
\* ReadingOf chooses exists.
Unread == [map |-> [k \in {} |-> k], current |-> <<>>, fields |-> {}]
Reads(c, f, N) ==
  f = [n \in 0 .. N |-> IF n = 0 THEN Unread ELSE ReadMessage(c, f[n - 1], n)]

LEMMA SheetIsRead ==
  ASSUME NEW c, Len(book.messages) \in Nat
  PROVE  Reads(c, ReadingOf(c), Len(book.messages))
<1> DEFINE N == Len(book.messages)
           T == {n \in Nat : \E f : Reads(c, f, n)}
<1>1. 0 \in T
  <2> DEFINE f == [n \in 0 .. 0 |-> Unread]
  <2>1. f = [n \in 0 .. 0 |-> IF n = 0 THEN Unread ELSE ReadMessage(c, f[n - 1], n)]
    OBVIOUS
  <2> QED BY <2>1, Zenon DEF Reads
<1>2. ASSUME NEW n \in Nat, n \in T PROVE n + 1 \in T
  <2>1. PICK f : Reads(c, f, n)
    BY <1>2
  <2> DEFINE g == [i \in 0 .. n + 1 |-> IF i = n + 1 THEN ReadMessage(c, f[n], n + 1) ELSE f[i]]
  <2>2. ASSUME NEW i \in 0 .. n + 1
        PROVE  g[i] = IF i = 0 THEN Unread ELSE ReadMessage(c, g[i - 1], i)
    <3>1. CASE i = 0
      <4>1. f[0] = Unread
        BY <2>1 DEF Reads
      <4> QED BY <3>1, <4>1
    <3>2. CASE i # 0 /\ i # n + 1
      <4>1. i \in 0 .. n /\ i - 1 \in 0 .. n /\ i - 1 # n + 1 /\ i - 1 \in 0 .. n + 1
        BY <3>2
      <4>2. f[i] = ReadMessage(c, f[i - 1], i)
        BY <2>1, <3>2, <4>1 DEF Reads
      <4>3. g[i] = f[i] /\ g[i - 1] = f[i - 1]
        BY <3>2, <4>1
      <4> HIDE DEF g
      <4> QED BY <3>2, <4>2, <4>3
    <3>3. CASE i = n + 1
      <4>1. i # 0 /\ i - 1 = n /\ n \in 0 .. n + 1 /\ n # n + 1
        BY <3>3
      <4>2. g[i] = ReadMessage(c, f[n], n + 1) /\ g[n] = f[n]
        BY <3>3, <4>1
      <4> HIDE DEF g
      <4> QED BY <3>3, <4>1, <4>2
    <3> QED BY <3>1, <3>2, <3>3
  <2>3. g = [i \in 0 .. n + 1 |-> g[i]]
    OBVIOUS
  <2> HIDE DEF g
  <2>4. Reads(c, g, n + 1)
    BY <2>2, <2>3 DEF Reads
  <2> HIDE DEF Reads
  <2> QED BY <2>4
<1>3. N \in T
  <2> HIDE DEF T
  <2> QED BY <1>1, <1>2, AllNumbers
<1>4. \E f : f = [n \in 0 .. N |-> IF n = 0 THEN Unread ELSE ReadMessage(c, f[n - 1], n)]
  BY <1>3 DEF Reads
<1>5. PICK M : M = N
  OBVIOUS
<1> QED BY <1>4, Zenon DEF ReadingOf, Reads, Unread

\* So reading a regular sheet ends with what it means.
LEMMA SheetRead ==
  ASSUME NEW c, FirstOfAll(c)
  PROVE  ReadMessages(c) = MeantUpTo(Len(book.messages))
<1> DEFINE N == Len(book.messages)
           f == ReadingOf(c)
           T == {n \in Nat : n \in 0 .. N => f[n] = MeantUpTo(n)}
<1>1. N \in Nat
  BY Sheets DEF FirstOfAll, FirstOne
<1>2. MeantUpTo(0) = Unread
  <2>1. Keys(0) = {} /\ 1 .. 0 = {}
    BY DEF Keys, NamedRows
  <2> QED BY <2>1 DEF MeantUpTo, Unread
<1>3. Reads(c, f, N)
  BY <1>1, SheetIsRead
<1> HIDE DEF f
<1>4. 0 \in T
  BY <1>1, <1>2, <1>3 DEF Reads
<1>5. ASSUME NEW n \in Nat, n \in T PROVE n + 1 \in T
  <2> SUFFICES ASSUME n + 1 \in 0 .. N PROVE f[n + 1] = MeantUpTo(n + 1)
    OBVIOUS
  <2>1. n \in 0 .. N /\ (n + 1) - 1 = n /\ n + 1 # 0 /\ n + 1 \in 1 .. N
    BY <1>1
  <2>2. f[n + 1] = ReadMessage(c, f[n], n + 1)
    BY <1>3, <2>1 DEF Reads
  <2>3. f[n] = MeantUpTo(n)
    BY <1>5, <2>1
  <2> QED BY <2>1, <2>2, <2>3, RowRead
<1>6. N \in T
  <2> HIDE DEF T
  <2> QED BY <1>1, <1>4, <1>5, AllNumbers
<1> QED BY <1>1, <1>6 DEF ReadMessages, f

LEMMA MessagesMade ==
  ASSUME NEW c, FirstOfAll(c)
  PROVE  /\ Cardinality(NewMessages(c)) = Previewed(book).messages
         /\ Cardinality(NewFields(c)) = Len(book.messages)
         /\ \A f \in NewFields(c) :
              LET r == book.messages[Heading(f[2])]
              IN f[1] = <<<<r.unit, c>>, r.bus, r.message, c>>
<1> DEFINE m == book.messages
           N == Len(m)
           Place(i) == <<<<m[Heading(i)].unit, c>>, m[Heading(i)].bus, m[Heading(i)].message, c>>
<1>1. N \in Nat /\ DOMAIN m = 1 .. N
  BY Sheets DEF FirstOfAll, FirstOne
<1>2. \A i \in NamedRows(N) : Message(c, Key(i)) = <<<<m[i].unit, c>>, m[i].bus, m[i].message, c>>
  <2>1. \A i \in NamedRows(N) : UnitOf(c, m[i].unit) = <<m[i].unit, c>>
    BY Found DEF NamedRows
  <2> QED BY <2>1 DEF Message, Key
<1>3. \A i \in 1 .. N : Heading(i) \in NamedRows(N)
  BY <1>1, Headed DEF NamedRows
<1>4. NewFields(c) = {<<Place(i), i, m[i].field>> : i \in 1 .. N}
  <2>1. ReadMessages(c).fields = {<<Key(Heading(i)), i, m[i].field>> : i \in 1 .. N}
    BY SheetRead DEF MeantUpTo
  <2>2. NewFields(c) = {<<Message(c, Key(Heading(i))), i, m[i].field>> : i \in 1 .. N}
    <3>1. \A i : LET f == <<Key(Heading(i)), i, m[i].field>>
                  IN f[1] = Key(Heading(i)) /\ f[2] = i /\ f[3] = m[i].field
      OBVIOUS
    <3>2. \A i \in 1 .. N : <<Key(Heading(i)), i, m[i].field>> \in ReadMessages(c).fields
      BY <2>1
    <3>3. \A f \in ReadMessages(c).fields :
            \E i \in 1 .. N : f = <<Key(Heading(i)), i, m[i].field>>
      BY <2>1
    <3> HIDE DEF N, m
    <3>4. ASSUME NEW x \in NewFields(c)
          PROVE  \E i \in 1 .. N : x = <<Message(c, Key(Heading(i))), i, m[i].field>>
      <4>1. PICK f \in ReadMessages(c).fields : x = <<Message(c, f[1]), f[2], f[3]>>
        BY DEF NewFields
      <4>2. PICK i \in 1 .. N : f = <<Key(Heading(i)), i, m[i].field>>
        BY <3>3
      <4> QED BY <3>1, <4>1, <4>2
    <3>5. ASSUME NEW i \in 1 .. N
          PROVE  <<Message(c, Key(Heading(i))), i, m[i].field>> \in NewFields(c)
      <4>1. PICK f \in ReadMessages(c).fields : f = <<Key(Heading(i)), i, m[i].field>>
        BY <3>2
      <4>2. <<Message(c, f[1]), f[2], f[3]>> \in NewFields(c)
        BY DEF NewFields
      <4> QED BY <3>1, <4>1, <4>2
    <3> QED BY <3>4, <3>5
  <2>3. \A i \in 1 .. N : Message(c, Key(Heading(i))) = Place(i)
    BY <1>2, <1>3
  <2> QED BY <2>2, <2>3
<1>5. Cardinality(NewFields(c)) = N
  <2> DEFINE f == [i \in 1 .. N |-> <<Place(i), i, m[i].field>>]
  <2>1. NewFields(c) = {f[i] : i \in 1 .. N}
    BY <1>4
  <2>2. \A i, j \in 1 .. N : f[i] = f[j] => i = j
    <3> HIDE DEF Place, m, N
    <3> QED OBVIOUS
  <2>3. PICK n, g : n = N /\ g = f
    OBVIOUS
  <2> HIDE DEF f, N
  <2>4. n \in Nat /\ \A i, j \in 1 .. n : g[i] = g[j] => i = j
    BY <1>1, <2>2, <2>3
  <2>5. Cardinality({g[i] : i \in 1 .. n}) = n
    BY <2>4, Counted
  <2> QED BY <2>1, <2>3, <2>5
<1>6. NewMessages(c) = {Message(c, k) : k \in Keys(N)}
  <2>1. ReadMessages(c).map = [k \in Keys(N) |-> k]
    BY SheetRead DEF MeantUpTo
  <2> QED BY <2>1 DEF NewMessages
<1>7. Previewed(book).messages = Cardinality(Keys(N))
  <2>1. {<<r.unit, r.bus, r.message>> : r \in {q \in Rows(m) : q.message # Blank}} = Keys(N)
    BY <1>1 DEF Keys, NamedRows, Key, Rows
  <2> QED BY <2>1 DEF Previewed
<1>8. IsFiniteSet(Keys(N))
  <2> DEFINE g == [i \in NamedRows(N) |-> Key(i)]
  <2>1. g \in Surjection(NamedRows(N), Keys(N))
    BY DEF Surjection, Keys
  <2> HIDE DEF N
  <2>2. IsFiniteSet(1 .. N) /\ NamedRows(N) \subseteq 1 .. N
    BY <1>1, FS_Interval DEF NamedRows
  <2>3. IsFiniteSet(NamedRows(N))
    BY <2>2, FS_Subset
  <2> HIDE DEF g
  <2> QED BY <2>1, <2>3, FS_Surjection
<1>9. Cardinality(NewMessages(c)) = Cardinality(Keys(N))
  <2> DEFINE f == [k \in Keys(N) |-> Message(c, k)]
  <2>1. NewMessages(c) = {f[k] : k \in Keys(N)}
    BY <1>6
  <2>2. ASSUME NEW x \in Keys(N), NEW y \in Keys(N), f[x] = f[y] PROVE x = y
    <3>1. PICK i \in NamedRows(N) : x = Key(i)
      BY DEF Keys
    <3>2. PICK j \in NamedRows(N) : y = Key(j)
      BY DEF Keys
    <3>3. m[i].unit = m[j].unit /\ m[i].bus = m[j].bus /\ m[i].message = m[j].message
      BY <1>2, <2>2, <3>1, <3>2
    <3> QED BY <3>1, <3>2, <3>3 DEF Key
  <2>3. \A x, y \in Keys(N) : f[x] = f[y] => x = y
    BY <2>2
  <2>4. PICK S, g : S = Keys(N) /\ g = f
    OBVIOUS
  <2> HIDE DEF f, N
  <2>5. IsFiniteSet(S) /\ \A x, y \in S : g[x] = g[y] => x = y
    BY <1>8, <2>3, <2>4
  <2>6. Cardinality({g[x] : x \in S}) = Cardinality(S)
    BY <2>5, CountedAlike
  <2> QED BY <2>1, <2>4, <2>6
<1>10. \A f \in NewFields(c) : f[1] = Place(f[2])
  BY <1>4
<1> QED BY <1>5, <1>7, <1>9, <1>10

\* Of any workbook the preview calls valid.
LEMMA SystemsMade ==
  ASSUME NEW c, FirstOne(c), import[c].systems = {}
  PROVE  Cardinality({<<n, c>> : n \in NewSystems(c)}) = Previewed(book).systems
<1> DEFINE s == book.units
           N == Len(s)
           A == {s[i].system : i \in 1 .. N}
<1>1. N \in Nat /\ DOMAIN s = 1 .. N
  BY Sheets DEF FirstOne
<1>2. {r.system : r \in Rows(s)} = A
  BY <1>1 DEF Rows
<1>3. NewSystems(c) = NonBlank(A) /\ Previewed(book).systems = Cardinality(NonBlank(A))
  BY <1>2 DEF NewSystems, NonBlank, Previewed
<1>4. IsFiniteSet(A)
  <2> DEFINE g == [i \in 1 .. N |-> s[i].system]
  <2>1. g \in Surjection(1 .. N, A)
    BY DEF Surjection
  <2>2. IsFiniteSet(1 .. N)
    BY <1>1, FS_Interval
  <2> HIDE DEF g, A, N
  <2> QED BY <2>1, <2>2, FS_Surjection
<1> HIDE DEF A
<1>5. IsFiniteSet(NonBlank(A))
  BY <1>4, FS_Difference DEF NonBlank
<1> DEFINE f == [n \in NonBlank(A) |-> <<n, c>>]
<1>6. {<<n, c>> : n \in NewSystems(c)} = {f[n] : n \in NonBlank(A)}
  BY <1>3
<1>7. \A x, y \in NonBlank(A) : f[x] = f[y] => x = y
  OBVIOUS
<1>8. PICK S, h : S = NonBlank(A) /\ h = f
  OBVIOUS
<1> HIDE DEF f
<1>9. Cardinality({h[x] : x \in S}) = Cardinality(S)
  BY <1>5, <1>7, <1>8, CountedAlike
<1> QED BY <1>3, <1>6, <1>8, <1>9

\* What is made of some of the rows of a sheet is no more than the rows.
LEMMA NoMoreThanRows ==
  ASSUME NEW n \in Nat, NEW f, NEW S, S \subseteq {f[i] : i \in 1 .. n}
  PROVE  Cardinality(S) <= n
<1> DEFINE B == {f[i] : i \in 1 .. n}
<1>1. IsFiniteSet(B) /\ Cardinality(B) \in Nat /\ Cardinality(B) <= n
  BY CountedAtMost
<1>2. S \in SUBSET B
  OBVIOUS
<1> HIDE DEF B
<1>3. IsFiniteSet(S) /\ Cardinality(S) <= Cardinality(B)
  BY <1>1, <1>2, FS_Subset
<1>4. Cardinality(S) \in Nat
  BY <1>3, FS_CardinalityType
<1> QED BY <1>1, <1>3, <1>4

LEMMA ConnectorsAtMost ==
  ASSUME NEW c, FirstOne(c)
  PROVE  /\ Cardinality(NewConnectors(c)) <= Previewed(book).connectors
         /\ Cardinality(NewPins(c)) <= Len(book.connectors)
<1> DEFINE s == book.connectors
           N == Len(book.connectors)
<1>1. N \in Nat /\ DOMAIN s = 1 .. N
  BY Sheets DEF FirstOne
<1>2. \A i \in ConnectorRows(c) : UnitOf(c, s[i].unit) = <<s[i].unit, c>>
  BY UnitsMade DEF ConnectorRows
<1>3. Cardinality(NewConnectors(c)) <= Previewed(book).connectors
  <2> DEFINE K == {i \in 1 .. N : s[i].connector # Blank}
             P == {<<s[i].unit, s[i].connector>> : i \in K}
             Q == {<<s[i].unit, s[i].connector>> : i \in ConnectorRows(c)}
             f == [x \in Q |-> <<<<x[1], c>>, x[2]>>]
  <2>1. Previewed(book).connectors = Cardinality(P)
    <3>1. {<<r.unit, r.connector>> : r \in {q \in Rows(s) : q.connector # Blank}} = P
      BY <1>1 DEF Rows
    <3> QED BY <3>1 DEF Previewed
  <2>2. ConnectorRows(c) \subseteq K /\ Q \subseteq P
    BY <1>1 DEF ConnectorRows
  <2>3. IsFiniteSet(P)
    <3> DEFINE g == [i \in K |-> <<s[i].unit, s[i].connector>>]
    <3>1. g \in Surjection(K, P)
      BY DEF Surjection
    <3>2. K \in SUBSET (1 .. N) /\ IsFiniteSet(1 .. N)
      BY <1>1, FS_Interval
    <3> HIDE DEF g, K, P, N
    <3>3. IsFiniteSet(K)
      BY <3>2, FS_Subset
    <3> QED BY <3>1, <3>3, FS_Surjection
  <2>4. NewConnectors(c) = {f[x] : x \in Q}
    <3>1. NewConnectors(c) = {<<<<s[i].unit, c>>, s[i].connector>> : i \in ConnectorRows(c)}
      BY <1>2 DEF NewConnectors
    <3>2. \A i \in ConnectorRows(c) :
            /\ <<s[i].unit, s[i].connector>> \in Q
            /\ f[<<s[i].unit, s[i].connector>>] = <<<<s[i].unit, c>>, s[i].connector>>
      OBVIOUS
    <3>3. \A x \in Q : \E i \in ConnectorRows(c) : x = <<s[i].unit, s[i].connector>>
      OBVIOUS
    <3> HIDE DEF Q, f, s
    <3>4. NewConnectors(c) \subseteq {f[x] : x \in Q}
      BY <3>1, <3>2
    <3>5. \A x \in Q : f[x] \in NewConnectors(c)
      BY <3>1, <3>2, <3>3, Zenon
    <3> QED BY <3>4, <3>5
  <2>5. \A x, y \in Q : f[x] = f[y] => x = y
    OBVIOUS
  <2>6. PICK S, h : S = Q /\ h = f
    OBVIOUS
  <2> HIDE DEF P, Q, f
  <2>7. IsFiniteSet(Q) /\ Cardinality(Q) <= Cardinality(P)
    BY <2>2, <2>3, FS_Subset
  <2>8. Cardinality({h[x] : x \in S}) = Cardinality(S)
    BY <2>5, <2>6, <2>7, CountedAlike
  <2> QED BY <2>1, <2>4, <2>6, <2>7, <2>8
<1>4. Cardinality(NewPins(c)) <= N
  <2> DEFINE f == [i \in 1 .. N |-> <<<<s[i].unit, c>>, s[i].connector, s[i].pin>>]
  <2>1. ASSUME NEW x \in NewPins(c) PROVE x \in {f[i] : i \in 1 .. N}
    <3>1. PICK i \in PinRows(c) : x = PinAt(c, i)
      BY DEF NewPins
    <3>2. i \in ConnectorRows(c) /\ i \in 1 .. N
      BY <1>1 DEF PinRows, ConnectorRows
    <3>3. x = f[i]
      BY <1>2, <3>1, <3>2 DEF PinAt
    <3> QED BY <3>2, <3>3
  <2>2. PICK n, g : n = N /\ g = f
    OBVIOUS
  <2> HIDE DEF f, N
  <2>3. n \in Nat /\ NewPins(c) \subseteq {g[i] : i \in 1 .. n}
    BY <1>1, <2>1, <2>2
  <2>4. Cardinality(NewPins(c)) <= n
    BY <2>3, NoMoreThanRows
  <2> QED BY <2>2, <2>4
<1> QED BY <1>3, <1>4

LEMMA BusesMade ==
  ASSUME NEW c, FirstOne(c)
  PROVE  /\ Cardinality(NewBuses(c)) <= Len(book.buses)
         /\ Regular => (Cardinality(NewBuses(c)) = Len(book.buses) <=> ~NamedTwice)
<1> DEFINE s == book.buses
           N == Len(book.buses)
           f == [i \in 1 .. N |-> <<<<s[i].unit, c>>, s[i].bus, c>>]
<1>1. N \in Nat /\ DOMAIN s = 1 .. N
  BY Sheets DEF FirstOne
<1>2. ASSUME NEW x \in NewBuses(c) PROVE x \in {f[i] : i \in 1 .. N}
  <2>1. PICK r \in Rows(s) : r.unit \in UnitNames(c) /\ x = <<UnitOf(c, r.unit), r.bus, c>>
    BY DEF NewBuses
  <2>2. PICK i \in 1 .. N : r = s[i]
    BY <1>1 DEF Rows
  <2>3. UnitOf(c, r.unit) = <<r.unit, c>>
    BY <2>1, UnitsMade
  <2>4. x = f[i]
    BY <2>1, <2>2, <2>3
  <2> QED BY <2>4
<1>3. ASSUME Regular PROVE {f[i] : i \in 1 .. N} \subseteq NewBuses(c)
  <2>1. ASSUME NEW i \in 1 .. N PROVE f[i] \in NewBuses(c)
    <3>1. s[i] \in Rows(s)
      BY <1>1 DEF Rows
    <3>2. s[i].unit \in UnitNames(c) /\ UnitOf(c, s[i].unit) = <<s[i].unit, c>>
      BY <1>3, <3>1, UnitsMade DEF Regular, SheetUnits
    <3> QED BY <3>1, <3>2 DEF NewBuses
  <2> QED BY <2>1
<1>4. NamedTwice <=> ~(\A i, j \in 1 .. N : f[i] = f[j] => i = j)
  <2>1. \A i, j \in 1 .. N : f[i] = f[j] <=> s[i].unit = s[j].unit /\ s[i].bus = s[j].bus
    OBVIOUS
  <2> HIDE DEF f
  <2> QED BY <1>1, <2>1 DEF NamedTwice
<1>5. PICK n, g : n = N /\ g = f
  OBVIOUS
<1> HIDE DEF f, N
<1>6. n \in Nat /\ NewBuses(c) \subseteq {g[i] : i \in 1 .. n}
  BY <1>1, <1>2, <1>5
<1>7. Cardinality(NewBuses(c)) <= n
  BY <1>6, NoMoreThanRows
<1>8. ASSUME Regular PROVE Cardinality(NewBuses(c)) = n <=> ~NamedTwice
  <2>1. NewBuses(c) = {g[i] : i \in 1 .. n}
    BY <1>3, <1>5, <1>6, <1>8
  <2>2. Cardinality({g[i] : i \in 1 .. n}) = n <=> \A i, j \in 1 .. n : g[i] = g[j] => i = j
    BY <1>6, CountedAtMost
  <2> QED BY <1>4, <1>5, <2>1, <2>2
<1> QED BY <1>5, <1>7, <1>8 DEF N

\* What has been read of a sheet: every field is of one row, in a message that
\* agrees with the names in the row.
Agrees(i, u, b, w) ==
  LET r == book.messages[i]
  IN /\ r.unit # Blank => u = r.unit
     /\ r.bus # Blank => b = r.bus
     /\ r.message # Blank => w = r.message
IsFieldOf(f, n) ==
  \E i \in 1 .. n : \E u \in SheetUnits : \E b, w :
    f = <<<<u, b, w>>, i, book.messages[i].field>> /\ Agrees(i, u, b, w)
ReadWell(a, n) ==
  /\ \A k \in DOMAIN a.map : a.map[k] = k
  /\ \A f \in a.fields : IsFieldOf(f, n)
  /\ \A f, g \in a.fields : f[2] = g[2] => f = g

LEMMA RowReadWell ==
  ASSUME NEW c, FirstOne(c), NEW n \in Nat, NEW a, ReadWell(a, n)
  PROVE  ReadWell(ReadMessage(c, a, n + 1), n + 1)
<1> DEFINE r == book.messages[n + 1]
           Cell(own, k) == IF own = Blank /\ a.current # <<>> THEN a.current[k] ELSE own
           unit == Cell(r.unit, 1)
           bus == Cell(r.bus, 2)
           name == Cell(r.message, 3)
           key == <<unit, bus, name>>
           map == [k \in DOMAIN a.map \cup {key} |-> IF k = key THEN key ELSE a.map[k]]
           new == ReadMessage(c, a, n + 1)
           f0 == <<key, n + 1, r.field>>
<1> SUFFICES ReadWell(new, n + 1)
  OBVIOUS
<1>1. \A f : IsFieldOf(f, n) => IsFieldOf(f, n + 1) /\ f[2] # n + 1
  <2>1. 1 .. n \subseteq 1 .. n + 1 /\ \A i \in 1 .. n : i # n + 1
    OBVIOUS
  <2>2. ASSUME NEW f, IsFieldOf(f, n) PROVE IsFieldOf(f, n + 1) /\ f[2] # n + 1
    <3>1. PICK i \in 1 .. n : \E u \in SheetUnits : \E b, w :
            f = <<<<u, b, w>>, i, book.messages[i].field>> /\ Agrees(i, u, b, w)
      BY <2>2 DEF IsFieldOf
    <3>2. f[2] = i
      BY <3>1
    <3>3. i \in 1 .. n + 1 /\ i # n + 1
      BY <2>1
    <3>4. IsFieldOf(f, n + 1)
      BY <3>1, <3>3, Zenon DEF IsFieldOf
    <3> QED BY <3>2, <3>3, <3>4
  <2> QED BY <2>2
<1>2. /\ \A k \in DOMAIN map : map[k] = k
      /\ DOMAIN map = DOMAIN a.map \cup {key}
  BY DEF ReadWell
<1>3. unit \in UnitNames(c) => IsFieldOf(f0, n + 1)
  <2> SUFFICES ASSUME unit \in SheetUnits PROVE IsFieldOf(f0, n + 1)
    BY UnitsMade
  <2>1. Agrees(n + 1, unit, bus, name)
    BY DEF Agrees
  <2>2. n + 1 \in 1 .. n + 1
    OBVIOUS
  <2> HIDE DEF unit, bus, name
  <2> QED BY <2>1, <2>2 DEF IsFieldOf
<1>4. \/ new = a
      \/ /\ new.map = a.map \/ new.map = map
         /\ \/ new.fields = a.fields
            \/ new.fields = a.fields \cup {f0} /\ unit \in UnitNames(c)
  <2> DEFINE isNew == name # Blank /\ key \notin DOMAIN a.map
             after == IF isNew THEN map ELSE a.map
             found == unit \in UnitNames(c) /\ <<UnitOf(c, unit), bus, c>> \in NewBuses(c)
  <2>1. new = IF ~found THEN a
              ELSE [map |-> after,
                    current |-> IF isNew THEN key ELSE a.current,
                    fields |-> IF r.field # Blank /\ key \in DOMAIN after
                               THEN a.fields \cup {<<after[key], n + 1, r.field>>} ELSE a.fields]
    BY Zenon DEF ReadMessage, MessageKey
  <2>2. key \in DOMAIN after => after[key] = key
    BY <1>2 DEF ReadWell
  <2>3. after = a.map \/ after = map
    OBVIOUS
  <2>4. found => unit \in UnitNames(c)
    OBVIOUS
  <2> HIDE DEF new, after, isNew, map, key, found, unit
  <2>5. CASE ~found
    BY <2>1, <2>5
  <2>6. CASE found
    <3>1. /\ new.map = after
          /\ new.fields = IF r.field # Blank /\ key \in DOMAIN after
                          THEN a.fields \cup {<<after[key], n + 1, r.field>>} ELSE a.fields
      BY <2>1, <2>6
    <3>2. new.fields = a.fields \/ new.fields = a.fields \cup {f0}
      BY <2>2, <3>1
    <3> QED BY <2>3, <2>4, <2>6, <3>1, <3>2, Zenon
  <2> QED BY <2>5, <2>6
<1> HIDE DEF new, map, key, unit
<1>5. CASE new = a
  <2>1. \A f \in a.fields : IsFieldOf(f, n + 1)
    BY <1>1 DEF ReadWell
  <2>2. ReadWell(a, n + 1)
    BY <2>1, Zenon DEF ReadWell
  <2> QED BY <1>5, <2>2
<1>6. CASE new # a
  <2>1. \A k \in DOMAIN new.map : new.map[k] = k
    BY <1>2, <1>4, <1>6 DEF ReadWell
  <2>2. \A f \in new.fields : f \in a.fields \/ (f = f0 /\ IsFieldOf(f0, n + 1))
    <3> HIDE DEF f0
    <3> QED BY <1>3, <1>4, <1>6
  <2>3. \A f \in new.fields : IsFieldOf(f, n + 1)
    <3> HIDE DEF f0
    <3> QED BY <1>1, <2>2 DEF ReadWell
  <2>4. \A f, g \in new.fields : f[2] = g[2] => f = g
    <3>1. f0[2] = n + 1
      OBVIOUS
    <3> HIDE DEF f0, IsFieldOf, new
    <3>2. \A f \in a.fields : f[2] # n + 1
      BY <1>1 DEF ReadWell
    <3>3. \A f, g \in a.fields : f[2] = g[2] => f = g
      BY DEF ReadWell
    <3>4. \A f \in new.fields : f \in a.fields \/ f = f0
      BY <2>2
    <3>5. ASSUME NEW f \in new.fields, NEW g \in new.fields, f[2] = g[2] PROVE f = g
      <4>1. CASE f \in a.fields /\ g \in a.fields
        BY <3>3, <3>5, <4>1
      <4>2. CASE f \notin a.fields
        <5>1. f = f0 /\ g[2] = n + 1
          BY <3>1, <3>4, <3>5, <4>2
        <5>2. g \notin a.fields
          BY <3>2, <5>1
        <5> QED BY <3>4, <5>1, <5>2
      <4>3. CASE g \notin a.fields
        <5>1. g = f0 /\ f[2] = n + 1
          BY <3>1, <3>4, <3>5, <4>3
        <5>2. f \notin a.fields
          BY <3>2, <5>1
        <5> QED BY <3>4, <5>1, <5>2
      <4> QED BY <4>1, <4>2, <4>3
    <3> QED BY <3>5
  <2> QED BY <2>1, <2>3, <2>4 DEF ReadWell
<1> QED BY <1>5, <1>6

LEMMA SheetReadWell ==
  ASSUME NEW c, FirstOne(c)
  PROVE  ReadWell(ReadMessages(c), Len(book.messages))
<1> DEFINE N == Len(book.messages)
           f == ReadingOf(c)
           T == {n \in Nat : n \in 0 .. N => ReadWell(f[n], n)}
<1>1. N \in Nat
  BY Sheets DEF FirstOne
<1>2. Reads(c, f, N)
  BY <1>1, SheetIsRead
<1> HIDE DEF f
<1>3. 0 \in T
  <2>1. f[0] = Unread
    BY <1>1, <1>2 DEF Reads
  <2>2. ReadWell(Unread, 0)
    BY DEF ReadWell, Unread
  <2> QED BY <2>1, <2>2
<1>4. ASSUME NEW n \in Nat, n \in T PROVE n + 1 \in T
  <2> SUFFICES ASSUME n + 1 \in 0 .. N PROVE ReadWell(f[n + 1], n + 1)
    OBVIOUS
  <2>1. n \in 0 .. N /\ (n + 1) - 1 = n /\ n + 1 # 0
    BY <1>1
  <2>2. f[n + 1] = ReadMessage(c, f[n], n + 1)
    BY <1>2, <2>1 DEF Reads
  <2>3. ReadWell(f[n], n)
    BY <1>4, <2>1
  <2> QED BY <2>2, <2>3, RowReadWell
<1>5. N \in T
  <2> HIDE DEF T
  <2> QED BY <1>1, <1>3, <1>4, AllNumbers
<1> QED BY <1>1, <1>5 DEF ReadMessages, f

LEMMA FieldsAtMost ==
  ASSUME NEW c, FirstOne(c)
  PROVE  /\ Cardinality(NewFields(c)) <= Len(book.messages)
         /\ \A f \in NewFields(c) :
              LET r == book.messages[f[2]]
              IN /\ r.unit # Blank => f[1][1] = <<r.unit, c>>
                 /\ r.bus # Blank => f[1][2] = r.bus
                 /\ r.message # Blank => f[1][3] = r.message
<1> DEFINE N == Len(book.messages)
           read == ReadMessages(c).fields
<1>1. N \in Nat
  BY Sheets DEF FirstOne
<1>2. /\ \A f \in read : IsFieldOf(f, N)
      /\ \A f, g \in read : f[2] = g[2] => f = g
  BY SheetReadWell DEF ReadWell
<1>3. ASSUME NEW x \in NewFields(c)
      PROVE  \E f \in read : \E i \in 1 .. N : \E u \in SheetUnits : \E b, w :
               /\ f[2] = i /\ x = <<<<<<u, c>>, b, w, c>>, i, f[3]>> /\ Agrees(i, u, b, w)
               /\ x = <<Message(c, f[1]), f[2], f[3]>>
  <2>1. PICK f \in read : x = <<Message(c, f[1]), f[2], f[3]>>
    BY DEF NewFields
  <2>2. PICK i \in 1 .. N : \E u \in SheetUnits : \E b, w :
          f = <<<<u, b, w>>, i, book.messages[i].field>> /\ Agrees(i, u, b, w)
    BY <1>2 DEF IsFieldOf
  <2>3. PICK u \in SheetUnits : \E b, w :
          f = <<<<u, b, w>>, i, book.messages[i].field>> /\ Agrees(i, u, b, w)
    BY <2>2
  <2>4. PICK b, w : f = <<<<u, b, w>>, i, book.messages[i].field>> /\ Agrees(i, u, b, w)
    BY <2>3
  <2>5. UnitOf(c, u) = <<u, c>>
    BY UnitsMade
  <2>6. f[1] = <<u, b, w>> /\ f[2] = i
    BY <2>4
  <2>7. Message(c, f[1]) = <<<<u, c>>, b, w, c>>
    BY <2>5, <2>6 DEF Message
  <2> HIDE DEF read, N
  <2> QED BY <2>1, <2>4, <2>6, <2>7, Zenon
<1> HIDE DEF read
<1>4. Cardinality(NewFields(c)) <= N
  <2> DEFINE S == NewFields(c)
             g == [x \in S |-> x[2]]
  <2>1. ASSUME NEW x \in S PROVE g[x] \in 1 .. N
    <3>1. x[2] \in 1 .. N
      BY <1>3
    <3> QED BY <3>1
  <2>2. ASSUME NEW x \in S, NEW y \in S, g[x] = g[y] PROVE x = y
    <3>1. PICK f \in read : f[2] = x[2] /\ x = <<Message(c, f[1]), f[2], f[3]>>
      BY <1>3
    <3>2. PICK h \in read : h[2] = y[2] /\ y = <<Message(c, h[1]), h[2], h[3]>>
      BY <1>3
    <3>3. f = h
      BY <1>2, <2>2, <3>1, <3>2
    <3> QED BY <3>1, <3>2, <3>3
  <2>3. g \in [S -> 1 .. N]
    BY <2>1
  <2> HIDE DEF g, S, N
  <2>4. g \in Injection(S, 1 .. N)
    BY <2>2, <2>3 DEF Injection, IsInjective
  <2>5. IsFiniteSet(1 .. N) /\ Cardinality(1 .. N) = N
    BY <1>1, FS_Interval
  <2>6. Cardinality(S) <= Cardinality(1 .. N)
    BY <2>4, <2>5, FS_Injection
  <2> QED BY <2>5, <2>6 DEF S
<1>5. ASSUME NEW x \in NewFields(c)
      PROVE  LET r == book.messages[x[2]]
             IN /\ r.unit # Blank => x[1][1] = <<r.unit, c>>
                /\ r.bus # Blank => x[1][2] = r.bus
                /\ r.message # Blank => x[1][3] = r.message
  <2>1. PICK f \in read : \E i \in 1 .. N : \E u \in SheetUnits : \E b, w :
          /\ f[2] = i /\ x = <<<<<<u, c>>, b, w, c>>, i, f[3]>> /\ Agrees(i, u, b, w)
          /\ x = <<Message(c, f[1]), f[2], f[3]>>
    BY <1>3
  <2>2. PICK i \in 1 .. N : \E u \in SheetUnits : \E b, w :
          x = <<<<<<u, c>>, b, w, c>>, i, f[3]>> /\ Agrees(i, u, b, w)
    BY <2>1
  <2>3. PICK u \in SheetUnits : \E b, w :
          x = <<<<<<u, c>>, b, w, c>>, i, f[3]>> /\ Agrees(i, u, b, w)
    BY <2>2
  <2>4. PICK b, w : x = <<<<<<u, c>>, b, w, c>>, i, f[3]>> /\ Agrees(i, u, b, w)
    BY <2>3
  <2>5. x[2] = i /\ x[1][1] = <<u, c>> /\ x[1][2] = b /\ x[1][3] = w
    BY <2>4
  <2> QED BY <2>4, <2>5 DEF Agrees
<1> QED BY <1>4, <1>5

LEMMA NeverMoreMade ==
  ASSUME NEW c, FirstOne(c), import[c].systems = {}
  PROVE  NeverMore(c, Made(c))
<1>1. /\ Made(c).systems = {<<n, c>> : n \in NewSystems(c)}
      /\ Made(c).units = NewUnits(c) /\ Made(c).connectors = NewConnectors(c)
      /\ Made(c).pins = NewPins(c) /\ Made(c).buses = NewBuses(c)
      /\ Made(c).fields = NewFields(c)
  BY DEF Made
<1>2. /\ Previewed(book).units = Len(book.units)
      /\ Previewed(book).pins = Len(book.connectors)
      /\ Previewed(book).buses = Len(book.buses)
      /\ Previewed(book).fields = Len(book.messages)
  BY DEF Previewed
<1>3. /\ Cardinality(Made(c).systems) = Previewed(book).systems
      /\ Cardinality(Made(c).units) = Previewed(book).units
  BY <1>1, <1>2, SystemsMade, UnitsMade
<1>4. /\ Cardinality(Made(c).connectors) <= Previewed(book).connectors
      /\ Cardinality(Made(c).pins) <= Previewed(book).pins
  BY <1>1, <1>2, ConnectorsAtMost
<1>5. /\ Cardinality(Made(c).buses) <= Previewed(book).buses
      /\ Cardinality(Made(c).fields) <= Previewed(book).fields
  BY <1>1, <1>2, BusesMade, FieldsAtMost
<1>6. \A f \in Made(c).fields :
        LET r == book.messages[f[2]]
        IN /\ r.unit # Blank => f[1][1] = <<r.unit, c>>
           /\ r.bus # Blank => f[1][2] = r.bus
           /\ r.message # Blank => f[1][3] = r.message
  BY <1>1, FieldsAtMost
<1> QED BY <1>3, <1>4, <1>5, <1>6 DEF NeverMore

\* What the invariant keeps: the workbook, and what the imports of it have made.
WorkbookInvariant ==
  /\ book \in Books
  /\ DOMAIN import = Confirmations
  /\ ImportedAsPreviewed

LEMMA MadeAsPreviewed ==
  ASSUME WorkbookAssumption, WorkbookInvariant, Valid(book), Regular,
         NEW c \in Confirmations, import[c].units = {}
  PROVE  AsPreviewed(c, Made(c))
<1>1. FirstOfAll(c) /\ FirstOne(c)
  BY DEF FirstOfAll, FirstOne, WorkbookInvariant
<1>2. /\ Made(c).connectors = NewConnectors(c) /\ Made(c).pins = NewPins(c)
      /\ Made(c).buses = NewBuses(c) /\ Made(c).messages = NewMessages(c)
      /\ Made(c).fields = NewFields(c)
  BY DEF Made
<1>3. /\ Previewed(book).pins = Len(book.connectors)
      /\ Previewed(book).buses = Len(book.buses)
      /\ Previewed(book).fields = Len(book.messages)
  BY DEF Previewed
<1>4. /\ Cardinality(Made(c).connectors) = Previewed(book).connectors
      /\ Cardinality(Made(c).pins) = Previewed(book).pins
  BY <1>1, <1>2, <1>3, ConnectorsMade
<1>5. Cardinality(Made(c).buses) = Previewed(book).buses <=> ~NamedTwice
  BY <1>1, <1>2, <1>3, BusesMade
<1>6. /\ Cardinality(Made(c).messages) = Previewed(book).messages
      /\ Cardinality(Made(c).fields) = Previewed(book).fields
      /\ \A f \in Made(c).fields :
           LET r == book.messages[Heading(f[2])]
           IN f[1] = <<<<r.unit, c>>, r.bus, r.message, c>>
  BY <1>1, <1>2, <1>3, MessagesMade
<1> QED BY <1>4, <1>5, <1>6 DEF AsPreviewed

\* Nothing changes the workbook, so a step matters to the import it makes.
LEMMA WorkbookStep ==
  ASSUME WorkbookAssumption, WorkbookInvariant, [WorkbookNext]_workbookVars
  PROVE  WorkbookInvariant'
<1> USE DEF WorkbookInvariant
<1> DEFINE Right(c, made) == NeverMore(c, made) /\ (Regular => AsPreviewed(c, made))
<1>1. book' = book
  BY DEF WorkbookNext, workbookVars, BeginImport, Confirm, Fail, DeleteUnit
<1>2. DOMAIN import' = Confirmations
  BY DEF WorkbookNext, workbookVars, BeginImport, Confirm, Fail, DeleteUnit
<1>3. Valid(book)' <=> Valid(book)
  BY <1>1 DEF Valid, ValidUnits, ValidConnectors, ValidBuses, ValidMessages
<1>4. Regular' <=> Regular
  BY <1>1 DEF Regular, Rows
<1>5. ASSUME NEW c, NEW made
      PROVE  /\ AsPreviewed(c, made)' <=> AsPreviewed(c, made)
             /\ NeverMore(c, made)' <=> NeverMore(c, made)
  BY <1>1 DEF AsPreviewed, NeverMore, NamedTwice, Previewed, Heading, Rows, NonBlank
<1>6. ASSUME Valid(book), NEW c \in Confirmations,
             import'[c].pc = "imported", import'[c].first
      PROVE  Right(c, import'[c].made)
  <2>1. CASE import'[c] = import[c]
    BY <1>6, <2>1 DEF ImportedAsPreviewed
  <2>2. CASE import'[c] # import[c]
    <3>1. Confirm(c)
      <4>1. import' # import
        BY <2>2
      <4>2. PICK d \in Confirmations : BeginImport(d) \/ Confirm(d) \/ Fail(d)
        BY <4>1 DEF WorkbookNext, workbookVars, DeleteUnit
      <4>3. d = c
        BY <2>2, <4>2 DEF BeginImport, Confirm, Fail
      <4>4. ~BeginImport(c) /\ ~Fail(c)
        BY <1>6 DEF BeginImport, Fail
      <4> QED BY <4>2, <4>3, <4>4
    <3>2. import'[c].made = Made(c) /\ import[c].units = {} /\ import[c].systems = {}
      BY <1>6, <3>1 DEF Confirm
    <3>3. NeverMore(c, Made(c))
      BY <1>6, <3>2, NeverMoreMade DEF FirstOne
    <3> QED BY <1>6, <3>2, <3>3, MadeAsPreviewed
  <2> QED BY <2>1, <2>2
<1> HIDE DEF Right
<1>7. ASSUME NEW c \in Confirmations, NEW made
      PROVE  (NeverMore(c, made) /\ (Regular => AsPreviewed(c, made)))' <=> Right(c, made)
  BY <1>4, <1>5 DEF Right
<1>8. ImportedAsPreviewed'
  BY <1>2, <1>3, <1>4, <1>5, <1>6 DEF ImportedAsPreviewed, Right
<1> QED BY <1>1, <1>2, <1>8

\* The first import of a workbook whose preview calls it valid makes the systems
\* and units that preview counted, never more connectors, pins, buses and fields,
\* and overrules no name in a row of the messages sheet; of a regular workbook it
\* makes as many connectors, pins, messages and fields, and each field in the
\* message its row continues, and fewer buses just when rows name one twice
\* (confirm_import and preview_import), for sheets of any length and whatever is
\* deleted meanwhile.
THEOREM ImportsMatchPreviews ==
  ASSUME WorkbookAssumption
  PROVE  WorkbookSpec => []ImportedAsPreviewed
<1>1. WorkbookInit => WorkbookInvariant
  BY DEF WorkbookInit, WorkbookInvariant, ImportedAsPreviewed
<1>2. WorkbookInvariant /\ [WorkbookNext]_workbookVars => WorkbookInvariant'
  BY WorkbookStep
<1>3. WorkbookInvariant => ImportedAsPreviewed
  BY DEF WorkbookInvariant
<1> QED BY <1>1, <1>2, <1>3, PTL DEF WorkbookSpec
=============================================================================
