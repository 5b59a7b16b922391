------------------------------ MODULE PartsLibrary ------------------------------
(***************************************************************************)
(* The parts library: backend/app/routers/parts_library.py and             *)
(* services/parts/wpn_service.py. Parts are numbered and revised; a STEP   *)
(* file becomes a pending import that a background task parses while it    *)
(* is already open to review, and an approval makes a part of it.          *)
(*                                                                         *)
(* The handlers are coroutines that never wait after they began: requests  *)
(* overlap only because the server runs several workers. A request reads   *)
(* in one step and commits in the next; a number is taken under a row lock *)
(* and committed with its part, so taking it is part of the second step.   *)
(***************************************************************************)
EXTENDS Naturals, Sequences, FiniteSets

CONSTANTS
  Files,        \* contents of STEP files; a file stands for its checksum
  Sizes,        \* values of the dimensional columns
  LibraryCalls, \* requests, each made once
  Null

LibraryAssumption == Null \notin Nat

VARIABLES
  lib,       \* LibraryPart rows: [wpn, size, status, next, file]
  nextVal,   \* WPNSequence.next_val of the one type of part
  uploads,   \* PendingPartsImport rows: [file, status, part]
  task,      \* [DOMAIN uploads -> state of the background task]
  libCall

libraryVars == <<lib, nextVal, uploads, task, libCall>>

LibraryInit ==
  /\ lib = <<>> /\ nextVal = 1
  /\ uploads = <<>> /\ task = <<>>
  /\ libCall = [q \in LibraryCalls |-> [op |-> "idle"]]

Goes(q, next) == libCall' = [libCall EXCEPT ![q] = next]
Returns(q) == Goes(q, [op |-> "done"])
---------------------------------------------------------------------------
(* Numbers and revisions *)

Wpn(base, rev) == [base |-> base, rev |-> rev]
\* assign_wpn: the lock is held until the part is committed.
AssignWpn == Wpn(nextVal, 0)
BumpRevision(wpn) == Wpn(wpn.base, wpn.rev + 1)
\* uq_library_part_wpn
Taken_Never(wpn) == FALSE
Taken(wpn) == \E p \in DOMAIN lib : lib[p].wpn = wpn

Part(wpn, size, status, file) ==
  [wpn |-> wpn, size |-> size, status |-> status, next |-> Null, file |-> file]

CreatePart(q, size) ==
  /\ libCall[q].op = "idle"
  /\ lib' = Append(lib, Part(AssignWpn, size, "draft", Null))
  /\ nextVal' = nextVal + 1
  /\ Returns(q)
  /\ UNCHANGED <<uploads, task>>

\* update_part: what it does depends on the status it read.
UpdatePart(q, p, size) ==
  /\ libCall[q].op = "idle"
  /\ Goes(q, [op |-> IF lib[p].status = "approved" THEN "revise" ELSE "write",
              part |-> p, saw |-> lib[p], size |-> size])
  /\ UNCHANGED <<lib, nextVal, uploads, task>>

\* A dimension of an approved part: a draft of the next revision, copied from
\* the row as it was read, and the old row points to it.
Revise(q) ==
  LET p == libCall[q].part  wpn == BumpRevision(libCall[q].saw.wpn) IN
  /\ libCall[q].op = "revise"
  /\ IF Taken(wpn) THEN UNCHANGED lib
     ELSE lib' = Append([lib EXCEPT ![p].status = "superseded", ![p].next = Len(lib) + 1],
                        Part(wpn, libCall[q].size, "draft", libCall[q].saw.file))
  /\ Returns(q)
  /\ UNCHANGED <<nextVal, uploads, task>>

\* Any other part is changed in place, a superseded revision too.
Write(q) ==
  /\ libCall[q].op = "write"
  /\ lib' = [lib EXCEPT ![libCall[q].part].size = libCall[q].size]
  /\ Returns(q)
  /\ UNCHANGED <<nextVal, uploads, task>>
---------------------------------------------------------------------------
(* STEP files *)

Undecided == {"pending", "under_review"}
HasPart(f) == \E p \in DOMAIN lib : lib[p].file = f
InReview(f) == \E i \in DOMAIN uploads : uploads[i].file = f /\ uploads[i].status \in Undecided
Duplicate(f) == HasPart(f) \/ InReview(f)

UploadStepFile(q, f) ==
  /\ libCall[q].op = "idle" /\ ~Duplicate(f)
  /\ Goes(q, [op |-> "store", file |-> f])
  /\ UNCHANGED <<lib, nextVal, uploads, task>>

Store(q) ==
  LET f == libCall[q].file IN
  /\ libCall[q].op = "store"
  /\ uploads' = Append(uploads, [file |-> f, status |-> "pending", part |-> Null])
  /\ task' = Append(task, "queued")
  /\ Returns(q)
  /\ UNCHANGED <<lib, nextVal>>

\* The task puts the import under review, whatever has become of it, and back
\* to pending if it fails. Either undoes a decision.
StartParser(i) ==
  /\ task[i] = "queued"
  /\ task' = [task EXCEPT ![i] = "parsing"]
  /\ uploads' = [uploads EXCEPT ![i].status = "under_review"]
  /\ UNCHANGED <<lib, nextVal, libCall>>

\* The proposal is stored; what it says is an input of the approval.
FinishParser(i) ==
  /\ task[i] = "parsing"
  /\ task' = [task EXCEPT ![i] = "done"]
  /\ UNCHANGED <<lib, nextVal, uploads, libCall>>

FailParser(i) ==
  /\ task[i] = "parsing"
  /\ task' = [task EXCEPT ![i] = "done"]
  /\ uploads' = [uploads EXCEPT ![i].status = "pending"]
  /\ UNCHANGED <<lib, nextVal, libCall>>

\* The worker is restarted: the task is gone, the import stays as it is.
LoseParser(i) ==
  /\ task[i] \in {"queued", "parsing"}
  /\ task' = [task EXCEPT ![i] = "done"]
  /\ UNCHANGED <<lib, nextVal, uploads, libCall>>

\* An import may be approved before it is parsed: name and type may be overrides.
Approve(q, i) ==
  /\ libCall[q].op = "idle" /\ uploads[i].status \in Undecided
  /\ \E size \in Sizes : Goes(q, [op |-> "approve", import |-> i, size |-> size])
  /\ UNCHANGED <<lib, nextVal, uploads, task>>

Reject(q, i) ==
  /\ libCall[q].op = "idle" /\ uploads[i].status \in Undecided
  /\ Goes(q, [op |-> "reject", import |-> i])
  /\ UNCHANGED <<lib, nextVal, uploads, task>>

\* The overrides may write any column that is not protected, and the pointer to
\* the next revision is not: the part may come with one, to any row there is.
CommitApproval(q) ==
  LET i == libCall[q].import  f == uploads[i].file IN
  /\ libCall[q].op = "approve"
  /\ \E next \in {Null} \cup (1 .. Len(lib) + 1) :
       lib' = Append(lib, [Part(AssignWpn, libCall[q].size, "approved", f) EXCEPT !.next = next])
  /\ nextVal' = nextVal + 1
  /\ uploads' = [uploads EXCEPT ![i].status = "approved", ![i].part = Len(lib')]
  /\ Returns(q)
  /\ UNCHANGED task

CommitRejection(q) ==
  LET i == libCall[q].import IN
  /\ libCall[q].op = "reject"
  /\ uploads' = [uploads EXCEPT ![i].status = "rejected"]
  /\ Returns(q)
  /\ UNCHANGED <<lib, nextVal, task>>
---------------------------------------------------------------------------
LibraryNext ==
  \/ \E q \in LibraryCalls :
       \/ \E size \in Sizes : CreatePart(q, size)
       \/ \E p \in DOMAIN lib, size \in Sizes : UpdatePart(q, p, size)
       \/ Revise(q) \/ Write(q)
       \/ \E f \in Files : UploadStepFile(q, f)
       \/ Store(q)
       \/ \E i \in DOMAIN uploads : Approve(q, i) \/ Reject(q, i)
       \/ CommitApproval(q) \/ CommitRejection(q)
  \/ \E i \in DOMAIN uploads :
       StartParser(i) \/ FinishParser(i) \/ FailParser(i) \/ LoseParser(i)

LibrarySpec == LibraryInit /\ [][LibraryNext]_libraryVars
---------------------------------------------------------------------------
(* The revisions of a number are 00, 01, ... without a gap, each superseded *)
(* by the next one, and only the last is in force, whatever overlaps        *)
(* (parts_library.py:200, "create a new revision row and supersede the      *)
(* old": nothing locks the old row). A pointer in a part that is not        *)
(* superseded came with the approval of its import, and never breaks the    *)
(* chain: the part's own revision replaces it.                              *)
RevisionsChain ==
  \A p \in DOMAIN lib :
    /\ lib[p].wpn.rev > 0 =>
         \E o \in DOMAIN lib : lib[o].status = "superseded" /\ lib[o].next = p
    /\ lib[p].status = "superseded" =>
         lib[p].next # Null /\ lib[lib[p].next].wpn = BumpRevision(lib[p].wpn)
    /\ lib[p].next # Null /\ lib[p].status # "superseded" =>
         lib[p].status = "approved" /\ lib[p].wpn.rev = 0
    /\ \A r \in DOMAIN lib \ {p} : lib[r].wpn # lib[p].wpn

=============================================================================
