------------------------------ MODULE IdSequence ------------------------------
(***************************************************************************)
(* The human-readable ids of one (project, prefix) pair: next_human_id of  *)
(* backend/app/services/id_sequence.py, called by every create endpoint,   *)
(* beside the paths that still number a requirement by counting.           *)
(*                                                                         *)
(* The id_sequences row is read FOR UPDATE, so that a waiting statement    *)
(* gets the row as its holder left it; but an absent row, or one that is   *)
(* not committed yet, is not there to be locked.  A call is one database   *)
(* transaction; a batch (confirm_import) runs each of its rows in a        *)
(* SAVEPOINT, and rolling one back also gives up the locks taken in it.    *)
(***************************************************************************)
EXTENDS Naturals, FiniteSets

CONSTANTS
  Calls,      \* transactions that number rows with next_human_id
  Batches,    \* those that number several, each in a savepoint
  Counters,   \* transactions that number a requirement with count + 1
  Legacy,     \* numbers in the source table before the sequence is used
  MaxRows,    \* bound: rows of a batch
  MaxFaults,  \* bound: rows or calls that fail for some other reason
  Nobody      \* holds no lock

ASSUME IdAssumption ==
  /\ Batches \subseteq Calls
  /\ Legacy \subseteq Nat \ {0} /\ IsFiniteSet(Legacy)
  /\ MaxRows \in Nat /\ MaxFaults \in Nat
  /\ Nobody \notin Calls

VARIABLES
  unique,      \* the source table is requirements, with its unique constraint
  next_value,  \* of the committed id_sequences row; 0 when there is none
  lock,        \* the transaction that has the row locked, or has inserted it
  rows,        \* committed numbers in the source table
  minted,      \* every number a call has committed, with the call
  call,        \* local variables of the calls
  counter,     \* local variables of the count + 1 paths
  faults       \* faults so far

vars == <<unique, next_value, lock, rows, minted, call, counter, faults>>

\* "next" is next_value as this transaction sees it, 0 if it has no lock;
\* "mine" the numbers it has inserted, "n" the number of the row at hand and
\* "left" how many rows it still has to number.
At(pc, left) == [pc |-> pc, next |-> 0, mine |-> {}, n |-> 0, left |-> left]

Init ==
  /\ unique \in BOOLEAN
  /\ next_value = 0
  /\ lock = Nobody
  /\ rows = Legacy
  /\ minted = {}
  /\ call = [c \in Calls |-> At("new", 0)]
  /\ counter = [k \in Counters |-> [pc |-> "idle", n |-> 0]]
  /\ faults = 0

-----------------------------------------------------------------------------
(* next_human_id                                                             *)

\* A request that is to number one row or, as a batch, several.  Rows that are
\* skipped in confirm_import touch nothing.
Begin(c, count) ==
  /\ call[c].pc = "new"
  /\ c \notin Batches => count = 1
  /\ call' = [call EXCEPT ![c] = At("idle", count)]
  /\ UNCHANGED <<unique, next_value, lock, rows, minted, counter, faults>>

\* Mutants: the row is read without FOR UPDATE; a lock that is not reentrant.
Lockable_Always(c) == TRUE
Lockable_Free(c) == lock = Nobody

Lockable(c) == lock \in {c, Nobody}

\* SELECT .. FOR UPDATE finds the row: it waits while another call has it.
SelectForUpdate(c) ==
  LET seen == IF call[c].next # 0 THEN call[c].next ELSE next_value IN
  /\ call[c].pc = "idle"
  /\ call[c].left > 0
  /\ seen # 0
  /\ Lockable(c)
  /\ lock' = c
  /\ call' = [call EXCEPT ![c].pc = "numbered", ![c].n = seen]
  /\ UNCHANGED <<unique, next_value, rows, minted, counter, faults>>

\* It finds none, and locks nothing.
SelectMissing(c) ==
  /\ call[c].pc = "idle"
  /\ call[c].left > 0
  /\ call[c].next = 0 /\ next_value = 0
  /\ call' = [call EXCEPT ![c].pc = "missing"]
  /\ UNCHANGED <<unique, next_value, lock, rows, minted, counter, faults>>

\* _scan_existing_max, a statement of its own: the highest number, or 0.
ScanExisting(c) ==
  /\ call[c].pc = "missing"
  /\ \E m \in rows \cup {0} :
       /\ \A n \in rows : n <= m
       /\ call' = [call EXCEPT ![c].pc = "seeding", ![c].n = m + 1]
  /\ UNCHANGED <<unique, next_value, lock, rows, minted, counter, faults>>

\* The INSERT waits for one that is not committed, to see what becomes of it.
InsertSequence(c) ==
  /\ call[c].pc = "seeding"
  /\ next_value = 0
  /\ lock = Nobody
  /\ lock' = c
  /\ call' = [call EXCEPT ![c].pc = "numbered"]
  /\ UNCHANGED <<unique, next_value, rows, minted, counter, faults>>

Increment(n) == n + 1

\* next_value is increased and the caller's row inserted with the number.
InsertRow(c) ==
  LET n == call[c].n IN
  /\ call[c].pc = "numbered"
  /\ unique => n \notin rows
  /\ call' = [call EXCEPT ![c] =
       [pc |-> "idle", next |-> Increment(n), mine |-> @.mine \cup {n}, n |-> 0,
        left |-> @.left - 1]]
  /\ UNCHANGED <<unique, next_value, lock, rows, minted, counter, faults>>

-----------------------------------------------------------------------------
(* How a row, or its transaction, ends.                                      *)

\* The id_sequences row was committed meanwhile, or the number is taken.
Conflict(c) ==
  \/ call[c].pc = "seeding" /\ next_value # 0
  \/ call[c].pc = "numbered" /\ unique /\ call[c].n \in rows

\* What the savepoint restores.
AfterRowFailed(c) ==
  [pc |-> "idle", mine |-> call[c].mine, left |-> call[c].left - 1,
   next |-> call[c].next, n |-> 0]

\* A call that is no batch fails as a whole: its one row is its transaction.
FailRow(c) ==
  /\ call' = [call EXCEPT ![c] =
       IF c \in Batches THEN AfterRowFailed(c) ELSE At("failed", 0)]
  /\ lock' = IF lock = c /\ (c \notin Batches \/ call[c].next = 0) THEN Nobody ELSE lock
  /\ UNCHANGED <<unique, next_value, rows, minted, counter>>

RowConflicts(c) ==
  /\ Conflict(c)
  /\ FailRow(c)
  /\ UNCHANGED faults

\* Any other error in the row.
RowFails(c) ==
  /\ call[c].pc \in {"missing", "seeding", "numbered"}
  /\ faults < MaxFaults
  /\ faults' = faults + 1
  /\ FailRow(c)

Commit(c) ==
  /\ call[c].pc = "idle"
  /\ call[c].left = 0
  /\ next_value' = IF call[c].next # 0 THEN call[c].next ELSE next_value
  /\ lock' = IF lock = c THEN Nobody ELSE lock
  /\ rows' = rows \cup call[c].mine
  /\ minted' = minted \cup {[number |-> n, by |-> c] : n \in call[c].mine}
  /\ call' = [call EXCEPT ![c] = At("done", 0)]
  /\ UNCHANGED <<unique, counter, faults>>

Begun(c) == call[c].pc \notin {"new", "done", "failed"}

\* The process or its connection dies: the database rolls back.
Crash(c) ==
  /\ Begun(c)
  /\ faults < MaxFaults
  /\ faults' = faults + 1
  /\ lock' = IF lock = c THEN Nobody ELSE lock
  /\ call' = [call EXCEPT ![c] = At("failed", 0)]
  /\ UNCHANGED <<unique, next_value, rows, minted, counter>>

-----------------------------------------------------------------------------
(* The writers next_human_id does not know of: the auto-requirement          *)
(* generator and the integration importers.  And deletions.                  *)

CountRows(k) ==
  /\ unique
  /\ counter[k].pc = "idle"
  /\ counter' = [counter EXCEPT ![k] = [pc |-> "counted", n |-> Cardinality(rows) + 1]]
  /\ UNCHANGED <<unique, next_value, lock, rows, minted, call, faults>>

\* The INSERT waits for a pending equal one, and fails on a committed one.
InsertCounted(k) ==
  LET n == counter[k].n IN
  /\ counter[k].pc = "counted"
  /\ \A c \in Calls : n \notin call[c].mine
  /\ rows' = rows \cup {n}
  /\ counter' = [counter EXCEPT ![k] = [pc |-> "done", n |-> 0]]
  /\ UNCHANGED <<unique, next_value, lock, minted, call, faults>>

\* Source artifacts, systems and units are deleted; requirements, the one
\* table with a unique constraint, never are.
DeleteRow(n) ==
  /\ ~unique
  /\ n \in rows
  /\ rows' = rows \ {n}
  /\ UNCHANGED <<unique, next_value, lock, minted, call, counter, faults>>

-----------------------------------------------------------------------------
CallStep(c) ==
  \/ SelectForUpdate(c) \/ SelectMissing(c) \/ ScanExisting(c)
  \/ InsertSequence(c) \/ InsertRow(c) \/ RowConflicts(c) \/ Commit(c)

Next ==
  \/ \E c \in Calls :
       \/ \E count \in 1 .. MaxRows : Begin(c, count)
       \/ CallStep(c) \/ RowFails(c) \/ Crash(c)
  \/ \E k \in Counters : CountRows(k) \/ InsertCounted(k)
  \/ \E n \in rows : DeleteRow(n)

Spec == Init /\ [][Next]_vars

\* A call that has begun goes on until it commits or fails.
FairSpec == Spec /\ \A c \in Calls : WF_vars(CallStep(c))

-----------------------------------------------------------------------------
(* Properties *)

\* Types of the sequence, the numbers and the calls' variables.
CallRecord ==
  [pc : {"new", "idle", "missing", "seeding", "numbered", "done", "failed"},
   next : Nat, mine : SUBSET (Nat \ {0}), n : Nat, left : Nat]
TypeOK ==
  /\ unique \in BOOLEAN
  /\ next_value \in Nat
  /\ lock \in Calls \cup {Nobody}
  /\ rows \subseteq Nat
  /\ minted \subseteq [number : Nat \ {0}, by : Calls]
  /\ call \in [Calls -> CallRecord]
  /\ counter \in [Counters -> [pc : {"idle", "counted", "done"}, n : Nat]]
  /\ faults \in 0 .. MaxFaults

\* "No ID reuse": no number is ever committed by two calls, or taken again
\* after the row that had it was deleted, in a table without any unique
\* constraint and whatever rolls back in between.
MintedOnce == \A a, b \in minted : a.number = b.number => a = b

\* Nobody waits for the sequence row forever, though a batch holds its lock
\* over many rows: every call that begins ends.
CallsEnd == <>[](\A c \in Calls : ~Begun(c))

\* What makes MintedOnce inductive: only the holder of the lock has numbers,
\* and they are past every number committed before.
HolderOnly ==
  \A c \in Calls :
    /\ call[c].next # 0 \/ call[c].pc = "numbered" => lock = c
    /\ call[c].mine # {} => call[c].next # 0
PastCommitted ==
  /\ \A m \in minted : m.number < next_value
  /\ \A c \in Calls :
       /\ \A n \in call[c].mine : next_value <= n /\ n < call[c].next
       /\ call[c].next # 0 => next_value <= call[c].next
       /\ call[c].pc \in {"seeding", "numbered"} => call[c].n # 0
       /\ call[c].pc = "numbered" =>
            next_value <= call[c].n /\ call[c].next <= call[c].n
       /\ call[c].pc \in {"missing", "seeding", "numbered"} => call[c].left > 0
AllFinite == IsFiniteSet(rows) /\ \A c \in Calls : IsFiniteSet(call[c].mine)
IdInvariant == TypeOK /\ AllFinite /\ HolderOnly /\ PastCommitted /\ MintedOnce

\* What the comments say, and the code does not do.

\* next_human_id "replaces the race-prone count + 1 pattern": the number that
\* the sequence would give next is free.
NextNumberIsFree == next_value # 0 => next_value \notin rows
===============================================================================
