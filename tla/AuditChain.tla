------------------------------ MODULE AuditChain ------------------------------
(***************************************************************************)
(* The hash-chained audit log of backend/app/services/audit_service.py:    *)
(* concurrent record_event calls, and verify_chain_integrity.              *)
(*                                                                         *)
(* record_event reads the newest row with SELECT .. ORDER BY               *)
(* sequence_number DESC LIMIT 1 FOR UPDATE.  Under READ COMMITTED the row   *)
(* is chosen when the statement starts; a statement that had to wait for   *)
(* the lock gets that same row, since its holder only inserted another     *)
(* one.  An empty table has no row to lock.                                *)
(***************************************************************************)
EXTENDS Naturals, FiniteSets

CONSTANTS
  Calls,       \* record_event calls; a call stands for the event it records
  NoRow,       \* no previous row
  GENESIS_HASH

VARIABLES
  log,   \* AuditLog rows
  call   \* local variables of each call: pc and "prev", the row it read

logVars == <<log, call>>

LogPcs == {"idle", "waiting", "appending", "recorded", "lost", "crashed"}

LogInit ==
  /\ log = {}
  /\ call = [c \in Calls |-> [pc |-> "idle", prev |-> NoRow]]

-----------------------------------------------------------------------------
\* SHA-256 over the record and the previous hash: collision-free.
Hash(seq, event, previous) == <<seq, event, previous>>

Row(seq, event, previous) ==
  [sequence_number |-> seq, event |-> event, previous_hash |-> previous,
   record_hash |-> Hash(seq, event, previous)]

\* Mutant: every row starts a chain of its own.
NextRow_Unlinked(event, prev) ==
  IF prev = NoRow THEN Row(1, event, GENESIS_HASH)
  ELSE Row(prev.sequence_number + 1, event, GENESIS_HASH)

\* previous_hash and next_seq, from the row that was read.
NextRow(event, prev) ==
  IF prev = NoRow THEN Row(1, event, GENESIS_HASH)
  ELSE Row(prev.sequence_number + 1, event, prev.record_hash)

IsNewest(row, rows) ==
  /\ row \in rows
  /\ \A other \in rows : other.sequence_number <= row.sequence_number

\* The statement starts: the newest row is chosen, or none, and then nothing
\* is locked.
ReadLast(c) ==
  /\ call[c].pc = "idle"
  /\ \/ /\ log = {}
        /\ call' = [call EXCEPT ![c] = [pc |-> "appending", prev |-> NoRow]]
     \/ \E row \in log :
        /\ IsNewest(row, log)
        /\ call' = [call EXCEPT ![c] = [pc |-> "waiting", prev |-> row]]
  /\ UNCHANGED log

\* Row locks are held from the read to the commit.
LockHolders(row) == {c \in Calls : call[c].pc = "appending" /\ call[c].prev = row}

AcquireRowLock(c) ==
  /\ call[c].pc = "waiting"
  /\ LockHolders(call[c].prev) = {}
  /\ call' = [call EXCEPT ![c].pc = "appending"]
  /\ UNCHANGED log

SequenceTaken(seq) == \E row \in log : row.sequence_number = seq

\* The INSERT and its commit, which ends the lock.
AppendRow(c) ==
  LET row == NextRow(c, call[c].prev) IN
  /\ call[c].pc = "appending"
  /\ ~SequenceTaken(row.sequence_number)
  /\ log' = log \cup {row}
  /\ call' = [call EXCEPT ![c].pc = "recorded"]

\* Mutant: the failed insert is reported as done.
AppendConflict_Silent(c) ==
  /\ call[c].pc = "appending"
  /\ SequenceTaken(NextRow(c, call[c].prev).sequence_number)
  /\ call' = [call EXCEPT ![c].pc = "recorded"]
  /\ UNCHANGED log

\* sequence_number is UNIQUE: the commit raises and rolls back.  Most callers
\* wrap record_event in try/except pass; none of them retries.
AppendConflict(c) ==
  /\ call[c].pc = "appending"
  /\ SequenceTaken(NextRow(c, call[c].prev).sequence_number)
  /\ call' = [call EXCEPT ![c].pc = "lost"]
  /\ UNCHANGED log

\* The process or its connection dies; the database ends its transaction.
Crash(c) ==
  /\ call[c].pc \in {"waiting", "appending"}
  /\ call' = [call EXCEPT ![c].pc = "crashed"]
  /\ UNCHANGED log

Proceed(c) == AcquireRowLock(c) \/ AppendRow(c) \/ AppendConflict(c)

LogNext == \E c \in Calls : ReadLast(c) \/ Proceed(c) \/ Crash(c)

LogSpec == LogInit /\ [][LogNext]_logVars

-----------------------------------------------------------------------------
(* verify_chain_integrity(start_seq, end_seq), without a project filter: a    *)
(* walk over one project's rows only recomputes each row's own hash.          *)

Selected(start, end) ==
  {row \in log : start <= row.sequence_number /\ row.sequence_number <= end}

\* expected_seq and expected_prev as the walk reaches "row".
InSequence(row, rows) ==
  LET earlier == {r \in rows : r.sequence_number < row.sequence_number} IN
  \/ /\ earlier = {}
     /\ row.sequence_number = 1 /\ row.previous_hash = GENESIS_HASH
  \/ \E p \in earlier :
     /\ IsNewest(p, earlier)
     /\ row.sequence_number = p.sequence_number + 1
     /\ row.previous_hash = p.record_hash

HashIntact(row) ==
  row.record_hash = Hash(row.sequence_number, row.event, row.previous_hash)

IsValid(rows) == \A row \in rows : InSequence(row, rows) /\ HashIntact(row)

-----------------------------------------------------------------------------
(* Properties *)

\* Types of the log and of the calls' variables.
LogTypeOK ==
  /\ \A row \in log : row.sequence_number \in Nat \ {0} /\ row.event \in Calls
  /\ call \in [Calls -> [pc : LogPcs, prev : log \cup {NoRow}]]

\* Whatever calls race, fail or die, the walk over the log, up to any of its
\* rows, finds nothing wrong (verify_chain_integrity with or without end_seq):
\* one row per number, no gap, every row linked to the one before it.
ChainIntact == \A newest \in log : IsValid(Selected(1, newest.sequence_number))

\* The log and its calls as their users see them: record_event either appends
\* its event at the next number, once and for good, or leaves no trace.
Entries == {[number |-> row.sequence_number, event |-> row.event] : row \in log}
Outcome ==
  [c \in Calls |-> CASE call[c].pc = "recorded" -> "recorded"
                      [] call[c].pc \in {"lost", "crashed"} -> "dropped"
                      [] OTHER -> "pending"]
Promised == INSTANCE EventLog WITH entries <- Entries, outcome <- Outcome
ImplementsEventLog == Promised!Spec

\* What makes ChainIntact and the refinement inductive: numbers are unique and
\* without a gap, and every row is the first or follows one.
Linked ==
  /\ \A r1, r2 \in log : r1.sequence_number = r2.sequence_number => r1 = r2
  /\ \A row \in log :
       /\ HashIntact(row)
       /\ \/ row.sequence_number = 1 /\ row.previous_hash = GENESIS_HASH
          \/ \E p \in log : /\ row.sequence_number = p.sequence_number + 1
                            /\ row.previous_hash = p.record_hash
       /\ \A k \in 1 .. row.sequence_number : \E r \in log : r.sequence_number = k
ChainInvariant == LogTypeOK /\ Linked
===============================================================================
