--------------------------- MODULE AuditChainProofs ---------------------------
(***************************************************************************)
(* Theorems about AuditChain for any number of concurrent record_event     *)
(* calls: the chain is never forked, never has a gap and always verifies,  *)
(* and record_event keeps the promise that EventLog states.                *)
(***************************************************************************)
EXTENDS AuditChain, TLAPS

\* The row that a call builds is linked to the row it read.
LEMMA NextRowLinks ==
  ASSUME ChainInvariant, NEW c \in Calls, NEW row, row = NextRow(c, call[c].prev)
  PROVE  /\ row.sequence_number \in Nat \ {0}
         /\ row.event = c
         /\ HashIntact(row)
         /\ \/ row.sequence_number = 1 /\ row.previous_hash = GENESIS_HASH
            \/ \E p \in log : /\ row.sequence_number = p.sequence_number + 1
                              /\ row.previous_hash = p.record_hash
<1>1. CASE call[c].prev = NoRow
  BY <1>1 DEF NextRow, Row, HashIntact
<1>2. CASE call[c].prev # NoRow
  <2>1. call[c].prev \in log
    BY <1>2 DEF ChainInvariant, LogTypeOK
  <2>2. call[c].prev.sequence_number \in Nat \ {0}
    BY <2>1 DEF ChainInvariant, LogTypeOK
  <2> QED BY <1>2, <2>1, <2>2 DEF NextRow, Row, HashIntact
<1> QED BY <1>1, <1>2

LEMMA ChainInvariantHolds == LogSpec => []ChainInvariant
<1>1. LogInit => ChainInvariant
  BY DEF LogInit, ChainInvariant, LogTypeOK, Linked, LogPcs
<1>2. ChainInvariant /\ [LogNext]_logVars => ChainInvariant'
  <2> SUFFICES ASSUME ChainInvariant, [LogNext]_logVars PROVE ChainInvariant'
    OBVIOUS
  <2>1. ASSUME NEW c \in Calls, ReadLast(c) PROVE ChainInvariant'
    BY <2>1 DEF ChainInvariant, LogTypeOK, Linked, ReadLast, IsNewest, LogPcs
  <2>2. ASSUME NEW c \in Calls, AcquireRowLock(c) PROVE ChainInvariant'
    BY <2>2 DEF ChainInvariant, LogTypeOK, Linked, AcquireRowLock, LogPcs
  <2>3. ASSUME NEW c \in Calls, AppendRow(c) PROVE ChainInvariant'
    <3>1. PICK row : row = NextRow(c, call[c].prev)
      OBVIOUS
    <3>2. log' = log \cup {row} /\ call' = [call EXCEPT ![c].pc = "recorded"]
      BY <2>3, <3>1 DEF AppendRow
    <3>3. \A r \in log : r.sequence_number # row.sequence_number
      BY <2>3, <3>1 DEF AppendRow, SequenceTaken
    <3>4. /\ row.sequence_number \in Nat \ {0} /\ row.event = c /\ HashIntact(row)
          /\ \/ row.sequence_number = 1 /\ row.previous_hash = GENESIS_HASH
             \/ \E p \in log : /\ row.sequence_number = p.sequence_number + 1
                               /\ row.previous_hash = p.record_hash
      BY <3>1, NextRowLinks
    <3>5. LogTypeOK'
      BY <3>2, <3>4 DEF ChainInvariant, LogTypeOK, LogPcs
    <3>6. \A k \in 1 .. row.sequence_number : \E r \in log' : r.sequence_number = k
      <4>1. CASE call[c].prev = NoRow
        BY <3>1, <3>2, <4>1 DEF NextRow, Row
      <4>2. CASE call[c].prev # NoRow
        <5>1. call[c].prev \in log /\ call[c].prev.sequence_number \in Nat
          BY <4>2 DEF ChainInvariant, LogTypeOK
        <5>2. row.sequence_number = call[c].prev.sequence_number + 1
          BY <3>1, <4>2 DEF NextRow, Row
        <5> QED BY <3>2, <5>1, <5>2 DEF ChainInvariant, Linked
      <4> QED BY <4>1, <4>2
    <3>7. Linked'
      BY <3>2, <3>3, <3>4, <3>6 DEF ChainInvariant, Linked
    <3> QED BY <3>5, <3>7 DEF ChainInvariant
  <2>4. ASSUME NEW c \in Calls, AppendConflict(c) PROVE ChainInvariant'
    BY <2>4 DEF ChainInvariant, LogTypeOK, Linked, AppendConflict, LogPcs
  <2>5. ASSUME NEW c \in Calls, Crash(c) PROVE ChainInvariant'
    BY <2>5 DEF ChainInvariant, LogTypeOK, Linked, Crash, LogPcs
  <2>6. CASE UNCHANGED logVars
    BY <2>6 DEF ChainInvariant, LogTypeOK, Linked, logVars
  <2> QED BY <2>1, <2>2, <2>3, <2>4, <2>5, <2>6 DEF LogNext, Proceed
<1> QED BY <1>1, <1>2, PTL DEF LogSpec

\* What the walk of verify_chain_integrity compares holds of a linked log.
LEMMA LinkedVerifies == ChainInvariant => ChainIntact
<1> SUFFICES ASSUME ChainInvariant, NEW newest \in log,
                    NEW row \in Selected(1, newest.sequence_number)
    PROVE  InSequence(row, Selected(1, newest.sequence_number)) /\ HashIntact(row)
  BY DEF ChainIntact, IsValid
<1> DEFINE rows == Selected(1, newest.sequence_number)
           earlier == {r \in rows : r.sequence_number < row.sequence_number}
<1>1. /\ \A r \in log : r.sequence_number \in Nat \ {0}
      /\ rows \subseteq log
      /\ row.sequence_number <= newest.sequence_number
  BY DEF ChainInvariant, LogTypeOK, Selected
<1>2. HashIntact(row)
  BY <1>1 DEF ChainInvariant, Linked
<1>3. CASE row.sequence_number = 1 /\ row.previous_hash = GENESIS_HASH
  <2>1. earlier = {}
    BY <1>1, <1>3
  <2> QED BY <2>1, <1>2, <1>3 DEF InSequence
<1>4. CASE \E p \in log : /\ row.sequence_number = p.sequence_number + 1
                          /\ row.previous_hash = p.record_hash
  <2>1. PICK p \in log : /\ row.sequence_number = p.sequence_number + 1
                         /\ row.previous_hash = p.record_hash
    BY <1>4
  <2>2. p \in earlier
    BY <2>1, <1>1 DEF Selected
  <2>3. IsNewest(p, earlier)
    BY <2>1, <2>2, <1>1 DEF IsNewest
  <2> QED BY <2>1, <2>2, <2>3, <1>2 DEF InSequence
<1> QED BY <1>1, <1>3, <1>4 DEF ChainInvariant, Linked

\* Whatever record_event calls race, conflict or die, verify_chain_integrity
\* over the log, up to any of its rows, answers is_valid.
THEOREM ChainVerifies == LogSpec => []ChainIntact
BY ChainInvariantHolds, LinkedVerifies, PTL

\* The types of the log and of the calls.
THEOREM ChainTypes == LogSpec => []LogTypeOK
<1>1. ChainInvariant => LogTypeOK
  BY DEF ChainInvariant
<1> QED BY <1>1, ChainInvariantHolds, PTL

-----------------------------------------------------------------------------
(* AuditChain implements EventLog.                                           *)

\* The number of a row that can be inserted is past every other one: below a
\* greater number the log would have no free one.
LEMMA AppendIsNewest ==
  ASSUME ChainInvariant, NEW c \in Calls, NEW row, row = NextRow(c, call[c].prev),
         ~SequenceTaken(row.sequence_number)
  PROVE  \A r \in log : r.sequence_number < row.sequence_number
<1>1. row.sequence_number \in Nat \ {0}
  BY NextRowLinks
<1>2. SUFFICES ASSUME NEW r \in log, ~(r.sequence_number < row.sequence_number) PROVE FALSE
  OBVIOUS
<1>3. r.sequence_number \in Nat
  BY DEF ChainInvariant, LogTypeOK
<1>4. row.sequence_number \in 1 .. r.sequence_number
  BY <1>1, <1>2, <1>3
<1> QED BY <1>4 DEF ChainInvariant, Linked, SequenceTaken

LEMMA AppendRecords ==
  ASSUME ChainInvariant, NEW c \in Calls, AppendRow(c)
  PROVE  Promised!Record(c)
<1>1. PICK row : row = NextRow(c, call[c].prev)
  OBVIOUS
<1>2. log' = log \cup {row} /\ call' = [call EXCEPT ![c].pc = "recorded"]
      /\ call[c].pc = "appending" /\ ~SequenceTaken(row.sequence_number)
  BY <1>1 DEF AppendRow
<1>3. row.sequence_number \in Nat \ {0} /\ row.event = c
  BY <1>1, NextRowLinks
<1> DEFINE n == row.sequence_number
<1>4. \A e \in Entries : e.number < n
  BY <1>1, <1>2, AppendIsNewest DEF Entries
<1>5. n \in {1} \cup {e.number + 1 : e \in Entries}
  <2>1. CASE call[c].prev = NoRow
    BY <1>1, <2>1 DEF NextRow, Row
  <2>2. CASE call[c].prev # NoRow
    <3>1. call[c].prev \in log
      BY <2>2 DEF ChainInvariant, LogTypeOK
    <3>2. n = call[c].prev.sequence_number + 1
      BY <1>1, <2>2 DEF NextRow, Row
    <3>3. [number |-> call[c].prev.sequence_number, event |-> call[c].prev.event] \in Entries
      BY <3>1 DEF Entries
    <3> QED BY <3>2, <3>3
  <2> QED BY <2>1, <2>2
<1>6. Entries' = Entries \cup {[number |-> n, event |-> c]}
  BY <1>2, <1>3 DEF Entries
<1>7. Outcome[c] = "pending" /\ Outcome' = [Outcome EXCEPT ![c] = "recorded"]
  BY <1>2 DEF Outcome, ChainInvariant, LogTypeOK
<1> QED BY <1>4, <1>5, <1>6, <1>7 DEF Promised!Record

LEMMA EndingDrops ==
  ASSUME ChainInvariant, NEW c \in Calls, AppendConflict(c) \/ Crash(c)
  PROVE  Promised!Drop(c)
<1>1. PICK pc \in {"lost", "crashed"} : call' = [call EXCEPT ![c].pc = pc]
  BY DEF AppendConflict, Crash
<1>2. log' = log /\ call[c].pc \in {"waiting", "appending"}
  BY DEF AppendConflict, Crash
<1>3. Entries' = Entries
  BY <1>2 DEF Entries
<1>4. Outcome[c] = "pending" /\ Outcome' = [Outcome EXCEPT ![c] = "dropped"]
  BY <1>1, <1>2 DEF Outcome, ChainInvariant, LogTypeOK
<1> QED BY <1>3, <1>4 DEF Promised!Drop

\* Reading and waiting change nothing that a user of the log can see.
LEMMA ReadingStutters ==
  ASSUME ChainInvariant, NEW c \in Calls, ReadLast(c) \/ AcquireRowLock(c)
  PROVE  UNCHANGED <<Entries, Outcome>>
<1>1. log' = log /\ call[c].pc \in {"idle", "waiting"}
  BY DEF ReadLast, AcquireRowLock
<1>2. /\ call'[c].pc \in {"waiting", "appending"}
      /\ \A d \in Calls \ {c} : call'[d] = call[d]
  BY DEF ReadLast, AcquireRowLock, ChainInvariant, LogTypeOK
<1>3. Outcome' = Outcome
  BY <1>1, <1>2 DEF Outcome
<1> QED BY <1>1, <1>3 DEF Entries

\* record_event either appends its event at the next number, once and for
\* good, or leaves no trace: every run of AuditChain is one of EventLog.
THEOREM ChainImplementsEventLog == LogSpec => ImplementsEventLog
<1>1. LogInit => Promised!Init
  BY DEF LogInit, Promised!Init, Entries, Outcome
<1>2. ChainInvariant /\ [LogNext]_logVars => [Promised!Next]_<<Entries, Outcome>>
  <2> SUFFICES ASSUME ChainInvariant, [LogNext]_logVars
      PROVE  Promised!Next \/ UNCHANGED <<Entries, Outcome>>
    OBVIOUS
  <2>1. CASE UNCHANGED logVars
    BY <2>1 DEF logVars, Entries, Outcome
  <2>2. ASSUME NEW c \in Calls, AppendRow(c) PROVE Promised!Next
    BY <2>2, AppendRecords DEF Promised!Next
  <2>3. ASSUME NEW c \in Calls, AppendConflict(c) \/ Crash(c) PROVE Promised!Next
    BY <2>3, EndingDrops DEF Promised!Next
  <2> QED BY <2>1, <2>2, <2>3, ReadingStutters DEF LogNext, Proceed
<1> QED BY <1>1, <1>2, ChainInvariantHolds, PTL
        DEF LogSpec, ImplementsEventLog, Promised!Spec, Promised!vars
===============================================================================
