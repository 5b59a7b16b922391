------------------------------- MODULE EventLog -------------------------------
(***************************************************************************)
(* What the audit log promises to whoever calls record_event: an event is  *)
(* recorded at the next number in one atomic step and stays there, or it   *)
(* is not recorded and never will be.  No locks, hashes or retries.        *)
(***************************************************************************)
EXTENDS Naturals

CONSTANT Calls   \* record_event calls

VARIABLES
  entries,       \* numbered events
  outcome        \* what each call will be told

vars == <<entries, outcome>>

Init ==
  /\ entries = {}
  /\ outcome = [c \in Calls |-> "pending"]

\* The event gets the number after the greatest one, the first one number 1.
Record(c) ==
  /\ outcome[c] = "pending"
  /\ \E n \in {1} \cup {e.number + 1 : e \in entries} :
       /\ \A e \in entries : e.number < n
       /\ entries' = entries \cup {[number |-> n, event |-> c]}
  /\ outcome' = [outcome EXCEPT ![c] = "recorded"]

Drop(c) ==
  /\ outcome[c] = "pending"
  /\ outcome' = [outcome EXCEPT ![c] = "dropped"]
  /\ UNCHANGED entries

Next == \E c \in Calls : Record(c) \/ Drop(c)

Spec == Init /\ [][Next]_vars
===============================================================================
