--------------------------- MODULE MCSignedRecords ---------------------------
(***************************************************************************)
(* Signers and editors of one requirement. Either two signatures, with     *)
(* tokens and the clock, beside the requests of two users, or one beside   *)
(* two calls that may also synchronise.                                    *)
(***************************************************************************)
EXTENDS SignedRecords, TLC
CONSTANTS q1, q2, s1, s2, c1, c2, g1, g2, t1, t2, idp, local
VARIABLE part

MCInitialRows ==
  q1 :> [status |-> "under_review", statement |-> s1, rationale |-> s1, version |-> 1]
MCTexts == {[statement |-> s2, rationale |-> s1]}
MCPatches == {[statement |-> s2], [status |-> "approved"], [statement |-> s1]}
MCBatches == {{q1, q2}}
Interchangeable == Permutations(Calls) \cup Permutations(Signers)

MCInit == SignInit /\ part \in {"signers", "synchronisation"}
Alone == Cardinality({g \in Signers : sign'[g].pc # "idle"}) <= 1
MCNext ==
  /\ SignNext
  /\ part = "signers" =>
       \A c \in Calls : call'[c].pc \notin {"exporting", "fetching", "importing"}
  /\ part = "synchronisation" => Alone /\ UNCHANGED <<tokens, now>>
  /\ UNCHANGED part
MCSpec == MCInit /\ [][MCNext]_<<allVars, part>>
==============================================================================
