---------------------------- MODULE SignedRecords ----------------------------
(***************************************************************************)
(* Electronic signatures on requirements that are being edited: the        *)
(* step-up tokens, request_signature and verify_signature of backend/app/  *)
(* services/signature_service.py, beside RequirementLifecycle.             *)
(*                                                                         *)
(* A user who signs in through an external identity provider has no        *)
(* password; a one-time token stands in for it.  A signature seals a hash  *)
(* of the requirement (version, texts), to be compared with the            *)
(* requirement's hash whenever the signature is verified.                  *)
(***************************************************************************)
EXTENDS RequirementLifecycle

CONSTANTS
  Signers,     \* request_signature calls, each made once
  Tokens,      \* tokens that may be issued
  Users,       \* User rows
  IdpUsers,    \* those with EXTERNAL_IDP_SENTINEL for a password
  TTL,         \* STEP_UP_TOKEN_TTL
  MaxNow,      \* bound: the clock stops here
  None         \* NULL

ASSUME SignAssumption ==
  /\ IdpUsers \subseteq Users
  /\ TTL \in Nat \ {0} /\ MaxNow \in Nat
  /\ None \notin Nat /\ None \notin Tokens

VARIABLES
  tokens,      \* StepUpToken rows
  signatures,  \* ElectronicSignature rows
  sign,        \* the local variables of each request_signature call
  now          \* datetime.utcnow()

signVars == <<tokens, signatures, sign, now>>
allVars  == <<recordVars, signVars>>

SignInit ==
  /\ Init
  /\ tokens = {}
  /\ signatures = {}
  /\ sign = [g \in Signers |-> [pc |-> "idle"]]
  /\ now = 0

-----------------------------------------------------------------------------
(* issue_step_up_token                                                       *)

IssueToken(t, u) ==
  /\ u \in IdpUsers
  /\ \A row \in tokens : row.token # t
  /\ tokens' = tokens \cup
       {[token |-> t, user_id |-> u, expires_at |-> now + TTL, consumed_at |-> None]}
  /\ UNCHANGED <<recordVars, signatures, sign, now>>

-----------------------------------------------------------------------------
(* _consume_step_up_token: a SELECT without a lock, checks, then a commit.   *)

\* Mutant: a token still passes at the moment it expires.
Usable_AtExpiry(row) == row.consumed_at = None /\ now <= row.expires_at

Usable(row) == row.consumed_at = None /\ now < row.expires_at

ConsumeToken_Read(g, r, u, t) ==
  /\ sign[g].pc = "idle"
  /\ u \in IdpUsers
  /\ \E row \in tokens : row.token = t /\ row.user_id = u /\ Usable(row)
  /\ sign' = [sign EXCEPT ![g] =
       [pc |-> "consuming", req |-> r, user |-> u, token |-> t, at |-> now]]
  /\ UNCHANGED <<recordVars, tokens, signatures, now>>

\* UPDATE step_up_tokens SET consumed_at = .. WHERE id = ..: not conditional.
ConsumeToken_Commit(g) ==
  /\ sign[g].pc = "consuming"
  /\ tokens' = {IF row.token = sign[g].token
                  THEN [row EXCEPT !.consumed_at = sign[g].at] ELSE row : row \in tokens}
  /\ sign' = [sign EXCEPT ![g].pc = "authenticated"]
  /\ UNCHANGED <<recordVars, signatures, now>>

\* The other path: a local user whose password verifies.
VerifyPassword(g, r, u) ==
  /\ sign[g].pc = "idle"
  /\ u \notin IdpUsers
  /\ sign' = [sign EXCEPT ![g] =
       [pc |-> "authenticated", req |-> r, user |-> u, token |-> None, at |-> now]]
  /\ UNCHANGED <<recordVars, tokens, signatures, now>>

-----------------------------------------------------------------------------
(* request_signature after authentication: the entity is loaded and hashed,  *)
(* and the signature committed.  A soft-deleted requirement still loads.     *)

\* compute_record_hash: SHA-256 over version and texts, not over the status.
RecordHash(row) ==
  [version |-> row.version, statement |-> row.statement, rationale |-> row.rationale]

LoadEntity(g) ==
  LET r == sign[g].req IN
  /\ sign[g].pc = "authenticated"
  /\ r \in DOMAIN requirement
  /\ sign' = [sign EXCEPT ![g] =
       [pc |-> "sealing", req |-> r, user |-> sign[g].user, token |-> sign[g].token,
        hash |-> RecordHash(requirement[r]), seen |-> commits]]
  /\ UNCHANGED <<recordVars, tokens, signatures, now>>

\* None is returned, after a token has been spent.
EntityMissing(g) ==
  /\ sign[g].pc = "authenticated"
  /\ sign[g].req \notin DOMAIN requirement
  /\ sign' = [sign EXCEPT ![g] = [pc |-> "done"]]
  /\ UNCHANGED <<recordVars, tokens, signatures, now>>

\* "seen" is not a column: the commits the sealed row had behind it.
CommitSignature(g) ==
  /\ sign[g].pc = "sealing"
  /\ signatures' = signatures \cup
       {[id |-> g, user_id |-> sign[g].user, entity_id |-> sign[g].req,
         token |-> sign[g].token, record_hash |-> sign[g].hash,
         seen |-> sign[g].seen, timestamp |-> now]}
  /\ sign' = [sign EXCEPT ![g] = [pc |-> "done"]]
  /\ UNCHANGED <<recordVars, tokens, now>>

Tick ==
  /\ now < MaxNow
  /\ now' = now + 1
  /\ UNCHANGED <<recordVars, tokens, signatures, sign>>

SignStep(g) ==
  \/ \E r \in Reqs, u \in Users :
       \/ \E t \in Tokens : ConsumeToken_Read(g, r, u, t)
       \/ VerifyPassword(g, r, u)
  \/ ConsumeToken_Commit(g) \/ LoadEntity(g) \/ EntityMissing(g) \/ CommitSignature(g)

SignNext ==
  \/ \E t \in Tokens, u \in Users : IssueToken(t, u)
  \/ \E g \in Signers : SignStep(g)
  \/ Tick
  \/ Next /\ UNCHANGED signVars

SignSpec == SignInit /\ [][SignNext]_allVars

-----------------------------------------------------------------------------
(* verify_signature                                                          *)

Valid(s) ==
  /\ s.entity_id \in DOMAIN requirement
  /\ s.record_hash = RecordHash(requirement[s.entity_id])

-----------------------------------------------------------------------------
(* Properties *)

\* Types of the tokens, the signatures and the calls.
SignTypeOK ==
  /\ tokens \subseteq [token : Tokens, user_id : IdpUsers, expires_at : Nat,
                       consumed_at : Nat \cup {None}]
  /\ \A a, b \in tokens : a.token = b.token => a = b
  /\ \A s \in signatures :
       /\ s.id \in Signers /\ s.user_id \in Users /\ s.entity_id \in Reqs
       /\ s.seen \in 0 .. commits /\ s.timestamp \in 0 .. now
  /\ \A g \in Signers : sign[g].pc \in {"idle", "consuming", "authenticated",
                                        "sealing", "done"}
  /\ now \in Nat

\* No signature without second-factor evidence of its own signer: behind the
\* signature of an external user stands a token issued to that user, spent
\* while it was still good and no later than the signature; a local user's
\* signature never rests on a token (request_signature).
SpentInTime(row) == row.consumed_at # None /\ row.consumed_at < row.expires_at
SignaturesAuthenticated ==
  \A s \in signatures :
    IF s.user_id \in IdpUsers
      THEN \E row \in tokens : /\ row.token = s.token /\ row.user_id = s.user_id
                               /\ SpentInTime(row) /\ row.consumed_at <= s.timestamp
      ELSE s.token = None

\* When verification fails although the version is the sealed one, a sealed text
\* was written since it was loaded: the history tells so, or an export tagged it
\* or an import replaced it (base.py:169, :234). No request writes back a text it
\* read before the signature and puts a signed record out of step unseen.
AlarmsAreExplained ==
  \A s \in signatures : ~Valid(s) =>
    \/ requirement[s.entity_id].version # s.record_hash.version
    \/ \E h \in history \cup untold :
         /\ h.req = s.entity_id /\ h.field \in {"statement", "rationale"}
         /\ h.at > s.seen

\* "the second consume sees consumed_at != NULL and returns False"
\* (signature_service.py:128), "consumed atomically; further attempts fail"
\* (:176): no two signatures rest on one token. The SELECT takes no lock and
\* the UPDATE has no condition, so two calls that overlap both pass.
TokensSignOnce ==
  \A a, b \in signatures : a.token # None /\ a.token = b.token => a = b
===============================================================================
