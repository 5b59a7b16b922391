SPECIFICATION MCSpec
CONSTANTS
  q1 = q1  q2 = q2  s1 = s1  s2 = s2  c1 = c1  c2 = c2
  g1 = g1  g2 = g2  t1 = t1  t2 = t2  idp = idp  local = local
  Reqs = {q1, q2}
  Calls = {c1, c2}
  Statements = {s1, s2}
  Texts <- MCTexts
  InitialRows <- MCInitialRows
  Patches <- MCPatches
  Batches <- MCBatches
  Fetches <- MCBatches
  Names = {"PDR"}
  MaxAborts = 1
  Signers = {g1, g2}
  Tokens = {t1}
  Users = {idp, local}
  IdpUsers = {idp}
  TTL = 1
  MaxNow = 2
  None = None
INVARIANT HistoryTellsAll
INVARIANT SnapshotAccounted
INVARIANT SignaturesAuthenticated
INVARIANT AlarmsAreExplained
SYMMETRY Interchangeable
CHECK_DEADLOCK FALSE
