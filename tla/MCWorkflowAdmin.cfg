SPECIFICATION MCSpec
CONSTANTS
  i1 = i1  r1 = r1  r2 = r2
  c1 = c1  c2 = c2  c3 = c3  c4 = c4  j1 = j1  j2 = j2  j3 = j3
  eng = eng  pm = pm
  AnyRole = AnyRole
  Users <- MCUsers
  Role <- MCRole
  Templates <- MCTemplates
  Instances = {i1}
  Requests = {r1, r2}
  MaxNow = 2
  MaxAborts = 1
  StageNumbers = {2, 3}
  StageRows <- MCRows
  MaxEdits = 2
  Calls = {c1, c2, c3, c4}
  NoRow = NoRow
  GENESIS_HASH = GENESIS_HASH
  Targets = {0, 9, 24, 27}
  Jobs = {j1, j2, j3}
  NoJob = NoJob
INVARIANT ChainIntact
INVARIANT VersionTellsSchema
INVARIANT NeverStuckOnSchema
PROPERTY ImplementsEventLog
PROPERTY JobsEnd
PROPERTY SatisfiedStageIsLeft
CHECK_DEADLOCK FALSE
