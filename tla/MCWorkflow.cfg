INIT MCInit
NEXT MCNext
CONSTANTS
  i1 = i1  r1 = r1  r2 = r2  r3 = r3
  eng = eng  pm = pm
  AnyRole = AnyRole
  q1 = q1  q2 = q2  q3 = q3  q4 = q4  v1 = v1  a1 = a1  d1 = d1  d2 = d2
  e1 = e1  e2 = e2  x1 = x1
  Excusable = {q1}
  Filings = {f1, f2}
  Cosigns = {g1, g2}
  Reasons = {"x", "y"}
  Admins = {adm}
  Lives = {1, 2}
  NoRow = None
  NoAdmin = None
  MaxDays = 1
  Items = {q1, q2}
  Documents = {d1, d2}
  Edits = {e1, e2}
  Removals = {x1}
  Unset = None
  None = None
  Needs = {q1, q2, q3, q4}
  Level <- MCLevel
  Worlds <- CoverageWorlds
  NoParent = None
  MaxEdits = 3
  Reqs = {q1, q2, q3}
  Verifs = {v1}
  Arts = {a1}
  Existing = {q1, q2}
  NoReq = None
  Depth = 2
  MaxChanges = 4
  Syncs = {r1, r2, r3}
  Native <- DefNative
  MaxItems = 3
  MaxRows = 3
  MaxUserEdits = 1
  Users <- MCUsers
  Role <- MCRole
  Templates <- AllTemplates
  Instances = {i1}
  Requests = {r1, r2, r3}
  MaxNow = 1
  MaxAborts = 1
SYMMETRY Interchangeable
INVARIANT ApprovalsGateStages
INVARIANT ExcusedAsReviewed
INVARIANT LiveFindsAncestors
INVARIANT ReportIsCautious
INVARIANT ContractNamesDocument
INVARIANT MatchedOneToOne
PROPERTY DeletionsArePreviewed
CHECK_DEADLOCK FALSE
