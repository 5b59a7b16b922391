SPECIFICATION Spec
CONSTANTS
  i1 = i1  r1 = r1  r2 = r2  r3 = r3
  eng = eng  pm = pm
  AnyRole = AnyRole
  Users <- MCUsers
  Role <- MCRole
  Templates <- AnyThree
  Instances = {i1}
  Requests = {r1, r2}
  MaxNow = 0
  MaxAborts = 0
SYMMETRY Interchangeable
INVARIANT RejectionRejects
CHECK_DEADLOCK FALSE
