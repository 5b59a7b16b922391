INIT MCInit
NEXT MCNext
CONSTANTS
  None = None  Unknown = Unknown
  q1 = q1  q2 = q2  q3 = q3  pdf = pdf  stp = stp  cad = cad  cad2 = cad2
  p1 = p1  p2 = p2  a1 = a1
  s1 = s1  u1 = u1  l1 = l1  l2 = l2  j1 = j1  y1 = y1  n1 = n1
  Files = {pdf, stp, cad, cad2}
  channel <- Channels
  cadId <- CadportIds
  keyOf <- ImportKeys
  Keys <- AllKeys
  Calls = {q1, q2, q3}
  UseCalls = {q1, q2, q3}
  Suppliers = {s1}
  Parts = {p1, p2}
  Units = {u1}
  Lines = {l1, l2}
  Joints = {j1}
  Systems = {y1}
  Names = {n1}
  Databases <- UseSeeds
  Null = None
  Synced = {p1, p2}
  Assemblies = {a1}
  Editors = {q1, q2, q3}
  Masses = {1, 2}
  PartNames = {"a", "b"}
  Materials = {"al"}
  Components <- CadComponents
  SeedPart <- CadSeed
  Nil = None
  Seeds <- ImportSeeds
INVARIANT OneOutcome
INVARIANT KeepsSource
INVARIANT DerivedFollowsMass
INVARIANT TotalsAreCurrent
INVARIANT SidesAgree
INVARIANT DeletedPartsWereUnused
CHECK_DEADLOCK FALSE
SYMMETRY RequestSymmetry
