INIT MCInit
NEXT MCNext
CONSTANTS
  q1 = q1  q2 = q2  q3 = q3  w1 = w1  w2 = w2  j1 = j1  r1 = r1  r2 = r2  r3 = r3
  Unit = u  Harness = hs  Interface = i  b = b  m = m  f = f  f2 = f2  None = None
  Reqs = {r1, r2, r3}
  Wires = {w1, w2}
  Joints = {j1}
  Texts = {"a", "b"}
  Calls = {q1, q2, q3}
  Seeds <- DefSeeds
  Edits <- DefEdits
  HarnessWires = {w1, w2}
  Buses = {b}
  Messages = {m}
  Fields = {f, f2}
  Undescribed = {f2}
  BusOf <- DefBusOf
  BusOfMessage <- DefBusOfMessage
  MessageOf <- DefMessageOf
  AutoCalls = {q1, q2}
  WireSets <- DefWireSets
  Batches = 2
  AutoSeeds <- DefAutoSeeds
  FlushEffects = {"all", "additions"}
INVARIANT DecidedOnce
INVARIANT OrphansAreRaised
INVARIANT OneLivePerSource
INVARIANT HistoryChains
PROPERTY ProtectedTextStays
PROPERTY NothingDangles
CHECK_DEADLOCK FALSE
SYMMETRY RequestSymmetry
