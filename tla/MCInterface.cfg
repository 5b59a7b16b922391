INIT MCInit
NEXT MCNext
CONSTANTS
  None = None  w0 = w0
  s1 = s1  s2 = s2  u1 = u1  u2 = u2  u3 = u3  c1 = c1  c2 = c2  c3 = c3  c4 = c4
  p1 = p1  p2 = p2  p3 = p3  p4 = p4  p5 = p5  p6 = p6
  b1 = b1  m1 = m1  f1 = f1  i1 = i1  h1 = h1  h2 = h2  w1 = w1  w2 = w2  w3 = w3  r1 = r1
  Systems = {s1, s2}
  Units = {u1, u2, u3}
  Connectors = {c1, c2, c3, c4}
  Pins = {p1, p2, p3, p4, p5, p6}
  Buses = {b1}
  Messages = {m1}
  Fields = {f1}
  Interfaces = {i1}
  Harnesses = {h1, h2}
  Wires = {w1, w2, w3}
  Requirements = {r1}
  Linkable = {f1, c2}
  Seeds <- DefSeeds
  Wirings <- DefWirings
  described <- DefDescribed
  Rj45 = {c1, c2}
  Mappings = {"auto", "crossover"}
  Handled = {c1, c2, p1, p3}
  Batches <- DefBatches
  Decisions = {"none", "merge_into_a", "cancel"}
  MayStop = TRUE
  MaxPending = 1
  MaxDeletions = 2
  MaxLinks = 1
  Typed = {2}
  MaxMoved = 1
INVARIANT ConnectionsFollowWires
PROPERTY RemovalsAnnounced
PROPERTY UnforcedSparesWiring
CHECK_DEADLOCK FALSE
