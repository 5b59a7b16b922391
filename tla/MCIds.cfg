SPECIFICATION MCSpec
CONSTANTS
  c1 = c1  c2 = c2  b1 = b1  k1 = k1
  i1 = i1  i2 = i2  g1 = g1  q1 = q1  q2 = q2  q3 = q3  w1 = w1  w2 = w2  NoNumber = NoNumber
  n1 = n1  f1 = f1  q4 = q4  None = None
  Calls = {c1, c2, b1}
  Batches = {b1}
  Counters = {k1}
  Legacy = {2}
  MaxRows = 2
  MaxFaults = 1
  Nobody = Nobody
  Requests = {q1, q2, q3}
  Names = {n1}
  Masses = {1, 2}
  Omls = {1}
  Bodies <- DefBodies
  Seeds <- DefSeeds
  MaxFrame = 2
  MaxFailures = 2
  Files = {f1}
  Sizes = {1, 2}
  LibraryCalls = {q1, q2, q3, q4}
  Null = None
  Imports = {i1, i2}
  Configs = {g1}
  WpnCalls = {q1, q2, q3}
  Workers = {w1, w2}
  Typed <- DefTyped
  supplierOf <- DefSuppliers
  workerOf <- DefWorkers
  MaxIndex = 4
  MaxOutages = 2
  Cells = {"u", "v", "y", "j", "p", "q", "b", "m", "n", "f", ""}
  Books <- DefBooks
  Confirmations = {1, 2}
  Blank = ""
CHECK_DEADLOCK FALSE
INVARIANT MintedOnce
PROPERTY CallsEnd
INVARIANT LedgerIsAccounted
INVARIANT RevisionsChain
INVARIANT BundleOnDisk
INVARIANT CatalogMassIsActive
INVARIANT ImportedAsPreviewed
