CONSTANTS
  t1 = t1
  t2 = t2
  h1 = h1
  h2 = h2
  f1 = f1
  f2 = f2
  b1 = b1
  b2 = b2
  Threads = {t1, t2}
  Handles = {h1, h2}
  Files = {f1, f2}
  Indexes = {0, 1}
  Blocks = {b1, b2}
  SizeOf <- MCSizeOf
  RefSize = 8
  Shared = FALSE
  Landings = {"back"}
  Faults = {}
  MaxRequests = 3
  MaxFaults = 0
  MaxCrashes = 0
  None = None
SPECIFICATION Spec
INVARIANTS TypeOK HeaderExact UniqueIndex
PROPERTIES StoredMeansReadable ImplementsWriteOnce
