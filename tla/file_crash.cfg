CONSTANTS
  t1 = t1
  t2 = t2
  h1 = h1
  h2 = h2
  f1 = f1
  f2 = f2
  b1 = b1
  b2 = b2
  Threads = {t1, t2}
  Handles = {h1, h2}
  Files = {f1}
  Indexes = {0, 1, 2}
  Blocks = {b1, b2}
  SizeOf <- MCEven
  RefSize = 8
  Shared = TRUE
  Landings = {"back", "far"}
  Faults = {"store", "load"}
  MaxRequests = 4
  MaxFaults = 1
  MaxCrashes = 1
  None = None
SYMMETRY Alike
SPECIFICATION Spec
CHECK_DEADLOCK FALSE
INVARIANTS LockHasHolder NamedBlocksExist NamedBlocksWhole HeaderNeverOvercounts
PROPERTIES WholeBlocksStay PairsKept
