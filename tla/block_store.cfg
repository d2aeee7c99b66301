CONSTANTS
  Threads = {t1, t2, t3}
  Hashes <- MCHashes
  HashLength = 2
  Size = 2
  Serial = TRUE
  MaxCalls = 5
  MaxFaults = 1
  Process = Process
  Leaked = Leaked
  None = None
SPECIFICATION FairSpec
CHECK_DEADLOCK FALSE
INVARIANTS TypeOK NoCountLost LocksExact HeldBlocksStay LoadsWhole
PROPERTY CallsEnd
