CONSTANTS
  Handles = {h1, h2, h3}
  Threads = {t1}
  InitialCap = 2
  MaxFds = 3
  Movable = {"fds"}
  None = None
SPECIFICATION FairSpec
CHECK_DEADLOCK FALSE
INVARIANTS TypeOK TableExact LookupSucceeds RightFile
PROPERTIES SlotsKept LookupEnds
