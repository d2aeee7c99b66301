CONSTANTS
  Handles = {h1, h2, h3}
  Threads = {t1}
  InitialCap = 2
  MaxFds = 4
  Movable = {"files", "fds"}
  None = None
SPECIFICATION Spec
CHECK_DEADLOCK FALSE
INVARIANT PointerFresh
