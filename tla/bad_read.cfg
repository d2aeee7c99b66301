CONSTANTS
  Threads = {t1}
  BlockSize = 2
  NumBlocks = 2
  Spanning = FALSE
  MaxFaults = 0
  MaxWrites = 2
  None = None
SPECIFICATION Spec
INVARIANT ReadFills
