CONSTANTS
  Threads = {t1, t2}
  BlockSize = 2
  NumBlocks = 2
  Spanning = FALSE
  MaxFaults = 1
  MaxWrites = 2
  None = None
SPECIFICATION FairSpec
INVARIANTS TypeOK BytesInPlace LoopExact ReadSeesStart ReadLeavesEnds
PROPERTY RequestEnds
