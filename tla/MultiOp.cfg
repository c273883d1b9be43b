SPECIFICATION FairSpec
CONSTANTS
  Capacity = 60
  BatchLimit = 3
  Batches <- TheBatches
  Lengths = {0, 14, 36}
  MaxCalls = 1
INVARIANTS TypeOK InOrder AllAnswered InBuffer
PROPERTIES HandleReturns
