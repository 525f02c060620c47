SPECIFICATION Spec
CONSTANTS
  j1 = j1
  gc = gc
  JavaThreads = {j1}
  OtherThreads = {gc}
  VM = VM
  Destroyer = Destroyer
  NULL = NULL
  Modes <- SomeModes
  Nests = {}
  TraceLongCompiles = TRUE
  MaxCounter = 1
  MaxOther = 1
CHECK_DEADLOCK FALSE
INVARIANT TracedAllocated
