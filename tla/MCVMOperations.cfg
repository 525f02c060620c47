SPECIFICATION FairSpec
CONSTANTS
  j1 = j1
  gc = gc
  JavaThreads = {j1}
  OtherThreads = {gc}
  VM = VM
  Destroyer = Destroyer
  NULL = NULL
  Modes <- SomeModes
  Nests = {"no_safepoint", "async_safepoint"}
  TraceLongCompiles = TRUE
  MaxCounter = 1
  MaxOther = 1
CHECK_DEADLOCK FALSE
INVARIANTS TypeOK NoDangling AllScanned SafepointModes
PROPERTIES ImplementsOperations OperationsRun SubmittersWoken VMExits
