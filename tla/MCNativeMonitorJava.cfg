SPECIFICATION Spec
CONSTANTS
  Threads = {j1, j2, vm}
  JavaThreads = {j1, j2}
  VMThread = vm
  Calls <- MixedCalls
  NULL = NULL
  LBIT = LBIT
CHECK_DEADLOCK FALSE
INVARIANT OwnerExclusion
PROPERTIES ImplementsMonitor
