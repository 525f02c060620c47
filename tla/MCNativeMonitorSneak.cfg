SPECIFICATION Spec
CONSTANTS
  Threads = {g1, vm}
  JavaThreads = {}
  VMThread = vm
  Calls <- LockOnly
  NULL = NULL
  LBIT = LBIT
INVARIANTS OwnerExclusion
