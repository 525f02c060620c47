SPECIFICATION LiveSpec
CHECK_DEADLOCK FALSE
CONSTANTS
  Threads = {t1, t2, t3}
  JavaThreads = {}
  VMThread = vm
  Calls <- LiveCalls
  NULL = NULL
  LBIT = LBIT
  MaxCalls = 5
PROPERTIES CallsEnd ImplementsUntimedMonitor
