SPECIFICATION Spec
CONSTANTS
  t1 = t1
  t2 = t2
  Threads = {t1, t2}
  NULL = NULL
  Calls <- NotifyCalls
  Suspends = {}
  Interrupts = {t1}
  MP = FALSE
  MaxRec = 0
CHECK_DEADLOCK FALSE
INVARIANTS NotifyPrecedence
