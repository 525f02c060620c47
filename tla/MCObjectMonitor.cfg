SPECIFICATION Spec
CONSTANTS
  t1 = t1
  t2 = t2
  Threads = {t1, t2}
  NULL = NULL
  Calls <- MixedCalls
  Suspends = {t1}
  Interrupts = {t1}
  MP = TRUE
  MaxRec = 1
CHECK_DEADLOCK FALSE
INVARIANTS TypeOK OwnerExact QueueDiscipline Asserts DeflationSafe
PROPERTIES ImplementsMonitor
