SPECIFICATION FairSpec
CONSTANTS
  t1 = t1
  t2 = t2
  Threads = {t1, t2}
  NULL = NULL
  Calls <- MixedCalls
  Suspends = {}
  Interrupts = {t1}
  MP = TRUE
  MaxRec = 0
CHECK_DEADLOCK FALSE
PROPERTIES NoStranding
