SPECIFICATION Spec
CONSTANTS
  t1 = t1
  t2 = t2
  Threads <- TwoThreads
  UseMembar = FALSE
  MaxStores = 1
  MaxSafepoints = 2
  MaxRegions = 1
  Suspendable <- FirstThread
  Critical <- SecondThread
  NoThread = NoThread
CONSTRAINT Focus
CHECK_DEADLOCK FALSE
INVARIANTS TypeOK StoppedWorld WaitingExact BlockAsserts JniCountExact NoCriticalLeak
PROPERTY NoEscape
