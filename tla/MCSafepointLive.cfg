SPECIFICATION FairSpec
CONSTANTS
  t1 = t1
  t2 = t2
  Threads <- TwoThreads
  UseMembar = TRUE
  MaxStores = 1
  MaxSafepoints = 1
  MaxRegions = 1
  Suspendable <- NoThreads
  Critical <- NoThreads
  NoThread = NoThread
PROPERTIES SafepointReached ThreadsReleased
