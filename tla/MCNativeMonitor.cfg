SPECIFICATION Spec
CONSTANTS
  Threads = {g1, g2, g3}
  JavaThreads = {}
  VMThread = vm
  Calls <- SomeCalls
  NULL = NULL
  LBIT = LBIT
SYMMETRY Symmetry
INVARIANTS TypeOK LockByteExclusion InnerLockExclusion Succession AtMostOneList QueueDiscipline NotifiedIffTransferred
PROPERTIES OnDeckStable InnerLockProtects
