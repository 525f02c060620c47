CONSTANTS
  w1 = w1
  w2 = w2
  Workers = {w1, w2}
  N = 4
  TagValues = 16
  MaxFound <- TwoFinders
  Roots = Roots
  None = None
SPECIFICATION FairSpec
CHECK_DEADLOCK FALSE
INVARIANT Asserts
PROPERTIES ImplementsWorkPool Terminates
