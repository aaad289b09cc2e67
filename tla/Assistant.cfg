SPECIFICATION Spec
CONSTANTS
  c1 = c1
  c2 = c2
  s1 = s1
  s2 = s2
  s3 = s3
  Number <- MCNumber
  None = None
  Awaiting = Awaiting
  Menu <- MCMenu
  ChildrenOf <- MCChildrenOf
  Attempts = 2
  MaxMessages = 2
  MaxRepeats = 1
  MaxFaults = 1
INVARIANTS
  AnsweredOnce
  
  LastWordCounts
  
CHECK_DEADLOCK FALSE
