SPECIFICATION FairQueueSpec
CONSTANTS
  q1 = q1
  q2 = q2
  answer = answer
  p1 = p1
  p2 = p2
  Requests = {q1, q2, answer}
  People = {p1, p2}
  Group <- MCGroup
  Unlimited = {}
  Replies = {answer}
  DailyLimit = 2
  First = First
  StableTargets = TRUE
  MaxCrashes = 1
INVARIANTS
  
  LimitKept
  SettledIsComplete
PROPERTIES
  EveryRequestSettles
CHECK_DEADLOCK FALSE
