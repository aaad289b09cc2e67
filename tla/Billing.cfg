SPECIFICATION FairSpec
CONSTANTS
  c1 = c1
  o1 = o1
  o2 = o2
  r1 = r1
  Coachings = {c1}
  Orders = {o1, o2}
  Credits <- MCCredits
  Requests = {r1}
  TrialEnd = 1
  Period = 1
  TTL = 2
  NewYear = 2
  Horizon = 2
  MaxFailures = 1
  None = None
INVARIANTS
  Booked
  AccessIsPaidFor
  StaleOnlyForTTL
  RenewalsExtend
PROPERTIES
  CapturedIsSettled
CHECK_DEADLOCK FALSE
