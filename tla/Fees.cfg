SPECIFICATION FairSpec
CONSTANTS
  i1 = i1
  i2 = i2
  s1 = s1
  s2 = s2
  h1 = h1
  h2 = h2
  x1 = x1
  r1 = r1
  Installments = {i1, i2}
  Amount <- MCAmount
  Staff = {s1, s2}
  Hooks = {h1, h2}
  Online = {x1}
  StaffRefs = {r1}
  NoRef = NoRef
  Series = {1, 2}
  Nobody = Nobody
INVARIANTS
  Balanced
  GapFree
  NeverBothWays
PROPERTIES
  LedgerSpec
  CapturedIsSettled
CHECK_DEADLOCK FALSE
