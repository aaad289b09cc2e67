SPECIFICATION SessionSpec
CONSTANTS
  t1 = t1
  t2 = t2
  NoTab = NoTab
  Tabs <- MCTabs
  MaxTokens = 3
  MaxFaults = 1
INVARIANTS
  NoReplayWithoutLoss
  CookieIsTheLiveToken
  SignedOutStaysOut
PROPERTIES
  RefreshSettles
CHECK_DEADLOCK FALSE
