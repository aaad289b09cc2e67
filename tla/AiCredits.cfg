SPECIFICATION Spec
CONSTANTS
  r1 = r1
  r2 = r2
  r3 = r3
  p1 = p1
  p2 = p2
  Requests <- MCRequests
  Prompts <- MCPrompts
  PromptOf <- MCPromptOf
  Cost <- MCCost
  InitialBalance = 2
  PackCredits = 1
  MaxPacks = 1
  MaxFaults = 2
INVARIANTS
  ConsumedIsHeld
  ChargeIsExplained
PROPERTIES
  AccountSpec
  ReservationSettles
CHECK_DEADLOCK FALSE
