\* No dispatch outlasts its window.
SPECIFICATION FairSpec
CONSTANTS
  e1 = e1
  e2 = e2
  unheard = unheard
  h1 = h1
  h2 = h2
  Events = {e1, e2, unheard}
  Handlers = {h1, h2}
  HandlersOf <- MCHandlersOf
  Relays = {r1, r2}
  Api = Api
  MaxAttempts = 2
  BatchSize = 2
  MayOverrun = FALSE
INVARIANT DispatchedIsDelivered
PROPERTY RerunOnlyAfterInterruption
PROPERTY DeliverySpec
PROPERTY RecordedEventuallySettles
