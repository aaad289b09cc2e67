SPECIFICATION FairSpec
CONSTANTS
  n1 = n1
  Notes = {n1}
  MaxRetries = 1
  MaxAttempts = 2
  MaxMessages = 3
  Prompt = TRUE

  
  
PROPERTIES
  EventuallySettled
CHECK_DEADLOCK FALSE
