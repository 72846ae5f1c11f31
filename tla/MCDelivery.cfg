SPECIFICATION FairSpec
CONSTANTS
  Handler = {h1, h2}
  TaskTimeouts = {1, 3}
  WebhookTimeout = 2
  MaxRetries = 2
INVARIANTS
  DeliveredInTime
  GivenUpForAReason

  
