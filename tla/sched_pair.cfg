SPECIFICATION FairSpec
CONSTANTS
  None = None
  Events = {e1, e2}
  Undeliverable = {e2}
  Workers = {w1, w2}
  MaxDelay = 1
  MaxLate = 1
  Lease = 2
  PollInterval = 1
  MaxBackoff = 2
  MaxAttempts = 3
  MaxCrashes = 2
INVARIANTS NoWorkLost LeaseLossKeepsDueAt
PROPERTIES ImplementsContract EventuallyResolved
