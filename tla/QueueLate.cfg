CONSTANTS
  a = a
  b = b
  c = c
  k = k
  NoKey = NoKey
  None = None
  Ids = {a, b}
  KeyOf <- SharedKey
  MaxRetries = 2
  Disciplined = FALSE
  SerialKeys = TRUE
  CleanFaults = TRUE
  MaxFaults = 1
  MaxCrashes = 2
  MaxRequeues = 1
SPECIFICATION PolledSpec
INVARIANTS
  RecoveryAgrees
  RetryBudget
PROPERTIES
  ImplementsLifecycle
  EveryTaskSettles
