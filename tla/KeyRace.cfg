CONSTANTS
  a = a
  b = b
  c = c
  k = k
  NoKey = NoKey
  None = None
  Ids = {a, b}
  KeyOf <- SharedKey
  MaxRetries = 1
  Disciplined = TRUE
  SerialKeys = FALSE
  CleanFaults = TRUE
  MaxFaults = 0
  MaxCrashes = 1
  MaxRequeues = 0
SPECIFICATION Spec
INVARIANTS
  RecoverySucceeds
