CONSTANTS
  a = a
  b = b
  c = c
  k = k
  NoKey = NoKey
  None = None
  Ids = {a, b}
  KeyOf <- Unkeyed
  MaxRetries = 0
  Disciplined = FALSE
  SerialKeys = TRUE
  CleanFaults = TRUE
  MaxFaults = 0
  MaxCrashes = 1
  MaxRequeues = 0
SPECIFICATION PolledSpec
PROPERTIES
  LeaseReclaimed
  EveryTaskSettles
