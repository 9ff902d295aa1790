CONSTANTS
  a = a
  b = b
  c = c
  k = k
  NoKey = NoKey
  None = None
  Ids = {a, b}
  KeyOf <- Unkeyed
  MaxRetries = 1
  Disciplined = FALSE
  SerialKeys = TRUE
  CleanFaults = TRUE
  MaxFaults = 0
  MaxCrashes = 0
  MaxRequeues = 0
SPECIFICATION Spec
PROPERTIES
  AckedNotRedelivered
