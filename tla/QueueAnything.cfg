CONSTANTS
  a = a
  b = b
  c = c
  k = k
  NoKey = NoKey
  None = None
  Ids = {a, b}
  KeyOf <- SharedKey
  MaxRetries = 1
  Disciplined = FALSE
  SerialKeys = FALSE
  CleanFaults = FALSE
  MaxFaults = 1
  MaxCrashes = 1
  MaxRequeues = 1
SPECIFICATION Spec
INVARIANTS
  NoLostTask
  LiveNotDead
  KeyOwnsTask
  RacersAgree
  WriteAhead
CHECK_DEADLOCK FALSE
