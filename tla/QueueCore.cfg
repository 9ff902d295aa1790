CONSTANTS
  a = a
  b = b
  c = c
  k = k
  NoKey = NoKey
  None = None
  Ids = {a, b, c}
  KeyOf <- SharedKey
  MaxRetries = 1
  Disciplined = TRUE
  SerialKeys = TRUE
  CleanFaults = TRUE
  MaxFaults = 0
  MaxCrashes = 1
  MaxRequeues = 1
SPECIFICATION Spec
INVARIANTS
  TypeOK
  OnePlace
  AckedIsGone
  AcceptedSurvives
  OneTaskPerKey
  RecoveryAgrees
