CONSTANTS
  a = a
  b = b
  c1 = c1
  c2 = c2
  NoKey = NoKey
  None = None
  Ids = {a, b}
  KeyOf <- OwnKey
  MaxRetries = 0
  Disciplined = FALSE
  SerialKeys = TRUE
  CleanFaults = FALSE
  MaxFaults = 1
  MaxCrashes = 0
  MaxRequeues = 3
  Producers <- OneProducer
  Consumers = {c1, c2}
  Drainer = Drainer
SPECIFICATION LoadSpec
INVARIANTS
  LoadTypeOK
  PassIsSound
  FailHasACause
  RedeliveriesAddUp
PROPERTIES
  RunEnds
