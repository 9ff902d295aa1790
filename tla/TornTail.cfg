CONSTANTS
  r1 = r1
  r2 = r2
  Nil = Nil
  Records <- TwoCalls
  Cap = 1
  MaxFaults = 0
  MaxCrashes = 1
SPECIFICATION Spec
INVARIANTS
  OkIsReplayed
