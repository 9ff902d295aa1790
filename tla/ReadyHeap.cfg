CONSTANTS
  t1 = t1
  t2 = t2
  t3 = t3
  Tasks = {t1, t2, t3}
  MaxRetries = 1
  BaseDelay = 2
  MaxDelay = 2
  MaxTime = 2
  MaxLate = 1
  MaxRevivals = 1
  MaxRestarts = 1
SPECIFICATION Spec
INVARIANTS
  TypeOK
  RootIsSoonest
  NoEntryFallsOut
PROPERTIES
  EventuallyServed
CHECK_DEADLOCK FALSE
