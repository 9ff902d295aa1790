CONSTANTS
  e1 = e1
  l1 = l1
  s1 = s1
  Nil = Nil
  Sweeper = Sweeper
  Records <- Calls
  SweepRecords = {s1}
  LockedRecords = {l1}
  Cap = 1
  MaxFaults = 1
  MaxCrashes = 2
SPECIFICATION ShutdownSpec
INVARIANTS
  ShutdownTypeOK
  OkIsDurable
  SweeperNeverPanics
PROPERTIES
  GoodPrefixKept
  ImplementsDurableLog
  AppendReturns
  SweeperStops
  CloseReturnsWhenQuiet
