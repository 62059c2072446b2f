CONSTANTS
  Setups <- MCSetups
SPECIFICATION Spec
INVARIANTS
  EveryExecution
  OnceEach
  NoneBlocked
  AssertionsHold
  CountExact
  ClocksMatchConflicts
  NoLostWakeup
  ReplayTrue
  CacheExact
  RecordedStillAllowed
  TestsPass
CHECK_DEADLOCK FALSE
