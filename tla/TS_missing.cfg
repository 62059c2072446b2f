CONSTANTS
  Setups <- MissingSetups
SPECIFICATION Spec
INVARIANTS
  EveryExecution
CHECK_DEADLOCK FALSE
