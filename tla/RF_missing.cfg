CONSTANTS
  Setups <- OwnWriteSetups
SPECIFICATION Spec
INVARIANTS
  EveryExecution
CHECK_DEADLOCK FALSE
