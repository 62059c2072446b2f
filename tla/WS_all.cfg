CONSTANTS
  Worker = {w1, w2}
  NoWorker = NoWorker
  Unf <- MCUnf
  Node <- MCNode
  Ext <- MCExt
  Alt <- MCAlt
  Sat <- MCSat
  Outcome <- NoErrors
  Layout <- MCLayout
  Executed <- MCExecuted
  KeepGoing = FALSE
SPECIFICATION FairSpec
INVARIANTS
  ExploredOnce
  JobsExact
  HaltComplete
  OwnerAwake
  BigLockProtects
PROPERTIES
  Termination
  ImplementsExploration
