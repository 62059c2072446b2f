CONSTANTS
  Worker = {w1, w2}
  NoWorker = NoWorker
  Unf <- MCUnf
  Node <- MCNode
  Ext <- MCExt
  Alt <- MCAlt
  Sat <- MCSat
  Outcome <- NoErrors
  Layout <- MCLayout
  Executed <- MCExecuted
  KeepGoing = FALSE
SPECIFICATION FairSpec
INVARIANTS
  TypeOK
  AllocFresh
  ExploredOnce
  HaltComplete
PROPERTIES
  Termination
  ImplementsExploration
