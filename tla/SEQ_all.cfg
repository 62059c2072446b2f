CONSTANTS
  Worker = {w1}
  NoWorker = NoWorker
  Unf <- MCUnf
  Node <- MCNode
  Ext <- MCExt
  Alt <- MCAlt
  Sat <- MCSat
  Outcome <- OneError
  Layout <- MCLayout
  Executed <- MCExecuted
  KeepGoing = TRUE
SPECIFICATION SeqFairSpec
INVARIANTS
  TasksExact
  SeqComplete
PROPERTIES
  SeqEndsUnlessDropped
