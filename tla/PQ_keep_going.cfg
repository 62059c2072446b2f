CONSTANTS
  Worker = {w1, w2}
  NoWorker = NoWorker
  Unf <- MCUnf
  Node <- MCNode
  Ext <- MCExt
  Alt <- MCAlt
  Sat <- MCSat
  Outcome <- OneError
  Layout <- MCLayout
  Executed <- MCExecuted
  KeepGoing = TRUE
SPECIFICATION FairSpec
PROPERTIES
  Termination
