CONSTANTS
  Node <- MCNode
  First <- MCFirst
  New <- MCNew
  Alt <- MCAlt
  Sat <- MCSat
  Outcome <- TwoErrors
  KeepGoing = FALSE
SPECIFICATION Spec
INVARIANTS
  OneFate
  NothingLost
  StopsComplete
CHECK_DEADLOCK FALSE
