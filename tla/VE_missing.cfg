CONSTANTS
  Objects = 2
  Programs <- MissedProgram
SPECIFICATION Spec
INVARIANT EveryView
