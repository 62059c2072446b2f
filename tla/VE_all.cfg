CONSTANTS
  Objects = 3
  Programs <- AllPrograms
SPECIFICATION Spec
INVARIANTS
  EveryView
  OnceEach
  LeadsCanStart
  AlphaIntact
  LeadsAreFollowed
  ReplayRestores
