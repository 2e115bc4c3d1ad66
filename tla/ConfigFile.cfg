CONSTANTS
  MIN = 1
  MAX = 8
  STEP = 4
  DEFAULT = 3
  N = 2
SPECIFICATION Spec
INVARIANTS TypeOK RestoresSaved SavedReturns OnlyWritesLose WithinHalfStep
PROPERTY Settles
