SPECIFICATION Spec
CONSTANTS
  Thread = {t1, t2}
  MaxCalls = 4
SYMMETRY Symmetry
INVARIANT TypeOK UseIsComplete
PROPERTY SettledForever
CHECK_DEADLOCK FALSE
