SPECIFICATION Spec
CONSTANTS
  Thread = {t1, t2, t3}
  Maker = t1
  INITIAL = 64
  MaxRefs = 3
SYMMETRY Symmetry
CHECK_DEADLOCK FALSE
INVARIANTS NoUseAfterFree CountsMatch
PROPERTIES FailsOnlyAtTheEnd
