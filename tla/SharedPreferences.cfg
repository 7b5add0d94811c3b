SPECIFICATION Spec
CONSTANTS
  Keys = {k1, k2}
  Values <- EveryKind
  Editors = {e1}
  Listeners = {"l"}
  IntMod = 8
  Floats <- SomeFloats
  Micro = 10
  None = None
  MaxPending = 2
  MaxCommits = 2
  MaxFaults = 2
CONSTRAINT AlikeOrOneKey
SYMMETRY Symmetry
INVARIANTS Recovers ReadsBack LastHeardIsCurrent
