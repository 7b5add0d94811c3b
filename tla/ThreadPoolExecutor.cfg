SPECIFICATION FairSpec
CONSTANTS
  r1 = r1 r2 = r2 r3 = r3
  Nullptr = Nullptr
  Runnable = {r1, r2}
  mSize = 2
  MaxPuts = 2
CHECK_DEADLOCK FALSE
INVARIANTS NoLostWakeup Accounted EnoughNulls
PROPERTIES ShutdownReturns
