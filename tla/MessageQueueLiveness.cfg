SPECIFICATION FairSpec
CONSTANTS
  m1 = m1 m2 = m2 m3 = m3 t1 = t1 t2 = t2 h1 = h1 r1 = r1
  None = None
  Message = {m1, m2}
  Handler = {h1}
  Content <- OneMessage
  Thread = {t1, t2}
  Result = {r1}
  MAX_SIZE = 1
  QuitAllowed = TRUE
  MAX_WAIT = 1
  DELAY_MOD = 8
  Delay = {0, 1}
  AtTime = {0}
  MaxTime = 2
  MaxSends = 3
  MaxResends = 0
CHECK_DEADLOCK FALSE
INVARIANTS NoOrphanPromise
PROPERTIES DueLeavesQueue QuitStopsLooper
