SPECIFICATION Spec
CONSTANTS
  m1 = m1 m2 = m2 m3 = m3 t1 = t1 t2 = t2 h1 = h1 r1 = r1
  None = None
  Message = {m1, m2, m3}
  Handler = {h1}
  Content <- AnyMessage
  Thread = {t1, t2}
  Result = {}
  MAX_SIZE = 1
  QuitAllowed = TRUE
  MAX_WAIT = 1
  DELAY_MOD = 8
  Delay = {0, 2}
  AtTime = {0}
  MaxTime = 3
  MaxSends = 3
  MaxResends = 1
CHECK_DEADLOCK FALSE
CONSTRAINT AlikeOrMixed
SYMMETRY Symmetry
INVARIANTS TypeOK QueueOrder NoLostWakeup QuitDrains NeverEarly Ownership RemovedIsGone
PROPERTIES ImplementsDelayQueue
