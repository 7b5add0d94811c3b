SPECIFICATION FairSpec
CONSTANTS
  t1 = t1 t2 = t2
  Thread = {t1}
  CanRemove = TRUE
  MaxProgress = 2
CHECK_DEADLOCK FALSE
PROPERTIES NoPostAfterCancel
