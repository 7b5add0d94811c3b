SPECIFICATION FairSpec
CONSTANTS
  c1 = c1 c2 = c2 c3 = c3
  Caller = {c1, c2, c3}
  None = None
  CreateFails = TRUE
CHECK_DEADLOCK FALSE
PROPERTIES QuitEndsThread GetLooperReturnsIfCreated
