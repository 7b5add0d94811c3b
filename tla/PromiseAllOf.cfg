SPECIFICATION Spec
CONSTANTS
  Promises = {"p1", "p2", "v"}
  Actions = {"b"}
  Client = {"t1", "t2"}
  Looper = "looper"
  Daemon = "daemon"
  None = "none"
  Programs <- TwoCompleters
CHECK_DEADLOCK FALSE
PROPERTIES AllOfCompletes
