SPECIFICATION Spec
CONSTANTS
  Promises = {"p1", "p2", "q1", "q2", "v", "e", "c", "d", "r"}
  Actions = {"f", "g", "h", "a1", "a2", "x", "d", "b", "e1", "e2", "t"}
  Client = {"t1", "t2"}
  Looper = "looper"
  Daemon = "daemon"
  None = "none"
  Programs <- AllPrograms
CHECK_DEADLOCK FALSE
INVARIANTS NoActionStranded NoLostWakeup RunsOnceWhenDue NoTimerLeak
PROPERTIES ResultIsFinal DependentsComplete CallsReturn
