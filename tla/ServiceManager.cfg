SPECIFICATION Spec
CONSTANTS
  Services = {"s1", "s2", "off", "ghost"}
  Installed = {"s1", "s2", "off"}
  Enabled = {"s1", "s2"}
  processName <- OneProcess
  Connections = {"c1", "c2"}
  Uses <- AllUses
  None = None
  MaxCalls = 3
CHECK_DEADLOCK FALSE
INVARIANTS RecordsRefer NoOrphan ConnectedIsServed
PROPERTIES StartsAnsweredStopsEnd
