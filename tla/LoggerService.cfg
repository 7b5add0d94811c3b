SPECIFICATION Spec
CONSTANTS
  Log = {"main", "test"}
  TestLogs = {"test"}
  mSize = 5
  Sizes <- RecordSizes
  None = None
  Waits = Waits
  MaxPuts = 3
  MaxCommands = 1
  MaxServices = 2
CHECK_DEADLOCK FALSE
INVARIANTS PublishedInOrder WholeRecords
PROPERTIES LoggedIsPublished DestroyReturns
