SPECIFICATION Spec
CONSTANTS
  None = None
  Cleared = Cleared
  Nil = Nil
  Devices = {d1, d2}
  Properties = {p1}
  Attributes = {a1}
  Values = {v1}
  Invalid = {bad}
  States = {online, offline}
  ChannelSize = 1
  RetryTimes = 2
  Over = Over
  MaxGoroutines = 2
  MaxMutex = 4
  MaxFaults = 1
  MaxMessages = 2
  Kinds = {"add", "remove", "detail", "sync", "rest", "state", "attr"}
INVARIANTS TypeOK MemoryIsSqlite LocksHeld WorkersFinish
PROPERTIES VersionsGrow
CHECK_DEADLOCK FALSE
SYMMETRY Symmetry
CONSTRAINT RaceOrFault
