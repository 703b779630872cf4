CONSTANTS
  Items = {x1, x2, x3}
  Workers = {w1, w2}
  None = None
SPECIFICATION FairSpec
INVARIANTS TypeOK QueueIsDirtyIdle OneHolder
PROPERTIES NoStarvation Drains ImplementsKeyedWork
CHECK_DEADLOCK FALSE
