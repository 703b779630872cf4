SPECIFICATION Spec
CONSTANTS
  Conns = {1, 2, 3}
  Sessions = {1, 2, 3}
  Queues = {1, 2, 3}
  Stop = Stop
  None = None
  FifoSize = 1
  Resources = {r1}
  MaxChanges = 1
  MaxFaults = 1
CONSTRAINT RacedEarly
CHECK_DEADLOCK FALSE
INVARIANTS TypeOK InSync OneLoop
PROPERTIES InOrder
