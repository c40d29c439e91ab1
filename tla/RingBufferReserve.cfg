SPECIFICATION Spec
CONSTANTS
  Buffers = {a}
  Capacities = {2}
  Throws = {}
  Assignable = TRUE
  MaxCapacity = 4
  MaxPushes = 4
PROPERTY
  ReallocationKeepsElements
CHECK_DEADLOCK FALSE
