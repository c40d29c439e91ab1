SPECIFICATION Spec
CONSTANTS
  Buffers = {a, b}
  Capacities = {0, 2}
  \* The kind of element that permits most: other kinds only lose steps.
  Throws = {"copy", "move"}
  Assignable = FALSE
  MaxCapacity = 4
  MaxPushes = 3
SYMMETRY Symmetry
INVARIANTS
  TypeOK
  LiveExactly
PROPERTIES
  FifoUntilSpoiled
  ReplacedInOrder
  MovedFromIsInert
\* A wild access ends the run.
CHECK_DEADLOCK FALSE
