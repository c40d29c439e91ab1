SPECIFICATION Spec
CONSTANTS
  Arrays = {a, b}
  Values = {v}
  Kinds = {"copy", "default", "move", "assign"}
  MaxCapacity = 3
INVARIANTS TypeOK LiveExactly
PROPERTIES LeaksOnlyThere OldLeftIntact ElementsArrive IsASequence
CHECK_DEADLOCK FALSE
