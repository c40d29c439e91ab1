SPECIFICATION Spec
CONSTANTS
  Arrays = {a, b}
  Values = {v}
  Kinds = {"copy", "default", "move", "assign"}
  MaxCapacity = 3
PROPERTIES SourceUntouched
CHECK_DEADLOCK FALSE
