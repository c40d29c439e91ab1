SPECIFICATION Spec
CONSTANTS
  Objects = {a, b, c}
  Capacities = {1, 2}
  Values = {v}
INVARIANTS
  TypeOK
  OwnsItsElements
PROPERTY
  KeptApart
\* A wild access ends the run.
CHECK_DEADLOCK FALSE
