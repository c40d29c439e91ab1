SPECIFICATION Spec
CONSTANTS
  Threads = {t1, t2}
  Containers = {a, b}
  Iterators = {i1, i2}
  Nodes = {n1, n2}
  NoNode = null
  None = none
  FreeMoves = TRUE
  Asserts = TRUE
  MaxMoves = 1
INVARIANTS VersionHolds
