SPECIFICATION Spec
SYMMETRY Symmetry
CONSTANTS
  Threads = {t1, t2, t3}
  Containers = {a, b}
  Iterators = {i1, i2, i3}
  Nodes = {n1, n2, n3}
  NoNode = null
  None = none
  FreeMoves = FALSE
  Asserts = FALSE
  MaxMoves = 2
INVARIANTS TypeOK RegisteredExactly NoUseAfterFree OneHolder StaleVersionIsHarmless ClearedIsUnused
