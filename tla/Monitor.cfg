\* Two pins, receivers that call back once, filters, limits 1 and 4.
CONSTANTS
  Pin = {p0, p1}
  Filters <- RisingOnOne
  Limits = {1}
  NoSnapshot = NoSnapshot
  Levels <- Ternary
  MaxDepth = 2
SYMMETRY Symmetry
SPECIFICATION Spec
INVARIANTS
  TypeOK
  NoLockInSignals
  InStep
