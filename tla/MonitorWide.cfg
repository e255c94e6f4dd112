\* Four pins that may all change between two polls; no callbacks.
CONSTANTS
  Pin = {p0, p1, p2, p3}
  Filters <- NoFilter
  Limits = {9}
  NoSnapshot = NoSnapshot
  Levels <- Binary
  MaxDepth = 1
SYMMETRY Symmetry
SPECIFICATION Spec
PROPERTIES
  NothingDiscarded
