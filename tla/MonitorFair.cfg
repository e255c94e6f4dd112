\* One pin, fair loop, receivers that call back once.
CONSTANTS
  Pin = {p0}
  Filters <- NoFilter
  Limits = {0}
  NoSnapshot = NoSnapshot
  Levels <- Ternary
  MaxDepth = 2
SPECIFICATION FairSpec
PROPERTIES
  LoopReturns
  LevelsArrive
