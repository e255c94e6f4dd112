\* Two threads; PinCalls of MCSramSettings.
CONSTANTS
  Threads = {t1, t2}
  KEEP = KEEP
  None = None
  Pins <- MCPins
  Calls <- PinCalls
  PowerUp <- MCPowerUp
SPECIFICATION Spec
SYMMETRY Symmetry
INVARIANT TypeOK
PROPERTY ImplementsPartialUpdates
