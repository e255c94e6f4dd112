\* Two threads; ReferenceCalls or InterruptCalls of MCSramSettings.
CONSTANTS
  Threads = {t1, t2}
  KEEP = KEEP
  None = None
  Pins <- MCPins
  Calls <- AnalogAndInterruptCalls
  PowerUp <- MCPowerUp
SPECIFICATION Spec
SYMMETRY Symmetry
CONSTRAINT OneKind
PROPERTY ImplementsPartialUpdates
