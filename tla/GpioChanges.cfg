\* Three threads share a poller; one pin takes every level.
CONSTANTS
  Threads = {t1, t2, t3}
  None = None
  Pin = {0}
  Filters = {}
  Limits = {}
  NoSnapshot = NoSnapshot
SPECIFICATION Spec
SYMMETRY Symmetry
INVARIANT ChangesInStep
