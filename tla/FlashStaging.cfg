\* Two threads, two USB settings, two changes of the runtime configuration.
CONSTANTS
  Threads = {t1, t2}
  Fields = {"wake", "current"}
  Calls <- MCCalls
  Factory <- MCFactory
  MaxVersion = 2
  None = None
SPECIFICATION Spec
SYMMETRY Symmetry
INVARIANTS TypeOK EffectiveKept SectionsTogether
