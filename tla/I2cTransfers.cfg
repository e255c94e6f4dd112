\* Two threads, one target with a status register and another.
CONSTANTS
  Threads = {t1, t2}
  Registers = {status, data}
  Status = status
  Values = {0, 1}
  Calls <- MCCalls
  None = None
SPECIFICATION Spec
SYMMETRY Symmetry
INVARIANTS TypeOK PairReadsOwn
PROPERTY RegistersAtomic
