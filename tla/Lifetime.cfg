\* Three threads and three adapters over two handles.
CONSTANTS
  Thread = {t1, t2, t3}
  Root = {r1, r2}
  Adapter = {a1, a2, a3}
  State = {d1, d2}
  Child = {c1, c2}
  Nil = Nil
SPECIFICATION Spec
SYMMETRY Symmetry
INVARIANTS
  TypeOK
  NativeCallsSerialized
  LockedDeviceIsCalled
  NoUseAfterClose
  HandleOwned
  ChildOwned
  AdapterReachesItsDevice
  StructExclusive
  PollerSole
  ReachableIsReady
