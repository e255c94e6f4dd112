CONSTANTS
  Thread = {t1, t2}
  Root = {r1, r2}
  Adapter = {a1, a2}
  State = {d1, d2}
  Child = {c1, c2}
  Nil = Nil
SPECIFICATION Spec
PROPERTIES
  ImplementsHandle
