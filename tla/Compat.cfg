CONSTANTS
  bg = bg
  h1 = h1
  h2 = h2
  h3 = h3
  t1 = t1
  t2 = t2
  nil = nil
  Handles = {bg, h1, h2, h3}
  Tasks = {t1}
  Room <- SomeRoom
SPECIFICATION Spec
SYMMETRY HandleSymmetry
INVARIANTS
  InvokersComposed
  BackgroundIsGuarded
PROPERTIES
  ZeroWaits
CHECK_DEADLOCK FALSE
