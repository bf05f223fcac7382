CONSTANTS
  root = root
  mid = mid
  leaf = leaf
  side = side
  t1 = t1
  t2 = t2
  t3 = t3
  p1 = p1
  p2 = p2
  p3 = p3
  States = {root, mid}
  Path <- PairPath
  Grace <- HookGrace
  Graces = {0, 1}
  Tasks = {t1}
  Home <- MidHome
  Procs = {p1}
  Callbacks = {f1}
SPECIFICATION Spec
PROPERTIES
  ErrorsAreFinal
