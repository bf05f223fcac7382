CONSTANTS
  root = root
  mid = mid
  leaf = leaf
  side = side
  t1 = t1
  t2 = t2
  t3 = t3
  p1 = p1
  p2 = p2
  p3 = p3
  States = {root, mid}
  Path <- PairPath
  Grace <- HookGrace
  Graces = {0, 1}
  Tasks = {t1, t2}
  Home <- SpreadHome
  Procs = {p1}
  Callbacks = {f1, f2}
SPECIFICATION Spec
SYMMETRY CallbackSymmetry
INVARIANTS
  CountMatchesHolders
  CleanStopHasNoTasks
  IdleIsStopped
  CancelOwedOnce
  NoLostStop
  DeferredAreLIFO
PROPERTIES
  GraceOnlyShortens
  CauseIsTruthful
  CleanStopSettlesErrors
  Implements
