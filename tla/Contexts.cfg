CONSTANTS
  root = root
  mid = mid
  leaf = leaf
  t1 = t1
  t2 = t2
  nil = nil
  States = {root, mid, leaf}
  Path <- ChainPath
  Tasks = {t1, t2}
  Home <- OneEach
  Room <- SomeRoom
  DefaultGracePeriod = 2
  ConfigOptions <- SomeConfigs
  StopOptions <- RootNow
  TaskOptions <- SomeTasks
SPECIFICATION FairSpec
INVARIANTS
  ContextSettings
  TaskSettings
  TreeShowsTasks
PROPERTIES
  GraceIsOwn
  StoppedTreeEmpties
CHECK_DEADLOCK FALSE
