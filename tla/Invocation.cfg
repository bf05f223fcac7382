CONSTANTS
  t1 = t1
  t2 = t2
  t3 = t3
  Tasks = {t1, t2}
  Chain <- SlotAroundRetry
  Limit = 1
  MaxAttempts = 2
SPECIFICATION FairSpec
INVARIANTS
  SlotsMatch
  ConcurrencyBound
  TracksLive
  NoSilentDrop
PROPERTIES
  StopDrains
CHECK_DEADLOCK FALSE
