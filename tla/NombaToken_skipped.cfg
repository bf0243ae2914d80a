SPECIFICATION FairSpec
CONSTANTS
  Slot = {s1}
  Clock = clock
  Token = {t1, t2, t3}
  MaxFailures = 0
  MaxCrashes = 0
INVARIANT SkippedOnlyIfNone
CHECK_DEADLOCK FALSE
