SPECIFICATION FairSpec
CONSTANTS
  p1 = p1
  p2 = p2
  s1 = s1
  s2 = s2
  Procs <- TwoProcs
  Schedules <- TwoSchedules
  MaxPeriod = 2
  MaxTime = 2
  MaxCrashes = 1
  MaxEdits = 1
  Broken <- FirstBroken
  Faults <- AllFaults
INVARIANT AgainOnlyIfCut
PROPERTY OthersStillRun
CHECK_DEADLOCK FALSE
