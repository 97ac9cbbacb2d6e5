SPECIFICATION BreakerFairSpec
CONSTANTS
  r1 = r1
  r2 = r2
  r3 = r3
  Posts <- ThreeRequests
  Threshold = 2
  WindowSeconds = 2
  Faults <- AllFaults
INVARIANT PassedPerWindow
INVARIANT BlockedForCause
PROPERTY WindowEnds
CHECK_DEADLOCK FALSE
