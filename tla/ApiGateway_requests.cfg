SPECIFICATION FairSpec
CONSTANTS
  r1 = r1
  r2 = r2
  r3 = r3
  k1 = k1
  k2 = k2
  member = member
  owner = owner
  here = here
  there = there
  Requests <- ThreeRequests
  Scenarios <- Scenes
  Keys <- TwoKeys
  Scope <- KeyScope
  Role <- TeamRole
  Victim = k1
  Limit <- Tiers
  Window = 2
  BurstWindow = 1
  MaxTime = 2
  MaxUnheard = 1
INVARIANT BurstOnlyAfterDelay
INVARIANT RevokedStaysOut
PROPERTY EveryRequestEnds
INVARIANT LimitsKept
CHECK_DEADLOCK FALSE
