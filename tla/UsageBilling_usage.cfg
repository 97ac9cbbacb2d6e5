SPECIFICATION Spec
CONSTANTS
  j1 = j1
  j2 = j2
  j3 = j3
  Jobs <- ThreeJobs
  Rows = 4
  Paid <- TwoTiers
  Limit <- Limits
  DefaultLimit = 1
  Increment = 5
  Starts <- AllStarts
  MaxDeliveries = 2
  MaxMonth = 1
INVARIANT PaidAgrees
INVARIANT OverageIsLeast
INVARIANT SubscriptionTracked
INVARIANT UsageBounded
INVARIANT AlertedOnce
CHECK_DEADLOCK FALSE
