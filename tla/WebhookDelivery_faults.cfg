SPECIFICATION FairSpec
CONSTANTS
  d1 = d1
  d2 = d2
  Deliveries <- TwoDeliveries
  Slots = 2
  MaxTries = 2
  MaxStalled = 1
  Threshold = 2
  Cooldown = 1
  Faults <- AllFaults
INVARIANT OvershootBounded
INVARIANT OpensForCause
PROPERTY DeliveredIsFinal
PROPERTY EveryDeliveryEnds
CHECK_DEADLOCK FALSE
