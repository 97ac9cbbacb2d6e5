SPECIFICATION FairSpec
CONSTANTS
  c1 = c1
  c2 = c2
  Calls <- TwoCalls
  None = None
  Uses <- AllUses
INVARIANT InProgressShown
PROPERTY EveryCallSettles
INVARIANT OutcomeIsOfLast
CHECK_DEADLOCK FALSE
