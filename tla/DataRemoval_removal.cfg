SPECIFICATION FairSpec
CONSTANTS
  Jobs <- TwoJobs
  KeyDays = 1
  JobDays = 2
  Keep <- FewDays
  LifecycleDays = 1
  RetentionDays = 1
  Oldest = 3
  PageSize = 1
  MaxErrors = 1
  MaxTries = 2
  Scenes <- AllScenes
INVARIANT MarketingConsented
INVARIANT CleanupSound
INVARIANT FilesMatchRows
INVARIANT ErasureHolds
PROPERTY GoesInTheEnd
CHECK_DEADLOCK FALSE
