SPECIFICATION FairSpec
CONSTANTS
  j1 = j1
  j2 = j2
  api = api
  worker = worker
  Jobs <- OneJob
  Billable <- OneJob
  Procs <- TwoProcs
  Apis <- OneApi
  Channels <- AllChannels
  Faults <- LivingFaults
  MaxAttempts = 3
  MaxStalled = 1
  MaxExits = 2
PROPERTY LifecycleSpec
PROPERTY EveryJobSettles
PROPERTY OutcomeReported
CHECK_DEADLOCK FALSE
