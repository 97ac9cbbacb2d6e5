SPECIFICATION FairSpec
CONSTANTS
  j1 = j1
  j2 = j2
  api = api
  worker = worker
  Jobs <- OneJob
  Billable <- OneJob
  Procs <- TwoProcs
  Apis <- OneApi
  Channels <- Both
  Faults <- ExportOnly
  MaxAttempts = 3
  MaxStalled = 1
  MaxExits = 1
PROPERTY FailureRecorded
CHECK_DEADLOCK FALSE
