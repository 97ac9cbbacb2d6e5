SPECIFICATION Spec
CONSTANTS
  j1 = j1
  j2 = j2
  api = api
  worker = worker
  Jobs <- OneJob
  Billable <- OneJob
  Procs <- TwoProcs
  Apis <- OneApi
  Channels <- AllChannels
  Faults <- AllFaults
  MaxAttempts = 3
  MaxStalled = 1
  MaxExits = 1
INVARIANT CompletedHasRow
INVARIANT NoticesMatchOutcome
INVARIANT ToldAfterRecorded
INVARIANT BilledOnce
INVARIANT HooksAreTracked
CHECK_DEADLOCK FALSE
