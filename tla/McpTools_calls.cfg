SPECIFICATION McpSpec
CONSTANTS
  MaxCalls = 3
  MaxJobs = 2
PROPERTY AnswerOfItsTime
INVARIANT AnswersAreTrue
CHECK_DEADLOCK FALSE
