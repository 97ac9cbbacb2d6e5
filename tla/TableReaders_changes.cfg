SPECIFICATION FairSpec
CONSTANTS
  Ids <- FewIds
  First <- FewFirst
  Readers <- AllReaders
  BatchSize = 2
  Every = 2
  HighWater = 1
  MaxPageSize = 3
  MaxChanges = 3
INVARIANT WellFormedJson
PROPERTY ReadingEnds
INVARIANT ExportSound
INVARIANT WalkSound
CHECK_DEADLOCK FALSE
