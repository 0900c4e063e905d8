SPECIFICATION Spec
CONSTANTS
  First = first
  Second = second
  Worker = worker
  Operator = operator
  Ids <- OneId
  Archivers <- Both
  DirectoryArchivers <- Both
  WeekLength = 2
  Retention = 3
  CommitDelay = 1
  RunTime = 1
  MaxTime = 7
  MaxFaults = 0
INVARIANTS
  PublishedIsWhole
