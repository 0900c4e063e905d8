SPECIFICATION FairSpec
CONSTANTS
  First = first
  Second = second
  Worker = worker
  Operator = operator
  Ids <- OneId
  Archivers <- WorkerOnly
  DirectoryArchivers <- WorkerOnly
  WeekLength = 2
  Retention = 3
  CommitDelay = 1
  RunTime = 1
  MaxTime = 7
  MaxFaults = 0
PROPERTIES
  EveryWeekIsArchived
