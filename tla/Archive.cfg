SPECIFICATION FairSpec
CONSTANTS
  First = first
  Second = second
  Worker = worker
  Operator = operator
  Ids <- TwoIds
  Archivers <- Both
  DirectoryArchivers <- WorkerOnly
  WeekLength = 2
  Retention = 3
  CommitDelay = 1
  RunTime = 1
  MaxTime = 7
  MaxFaults = 1
INVARIANTS
  TypeOK
  WeeksAreWhole
  OneDataset
  PublishedIsWhole
PROPERTIES
  NothingIsLost
  OtherWeeksAreArchived
