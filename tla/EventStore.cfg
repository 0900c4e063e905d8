SPECIFICATION FairSpec
CONSTANTS
  First = first
  Second = second
  Third = third
  Fourth = fourth
  Station = station
  High = high
  Low = low
  Unavailable = unavailable
  NoEntity = noEntity
  Entities = {station}
  Values = {high, low}
  Source <- Reports
  Delay = 1
  Tolerance = 1
  Ids <- FourIds
  LabelInputs <- LabelsOfTwo
  Orders <- OneOrder
  Grace = 1
  Default = low
  Retention = 1
  BatchSize = 1
  MaxBatch = 2
  MaxTime = 3
  MaxRecords = 3
INVARIANTS
  TypeOK
  QueueIsExact
  ResolutionsAreJustified
  NoSnapshotMissed
PROPERTIES
  DeadlinesAreHonoured
  InboxDrains
  LabelsEndure
  ImplementsResolutionQueue
