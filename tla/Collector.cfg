SPECIFICATION FairSpec
CONSTANTS
  A = a
  B = b
  C = c
  D = d
  Records <- FourRecords
  Stream <- Stream4
  MaxItems = 2
  MaxPending = 3
  MaxFaults = 4
INVARIANTS
  TypeOK
  NothingSkipped
  BatchIsBounded
PROPERTIES
  ResumesForGood
  EverythingArrives
