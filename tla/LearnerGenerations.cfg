SPECIFICATION FairSpec
CONSTANTS
  Online = online
  Static = static
  Models <- TwoModels
  LearningModels <- OneModel
  BatchSize = 1
  SharedUploads = FALSE
  MaxNumber = 2
  MaxUploads = 2
  MaxFaults = 1
INVARIANTS
  RestartEquivalence
PROPERTIES
  ResolvedEventsAreReleased
  CompletedStays
