SPECIFICATION Spec
CONSTANTS
  Online = online
  Static = static
  Models <- OneModel
  LearningModels <- OneModel
  BatchSize = 2
  SharedUploads = FALSE
  MaxNumber = 2
  MaxUploads = 1
  MaxFaults = 1
INVARIANTS
  SkippedWorkIsReleased
