SPECIFICATION Spec
CONSTANTS
  Online = online
  Static = static
  Models <- TwoModels
  LearningModels <- OneModel
  BatchSize = 2
  SharedUploads = TRUE
  MaxNumber = 2
  MaxUploads = 2
  MaxFaults = 0
INVARIANTS
  NewModelsStartFresh
