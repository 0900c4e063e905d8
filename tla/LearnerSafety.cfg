SPECIFICATION Spec
CONSTANTS
  Online = online
  Static = static
  Models <- OneModel
  LearningModels <- OneModel
  BatchSize = 2
  SharedUploads = FALSE
  MaxNumber = 3
  MaxUploads = 1
  MaxFaults = 2
INVARIANTS
  TypeOK
  RestartEquivalence
  CleanLearning
  RowsTellTheState
  CursorsSkipNothing
PROPERTIES
  LearningSurvives
