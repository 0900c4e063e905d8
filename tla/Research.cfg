SPECIFICATION FairSpec
CONSTANTS
  Scheduled = scheduled
  Operator = operator
  Runners <- TwoRunners
  Weeks = 3
  LargeWeeks <- LaterWeeks
  MaxArtifacts = 2
  MaxDeletions = 1
  MaxFaults = 1
  Budget = 2
  Improvements <- SomeImprovements
  MinImprovement = 1
  NaN = NaN
  Infinity = 2
  CallsAtOnce = 2
INVARIANTS
  TypeOK
  ReferencesResolve
  ChampionIsAccountedFor
  GarbageIsCollected
  OnlyDeathLeavesRunning
  ProposalIsBest
PROPERTIES
  PassesFinishTheirOwn
  ExperimentsEnd
CHECK_DEADLOCK FALSE
