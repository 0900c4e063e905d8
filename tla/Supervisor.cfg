SPECIFICATION FairSpec
CONSTANTS
  Wiki = wiki
  Bikes = bikes
  Collect = collect
  Learn = learn
  Main = main
  Scheduler = scheduler
  Tasks <- TwoTasks
  Roles <- TwoRoles
  MaxFailures = 2
  MaxRetries = 1
INVARIANTS
  TypeOK
  NoFailureIsSwallowed
  OrderlyStopDrains
PROPERTIES
  ContainerEnds
CHECK_DEADLOCK FALSE
