SPECIFICATION Spec
CONSTANTS
  Scheduled = scheduled
  Operator = operator
  Runners <- OneRunner
  Weeks = 2
  LargeWeeks <- LaterWeeks
  MaxArtifacts = 4
  MaxDeletions = 0
  MaxFaults = 0
  Budget = 1
  Improvements <- SomeImprovements
  MinImprovement = 1
  NaN = NaN
  Infinity = 2
  CallsAtOnce = 1
PROPERTIES
  PreparedPassIsRecorded
CHECK_DEADLOCK FALSE
