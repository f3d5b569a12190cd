\* Fairness of every handler: the loop has no cycle, whatever it is asked.
SPECIFICATION FairSpec
CONSTANTS
  AutonomousMax = 30
  ApprovalMax = 60
  SeniorMax = 80
  EntityLimit = 5
  UserLimit = 1000
  VerdictTTL = 1
  Loops = {l1}
  Offered <- EachShape
  Requested <- ScalingOrNot
  Rehearsed <- RehearsedOrNot
  Place = "dev"
  DryRun = FALSE
  Live = TRUE
  HoldSamples = 2
  Horizon = 1
  Values = {1, 2}
  MaxTime = 2
  MaxRestarts = 1
PROPERTIES
  EveryLoopEnds
\* Every request is made once: the instance ends when the loops have.
CHECK_DEADLOCK FALSE
