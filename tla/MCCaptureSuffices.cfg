\* The captured state of a scale lacks the deployment it is about.
SPECIFICATION Spec
CONSTANTS
  AutonomousMax = 30
  ApprovalMax = 60
  SeniorMax = 80
  EntityLimit = 5
  UserLimit = 1000
  VerdictTTL = 1
  Loops = {l1}
  Offered <- Scale
  Requested <- Scaling
  Rehearsed <- ForReal
  Place = "dev"
  DryRun = FALSE
  Live = TRUE
  HoldSamples = 2
  Horizon = 1
  Values = {1, 2}
  MaxTime = 0
  MaxRestarts = 0
INVARIANTS
  CaptureSuffices
\* Every request is made once: the instance ends when the loops have.
CHECK_DEADLOCK FALSE
