\* Two loops on one deployment, live, under the shipped thresholds.
SPECIFICATION Spec
CONSTANTS
  AutonomousMax = 30
  ApprovalMax = 60
  SeniorMax = 80
  EntityLimit = 5
  UserLimit = 1000
  VerdictTTL = 1
  Loops = {l1, l2}
  Offered <- ScaleOrRestart
  Requested <- ScalingOrNot
  Rehearsed <- ForReal
  Place = "dev"
  DryRun = FALSE
  Live = TRUE
  HoldSamples = 2
  Horizon = 1
  Values = {1, 2}
  MaxTime = 0
  MaxRestarts = 1
SYMMETRY Symmetry
INVARIANTS
  TypeOK
  EvidenceOfEveryRun
  NothingIsRetried
  ClosesOnAStateThatHeld
\* Every request is made once: the instance ends when the loops have.
CHECK_DEADLOCK FALSE
