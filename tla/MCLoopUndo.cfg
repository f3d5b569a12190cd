\* A policy file under which Dharma grants some redeploys alone, so undos run.
SPECIFICATION Spec
CONSTANTS
  AutonomousMax = 54
  ApprovalMax = 70
  SeniorMax = 80
  EntityLimit = 5
  UserLimit = 1000
  VerdictTTL = 1
  Loops = {l1, l2}
  Offered <- DisableOrRedeploy
  Requested <- Imaging
  Rehearsed <- ForReal
  Place = "dev"
  DryRun = FALSE
  Live = TRUE
  HoldSamples = 2
  Horizon = 1
  Values = {1, 2}
  MaxTime = 0
  MaxRestarts = 0
SYMMETRY Symmetry
INVARIANTS
  UndoRunsOnItsOwnAuthority
PROPERTIES
  GuardedLoopSpec
  HistorySpec
\* Every request is made once: the instance ends when the loops have.
CHECK_DEADLOCK FALSE
