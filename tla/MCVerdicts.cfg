\* A durable store whose appends may fail, or none, and a restart into any configuration.
SPECIFICATION Spec
CONSTANTS
  AutonomousMax = 30
  ApprovalMax = 60
  SeniorMax = 80
  EntityLimit = 5
  UserLimit = 1000
  VerdictTTL = 1
  Requests = {r1, r2, r3}
  Actions <- GrantableOrNot
  Facts <- Routine
  Limits <- NoLimits
  Durabilities = {TRUE, FALSE}
  SecretSet = FALSE
  Configs <- DryOrLive
  MaxTime = 2
  MaxRestarts = 1
SYMMETRY Symmetry
INVARIANTS
  TypeOK
  NoHollowApproval
  AcceptedMeansEvaluated
  RehearsalsStayRehearsals
PROPERTIES
  RunsAreAccountable
CHECK_DEADLOCK FALSE
