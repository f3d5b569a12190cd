\* Two closed remediations, one of each, or every pair of verdicts over contexts on both sides of each threshold.
SPECIFICATION Spec
CONSTANTS
  AutonomousMax = 30
  ApprovalMax = 60
  SeniorMax = 80
  EntityLimit = 5
  UserLimit = 1000
  VerdictTTL = 1
  Actions <- PricedActions
  Places <- AllPlaces
  DryRun = TRUE
  Horizon = 0
  MaxTime = 1
  MaxActivity = 2
  Facts <- BoundaryFacts
  Limits <- PricedLimits
INVARIANTS
  TypeOK
  WorseFactsNeverEarnMoreAuthority
  UnattendedIsBounded
PROPERTIES
  OnlyAgeForgetsFailures
  LessonsStayWhereTheyWereLearned
\* Bounded clock, records and verdicts: the instance stops when they are used up.
CHECK_DEADLOCK FALSE
