\* Two threads, three requests, one of them on the other model.
SPECIFICATION FairSpec
CONSTANTS
  Callers = {c1, c2}
  c1 = c1
  c2 = c2
  Requests <- TwoCallers
  Providers <- Singles
  HasTools = {"default"}
  Threshold = 2
  Cooldown = 1
  MaxAttempts = 2
  Ceiling = 2
  TokenCeiling = 2
  MaxHops = 1
  Incidents = {"i"}
  Evidence = {"e1"}
  ToolRefs = {"t"}
  Messages <- Replies
  MaxRequests = 3
  MaxTime = 1
INVARIANTS
  TypeOK
  EverySpendIsAccounted
  ConversationIsBounded
PROPERTIES
  BreakerHolds
  RepeatedAnswersStand
  RequestsEnd
\* The instance ends when the requests have been served.
CHECK_DEADLOCK FALSE
