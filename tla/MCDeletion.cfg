\* One request at a time: a reset link, a deletion, and the link.
SPECIFICATION Spec
CONSTANTS
  Handlers = {h1}
  h1 = h1
  Emails = {"e1", "e2"}
  Subjects = {"g1"}
  Company = "c"
  Passwords = {"p", "q"}
  LockAfter = 1
  SignalCap = 1
  MailEnabled = TRUE
  FeedOrder <- TwoFeeds
  OldestFirst = {"nvd"}
  Limit = 1
  FirstLimit = 1
  RecentCap = 2
  MaxEntries <- TwoEntries
  Scenarios = {"s1"}
  Scores = {60, 70, 90}
  KeepsStreak = 70
  Clean = 90
  Scripts <- TwoScripts
  Worlds <- AlongADeletion
  MaxRequests = 3
  MaxDeaths = 0
INVARIANTS
  DeletionIsReal
CHECK_DEADLOCK FALSE
