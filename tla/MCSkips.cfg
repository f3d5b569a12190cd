\* Polls of a feed that answers oldest first.
SPECIFICATION Spec
CONSTANTS
  Handlers = {h1, h2}
  h1 = h1
  h2 = h2
  Emails = {"e1", "e2"}
  Subjects = {"g1"}
  Company = "c"
  Passwords = {"p", "q"}
  LockAfter = 1
  SignalCap = 1
  MailEnabled = TRUE
  FeedOrder <- OneFeed
  OldestFirst = {"nvd"}
  Limit = 1
  FirstLimit = 1
  RecentCap = 2
  MaxEntries <- ThreeEntries
  Scenarios = {"s1"}
  Scores = {60, 70, 90}
  KeepsStreak = 70
  Clean = 90
  Scripts <- TwoScripts
  Worlds <- PolledFeeds
  MaxRequests = 3
  MaxDeaths = 0
SYMMETRY Symmetry
INVARIANTS
  NothingIsSkipped
\* The requests of a behaviour are bounded.
CHECK_DEADLOCK FALSE
