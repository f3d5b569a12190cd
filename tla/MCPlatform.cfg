\* Two requests at a time, three in all, of one family of requests; one of them may die.
SPECIFICATION Spec
CONSTANTS
  Handlers = {h1, h2}
  h1 = h1
  h2 = h2
  Emails = {"e1", "e2"}
  Subjects = {"g1"}
  Company = "c"
  Passwords = {"p", "q"}
  LockAfter = 1
  SignalCap = 1
  MailEnabled = TRUE
  FeedOrder <- TwoFeeds
  OldestFirst = {"nvd"}
  Limit = 1
  FirstLimit = 1
  RecentCap = 1
  MaxEntries <- TwoEntries
  Scenarios = {"s1"}
  Scores = {60, 70, 90}
  KeepsStreak = 70
  Clean = 90
  Scripts <- TwoScripts
  Worlds <- BothWorlds
  MaxRequests = 3
  MaxDeaths = 1
SYMMETRY Symmetry
INVARIANTS
  TypeOK
  OneWinner
  InviteWorks
  MembershipsAgree
  SeededIsWhole
  CursorFollowsTheWrite
  IndexIsComplete
PROPERTIES
  ProgressIsKept
\* The requests of a behaviour are bounded.
CHECK_DEADLOCK FALSE
