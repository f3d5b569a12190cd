\* A poll and a push on one engine, on either store, with one crash or prune.
SPECIFICATION FairSpec
CONSTANTS
  Handlers = {h1, h2}
  h1 = h1
  h2 = h2
  Harvests <- PollAndPush
  Capacity = 3
  BatchSize = 2
  MinSamples = 1
  WindowSize = 3
  Threshold = 3
  CorrelationWindow = 1
  MaxDepth = 2
  Backends <- BothBackends
  MaxFaults = 1
  Retired = {"svc"}
INVARIANTS
  TypeOK
  LossIsCounted
  EachEventIsInOnePlace
  StoresAgreeOnImpact
  MajorityDecides
PROPERTIES
  UpstreamIsNotSeconded
  IncidentsAreLinked
  BufferEmpties
\* Every handler is called once: the instance ends when they have.
CHECK_DEADLOCK FALSE
