\* The same instance, held to what the buffer promises of its drops.
SPECIFICATION Spec
CONSTANTS
  Handlers = {h1, h2}
  h1 = h1
  h2 = h2
  Harvests <- PollAndPush
  Capacity = 3
  BatchSize = 2
  MinSamples = 1
  WindowSize = 3
  Threshold = 3
  CorrelationWindow = 1
  MaxDepth = 2
  Backends <- BothBackends
  MaxFaults = 1
  Retired = {"svc"}
INVARIANTS
  DropsAreSurfaced
\* Every handler is called once: the instance ends when they have.
CHECK_DEADLOCK FALSE
