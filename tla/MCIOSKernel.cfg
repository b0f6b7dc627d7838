SPECIFICATION FairSpec
CONSTANTS
  c1 = c1
  c2 = c2
  Callers <- MCCallers
  MultiCore = FALSE
  NumHandles = 2
  NumClients = 1
  PoolSize = 3
  QueueSize = 4
  LateResets = {2}
  MaxOpens = 3
  Titles = 2
INVARIANTS AssertionsHold HeldHandlesWork CommandsConserved ReleasedAtUnmount
PROPERTIES CallsReturn
