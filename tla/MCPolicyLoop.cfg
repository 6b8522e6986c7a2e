SPECIFICATION Spec
CONSTANTS
  Policies = {"fifo", "continuous", "cache_aware", "aimd", "proxqp"}
  FairPolicies = {"fifo", "continuous", "aimd"}
  Shapes <- MCShapes
  Slots = 3
  LocalityWindow = 2
  TokenBudget = 2
  BatchCapacity = 2
  MaxSequences = 3
  MemoryTokens = 3
  MaxPrefillChunk = 2
  MaxChunk = 2
  PrefillWindow = 2
  MinWindow = 1
  MaxWindow = 2
  WindowStep = 1
  StarvationThreshold = 2
  MaxDecodeBatches = 2
INVARIANTS
  BoundedBypass
  EmptyOnlyWhenNothingFits
  OvertakesOnlyInWindow
PROPERTY
  StarvationFree
