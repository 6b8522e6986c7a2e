SPECIFICATION Spec
CONSTANTS
  PoolSize = 2
  QueueCapacity = 4
  Gated = FALSE
  MaxEpoch = 8
INVARIANTS
  PlansExclusive
  NoPlanLost
  ExecutedIsStable
PROPERTY ImplementsSlot
