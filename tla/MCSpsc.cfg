SPECIFICATION FairSpec
CONSTANTS
  v1 = v1
  v2 = v2
  Raw = Raw
  Capacity = 4
  Modulus = 8
  Values <- MCValues
INVARIANTS
  NoSlotRace
  DestroyedAll
PROPERTY ImplementsQueue
CHECK_DEADLOCK FALSE
PROPERTY EventuallyTaken
