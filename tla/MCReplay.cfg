SPECIFICATION Spec
CONSTANTS
  c1 = c1
  c2 = c2
  none = none
  Trace <- MCTrace
  NoConversation = none
  MaxRequests = 4
  MaxDuration = 2
  Second = 1
  TargetQps = 1
  SequenceOptions = {16, 24}
  Poll = 2
  MaxService = 2
  MaxLag = 1
  Faults = {"open", "startup", "create", "trace", "run_once", "row", "flush", "summary", "rename", "remove", "other", "crash"}
INVARIANTS
  TypeOK
  TurnsInOrder
  PublishedIsComplete
  NoLeftovers
  ThreadsJoined
PROPERTIES
  ReplayEnds
