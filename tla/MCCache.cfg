SPECIFICATION Spec
CONSTANTS
  r1 = r1
  r2 = r2
  r3 = r3
  r4 = r4
  a = a
  b = b
  c1 = c1
  c2 = c2
  c3 = c3
  Requests <- FourRequests
  Prompt <- TurnPrompt
  MaxOutput <- OneOutput
  Conversation <- TurnConversation
  RoguePlans <- NoRoguePlans
  Natural = {r1}
  Synthetic = {}
  QueueCapacity = 2
  TokenBudget = 2
  BatchCapacity = 2
  ContextSize = 3
  MaxSequences = 1
  CacheCapacity = 2
  EndOfSequence = {FALSE}
  Streaming = FALSE
  MayStop = FALSE
  LateSubmit = FALSE
  Faults = {"restore", "save"}
INVARIANTS
  CacheWellFormed
  PlanFitsEnvironment
PROPERTY
  UsedPrefixStays
