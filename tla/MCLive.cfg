SPECIFICATION FairSpec
CONSTANTS
  r1 = r1
  r2 = r2
  r3 = r3
  r4 = r4
  a = a
  b = b
  c1 = c1
  c2 = c2
  c3 = c3
  Requests <- ThreeRequests
  Prompt <- PressurePrompt
  MaxOutput <- PressureOutput
  Conversation <- NoConversations
  RoguePlans <- NoRoguePlans
  Natural = {}
  Synthetic <- ThreeRequests
  QueueCapacity = 2
  TokenBudget = 2
  BatchCapacity = 2
  ContextSize = 2
  MaxSequences = 1
  CacheCapacity = 1
  EndOfSequence = {FALSE}
  Streaming = FALSE
  MayStop = TRUE
  LateSubmit = FALSE
  Faults = {"decode", "sampler"}
INVARIANTS
  TypeOK
PROPERTIES
  ImplementsLifecycle
  EveryRequestEnds
  DrainEnds
