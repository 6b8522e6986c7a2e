SPECIFICATION FairSpec
CONSTANTS
  r1 = r1
  r2 = r2
  r3 = r3
  r4 = r4
  a = a
  b = b
  c1 = c1
  c2 = c2
  c3 = c3
  Requests <- TwoRequests
  Prompt <- ShortPrompt
  MaxOutput <- OneOutput
  Conversation <- NoConversations
  RoguePlans <- NoRoguePlans
  Natural = {}
  Synthetic <- TwoRequests
  QueueCapacity = 2
  TokenBudget = 3
  BatchCapacity = 3
  ContextSize = 4
  MaxSequences = 1
  CacheCapacity = 1
  EndOfSequence = {FALSE}
  Streaming = FALSE
  MayStop = FALSE
  LateSubmit = TRUE
  Faults = {"decode"}
PROPERTIES
  DrainEnds
