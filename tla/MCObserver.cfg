SPECIFICATION Spec
CONSTANTS
  r1 = r1
  r2 = r2
  r3 = r3
  r4 = r4
  a = a
  b = b
  c1 = c1
  c2 = c2
  c3 = c3
  Requests <- TwoRequests
  Prompt <- MixedPrompt
  MaxOutput <- MixedOutput
  Conversation <- NoConversations
  RoguePlans <- BadPlans
  Natural = {}
  Synthetic <- TwoRequests
  QueueCapacity = 2
  TokenBudget = 2
  BatchCapacity = 3
  ContextSize = 4
  MaxSequences = 2
  CacheCapacity = 1
  EndOfSequence = {FALSE}
  Streaming = TRUE
  MayStop = FALSE
  LateSubmit = FALSE
  Faults = {"observer", "policy"}
INVARIANTS
  MarkersExact
  CountsExact
  PlanFitsEnvironment
  OneEpochOutstanding
  SuccessIsComplete
  SuccessfulBatchesAreFolded
  ShippedPoliciesConform
