SPECIFICATION FairSpec
CONSTANTS
  environment = environment
  main = main
  Notifiers <- MCNotifiers
  Channels = 3
  Producer <- MCProducer
  Timeouts = TRUE
  MaxGeneration = 5
INVARIANTS
  NoLostWakeup
PROPERTY EventuallyNoticed
