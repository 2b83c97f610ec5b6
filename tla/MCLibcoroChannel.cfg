SPECIFICATION FairSpec
CONSTANTS
  ElementCount = 4
  ProducerCount <- MCWorkers
  ConsumerCount <- MCWorkers
  SizeMax = 4
INVARIANTS
  OneShutdown
  NoFailure
  IInv
PROPERTIES
  EveryPushAccepted
  PromiseKept
