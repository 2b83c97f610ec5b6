SPECIFICATION FairSpec
CONSTANTS
  ElementCount = 4
  ProducerCount <- MCWorkers
  ConsumerCount <- MCWorkers
  SizeMax = 4
INVARIANTS
  OneHolder
  StopsAfterLast
  NoFailure
  IInv
PROPERTY
  PromiseKept
