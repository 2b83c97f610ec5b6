SPECIFICATION FairSpec
CONSTANTS
  ElementCount = 4
  ProducerCount <- MCWorkers
  ConsumerCount <- MCWorkers
  SizeMax = 4
PROPERTIES
  PromiseSpec
  EveryCallEnds
