SPECIFICATION FairSpec
CONSTANTS
  N = 2
  BaseCase = 1
  Sizes <- MCSizes
  Runtimes <- MCRuntimes
INVARIANTS
  OneWriter
  RightProducts
  ReturnMeansDone
  IInv
PROPERTY
  PromiseKept
