SPECIFICATION FairSpec
CONSTANTS
  N = 4
  BaseCase = 2
  Sizes <- MCSizes
  Runtimes <- MCRuntimes
INVARIANT
  NothingLost
PROPERTY
  PromiseSpec
