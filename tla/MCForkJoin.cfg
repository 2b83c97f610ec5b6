SPECIFICATION FairSpec
CONSTANTS
  Programs <- MCPrograms
  How <- FibSkynetHow
  Threads = {w1, w2}
  Arity = 2
  fib_n = 4
  DepthMax = 2
  RootArg <- FirstArg
  IsLeaf <- NoCalls
  LeafValue <- BaseValue
  ChildArg <- Part
  Args <- Arguments
  Total <- Expected
INVARIANTS
  FramesOutlive
  ResultsDelivered
PROPERTY
  RightAnswer
