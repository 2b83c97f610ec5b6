SPECIFICATION FairSpec
CONSTANTS
  N = 4
  Programs <- MCPrograms
INVARIANTS
  OwnBoard
  AllFound
  ResultsDelivered
  FramesOutlive
  IInv
PROPERTY
  PromiseKept
  AnswerChecked
