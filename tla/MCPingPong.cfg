SPECIFICATION FairSpec
CONSTANTS
  CONNECTION_COUNT = 2
  REQUEST_COUNT = 3
  Programs <- MCPrograms
  Punctual <- MCPunctual
  MaxPieces = 2
  MaxResets = 1
INVARIANTS
  HonestReport
  ResultsOutlive
PROPERTIES
  PromiseKept
  EveryRunEnds
