SPECIFICATION Spec
CONSTANTS
  MaxThreads = 2
  Runtimes <- MCRuntimes
  Benchmarks <- MCBenchmarks
  Sources <- MCSources
  Configs <- MCConfigs
  Params <- MCParams
  Refs <- MCRefs
  Machines <- MCMachines
  Durations <- MCDurations
  MaxRss <- MCMaxRss
  Datasets <- MCDatasets
INVARIANTS
  OfThisBuild
  ScaledToBest
PROPERTY
  SummariesAgree
