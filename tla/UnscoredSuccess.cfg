SPECIFICATION Spec
CONSTANTS
  ref = ref
  foreign = foreign
  Unit = 4
  FragmentSize = 2
  Overlap = 1
  Maximum = 4
  PackFloor = 2
  HalfFloor = 3
  MaxEntries = 3
  MaxMedia = 1
  MaxRounds = 4
  MaxTries = 2
  MaxNotes = 2
  MaxFaults = 1
  Sources <- Evidence
  Answers <- SomeAnswers
  Verified <- VerifiedRefs
  Elites <- EliteAgents
  Births = 3
  Reports <- SomeReports
  Benchmarks <- RoundedBenchmarks
INVARIANTS
  ContractIsScored
CHECK_DEADLOCK FALSE
