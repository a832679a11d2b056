SPECIFICATION FairSpec
CONSTANTS
  ref = ref
  foreign = foreign
  Unit = 4
  FragmentSize = 2
  Overlap = 1
  Maximum = 4
  PackFloor = 2
  HalfFloor = 3
  MaxEntries = 3
  MaxMedia = 1
  MaxRounds = 4
  MaxTries = 2
  MaxNotes = 3
  MaxFaults = 2
  Sources <- Evidence
  Answers <- SomeAnswers
  Verified <- VerifiedRefs
  Elites <- EliteAgents
  Births = 3
  Reports <- SomeReports
  Benchmarks <- ExactBenchmarks
INVARIANTS
  EveryFragmentOnce
  LittleIsRepeated
  BoundedPrompts
PROPERTIES
  ReviewConverges
CHECK_DEADLOCK FALSE
