SPECIFICATION ScoreboardSpec
CONSTANTS
  Sizes <- SmallSizes
INVARIANTS
  CohortsPartition
  TrustFollowsCohorts
CHECK_DEADLOCK FALSE
