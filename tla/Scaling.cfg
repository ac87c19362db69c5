SPECIFICATION ScalingSpec
CONSTANTS
  Kinds = {"std::thread", "openmp", "mpi"}
  MaxShards = 3
  Reps = 2
  Quota = 2
  GuardLimit = 1
INVARIANTS TimedTogether RowsCountWholePools CollectivesMatch
PROPERTY FragmentWritten
