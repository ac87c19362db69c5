SPECIFICATION ScalingSpec
CONSTANTS
  Kinds = {"mpi"}
  MaxShards = 2
  Reps = 1
  Quota = 1
  GuardLimit = 1
PROPERTY EveryFragmentWritten
