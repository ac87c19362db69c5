CONSTANTS
  WordBits = 2
  WidthBits = 2
  EpochMod = 4
  HkdfOutcomes = {TRUE}
  NoKey = NoKey
  Secret = bench_psk
  Period = 0
  Replay = TRUE
  MaxBatch = 2
  RxCap = 5
  SealOutcomes = {TRUE}
  GenSecret = bench_psk
  GenPeriod = 0
  MaxSent = 3
  Budget = 4
  Reorder = TRUE
  MaxLost = 1
  MaxDuplicated = 1
  MaxDamaged = 1
  MaxStray = 1
  MaxRefused = 1
  HeaderSeqs = {1, 6}
SPECIFICATION FairSpec
INVARIANTS
  ForwardedOnce
  DropsJustified
PROPERTY AllForwarded
