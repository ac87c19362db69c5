CONSTANTS
  WordBits = 2
  WidthBits = 2
  EpochMod = 4
  HkdfOutcomes = {TRUE}
  NoKey = NoKey
  Secret = bench_key
  Period = 0
  Replay = TRUE
  MaxBatch = 2
  RxCap = 4
  SealOutcomes = {TRUE}
  GenSecret = bench_psk
  GenPeriod = 0
  MaxSent = 3
  Budget = 4
  Reorder = FALSE
  MaxLost = 0
  MaxDuplicated = 0
  MaxDamaged = 0
  MaxStray = 0
  MaxRefused = 0
  HeaderSeqs = {}
SPECIFICATION FairSpec
PROPERTY AllForwarded
