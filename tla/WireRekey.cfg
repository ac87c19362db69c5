CONSTANTS
  WordBits = 2
  WidthBits = 2
  EpochMod = 4
  HkdfOutcomes = {TRUE}
  NoKey = NoKey
  Secret = bench_psk
  Period = 2
  Replay = TRUE
  MaxBatch = 2
  RxCap = 4
  SealOutcomes = {TRUE}
  GenSecret = bench_psk
  GenPeriod = 2
  MaxSent = 4
  Budget = 4
  Reorder = FALSE
  MaxLost = 0
  MaxDuplicated = 0
  MaxDamaged = 0
  MaxStray = 0
  MaxRefused = 0
  HeaderSeqs = {}
SPECIFICATION Spec
INVARIANT OnlyDamageFailsAuth
