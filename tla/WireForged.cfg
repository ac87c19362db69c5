CONSTANTS
  WordBits = 2
  WidthBits = 2
  EpochMod = 4
  HkdfOutcomes = {TRUE}
  NoKey = NoKey
  Secret = bench_psk
  Period = 0
  Replay = TRUE
  MaxBatch = 2
  RxCap = 4
  SealOutcomes = {TRUE}
  GenSecret = bench_psk
  GenPeriod = 0
  MaxSent = 3
  Budget = 4
  Reorder = FALSE
  MaxLost = 0
  MaxDuplicated = 0
  MaxDamaged = 1
  MaxStray = 0
  MaxRefused = 0
  HeaderSeqs = {6}
SPECIFICATION Spec
INVARIANT OnlyVerifiedMoveWindow
