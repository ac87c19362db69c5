CONSTANTS
  WordBits = 2
  WidthBits = 2
  EpochMod = 2
  HkdfOutcomes = {TRUE}
  NoKey = NoKey
  Secret = bench_key
  Period = 0
  Replay = TRUE
  MaxBatch = 2
  RxCap = 2
  SealOutcomes = {TRUE}
  Contexts = {FALSE}
  MaxSent = 5
  Budget = 2
SPECIFICATION Spec
INVARIANT NoncesFresh
