CONSTANTS
  WordBits = 2
  WidthBits = 4
  EpochMod = 3
  HkdfOutcomes = {TRUE}
  NoKey = NoKey
  Secret = bench_key
  Period = 1
  Replay = TRUE
  MaxBatch = 1
  RxCap = 1
  SealOutcomes = {TRUE, FALSE}
  Warmup = 1
  Target = 3
  StageWindow = 2
  GuardLimit = 1
  SendFails = TRUE
SPECIFICATION Spec
INVARIANTS
  NoncesFresh
  StagedVerify
  MeasuredOnce
PROPERTY Terminates
