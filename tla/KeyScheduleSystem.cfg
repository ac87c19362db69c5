CONSTANTS
  EpochMod = 3
  HkdfOutcomes = {TRUE, FALSE}
  NoKey = NoKey
  Secret = Secret
  Periods = {0, 1, 2, 3}
  MaxPresented = 7
SPECIFICATION ScheduleSpec
INVARIANTS
  SaltMatchesKey
  KeysNeverRecur
PROPERTY RekeyKeepsPrevious
