SPECIFICATION Spec
CONSTANTS
  AesSeeds = {0, 91, 202}
  PolyMax = 4
  W = 6
INVARIANTS MulAgrees BlockPathsAgree PolyExact
