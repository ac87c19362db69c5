SPECIFICATION Spec
CONSTANTS
  Blk = 2
  Lens = {0, 1, 2, 3, 7, 8, 11, 17, 33, 41}
  AadLens = {0, 3, 11}
INVARIANTS SealsByTheStandard OpensWhatWasSealed
