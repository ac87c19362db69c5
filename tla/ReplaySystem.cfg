CONSTANTS
  WordBits = 3
  WidthBits = 7
  MaxSeq = 12
  MaxDrops = 2
SPECIFICATION ReplaySpec
INVARIANTS
  AtMostOnce
  BitmapExact
PROPERTY KeepsPromise
