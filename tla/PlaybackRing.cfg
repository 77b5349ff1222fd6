CONSTANTS
  RingBytes = 8
  Stride = 3
  CursorMod = 16
  Quanta = {1, 2}
  Packets = {1, 2}
  Prime = 2
  Target = 1
  Headroom = 1
SPECIFICATION FairSpec
INVARIANT RegionsDisjoint
INVARIANT StopExcludesWriters
PROPERTY ImplementsFifo
PROPERTY StopReturns
