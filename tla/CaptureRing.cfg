CONSTANTS
  RingBytes = 5
  Stride = 2
  CursorMod = 10
  Numbers = 6
  Packets = {1}
  PerTransfer = 2
  Quanta = {1, 2}
  Limit = 1
  MaxCredit = 3
  RenderJoined = TRUE
SPECIFICATION Spec
INVARIANT ReadUndisturbed
INVARIANT NoSilentGap
PROPERTY ImplementsLossyFifo
