CONSTANTS
  Out = {o1}
  Fb = {}
  In = {i1}
  ImplicitFeedback = TRUE
  Packets = 1
  EntryFrames = {0, 1}
  MaxPacketFrames = 1
  NominalFrames = {1}
  FifoCapacity = 2
  PendingSlots = 2
  InitialFrames = 1
  Prime = 2
  Target = 1
  Headroom = 1
  RingFrames = 2
  Quantum = 1
  TimedWait = FALSE
  Deadlines = FALSE
SPECIFICATION Spec
INVARIANT TeardownSafe
