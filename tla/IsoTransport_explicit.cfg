CONSTANTS
  Out = {o1, o2}
  Fb = {f1}
  In = {i1}
  ImplicitFeedback = TRUE
  Packets = 1
  EntryFrames = {0, 1}
  MaxPacketFrames = 1
  NominalFrames = {1}
  FifoCapacity = 2
  PendingSlots = 2
  InitialFrames = 1
  Prime = 2
  Target = 1
  Headroom = 1
  RingFrames = 3
  Quantum = 1
  TimedWait = FALSE
  Deadlines = TRUE
SPECIFICATION FairSpec
INVARIANT TeardownSafe
PROPERTY WriterReleased
