CONSTANTS
  Out = {o1, o2}
  Fb = {}
  In = {i1}
  ImplicitFeedback = TRUE
  Packets = 1
  EntryFrames = {1, 2}
  MaxPacketFrames = 1
  NominalFrames = {1}
  FifoCapacity = 2
  PendingSlots = 2
  InitialFrames = 1
  Prime = 2
  Target = 1
  Headroom = 1
  RingFrames = 2
  Quantum = 1
  TimedWait = TRUE
  Deadlines = TRUE
SPECIFICATION FairSpec
INVARIANT TypeOK
INVARIANT InflightExact
INVARIANT CaptureTeardownSafe
INVARIANT PendingOwned
INVARIANT PendingHasSlot
PROPERTY NeverOvertaken
PROPERTY DeferredResumes
PROPERTY TeardownCompletes
