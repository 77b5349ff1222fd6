CONSTANTS
  Waiters = {w1}
  Draining = {w1}
  Timed = {w1}
  Capture = TRUE
  MaxFrames = 4
  Need = 2
SPECIFICATION FairSpec
INVARIANT CountExact
INVARIANT NoLostWakeup
PROPERTY StopReleasesWaiters
CHECK_DEADLOCK FALSE
