CONSTANTS
  Fds = {fd1, fd2}
  StreamIfaces = {s1, s2}
  CtlIfaces = {a1}
  NoIface = NoIface
  Transfers = 2
  SharedClose = FALSE
SPECIFICATION FairSpec
INVARIANT ClaimsTracked
INVARIANT GenericLiveHeld
INVARIANT ReleasedQuiescent
INVARIANT FreshStart
PROPERTY CallsReturn
CHECK_DEADLOCK FALSE
