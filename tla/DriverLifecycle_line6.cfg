CONSTANTS
  Fds = {fd1, fd2}
  StreamIfaces = {s1, s2}
  CtlIfaces = {a1}
  NoIface = NoIface
  Transfers = 2
  SharedClose = FALSE
SPECIFICATION Spec
INVARIANT LiveHeld
CHECK_DEADLOCK FALSE
