\* Two descriptors, two clients, a scan at every other poll.
SPECIFICATION Spec
CONSTANTS
  c1 = c1
  c2 = c2
  c3 = c3
  None = None
  Fd <- TwoFds
  Client <- TwoClients
  MaxTime = 2
  Rescan = 2
  Interval = 2
  Modulus = 16
INVARIANTS
  TypeOK
  CountedOnce
  
PROPERTIES
  CatchesUp
  IdleSettles
CHECK_DEADLOCK FALSE
