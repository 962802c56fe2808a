\* The api thread: one response per connection.
SPECIFICATION Spec
CONSTANTS
  Fd <- TwoFds
  Listen = 3
  Threads <- ApiThread
  SndBuf = 1
  MaxRequests = 1
  MaxBacklog = 2
  Halves <- TwoFds
PROPERTIES
  BrokenClosed
CHECK_DEADLOCK FALSE
