\* Either thread, with two descriptors left; clients of the main thread ask
\* again before they have read the last reply; any may stop to send.
SPECIFICATION Spec
CONSTANTS
  Fd <- TwoFds
  Listen = 3
  Threads <- BothThreads
  SndBuf = 1
  MaxRequests = 1
  MaxBacklog = 1
  Halves <- TwoFds
PROPERTIES
  ConnectionEnds
  TurnComes
  Stops
CHECK_DEADLOCK FALSE
