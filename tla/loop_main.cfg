\* The main thread, with three descriptors left, and clients that ask again
\* before they have read the last reply; one may stop to send.
SPECIFICATION Spec
CONSTANTS
  Fd <- ThreeFds
  Listen = 3
  Threads <- MainThread
  SndBuf = 1
  MaxRequests = 1
  MaxBacklog = 1
  Halves <- OneFd
INVARIANTS
  TypeOK
  PollsOpenConnections
PROPERTIES
  ClosedForCause
CHECK_DEADLOCK FALSE
