\* One part at a time: two processes in turn with up to two bytes each way;
\* three cores; a counter that wraps at 4; an AMD GPU with two tables; two
\* processes on an Nvidia GPU.  The other parts are small:
\* no liveness is about them.  A part may come to rest where its bounds are
\* reached.
SPECIFICATION FairPartsSpec
CONSTANTS
  NoEntry = NoEntry
  MaxInc = 2
  MaxBytes = 2
  Modulus = 8
  Core <- ThreeCores
  Frequency <- OneFrequency
  NoCore = NoCore
  CounterRange = 4
  Word = 8
  Dev <- OneGPU
  Versions <- LongAndUnknown
  Valids <- EitherHalf
  MaxTable = 1
  Reason <- TwoReasons
  Files <- PowerFiles
  MaxBroken = 1
  XeFd <- OneFd
  MaxClients = 1
  XeWord = 8
  MaxCycles = 1
  MaxDoubled = 0
  NvPid <- TwoPids
  NvMemory <- TwoPids
  MaxFails = 2
  IntRange = 6
  TimeRange = 24
  MaxTime = 1
  ThirdDigit = {0}
  Chips = 1
  Sensors = 2
  File <- Temperatures
  Matching <- OfSensors
  Unreadable <- Locked
  NoFile = NoFile
  Daemon <- OneDaemon
PROPERTIES
  IdleShowsZero
  Settles
  NoEnergyNoPower
  FollowsTable
  MemorySettles
CHECK_DEADLOCK FALSE
