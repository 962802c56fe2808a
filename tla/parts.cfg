\* One part at a time: two processes in turn with up to three bytes each way;
\* three cores; a line of up to six jiffies in an int of six; a counter that
\* wraps at 4; two chips with five files and two sensors; two AMD GPUs with
\* two tables each; three throttle files and a reason without one; three
\* descriptors of two processes with two xe clients for two cycles; two
\* processes on an Nvidia GPU; three daemons.  A part may come to rest where its bounds are reached.
SPECIFICATION PartsSpec
CONSTANTS
  NoEntry = NoEntry
  MaxInc = 2
  MaxBytes = 3
  Modulus = 8
  Core <- ThreeCores
  Frequency <- TwoFrequencies
  NoCore = NoCore
  CounterRange = 4
  Word = 8
  Dev <- TwoGPUs
  Versions <- PairsOfVersions
  Valids <- EitherHalf
  MaxTable = 1
  Reason <- FourReasons
  Files <- ThreeFiles
  MaxBroken = 2
  XeFd <- ThreeFds
  MaxClients = 2
  XeWord = 8
  MaxCycles = 2
  MaxDoubled = 0
  NvPid <- TwoPids
  NvMemory <- TwoPids
  MaxFails = 2
  IntRange = 6
  TimeRange = 24
  MaxTime = 6
  ThirdDigit = {0, 2}
  Chips = 2
  Sensors = 2
  File <- Temperatures
  Matching <- OfSensors
  Unreadable <- Locked
  NoFile = NoFile
  Daemon <- ThreeDaemons
INVARIANTS
  PartsTypeOK
  RatesAddUp
  OneBadPoll
  SideBySide
  EnergyAddsUp
  OwnFile
  OwnFigures
  ReportsWhatHeld
  CyclesAddUp
PROPERTIES
  LoneStartSucceeds
CHECK_DEADLOCK FALSE
