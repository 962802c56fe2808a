\* The AMD GPUs of parts.cfg.
SPECIFICATION PartsSpec
CONSTANTS
  NoEntry = NoEntry
  MaxInc = 2
  MaxBytes = 3
  Modulus = 8
  Core <- ThreeCores
  Frequency <- TwoFrequencies
  NoCore = NoCore
  CounterRange = 4
  Word = 8
  Dev <- TwoGPUs
  Versions <- PairsOfVersions
  Valids <- EitherHalf
  MaxTable = 1
  Reason <- FourReasons
  Files <- ThreeFiles
  MaxBroken = 2
  XeFd <- OneFd
  MaxClients = 1
  XeWord = 8
  MaxCycles = 1
  MaxDoubled = 0
  NvPid <- TwoPids
  NvMemory <- TwoPids
  MaxFails = 2
  IntRange = 6
  TimeRange = 24
  MaxTime = 6
  ThirdDigit = {0, 2}
  Chips = 2
  Sensors = 2
  File <- Temperatures
  Matching <- OfSensors
  Unreadable <- Locked
  NoFile = NoFile
  Daemon <- ThreeDaemons
INVARIANTS
  CorePowerIsSum
CHECK_DEADLOCK FALSE
