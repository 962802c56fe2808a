\* Three cores, of which two come and go.
SPECIFICATION CPUSpec
CONSTANTS
  Core <- ThreeCores
  Frequency <- TwoFrequencies
  NoCore = NoCore
INVARIANTS
  MaximumOfItsCores
