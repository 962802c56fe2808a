\* Two clients, a GPU whose driver does not use fdinfo.
SPECIFICATION TimedSpec
CONSTANTS
  p1 = p1
  p2 = p2
  g1 = g1
  g2 = g2
  Absent = Absent
  Pid <- TwoPids
  GPU <- OneGPU
  FDInfoGPU <- NoGPU
  MaxInc = 1
INVARIANTS
  TypeOK
  ServedStaysTracked
  LostUpdateHealed
