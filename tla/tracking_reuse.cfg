\* A pid that the kernel hands out again at any moment.
SPECIFICATION TimedSpec
CONSTANTS
  p1 = p1
  p2 = p2
  g1 = g1
  g2 = g2
  Absent = Absent
  Pid <- OnePid
  GPU <- OneGPU
  FDInfoGPU <- OneGPU
  MaxInc = 2
PROPERTIES
  KeepsPromise
  RequestAnswered
  DeadForgotten
  SampleArrives
