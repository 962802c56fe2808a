SPECIFICATION Spec
CONSTANTS
  Nodes = 3
  Machines <- MCMachines
  Slots = 2
  FirstReading <- MCFirstReading
  MaxReading <- MCMaxReading
  Uninterrupted <- MCInterrupted
INVARIANTS
  TypeOK
  OnlyKnownRaces
  SnapshotWhole
  PowerIsRecent
