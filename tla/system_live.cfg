SPECIFICATION FairSpec
CONSTANTS
  Nodes = 3
  Machines <- MCLiveMachines
  Slots = 3
  FirstReading <- MCLiveFirst
  MaxReading <- MCLiveMax
  Uninterrupted <- MCUninterrupted
PROPERTIES
  SettlesOnHardware
  Terminates
