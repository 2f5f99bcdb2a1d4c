CONSTANTS
  Games <- MCGames
  Paths <- MCPaths
  Default = "small"
  Start = "default"
  Core <- MCCore
  Ram <- MCRam
  Battery <- MCBattery
  MaxTime = 1
  MaxSaves = 2
  MaxFreed = 1
  ReadsFail = FALSE
SPECIFICATION Spec
INVARIANTS
  FilesOwn MachineWhole
PROPERTIES
  StateRestored UnreadNotOverwritten
