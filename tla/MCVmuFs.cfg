CONSTANTS
  NumBlocks = 4
  NumSlots = 4
  PhaseLen = 2
  Names = {"sram", "settings"}
  Settings = "settings"
  OtherName = "other"
  MaxSize = 3
  MaxVersion = 3
  MaxFaults = 2
  Misreads = FALSE
SPECIFICATION Spec
INVARIANTS
  NoDanglingFile ChainsMatchEntries NoLeak
PROPERTIES
  ImplementsSaveStore
CHECK_DEADLOCK FALSE
