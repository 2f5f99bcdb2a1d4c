CONSTANTS
  Carts <- MCCarts
  Bytes <- MCBytes
  MaxGames = 2
SPECIFICATION Spec
INVARIANTS
  WritesReadBack TablesMatchRegisters SelectionHonoured
CHECK_DEADLOCK FALSE
