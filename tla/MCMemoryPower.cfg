CONSTANTS
  Carts <- MCCarts
  Bytes <- MCBytes
  MaxGames = 2
SPECIFICATION Spec
PROPERTIES
  StartsPoweredUp
CHECK_DEADLOCK FALSE
