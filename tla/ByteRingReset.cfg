SPECIFICATION SpecWithReset
CONSTANTS
  Capacity = 4
  PosMod = 8
  MaxLen = 4
  MaxBytes = 12
INVARIANT NoByteTwice
