SPECIFICATION Spec
CONSTANTS
  Capacity = 4
  PosMod = 8
  MaxLen = 4
  MaxBytes = 12
INVARIANTS TypeOK RingInv NoByteTwice
PROPERTY IsByteFifo
