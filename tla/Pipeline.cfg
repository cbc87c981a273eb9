SPECIFICATION FairSpec
CONSTANTS
  SeqMod = 4
  num_symbols = 3
  batch_size = 2
  FaultPeriod = 2
  TICK_SIZE = 2
  MinPrice = 4
  initial_price = 5
  NewPrices <- MCNewPrices
  HalfSpread <- MCHalfSpread
  MaxMessages = 3
  MaxWire = 2
  NumEntries = 2
  TOP_N_SYMBOLS = 1
  MaxFaults = 1
INVARIANTS TypeOK GapsAccounted HeaderNotAhead TopSymbolsShown RowsPriced
PROPERTY DisplayCatchesUp
CHECK_DEADLOCK FALSE
