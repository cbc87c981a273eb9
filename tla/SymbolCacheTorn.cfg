SPECIFICATION Spec
CONSTANTS
  SymbolIds <- MCSymbolIds
  num_symbols = 1
  Readers = {r1}
  Quotes <- MCQuotes
  TradePrices = {2}
  MaxUpdates = 2
  SeqMax = 5
INVARIANT SnapshotNeverPartial
