SPECIFICATION FairSpec
CONSTANTS
  SymbolIds <- MCSymbolIds
  num_symbols = 1
  Readers = {r1}
  Quotes <- MCQuotes
  TradePrices = {2}
  MaxUpdates = 2
  SeqMax = 5
INVARIANTS TypeOK EvenExitAtomic IInv
PROPERTIES OpenPriceFixed SnapshotReturns
