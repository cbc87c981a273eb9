SPECIFICATION FairSpec
CONSTANTS
  Streams <- MCStreams
  HeaderSize = 2
  Size <- MCSize
  RingCapacity = 8
  SeqMod = 8
  MaxSymbols = 2
  MaxReconnects = 1
INVARIANTS TypeOK NoIntactSkipped AcceptedOnce GapAccounting RecvTimeNotStale
PROPERTY LosslessDelivery
CHECK_DEADLOCK FALSE
