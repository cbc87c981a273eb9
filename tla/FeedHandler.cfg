SPECIFICATION FairSpec
CONSTANTS
  MAX_ATTEMPT = 2
  HEARTBEAT_TIMEOUT = 1
  MaxLag = 1
  MaxBacklog = 1
INVARIANTS TypeOK NoLostReconnect EventsAreCurrent ConnInv
PROPERTIES Reconnects DeadPeerDetected ShutdownCompletes
