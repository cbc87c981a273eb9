SPECIFICATION Spec
CONSTANTS
  MAX_ATTEMPT = 2
  HEARTBEAT_TIMEOUT = 1
  MaxLag = 1
  MaxBacklog = 1
PROPERTY HeartbeatOnlyWhenSilent
