SPECIFICATION Spec
CONSTANTS
  Pools = {a, b}
  Receives = {r1}
  RetryReceives = {}
  ConsumeMaxChannel = 1
  MaxConnection = 1
  ChannelExceptions = FALSE
  MaxGeneration = 2
  MaxRetries = 0
  MaxLosses = 2
  Nobody = Nobody
  NoConn = NoConn
CHECK_DEADLOCK FALSE
PROPERTY DropsOnlyWhileReconnecting
