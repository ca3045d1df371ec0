SPECIFICATION FairSpec
CONSTANTS
  Pools = {a, b}
  Receives = {r1}
  RetryReceives = {r1}
  ConsumeMaxChannel = 1
  MaxConnection = 1
  ChannelExceptions = TRUE
  MaxGeneration = 3
  MaxRetries = 2
  MaxLosses = 2
  Nobody = Nobody
  NoConn = NoConn
CHECK_DEADLOCK FALSE
INVARIANT OneReconnectAtATime
PROPERTIES ReconnectCompletes ErrorEndsTask OneErrorOneReconnect
