SPECIFICATION Spec
CONSTANTS
  Pools = {a}
  Receives = {r1, r2}
  RetryReceives = {}
  ConsumeMaxChannel = 1
  MaxConnection = 1
  ChannelExceptions = TRUE
  MaxGeneration = 3
  MaxRetries = 1
  MaxLosses = 2
  Nobody = Nobody
  NoConn = NoConn
SYMMETRY Symmetry
CHECK_DEADLOCK FALSE
INVARIANTS TypeOK NoSendWhileReconnecting StatusMeansReconnecting NilNoticeHasCause
  RebuildsArePaid 
