SPECIFICATION FairSpec
CONSTANTS
  Pushers = {p1, p2}
  Targets = {good, other, bad, conflict}
  BadTargets = {bad}
  ConflictTargets = {conflict}
  MaxConnection = 2
  MinConnected = 0
  PushMaxTime = 3
  ChannelMax = 1
  HashCode <- DistinctHash
  ChannelExceptions = FALSE
  MaxLosses = 1
  MaxDialFailures = 1
  Nobody = Nobody
  NoTarget = NoTarget
  NoChannel = NoChannel
CHECK_DEADLOCK FALSE
INVARIANTS RefusedForAReason PanicsOnlyIfShort
PROPERTY PushReturns
