SPECIFICATION Spec
CONSTANTS
  Pushers = {p1}
  Targets = {t1, t2}
  BadTargets = {}
  ConflictTargets = {}
  MaxConnection = 2
  MinConnected = 2
  PushMaxTime = 3
  ChannelMax = 3
  HashCode <- DistinctHash
  ChannelExceptions = FALSE
  MaxLosses = 2
  MaxDialFailures = 0
  Nobody = Nobody
  NoTarget = NoTarget
  NoChannel = NoChannel
INVARIANT PushRecovers
