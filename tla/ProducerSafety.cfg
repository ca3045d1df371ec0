SPECIFICATION Spec
CONSTANTS
  Pushers = {p1, p2}
  Targets = {t1, t2}
  BadTargets = {}
  ConflictTargets = {}
  MaxConnection = 2
  MinConnected = 2
  PushMaxTime = 3
  ChannelMax = 3
  HashCode <- DistinctHash
  ChannelExceptions = TRUE
  MaxLosses = 2
  MaxDialFailures = 1
  Nobody = Nobody
  NoTarget = NoTarget
  NoChannel = NoChannel
SYMMETRY Symmetry
INVARIANTS
  TypeOK NoLostTurn FreshAfterRedial NoOrphanChannel DeclaredBeforePublish
  GivesUpOnlyAfterDrop
PROPERTY LiveConnectionKept
