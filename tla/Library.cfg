SPECIFICATION LibrarySpec
CONSTANTS
  Clients = {c1, c2}
  Data = {d1, d2}
  NoData = NoData
  NoClient = NoClient
  MaxAdds = 4
  EsCallers = {e1, e2}
  Indices = {i1, i2}
  Ids = {d1}
  EsTries = 2
  EsTimeouts = 2
  EsCalls = 2
  NoIndex = NoIndex
  Savers = {s1, s2}
  Batches <- SomeBatches
  BulkWorkers = {w1, w2}
  MaxServings = 1
  Entries <- SomeEntries
  MaxFiles = 3
  Routines = {g1, g2}
  PoolKinds = {common, worker}
  NoKind = NoKind
  MaxInits = 2
  MaxUses = 2
  Inits = {r1, r2}
  NoRepo = NoRepo
  CacheCallers = {a1, a2}
  CacheKeys = {k1}
  CacheTries = 2
  CacheTimeouts = 1
  CacheCalls = 2
  MaxExpiries = 1
  NoKey = NoKey
  Half = 32
  Exact = 8
CHECK_DEADLOCK FALSE
INVARIANTS
  QueueTypeOK CountIsClose
  EsTypeOK AnswersAreTrue
  NoneForgotten SuccessIsIndexed
  ProfileWins FailureLeavesNoProfile
  PoolServes ClosedByItsOwn
  CacheAnswersAreTrue ClaimsDiffer
  RandomInRange
PROPERTIES FirstInFirstOut BatchSettles
