SPECIFICATION Spec
CONSTANTS
  Queues = {q1}
  Exchange <- OwnExchange
  Route <- NoRoute
  Fanouts = {}
  Msgs = {m1}
  ConsumeMaxChannel = 1
  MaxReTry = 2
  Receives <- Manual
  Outcomes = {"true", "push"}
  MaxPushes = 3
  MaxLosses = 0
  NoCopy = NoCopy
CHECK_DEADLOCK FALSE
INVARIANT RetriesBounded
