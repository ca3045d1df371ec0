SPECIFICATION Spec
CONSTANTS
  Queues = {q1, q2}
  Exchange <- OneExchange
  Route <- NoRoute
  Fanouts = {"events"}
  Msgs = {m1}
  ConsumeMaxChannel = 1
  MaxReTry = 2
  Receives <- Manual
  Outcomes = {"true", "false"}
  MaxPushes = 0
  MaxLosses = 0
  NoCopy = NoCopy
CHECK_DEADLOCK FALSE
INVARIANT SettledOnce
