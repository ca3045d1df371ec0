SPECIFICATION SafetySpec
CONSTANTS
  Queues = {q1}
  Exchange <- OwnExchange
  Route <- NoRoute
  Fanouts = {}
  Msgs = {m1, m2}
  ConsumeMaxChannel = 2
  MaxReTry = 2
  Receives <- Options
  Outcomes = {"true", "false", "push"}
  MaxPushes = 1
  MaxLosses = 1
  NoCopy = NoCopy
CHECK_DEADLOCK FALSE
INVARIANTS TypeOK AutoRetriesBounded SettledOnce LostOnlyWithAChannel
PROPERTY EventuallySettled
