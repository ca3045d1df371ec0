---------------------------- MODULE MCRetryFlow ----------------------------
(* Finite instances of RetryFlow: receives of their own exchange, and      *)
(* receives that share a fanout exchange.                                  *)
EXTENDS RetryFlow

OwnExchange == [q \in Queues |-> q]
OneExchange == [q \in Queues |-> "events"]
NoRoute     == [q \in Queues |-> ""]

Options == [IsTry : BOOLEAN, IsAutoAck : BOOLEAN]
Manual  == { [IsTry |-> TRUE, IsAutoAck |-> FALSE] }

(* All messages are published where retries are made of messages that are  *)
(* acknowledged at once; one is, where the callback chooses when to        *)
(* acknowledge or makes no retries.                                        *)
SafetyInit ==
  /\ Init
  /\ IF \A q \in Queues : receive[q].IsTry /\ receive[q].IsAutoAck
     THEN DOMAIN home = Msgs
     ELSE DOMAIN home = {CHOOSE m \in Msgs : TRUE}

SafetySpec == SafetyInit /\ [][Next]_vars /\ Fairness
=============================================================================
