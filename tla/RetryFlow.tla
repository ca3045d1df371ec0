----------------------------- MODULE RetryFlow -----------------------------
(***************************************************************************)
(* What becomes of a message on the consumer side of mq: the delivery loop *)
(* of consumeTask, the callback's Ack and Push (retryClient), and the      *)
(* retry that travels through the dead-letter queue.  A failed message is  *)
(* republished with a time to live to the "-dead" exchange of its receive, *)
(* by a goroutine that still holds the channel the message came on; when   *)
(* it expires there, the broker sends it back through the exchange.        *)
(*                                                                         *)
(* A callback acknowledges the message when it likes before it returns, if *)
(* consumeTask has not done so for IsAutoAck, and returns true after a     *)
(* Push, as the readme asks (lines 96, 120).  How a lost channel is        *)
(* replaced is the subject of ConsumerPool: here it takes one step.        *)
(* Broker and client library are modelled from what mq uses.               *)
(***************************************************************************)
EXTENDS Integers, Bags
INSTANCE BagsExt

CONSTANTS
  Queues,            \* QueueName of each receive
  Exchange, Route,   \* functions: ExchangeName and Route of a queue's receive
  Fanouts,           \* exchanges of type fanout
  Msgs,              \* messages, published once each or not at all
  ConsumeMaxChannel, \* tasks of each receive
  MaxReTry,          \* receive.MaxReTry
  Outcomes,          \* what callbacks do: return true or false, or Push
  Receives,          \* the IsTry and IsAutoAck that receives may have
  MaxPushes,         \* bound: times a message is handed to Push
  MaxLosses,         \* bound: channels the environment drops
  NoCopy             \* the absent message

Consumers == Queues \X (0 .. ConsumeMaxChannel - 1)

ASSUME RetryAssumption ==
  /\ ConsumeMaxChannel \in Nat /\ MaxReTry \in Nat
  /\ Outcomes \subseteq {"true", "false", "push"}
  /\ Receives \subseteq [IsTry : BOOLEAN, IsAutoAck : BOOLEAN]
  /\ MaxPushes \in Nat /\ MaxLosses \in Nat

VARIABLES
  receive,  \* the options of each queue's receive
  home,     \* the queue whose exchange and route each message is published to
  queue,    \* broker: a bag of copies ready in each queue
  dead,     \* broker: a bag of copies waiting in each dead-letter queue
  declared, \* broker: queues whose dead-letter queue has been declared
  consumer, \* each task, with its channel
  retries,  \* a bag of goroutines about to publish a retry
  oks,      \* callbacks of a queue that were done with a message
  fails,    \* reports of RcodeRetryMaxError for a message
  requeues, \* times the broker took an unacknowledged message back
  losses    \* environment: channels dropped so far

fixed      == <<receive, home>>
brokerVars == <<fixed, queue, dead, declared>>
outcomes   == <<oks, fails>>
vars       == <<brokerVars, consumer, retries, outcomes, requeues, losses>>

(* nums is the header retry_nums.  The rest is history of the chain of     *)
(* retries a copy belongs to: callbacks run, times requeued, times pushed. *)
Copies == [msg : Msgs, nums : Nat, tries : Nat, requeued : Nat, pushed : Nat]

ASSUME NoCopyAssumption == NoCopy \notin Copies

(* unacked is what the broker has delivered on the channel (Qos allows it  *)
(* one), buffered what the client has not yet passed on, and cur what the  *)
(* callback has; epoch counts the channels the task has had.               *)
Task == [pc : {"start", "select", "ack", "callback", "pushed"}, open : BOOLEAN, epoch : Nat,
         unacked : Copies \cup {NoCopy}, buffered : Copies \cup {NoCopy},
         cur : Copies \cup {NoCopy}]
NewTask == [pc |-> "start", open |-> FALSE, epoch |-> 0,
            unacked |-> NoCopy, buffered |-> NoCopy, cur |-> NoCopy]

Retries == [by : Consumers, epoch : Nat, via : {"false", "push"}, copy : Copies]

(* Queues that a message published to the exchange of q with its route     *)
(* reaches, and dead-letter queues that the corresponding retry reaches:   *)
(* the dead exchange is direct, named after the exchange, and bound with a *)
(* route named after the route.                                            *)
Routed(q) == { r \in Queues : /\ Exchange[r] = Exchange[q]
                              /\ Exchange[q] \in Fanouts \/ Route[r] = Route[q] }
DeadRouted(q) == { r \in declared : Exchange[r] = Exchange[q] /\ Route[r] = Route[q] }
DeadExchangeExists(q) == \E r \in declared : Exchange[r] = Exchange[q]

(* The queues are durable, those of an earlier run are still there.        *)
Init ==
  /\ receive \in [Queues -> Receives]
  /\ \E published \in SUBSET Msgs : home \in [published -> Queues]
  /\ queue = [q \in Queues |-> SetToBag(
                { [msg |-> m, nums |-> 0, tries |-> 0, requeued |-> 0, pushed |-> 0] :
                  m \in { n \in DOMAIN home : q \in Routed(home[n]) } })]
  /\ dead = [q \in Queues |-> EmptyBag]
  /\ declared \in {{}, Queues}
  /\ consumer = [c \in Consumers |-> NewTask]
  /\ retries = EmptyBag
  /\ oks = [q \in Queues |-> [m \in Msgs |-> 0]]
  /\ fails = [q \in Queues |-> [m \in Msgs |-> 0]]
  /\ requeues = [q \in Queues |-> [m \in Msgs |-> 0]]
  /\ losses = 0

At(c, pc) == consumer[c].pc = pc
Become(c, t) == consumer' = [consumer EXCEPT ![c] = t]
Count(f, q, copy) == [f EXCEPT ![q][copy.msg] = @ + 1]
AddTo(bags, qs, copy) == [q \in Queues |-> IF q \in qs THEN BagAdd(bags[q], copy) ELSE bags[q]]
TakeFrom(bags, q, copy) == [bags EXCEPT ![q] = BagRemove(@, copy)]

---------------------------------------------------------------------------
(* Slips that the configurations are tested against; Next uses none of     *)
(* them: a retry that does not count or counts down, a message that is not *)
(* acknowledged, a limit that is not reported, a retry made both by Push   *)
(* and for the value returned.                                             *)
SameNums(copy)       == copy.nums
CountDown(copy)      == copy.nums - 1
NoAck(t)             == t.unacked
SilentLimit(c, copy) == fails
RetryTwice(c, via, copy) ==
  LET r == [by |-> c, epoch |-> consumer[c].epoch, via |-> via, copy |-> copy]
  IN  BagAdd(BagAdd(retries, r), r)

---------------------------------------------------------------------------
(* A task opens its channel and declares; with IsTry the even ones declare *)
(* the dead-letter queue, and nothing makes the others wait for them.      *)
Start(c) ==
  /\ At(c, "start")
  /\ Become(c, [consumer[c] EXCEPT !.pc = "select", !.open = TRUE])
  /\ declared' = IF receive[c[1]].IsTry /\ c[2] % 2 = 0 THEN declared \cup {c[1]} ELSE declared
  /\ UNCHANGED <<fixed, queue, dead, retries, outcomes, requeues, losses>>

(* The broker sends a message to a channel that owes it no acknowledgement.*)
Deliver(c) ==
  /\ consumer[c].open /\ consumer[c].unacked = NoCopy
  /\ \E copy \in BagToSet(queue[c[1]]) :
       /\ queue' = TakeFrom(queue, c[1], copy)
       /\ Become(c, [consumer[c] EXCEPT !.unacked = copy, !.buffered = copy])
  /\ UNCHANGED <<fixed, dead, declared, retries, outcomes, requeues, losses>>

(* consumeTask's select takes a delivery, and acknowledges it at once with *)
(* IsAutoAck.                                                              *)
Taken(c) == IF receive[c[1]].IsAutoAck THEN "ack" ELSE "callback"

Receive(c) ==
  LET copy  == consumer[c].buffered
      tried == [copy EXCEPT !.tries = copy.tries + 1]
      owed  == IF consumer[c].unacked = copy THEN tried ELSE consumer[c].unacked
  IN  /\ At(c, "select") /\ copy # NoCopy
      /\ Become(c, [consumer[c] EXCEPT !.pc = Taken(c), !.buffered = NoCopy,
                                       !.cur = tried, !.unacked = owed])
      /\ UNCHANGED <<brokerVars, retries, outcomes, requeues, losses>>

(* Once the channel is gone msgs is closed: receiving from it yields a     *)
(* zero Delivery, which is handed to the callback like any other.          *)
ReceiveNothing(c) ==
  /\ At(c, "select") /\ ~consumer[c].open /\ consumer[c].buffered = NoCopy
  /\ Become(c, [consumer[c] EXCEPT !.pc = Taken(c)])
  /\ UNCHANGED <<brokerVars, retries, outcomes, requeues, losses>>

(* Ack(true) acknowledges all the channel owes.  On a lost channel, which  *)
(* owes nothing any more, it fails, and its error is ignored.              *)
Owed(t) == NoCopy

AutoAck(c) ==
  /\ At(c, "ack")
  /\ Become(c, [consumer[c] EXCEPT !.pc = "callback", !.unacked = Owed(consumer[c])])
  /\ UNCHANGED <<brokerVars, retries, outcomes, requeues, losses>>

(* The message in the callback's hand is not acknowledged yet: the broker  *)
(* has sent no other since.                                                *)
Owes(c) == consumer[c].unacked # NoCopy /\ consumer[c].buffered = NoCopy

(* The callback's Ack, before a Push or after it.                          *)
Ack(c) ==
  /\ At(c, "callback") \/ At(c, "pushed")
  /\ ~receive[c[1]].IsAutoAck /\ Owes(c)
  /\ Become(c, [consumer[c] EXCEPT !.unacked = Owed(consumer[c])])
  /\ UNCHANGED <<brokerVars, retries, outcomes, requeues, losses>>

---------------------------------------------------------------------------
(* What EventSuccess comes to.  false and Push count the header retry_nums *)
(* up and give up at MaxReTry, otherwise they leave a goroutine behind     *)
(* that publishes after 200 ms; the one Push leaves sends the header of    *)
(* the delivery, not the one it has counted up.                            *)
NextNums(copy) == copy.nums + 1

Final(copy) == NextNums(copy) >= MaxReTry

(* A message given up goes to EventFail, which the receive is taken to set *)
(* (it is tested at 738, 79 and 100): without it nobody is told.           *)
ReportMax(c, copy) == Count(fails, c[1], copy)

Retry(c, via, copy) ==
  BagAdd(retries, [by |-> c, epoch |-> consumer[c].epoch, via |-> via, copy |-> copy])

Done(c) == /\ ~Owes(c)
           /\ Become(c, [consumer[c] EXCEPT !.pc = "select", !.cur = NoCopy])

ReturnTrue(c) ==
  /\ At(c, "callback") /\ "true" \in Outcomes
  /\ Done(c)
  /\ oks' = IF consumer[c].cur = NoCopy THEN oks ELSE Count(oks, c[1], consumer[c].cur)
  /\ UNCHANGED <<brokerVars, retries, fails, requeues, losses>>

ReturnFalse(c) ==
  LET copy == consumer[c].cur
      try  == receive[c[1]].IsTry
  IN  /\ At(c, "callback") /\ "false" \in Outcomes
      /\ Done(c)
      /\ \/ copy = NoCopy /\ UNCHANGED <<oks, fails, retries>>
         \/ /\ copy # NoCopy /\ ~try
            /\ oks' = Count(oks, c[1], copy)
            /\ UNCHANGED <<fails, retries>>
         \/ /\ copy # NoCopy /\ try /\ Final(copy)
            /\ fails' = ReportMax(c, copy)
            /\ UNCHANGED <<oks, retries>>
         \/ /\ copy # NoCopy /\ try /\ ~Final(copy)
            /\ retries' = Retry(c, "false", [copy EXCEPT !.nums = NextNums(copy)])
            /\ UNCHANGED <<oks, fails>>
      /\ UNCHANGED <<brokerVars, requeues, losses>>

(* What is pushed and what may still be delivered again count the Push; a  *)
(* callback that owes no Ack has nothing left to do.                       *)
Push(c) ==
  LET t      == consumer[c]
      copy   == t.cur
      pushed == [copy EXCEPT !.pushed = copy.pushed + 1]
  IN  /\ At(c, "callback") /\ "push" \in Outcomes
      /\ copy # NoCopy /\ copy.pushed < MaxPushes
      /\ \/ Owes(c) /\ Become(c, [t EXCEPT !.pc = "pushed", !.cur = pushed, !.unacked = pushed])
         \/ ~Owes(c) /\ Done(c)
      /\ \/ /\ Final(copy)
            /\ fails' = ReportMax(c, copy)
            /\ UNCHANGED retries
         \/ /\ ~Final(copy)
            /\ retries' = Retry(c, "push", pushed)
            /\ UNCHANGED fails
      /\ UNCHANGED <<brokerVars, oks, requeues, losses>>

ReturnPushed(c) ==
  /\ At(c, "pushed")
  /\ Done(c)
  /\ UNCHANGED <<brokerVars, retries, outcomes, requeues, losses>>

---------------------------------------------------------------------------
(* A channel that goes gives back what it owes; what the client has        *)
(* buffered may still reach the task.                                      *)
CloseChannel(c) ==
  LET t == consumer[c]
  IN  /\ \E rest \in {t.buffered, NoCopy} :
           Become(c, [t EXCEPT !.open = FALSE, !.unacked = NoCopy, !.buffered = rest])
      /\ \/ t.unacked = NoCopy /\ UNCHANGED <<queue, requeues>>
         \/ /\ t.unacked # NoCopy
            /\ queue' = AddTo(queue, {c[1]}, [t.unacked EXCEPT !.requeued = t.unacked.requeued + 1])
            /\ requeues' = Count(requeues, c[1], t.unacked)

(* A retry goroutine publishes on the channel its message came on.  On a   *)
(* missing exchange the broker closes that channel; on a lost channel      *)
(* Publish fails, which only Push's goroutine reports.                     *)
Publish(r) ==
  LET c     == r.by
      alive == consumer[c].open /\ consumer[c].epoch = r.epoch
  IN  /\ retries' = BagRemove(retries, r)
      /\ \/ /\ alive /\ DeadExchangeExists(c[1])
            /\ dead' = AddTo(dead, DeadRouted(c[1]), r.copy)
            /\ UNCHANGED <<queue, consumer, fails, requeues>>
         \/ /\ alive /\ ~DeadExchangeExists(c[1])
            /\ CloseChannel(c)
            /\ UNCHANGED <<dead, fails>>
         \/ /\ ~alive
            /\ fails' = IF r.via = "push" THEN ReportMax(c, r.copy) ELSE fails
            /\ UNCHANGED <<queue, dead, consumer, requeues>>
      /\ UNCHANGED <<fixed, declared, oks, losses>>

(* A copy's time in the dead-letter queue ends: it is published to the     *)
(* original exchange with the original route.                              *)
Expire(q) ==
  /\ \E copy \in BagToSet(dead[q]) :
       /\ dead' = TakeFrom(dead, q, copy)
       /\ queue' = AddTo(queue, Routed(q), copy)
  /\ UNCHANGED <<fixed, declared, consumer, retries, outcomes, requeues, losses>>

---------------------------------------------------------------------------
Lose(c) ==
  /\ consumer[c].open
  /\ losses < MaxLosses /\ losses' = losses + 1
  /\ CloseChannel(c)
  /\ UNCHANGED <<fixed, dead, declared, retries, outcomes>>

(* The task takes the notification and ends; the reconnect puts another    *)
(* one with a new channel in its place.                                    *)
Notified(c) ==
  /\ At(c, "select") /\ ~consumer[c].open
  /\ Become(c, [NewTask EXCEPT !.epoch = consumer[c].epoch + 1])
  /\ UNCHANGED <<brokerVars, retries, outcomes, requeues, losses>>

TaskStep(c) ==
  \/ Start(c) \/ Receive(c) \/ ReceiveNothing(c) \/ AutoAck(c) \/ Ack(c)
  \/ ReturnTrue(c) \/ ReturnFalse(c) \/ Push(c) \/ ReturnPushed(c)

Next ==
  \/ \E c \in Consumers : TaskStep(c) \/ Deliver(c) \/ Notified(c) \/ Lose(c)
  \/ \E r \in BagToSet(retries) : Publish(r)
  \/ \E q \in Queues : Expire(q)

Spec == Init /\ [][Next]_vars

(* Goroutines are scheduled fairly, the broker delivers and expires, and   *)
(* select, which picks a ready case at random, cannot pass over the        *)
(* notification of a lost channel for ever.                                *)
Fairness ==
  /\ \A c \in Consumers : WF_vars(TaskStep(c)) /\ WF_vars(Deliver(c)) /\ SF_vars(Notified(c))
  /\ WF_vars(\E r \in BagToSet(retries) : Publish(r))
  /\ \A q \in Queues : WF_vars(Expire(q))

FairSpec == Spec /\ Fairness

---------------------------------------------------------------------------
IsBagOf(bag, S) == IsABag(bag) /\ BagToSet(bag) \subseteq S

TypeOK ==
  /\ receive \in [Queues -> Receives]
  /\ DOMAIN home \subseteq Msgs /\ home \in [DOMAIN home -> Queues]
  /\ \A bags \in {queue, dead} :
       DOMAIN bags = Queues /\ \A q \in Queues : IsBagOf(bags[q], Copies)
  /\ declared \subseteq Queues
  /\ consumer \in [Consumers -> Task]
  /\ IsBagOf(retries, Retries)
  /\ {oks, fails, requeues} \subseteq [Queues -> [Msgs -> Nat]]
  /\ losses \in Nat

(* readme.md:121, MaxReTry is the maximum number of retries: a callback    *)
(* sees a message and the retries made from it MaxReTry times at most, not *)
(* counting what the broker had to deliver again.                          *)
RetriesBounded ==
  \A c \in Consumers : LET copy == consumer[c].cur IN
    copy # NoCopy /\ MaxReTry > 0 => copy.tries <= MaxReTry + copy.requeued

(* The retries that returning false makes are so bounded; each Push adds   *)
(* one, since it does not send the number it has counted up to.            *)
AutoRetriesBounded ==
  \A c \in Consumers : LET copy == consumer[c].cur IN
    copy # NoCopy /\ MaxReTry > 0 => copy.tries <= MaxReTry + copy.requeued + copy.pushed

(* readme.md:76, each receive is independent of the others: its callback   *)
(* is done with a message, or gives up on it, once, and once more for each *)
(* time the broker had to take it back.                                    *)
SettledOnce ==
  \A q \in Queues : \A m \in Msgs : oks[q][m] + fails[q][m] <= 1 + requeues[q][m]

Holds(bag, m) == \E copy \in BagToSet(bag) : copy.msg = m

InHand(c, m) ==
  \E copy \in {consumer[c].unacked, consumer[c].cur} : copy # NoCopy /\ copy.msg = m

Settled(q, m) == oks[q][m] + fails[q][m] > 0

Pending(q, m) ==
  \/ Holds(queue[q], m) \/ Holds(dead[q], m)
  \/ \E c \in Consumers : c[1] = q /\ InHand(c, m)
  \/ \E r \in BagToSet(retries) : r.by[1] = q /\ r.copy.msg = m

(* Some task of the queue has lost a channel.                              *)
Disturbed(q) ==
  \E c \in Consumers : /\ c[1] = q
                       /\ consumer[c].epoch > 0 \/ (consumer[c].pc # "start" /\ ~consumer[c].open)

(* A message that was acknowledged before it was dealt with disappears     *)
(* only if a channel of its queue does: until then it is in a queue, with  *)
(* a task, or with a goroutine about to publish it again.                  *)
LostOnlyWithAChannel ==
  \A m \in DOMAIN home : \A q \in Routed(home[m]) : Pending(q, m) \/ Settled(q, m) \/ Disturbed(q)

(* Every message is dealt with in the end, or a channel of its queue goes; *)
(* provided that callbacks return and acknowledge.                         *)
EventuallySettled ==
  \A m \in Msgs : \A q \in Queues : Pending(q, m) ~> Settled(q, m) \/ Disturbed(q)
=============================================================================
