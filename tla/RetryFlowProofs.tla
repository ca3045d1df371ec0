-------------------------- MODULE RetryFlowProofs --------------------------
(* Theorems about RetryFlow for any number of queues, messages, tasks,     *)
(* retries and losses.  Three invariants carry them, each inductive with   *)
(* TypeOK: Hands, what a task can hold at each point of consumeTask;       *)
(* Counts, which relates the callbacks a copy has had to the number in its *)
(* header; and Conserved, which counts a message wherever it can be.       *)
EXTENDS RetryFlow, FiniteSetTheorems, TLAPS

(* What a task holds at each point of consumeTask.  The broker owes a      *)
(* channel nothing but what the client has buffered or the callback has,   *)
(* and an open channel has buffered nothing else; the copy taken for       *)
(* IsAutoAck is owed until it is acknowledged.                             *)
Hand(t) ==
  /\ t.pc \in {"start", "select"} => t.cur = NoCopy
  /\ t.pc = "start" => ~t.open /\ t.unacked = NoCopy /\ t.buffered = NoCopy
  /\ t.unacked # NoCopy => \/ t.unacked = t.buffered
                           \/ t.buffered = NoCopy /\ t.unacked = t.cur
  /\ t.open /\ t.buffered # NoCopy => t.unacked = t.buffered
  /\ t.pc = "ack" => t.buffered = NoCopy /\ (t.open => t.unacked # NoCopy)

Hands == \A c \in Consumers : Hand(consumer[c])

(* A retry goroutine holds a channel that its task has had.                *)
Held(r) ==
  /\ r.epoch <= consumer[r.by].epoch
  /\ r.epoch = consumer[r.by].epoch => ~At(r.by, "start")

Holders == \A r \in BagToSet(retries) : Held(r)

(* A copy that is waiting has had as many callbacks as its header, the     *)
(* broker and Push account for; one that a callback has, one more.         *)
Waiting(copy) ==
  /\ copy.tries <= copy.nums + copy.requeued + copy.pushed
  /\ MaxReTry > 0 => copy.nums < MaxReTry
Running(copy) ==
  /\ copy.tries <= copy.nums + copy.requeued + copy.pushed + 1
  /\ MaxReTry > 0 => copy.nums < MaxReTry

HandCounts(t) ==
  /\ t.buffered # NoCopy => Waiting(t.buffered)
  /\ t.cur # NoCopy => Running(t.cur)

AllWaiting(bag) == \A copy \in BagToSet(bag) : Waiting(copy)

Counts ==
  /\ \A q \in Queues : AllWaiting(queue[q]) /\ AllWaiting(dead[q])
  /\ \A r \in BagToSet(retries) : Waiting(r.copy)
  /\ \A c \in Consumers : HandCounts(consumer[c])

(* A bag as a set of tokens, one for each copy, that can be counted.       *)
Tokens(bag, S) == UNION { {x} \X (1 .. bag[x]) : x \in BagToSet(bag) \cap S }
Size(bag, S)   == Cardinality(Tokens(bag, S))

(* Where a message of a queue is: ready, waiting in the dead-letter queue, *)
(* with a goroutine, in a client's buffer or with a callback that has not  *)
(* passed it on yet.  The copy that a callback keeps after a Push is not   *)
(* another one.                                                            *)
Of(m) == { copy \in Copies : copy.msg = m }
RetriesOf(q, m) == { r \in Retries : r.by[1] = q /\ r.copy.msg = m }
Buffers(t, m) == t.buffered # NoCopy /\ t.buffered.msg = m
Handles(t, m) == t.pc \in {"ack", "callback"} /\ t.cur # NoCopy /\ t.cur.msg = m
Buffering(q, m) == { c \in Consumers : c[1] = q /\ Buffers(consumer[c], m) }
Handling(q, m)  == { c \in Consumers : c[1] = q /\ Handles(consumer[c], m) }
InTasks(q, m)   == Cardinality(Buffering(q, m)) + Cardinality(Handling(q, m))

Countable(q, m) ==
  /\ IsFiniteSet(Tokens(queue[q], Of(m))) /\ IsFiniteSet(Tokens(dead[q], Of(m)))
  /\ IsFiniteSet(Tokens(retries, RetriesOf(q, m)))

Total(q, m) == Size(queue[q], Of(m)) + Size(dead[q], Of(m)) + Size(retries, RetriesOf(q, m))
                 + InTasks(q, m) + oks[q][m] + fails[q][m]

(* No message that is published for one receive reaches another; and each  *)
(* receive declares an exchange of its own.                                *)
Independent  == \A q \in Queues : Routed(q) = {q}
OwnExchanges == \A q, r \in Queues : Exchange[q] = Exchange[r] => q = r

Expected(q, m) == IF m \in DOMAIN home /\ q \in Routed(home[m]) THEN 1 ELSE 0

(* A message is in one place or has been settled, and what the broker took *)
(* back may be there once more.  Nothing is lost while no channel is.      *)
ConservedFor(q, m) ==
  /\ Countable(q, m)
  /\ Total(q, m) <= 1 + requeues[q][m]
  /\ OwnExchanges => Disturbed(q) \/ Total(q, m) = Expected(q, m)

Conserved == \A q \in Queues, m \in Msgs : ConservedFor(q, m)

---------------------------------------------------------------------------
(* Bags: what BagAdd and BagRemove make of the elements and their number.  *)
LEMMA AddedIsBag ==
  ASSUME NEW B, NEW S, IsBagOf(B, S), NEW x \in S
  PROVE  /\ IsBagOf(BagAdd(B, x), S)
         /\ BagToSet(BagAdd(B, x)) = BagToSet(B) \cup {x}
BY DEF IsBagOf, IsABag, BagToSet, BagAdd

LEMMA RemovedIsBag ==
  ASSUME NEW B, NEW S, IsBagOf(B, S), NEW x \in BagToSet(B)
  PROVE  /\ IsBagOf(BagRemove(B, x), S)
         /\ BagToSet(BagRemove(B, x)) \subseteq BagToSet(B)
BY DEF IsBagOf, IsABag, BagToSet, BagRemove

LEMMA InTokens ==
  ASSUME NEW B, NEW S, IsABag(B), NEW t
  PROVE  t \in Tokens(B, S) <=>
           \E x \in BagToSet(B) \cap S : \E k \in 1 .. B[x] : t = <<x, k>>
BY DEF Tokens

LEMMA AddedToken ==
  ASSUME NEW B, IsABag(B), NEW S, NEW x, IsFiniteSet(Tokens(B, S))
  PROVE  /\ IsFiniteSet(Tokens(BagAdd(B, x), S))
         /\ Size(BagAdd(B, x), S) = IF x \in S THEN Size(B, S) + 1 ELSE Size(B, S)
<1> DEFINE n == IF x \in DOMAIN B THEN B[x] + 1 ELSE 1
<1>1. IsABag(BagAdd(B, x))
  BY DEF IsABag, BagAdd
<1>2. CASE x \in S
  <2>1. Tokens(BagAdd(B, x), S) = Tokens(B, S) \cup {<<x, n>>}
    <3>1. n \in Nat \ {0} /\ BagAdd(B, x)[x] = n
      BY DEF IsABag, BagAdd
    <3>2. \A y \in BagToSet(BagAdd(B, x)) \ {x} : y \in BagToSet(B) /\ BagAdd(B, x)[y] = B[y]
      BY DEF IsABag, BagAdd, BagToSet
    <3>3. BagToSet(BagAdd(B, x)) = BagToSet(B) \cup {x}
      BY DEF BagAdd, BagToSet
    <3>4. ASSUME NEW t PROVE t \in Tokens(BagAdd(B, x), S) <=> t \in Tokens(B, S) \cup {<<x, n>>}
      <4>1. CASE \E k : t = <<x, k>>
        <5> PICK k : t = <<x, k>>
          BY <4>1
        <5>1. t \in Tokens(BagAdd(B, x), S) <=> k \in 1 .. n
          BY <1>1, <1>2, <3>1, <3>3, InTokens
        <5>2. t \in Tokens(B, S) <=> x \in DOMAIN B /\ k \in 1 .. n - 1
          BY <1>2, InTokens DEF BagToSet, IsABag
        <5> QED BY <5>1, <5>2, <3>1
      <4>2. CASE ~ \E k : t = <<x, k>>
        BY <4>2, <1>1, <3>2, <3>3, InTokens
      <4> QED BY <4>1, <4>2
    <3> QED BY <3>4
  <2>2. <<x, n>> \notin Tokens(B, S)
    BY InTokens DEF IsABag, BagToSet
  <2> QED BY <1>2, <2>1, <2>2, FS_AddElement DEF Size
<1>3. CASE x \notin S
  <2>1. Tokens(BagAdd(B, x), S) = Tokens(B, S)
    <3>1. BagToSet(BagAdd(B, x)) \cap S = BagToSet(B) \cap S
      BY <1>3 DEF BagAdd, BagToSet
    <3>2. \A y \in BagToSet(B) \cap S : BagAdd(B, x)[y] = B[y]
      BY <1>3 DEF IsABag, BagAdd, BagToSet
    <3>3. \A t : t \in Tokens(BagAdd(B, x), S) <=> t \in Tokens(B, S)
      BY <1>1, <3>1, <3>2, InTokens
    <3> QED BY <3>3
  <2> QED BY <1>3, <2>1 DEF Size
<1> QED BY <1>2, <1>3

LEMMA RemovedToken ==
  ASSUME NEW B, IsABag(B), NEW S, NEW x \in BagToSet(B), IsFiniteSet(Tokens(B, S))
  PROVE  /\ IsFiniteSet(Tokens(BagRemove(B, x), S))
         /\ Size(BagRemove(B, x), S) = IF x \in S THEN Size(B, S) - 1 ELSE Size(B, S)
         /\ x \in S => Size(B, S) > 0
<1>1. IsABag(BagRemove(B, x))
  BY DEF IsABag, BagRemove, BagToSet
<1>2. \A y \in BagToSet(B) \ {x} : y \in BagToSet(BagRemove(B, x)) /\ BagRemove(B, x)[y] = B[y]
  BY DEF IsABag, BagRemove, BagToSet
<1>3. BagToSet(BagRemove(B, x)) \subseteq BagToSet(B)
  BY DEF BagRemove, BagToSet
<1>4. CASE x \in S
  <2>1. Tokens(BagRemove(B, x), S) = Tokens(B, S) \ {<<x, B[x]>>}
    <3>1. ASSUME NEW t PROVE t \in Tokens(BagRemove(B, x), S) <=> t \in Tokens(B, S) \ {<<x, B[x]>>}
      <4>1. CASE \E k : t = <<x, k>>
        <5> PICK k : t = <<x, k>>
          BY <4>1
        <5>1. t \in Tokens(B, S) <=> k \in 1 .. B[x]
          BY <1>4, InTokens
        <5>2. t \in Tokens(BagRemove(B, x), S) <=> k \in 1 .. B[x] - 1
          <6>1. CASE B[x] = 1
            <7>1. x \notin BagToSet(BagRemove(B, x))
              BY <6>1 DEF BagRemove, BagToSet
            <7> QED BY <6>1, <7>1, <1>1, InTokens
          <6>2. CASE B[x] # 1
            <7>1. x \in BagToSet(BagRemove(B, x)) /\ BagRemove(B, x)[x] = B[x] - 1
              BY <6>2 DEF BagRemove, BagToSet
            <7> QED BY <6>2, <7>1, <1>1, <1>4, InTokens
          <6> QED BY <6>1, <6>2
        <5> QED BY <5>1, <5>2 DEF IsABag, BagToSet
      <4>2. CASE ~ \E k : t = <<x, k>>
        BY <4>2, <1>1, <1>2, <1>3, InTokens
      <4> QED BY <4>1, <4>2
    <3> QED BY <3>1
  <2>2. <<x, B[x]>> \in Tokens(B, S)
    BY <1>4, InTokens DEF IsABag, BagToSet
  <2>3. Size(B, S) \in Nat /\ Size(B, S) # 0
    BY <2>2, FS_CardinalityType, FS_EmptySet DEF Size
  <2> QED BY <1>4, <2>1, <2>2, <2>3, FS_RemoveElement DEF Size
<1>5. CASE x \notin S
  <2>1. Tokens(BagRemove(B, x), S) = Tokens(B, S)
    <3>1. BagToSet(BagRemove(B, x)) \cap S = BagToSet(B) \cap S
      BY <1>2, <1>3, <1>5
    <3>2. \A y \in BagToSet(B) \cap S : BagRemove(B, x)[y] = B[y]
      BY <1>2, <1>5
    <3>3. \A t : t \in Tokens(BagRemove(B, x), S) <=> t \in Tokens(B, S)
      BY <1>1, <3>1, <3>2, InTokens
    <3> QED BY <3>3
  <2> QED BY <1>5, <2>1 DEF Size
<1> QED BY <1>4, <1>5
---------------------------------------------------------------------------
(* Copies, tasks and the functions of bags that hold them.                 *)
LEMMA CopyType ==
  ASSUME NEW copy \in Copies
  PROVE  /\ [copy EXCEPT !.tries = copy.tries + 1] \in Copies
         /\ [copy EXCEPT !.requeued = copy.requeued + 1] \in Copies
         /\ [copy EXCEPT !.pushed = copy.pushed + 1] \in Copies
         /\ [copy EXCEPT !.nums = NextNums(copy)] \in Copies
         /\ copy.msg \in Msgs /\ copy # NoCopy
BY NoCopyAssumption DEF Copies, NextNums

LEMMA ConsumerParts ==
  ASSUME NEW c \in Consumers
  PROVE  c[1] \in Queues /\ c[2] \in 0 .. ConsumeMaxChannel - 1
BY DEF Consumers

LEMMA Became ==
  ASSUME consumer \in [Consumers -> Task], NEW c \in Consumers, NEW t \in Task, Become(c, t)
  PROVE  /\ consumer' \in [Consumers -> Task]
         /\ consumer'[c] = t
         /\ \A d \in Consumers \ {c} : consumer'[d] = consumer[d]
BY DEF Become

LEMMA TaskType ==
  ASSUME consumer \in [Consumers -> Task], NEW c \in Consumers
  PROVE  /\ consumer[c].epoch \in Nat
         /\ {consumer[c].unacked, consumer[c].buffered, consumer[c].cur}
              \subseteq Copies \cup {NoCopy}
BY DEF Task

LEMMA NewTaskType == NewTask \in Task /\ \A n \in Nat : [NewTask EXCEPT !.epoch = n] \in Task
BY DEF NewTask, Task

BagsType(bags) == DOMAIN bags = Queues /\ \A q \in Queues : IsBagOf(bags[q], Copies)

LEMMA AddToType ==
  ASSUME NEW bags, BagsType(bags), NEW qs, NEW copy \in Copies
  PROVE  BagsType(AddTo(bags, qs, copy))
BY AddedIsBag DEF BagsType, AddTo

LEMMA TakeFromType ==
  ASSUME NEW bags, BagsType(bags), NEW q \in Queues, NEW copy \in BagToSet(bags[q])
  PROVE  BagsType(TakeFrom(bags, q, copy))
BY RemovedIsBag DEF BagsType, TakeFrom

Tally == [Queues -> [Msgs -> Nat]]

LEMMA CountType ==
  ASSUME NEW f \in Tally, NEW q \in Queues, NEW copy \in Copies
  PROVE  /\ Count(f, q, copy) \in Tally
         /\ \A p \in Queues, m \in Msgs :
              Count(f, q, copy)[p][m] =
                IF p = q /\ m = copy.msg THEN f[p][m] + 1 ELSE f[p][m]
BY DEF Count, Tally, Copies

LEMMA TypeOKParts ==
  TypeOK <=> /\ receive \in [Queues -> Receives]
             /\ DOMAIN home \subseteq Msgs /\ home \in [DOMAIN home -> Queues]
             /\ BagsType(queue) /\ BagsType(dead)
             /\ declared \subseteq Queues
             /\ consumer \in [Consumers -> Task]
             /\ IsBagOf(retries, Retries)
             /\ oks \in Tally /\ fails \in Tally /\ requeues \in Tally
             /\ losses \in Nat
BY DEF TypeOK, BagsType, Tally

LEMMA TypeOKNext ==
  ASSUME receive' \in [Queues -> Receives],
         DOMAIN home' \subseteq Msgs, home' \in [DOMAIN home' -> Queues],
         BagsType(queue'), BagsType(dead'), declared' \subseteq Queues,
         consumer' \in [Consumers -> Task], IsBagOf(retries', Retries),
         oks' \in Tally, fails' \in Tally, requeues' \in Tally, losses' \in Nat
  PROVE  TypeOK'
BY DEF TypeOK, BagsType, Tally

LEMMA RetryType ==
  ASSUME TypeOK, NEW c \in Consumers, NEW via \in {"false", "push"}, NEW copy \in Copies
  PROVE  IsBagOf(Retry(c, via, copy), Retries)
<1>1. [by |-> c, epoch |-> consumer[c].epoch, via |-> via, copy |-> copy] \in Retries
  BY TypeOKParts, TaskType DEF Retries
<1> QED BY <1>1, TypeOKParts, AddedIsBag DEF Retry

---------------------------------------------------------------------------
(* A channel that goes leaves its task without a copy that is owed.        *)
LEMMA Closed ==
  ASSUME TypeOK, NEW c \in Consumers, CloseChannel(c)
  PROVE  /\ consumer' \in [Consumers -> Task] /\ BagsType(queue') /\ requeues' \in Tally
         /\ \E rest \in {consumer[c].buffered, NoCopy} :
              consumer'[c] = [consumer[c] EXCEPT !.open = FALSE, !.unacked = NoCopy,
                                                 !.buffered = rest]
         /\ \A d \in Consumers \ {c} : consumer'[d] = consumer[d]
<1> DEFINE t == consumer[c]
<1>1. PICK rest \in {t.buffered, NoCopy} :
        Become(c, [t EXCEPT !.open = FALSE, !.unacked = NoCopy, !.buffered = rest])
  BY DEF CloseChannel
<1>2. [t EXCEPT !.open = FALSE, !.unacked = NoCopy, !.buffered = rest] \in Task
  BY TypeOKParts DEF Task
<1>3. /\ consumer' \in [Consumers -> Task]
      /\ consumer'[c] = [t EXCEPT !.open = FALSE, !.unacked = NoCopy, !.buffered = rest]
      /\ \A d \in Consumers \ {c} : consumer'[d] = consumer[d]
  BY <1>1, <1>2, TypeOKParts, Became
<1>4. BagsType(queue') /\ requeues' \in Tally
  <2>1. CASE t.unacked = NoCopy
    BY <2>1, TypeOKParts DEF CloseChannel
  <2>2. CASE t.unacked # NoCopy
    <3> DEFINE copy == [t.unacked EXCEPT !.requeued = t.unacked.requeued + 1]
    <3>1. c[1] \in Queues /\ t.unacked \in Copies /\ copy \in Copies
      BY <2>2, TypeOKParts, TaskType, CopyType, ConsumerParts
    <3>2. queue' = AddTo(queue, {c[1]}, copy) /\ requeues' = Count(requeues, c[1], t.unacked)
      BY <2>2 DEF CloseChannel
    <3> HIDE DEF copy
    <3> QED BY <3>1, <3>2, TypeOKParts, AddToType, CountType
  <2> QED BY <2>1, <2>2
<1> QED BY <1>3, <1>4

LEMMA InitTypeOK == Init => TypeOK
<1> SUFFICES ASSUME Init PROVE TypeOK
  OBVIOUS
<1>1. DOMAIN home \subseteq Msgs /\ home \in [DOMAIN home -> Queues]
  BY DEF Init
<1>2. BagsType(queue)
  <2>1. ASSUME NEW q \in Queues PROVE IsBagOf(queue[q], Copies)
    BY <1>1 DEF Init, IsBagOf, IsABag, BagToSet, SetToBag, Copies
  <2> QED BY <2>1 DEF Init, BagsType
<1>3. BagsType(dead)
  BY DEF Init, BagsType, IsBagOf, IsABag, BagToSet, SetToBag, EmptyBag
<1>4. consumer \in [Consumers -> Task]
  BY DEF Init, NewTask, Task
<1>5. IsBagOf(retries, Retries)
  BY DEF Init, IsBagOf, IsABag, BagToSet, SetToBag, EmptyBag
<1>6. oks \in Tally /\ fails \in Tally /\ requeues \in Tally
  BY DEF Init, Tally
<1> QED BY <1>1, <1>2, <1>3, <1>4, <1>5, <1>6, TypeOKParts DEF Init

LEMMA TaskStepTypeOK ==
  ASSUME TypeOK, NEW c \in Consumers, TaskStep(c)
  PROVE  TypeOK'
<1> DEFINE t == consumer[c]
<1> USE TypeOKParts, TypeOKNext DEF fixed, brokerVars, outcomes
<1>1. CASE Start(c)
  BY <1>1, ConsumerParts, Became DEF Start, Task
<1>2. CASE Receive(c)
  <2> DEFINE tried == [t.buffered EXCEPT !.tries = t.buffered.tries + 1]
  <2>1. t.buffered \in Copies
    BY <1>2, TaskType DEF Receive
  <2> DEFINE owed == IF t.unacked = t.buffered THEN tried ELSE t.unacked
  <2>2. tried \in Copies /\ owed \in Copies \cup {NoCopy} /\ Taken(c) \in {"ack", "callback"}
    BY <2>1, CopyType, TaskType DEF Taken
  <2>3. Become(c, [t EXCEPT !.pc = Taken(c), !.buffered = NoCopy, !.cur = tried,
                            !.unacked = owed])
    BY <1>2 DEF Receive
  <2> HIDE DEF tried, owed
  <2>4. consumer' \in [Consumers -> Task]
    <3>1. [t EXCEPT !.pc = Taken(c), !.buffered = NoCopy, !.cur = tried, !.unacked = owed] \in Task
      BY <2>2 DEF Task
    <3> QED BY <2>3, <3>1, Became
  <2> QED BY <1>2, <2>4 DEF Receive
<1>3. CASE ReceiveNothing(c)
  BY <1>3, Became DEF ReceiveNothing, Task, Taken
<1>4. CASE AutoAck(c)
  BY <1>4, Became DEF AutoAck, Task, Owed
<1>5. CASE Ack(c)
  BY <1>5, Became DEF Ack, Task, Owed
<1>6. Done(c) => consumer' \in [Consumers -> Task]
  BY Became DEF Done, Task
<1>7. CASE ReturnTrue(c)
  <2>1. oks' \in Tally
    BY <1>7, TaskType, ConsumerParts, CountType DEF ReturnTrue
  <2> QED BY <1>6, <1>7, <2>1 DEF ReturnTrue
<1>8. CASE ReturnFalse(c)
  <2>1. oks' \in Tally /\ fails' \in Tally /\ IsBagOf(retries', Retries)
    <3> DEFINE tried == [t.cur EXCEPT !.nums = NextNums(t.cur)]
    <3>1. t.cur = NoCopy \/ (t.cur \in Copies /\ tried \in Copies)
      BY TaskType, CopyType
    <3>2. /\ oks' \in {oks, Count(oks, c[1], t.cur)}
          /\ fails' \in {fails, Count(fails, c[1], t.cur)}
          /\ retries' \in {retries, Retry(c, "false", tried)}
          /\ t.cur = NoCopy => oks' = oks /\ fails' = fails /\ retries' = retries
      BY <1>8 DEF ReturnFalse, ReportMax
    <3> HIDE DEF tried
    <3> QED BY <3>1, <3>2, ConsumerParts, CountType, RetryType
  <2> QED BY <1>6, <1>8, <2>1 DEF ReturnFalse
<1>9. CASE Push(c)
  <2> DEFINE pushed == [t.cur EXCEPT !.pushed = t.cur.pushed + 1]
  <2>1. t.cur \in Copies /\ pushed \in Copies
    BY <1>9, TaskType, CopyType DEF Push
  <2>2. fails' \in Tally /\ IsBagOf(retries', Retries)
    BY <1>9, <2>1, ConsumerParts, CountType, RetryType DEF Push, ReportMax
  <2>3. [t EXCEPT !.pc = "pushed", !.cur = pushed, !.unacked = pushed] \in Task
    BY <2>1 DEF Task
  <2>4. consumer' \in [Consumers -> Task]
    BY <1>6, <1>9, <2>3, Became DEF Push
  <2> QED BY <1>9, <2>2, <2>4 DEF Push
<1>10. CASE ReturnPushed(c)
  BY <1>6, <1>10 DEF ReturnPushed
<1> QED BY <1>1, <1>2, <1>3, <1>4, <1>5, <1>7, <1>8, <1>9, <1>10 DEF TaskStep

LEMMA BrokerStepTypeOK ==
  ASSUME TypeOK, NEW c \in Consumers, Deliver(c) \/ Notified(c) \/ Lose(c)
  PROVE  TypeOK'
<1> USE TypeOKParts, TypeOKNext DEF fixed, brokerVars, outcomes
<1>1. CASE Deliver(c)
  <2>1. PICK copy \in BagToSet(queue[c[1]]) :
          /\ queue' = TakeFrom(queue, c[1], copy)
          /\ Become(c, [consumer[c] EXCEPT !.unacked = copy, !.buffered = copy])
    BY <1>1 DEF Deliver
  <2>2. copy \in Copies
    BY ConsumerParts DEF IsBagOf, BagsType
  <2>3. [consumer[c] EXCEPT !.unacked = copy, !.buffered = copy] \in Task
    BY <2>2 DEF Task
  <2>4. BagsType(queue')
    BY <2>1, ConsumerParts, TakeFromType
  <2> QED BY <1>1, <2>1, <2>3, <2>4, Became DEF Deliver
<1>2. CASE Notified(c)
  <2>1. [NewTask EXCEPT !.epoch = consumer[c].epoch + 1] \in Task
    BY TaskType, NewTaskType
  <2> QED BY <1>2, <2>1, Became DEF Notified
<1>3. CASE Lose(c)
  <2>1. losses' \in Nat /\ CloseChannel(c)
    BY <1>3 DEF Lose
  <2> QED BY <1>3, <2>1, Closed DEF Lose
<1> QED BY <1>1, <1>2, <1>3

LEMMA PublishTypeOK ==
  ASSUME TypeOK, NEW r \in BagToSet(retries), Publish(r)
  PROVE  TypeOK'
<1> USE TypeOKParts, TypeOKNext DEF fixed, brokerVars, outcomes
<1>1. r \in Retries /\ r.by \in Consumers /\ r.copy \in Copies /\ r.by[1] \in Queues
  BY ConsumerParts DEF IsBagOf, Retries
<1>2. IsBagOf(retries', Retries)
  BY RemovedIsBag DEF Publish
<1>3. BagsType(dead')
  BY <1>1, AddToType DEF Publish
<1>4. consumer' \in [Consumers -> Task] /\ BagsType(queue') /\ requeues' \in Tally
  BY <1>1, Closed DEF Publish
<1>5. fails' \in Tally
  BY <1>1, CountType DEF Publish, ReportMax
<1> QED BY <1>2, <1>3, <1>4, <1>5 DEF Publish

LEMMA ExpireTypeOK ==
  ASSUME TypeOK, NEW q \in Queues, Expire(q)
  PROVE  TypeOK'
<1> USE TypeOKParts, TypeOKNext DEF fixed, outcomes
<1>1. PICK copy \in BagToSet(dead[q]) :
        dead' = TakeFrom(dead, q, copy) /\ queue' = AddTo(queue, Routed(q), copy)
  BY DEF Expire
<1>2. copy \in Copies
  BY DEF IsBagOf, BagsType
<1> QED BY <1>1, <1>2, TakeFromType, AddToType DEF Expire

LEMMA StepTypeOK ==
  ASSUME TypeOK, [Next]_vars
  PROVE  TypeOK'
<1>1. CASE UNCHANGED vars
  BY <1>1, TypeOKParts, TypeOKNext DEF vars, brokerVars, fixed, outcomes
<1> QED BY <1>1, TaskStepTypeOK, BrokerStepTypeOK, PublishTypeOK, ExpireTypeOK DEF Next

(* The variables keep their types: bags stay bags of copies, and no copy   *)
(* that is absent is queued or counted.                                    *)
THEOREM TypeCorrect == Spec => []TypeOK
BY InitTypeOK, StepTypeOK, PTL DEF Spec

---------------------------------------------------------------------------
(* A step of one task changes no other.                                    *)
LEMMA OthersStay ==
  ASSUME TypeOK, NEW c \in Consumers,
         TaskStep(c) \/ Deliver(c) \/ Notified(c) \/ Lose(c) \/ CloseChannel(c)
  PROVE  \A d \in Consumers \ {c} : consumer'[d] = consumer[d]
BY TypeOKParts DEF TaskStep, Start, Receive, ReceiveNothing, AutoAck, Ack, ReturnTrue,
   ReturnFalse, Push, ReturnPushed, Done, Deliver, Notified, Lose, CloseChannel, Become

(* The task itself.                                                        *)
LEMMA BecameThis ==
  ASSUME TypeOK, NEW c \in Consumers, NEW t, Become(c, t)
  PROVE  consumer'[c] = t
BY TypeOKParts DEF Become

LEMMA TaskStepHand ==
  ASSUME TypeOK, NEW c \in Consumers, Hand(consumer[c]), TaskStep(c)
  PROVE  Hand(consumer'[c])
<1> DEFINE t == consumer[c]
<1> USE BecameThis
<1>0. t \in Task /\ TypeOK
  BY TypeOKParts
<1>1. CASE Start(c)
  BY <1>0, <1>1 DEF Start, At, Hand, Task
<1>2. CASE Receive(c)
  <2> DEFINE tried == [t.buffered EXCEPT !.tries = t.buffered.tries + 1]
  <2>1. t.buffered # NoCopy /\ tried # NoCopy /\ t.cur = NoCopy
    BY <1>2, CopyType, TaskType, TypeOKParts DEF Receive, Hand, At
  <2>2. consumer'[c] = [t EXCEPT !.pc = Taken(c), !.buffered = NoCopy, !.cur = tried,
                                 !.unacked = IF t.unacked = t.buffered THEN tried ELSE t.unacked]
    BY <1>2 DEF Receive
  <2> HIDE DEF tried
  <2> QED BY <1>0, <2>1, <2>2 DEF Hand, Task, Taken
<1>3. CASE ReceiveNothing(c)
  BY <1>0, <1>3 DEF ReceiveNothing, At, Hand, Task, Taken
<1>4. CASE AutoAck(c)
  <2>1. consumer'[c] = [t EXCEPT !.pc = "callback", !.unacked = NoCopy]
    BY <1>4 DEF AutoAck, Owed
  <2>2. t.buffered = NoCopy
    BY <1>4 DEF AutoAck, At, Hand
  <2> QED BY <1>0, <2>1, <2>2 DEF Hand, Task
<1>5. CASE Ack(c)
  BY <1>0, <1>5 DEF Ack, At, Hand, Task, Owed, Owes
<1>6. Done(c) => Hand(consumer'[c])
  BY <1>0 DEF Done, Owes, Hand, Task
<1>7. CASE Push(c)
  <2> DEFINE pushed == [t.cur EXCEPT !.pushed = t.cur.pushed + 1]
  <2>1. CASE Owes(c) /\ Become(c, [t EXCEPT !.pc = "pushed", !.cur = pushed, !.unacked = pushed])
    <3>1. consumer'[c] = [t EXCEPT !.pc = "pushed", !.cur = pushed, !.unacked = pushed]
      BY <2>1
    <3> HIDE DEF pushed
    <3> QED BY <1>0, <2>1, <3>1 DEF Owes, Hand, Task
  <2> QED BY <1>6, <1>7, <2>1 DEF Push
<1> QED BY <1>1, <1>2, <1>3, <1>4, <1>5, <1>6, <1>7 DEF TaskStep, ReturnTrue, ReturnFalse, ReturnPushed

LEMMA ChannelStepHand ==
  ASSUME TypeOK, NEW c \in Consumers, Hand(consumer[c]),
         Deliver(c) \/ Notified(c) \/ (CloseChannel(c) /\ consumer[c].open)
  PROVE  Hand(consumer'[c])
<1> DEFINE t == consumer[c]
<1>0. t \in Task
  BY TypeOKParts
<1>1. CASE Deliver(c)
  <2>1. PICK copy \in BagToSet(queue[c[1]]) :
          consumer'[c] = [t EXCEPT !.unacked = copy, !.buffered = copy]
    BY <1>1, BecameThis DEF Deliver
  <2>2. t.open /\ t.unacked = NoCopy
    BY <1>1 DEF Deliver
  <2> QED BY <1>0, <2>1, <2>2 DEF Hand, Task
<1>2. CASE Notified(c)
  <2>1. consumer'[c] = [NewTask EXCEPT !.epoch = t.epoch + 1]
    BY <1>2, BecameThis DEF Notified
  <2> QED BY <2>1 DEF Hand, NewTask
<1>3. CASE CloseChannel(c) /\ t.open
  <2>1. PICK rest \in {t.buffered, NoCopy} :
          consumer'[c] = [t EXCEPT !.open = FALSE, !.unacked = NoCopy, !.buffered = rest]
    BY <1>3, Closed
  <2> QED BY <1>0, <1>3, <2>1 DEF Hand, Task
<1> QED BY <1>1, <1>2, <1>3

LEMMA StepHands ==
  ASSUME TypeOK, Hands, [Next]_vars
  PROVE  Hands'
<1> USE DEF Hands
<1>1. CASE UNCHANGED vars
  BY <1>1 DEF vars, Hand
<1>2. ASSUME NEW c \in Consumers, TaskStep(c) \/ Deliver(c) \/ Notified(c) \/ Lose(c)
      PROVE  Hands'
  <2>1. Lose(c) => CloseChannel(c) /\ consumer[c].open
    BY DEF Lose
  <2>2. Hand(consumer'[c])
    BY <1>2, <2>1, TaskStepHand, ChannelStepHand
  <2>3. \A d \in Consumers \ {c} : Hand(consumer'[d])
    BY <1>2, OthersStay
  <2> QED BY <2>2, <2>3 DEF Hand
<1>3. ASSUME NEW r \in BagToSet(retries), Publish(r)
      PROVE  Hands'
  <2>1. r.by \in Consumers
    BY TypeOKParts DEF IsBagOf, Retries
  <2>2. CASE CloseChannel(r.by) /\ consumer[r.by].open
    <3>1. Hand(consumer'[r.by])
      BY <2>1, <2>2, ChannelStepHand
    <3>2. \A d \in Consumers \ {r.by} : Hand(consumer'[d])
      BY <2>1, <2>2, OthersStay
    <3> QED BY <3>1, <3>2 DEF Hand
  <2>3. CASE UNCHANGED consumer
    BY <2>3 DEF Hand
  <2> QED BY <1>3, <2>2, <2>3 DEF Publish
<1>4. ASSUME NEW q \in Queues, Expire(q)
      PROVE  Hands'
  BY <1>4 DEF Expire, Hand
<1> QED BY <1>1, <1>2, <1>3, <1>4 DEF Next

---------------------------------------------------------------------------
(* A task's channels only grow in number, and losing one leaves a mark.    *)
Marked(t) == t.epoch > 0 \/ (t.pc # "start" /\ ~t.open)

Follows(t, u) ==
  /\ t.epoch <= u.epoch
  /\ t.epoch = u.epoch /\ t.pc # "start" => u.pc # "start"
  /\ Marked(t) => Marked(u)

LEMMA FollowsItself == \A t \in Task : Follows(t, t)
BY DEF Follows, Task

LEMMA DoneFollows ==
  ASSUME TypeOK, NEW c \in Consumers, Done(c)
  PROVE  /\ Follows(consumer[c], consumer'[c])
         /\ consumer'[c] = [consumer[c] EXCEPT !.pc = "select", !.cur = NoCopy]
<1>1. consumer[c] \in Task
  BY TypeOKParts
<1>2. consumer'[c] = [consumer[c] EXCEPT !.pc = "select", !.cur = NoCopy]
  BY BecameThis DEF Done
<1> QED BY <1>1, <1>2 DEF Follows, Marked, Task

LEMMA ClosedFollows ==
  ASSUME TypeOK, NEW c \in Consumers, CloseChannel(c)
  PROVE  /\ Follows(consumer[c], consumer'[c])
         /\ consumer[c].pc # "start" => Marked(consumer'[c])
<1>1. consumer[c] \in Task
  BY TypeOKParts
<1>2. PICK rest \in {consumer[c].buffered, NoCopy} :
        consumer'[c] = [consumer[c] EXCEPT !.open = FALSE, !.unacked = NoCopy, !.buffered = rest]
  BY Closed
<1> QED BY <1>1, <1>2 DEF Follows, Marked, Task

LEMMA TaskStepFollows ==
  ASSUME TypeOK, NEW c \in Consumers, TaskStep(c)
  PROVE  Follows(consumer[c], consumer'[c])
<1> DEFINE t == consumer[c]
<1>0. t \in Task
  BY TypeOKParts
<1>1. CASE Start(c)
  <2>1. consumer'[c] = [t EXCEPT !.pc = "select", !.open = TRUE] /\ t.pc = "start"
    BY <1>1, BecameThis DEF Start, At
  <2> QED BY <1>0, <2>1 DEF Follows, Marked, Task
<1>2. CASE Receive(c)
  <2>1. \E x, y : consumer'[c] = [t EXCEPT !.pc = Taken(c), !.buffered = NoCopy,
                                           !.cur = x, !.unacked = y]
    BY <1>2, BecameThis DEF Receive
  <2> QED BY <1>0, <2>1 DEF Follows, Marked, Task, Taken
<1>3. CASE ReceiveNothing(c)
  <2>1. consumer'[c] = [t EXCEPT !.pc = Taken(c)]
    BY <1>3, BecameThis DEF ReceiveNothing
  <2> QED BY <1>0, <2>1 DEF Follows, Marked, Task, Taken
<1>4. CASE AutoAck(c)
  <2>1. consumer'[c] = [t EXCEPT !.pc = "callback", !.unacked = NoCopy]
    BY <1>4, BecameThis DEF AutoAck, Owed
  <2> QED BY <1>0, <2>1 DEF Follows, Marked, Task
<1>5. CASE Ack(c)
  <2>1. consumer'[c] = [t EXCEPT !.unacked = NoCopy]
    BY <1>5, BecameThis DEF Ack, Owed
  <2> QED BY <1>0, <2>1 DEF Follows, Marked, Task
<1>6. CASE Push(c)
  <2>1. CASE \E x : Become(c, [t EXCEPT !.pc = "pushed", !.cur = x, !.unacked = x])
    <3>1. \E x : consumer'[c] = [t EXCEPT !.pc = "pushed", !.cur = x, !.unacked = x]
      BY <2>1, BecameThis
    <3> QED BY <1>0, <3>1 DEF Follows, Marked, Task
  <2> QED BY <1>6, <2>1, DoneFollows DEF Push
<1> QED BY <1>1, <1>2, <1>3, <1>4, <1>5, <1>6, DoneFollows
        DEF TaskStep, ReturnTrue, ReturnFalse, ReturnPushed

LEMMA StepFollows ==
  ASSUME TypeOK, [Next]_vars, NEW d \in Consumers
  PROVE  Follows(consumer[d], consumer'[d])
<1>0. consumer[d] \in Task
  BY TypeOKParts
<1>1. ASSUME NEW c \in Consumers, TaskStep(c) \/ Deliver(c) \/ Notified(c) \/ Lose(c)
      PROVE  Follows(consumer[c], consumer'[c])
  <2>0. consumer[c] \in Task
    BY TypeOKParts
  <2>1. CASE Deliver(c)
    <3>1. \E x : consumer'[c] = [consumer[c] EXCEPT !.unacked = x, !.buffered = x]
      BY <2>1, BecameThis DEF Deliver
    <3> QED BY <2>0, <3>1 DEF Follows, Marked, Task
  <2>2. CASE Notified(c)
    <3>1. consumer'[c] = [NewTask EXCEPT !.epoch = consumer[c].epoch + 1]
      BY <2>2, BecameThis DEF Notified
    <3> QED BY <2>0, <3>1 DEF Follows, Marked, NewTask, Task
  <2> QED BY <1>1, <2>1, <2>2, TaskStepFollows, ClosedFollows DEF Lose
<1>2. CASE consumer'[d] = consumer[d]
  BY <1>0, <1>2, FollowsItself
<1>3. ASSUME NEW r \in BagToSet(retries), Publish(r)
      PROVE  Follows(consumer[d], consumer'[d])
  <2>1. r.by \in Consumers
    BY TypeOKParts DEF IsBagOf, Retries
  <2>2. CloseChannel(r.by) \/ UNCHANGED consumer
    BY <1>3 DEF Publish
  <2> QED BY <1>2, <2>1, <2>2, ClosedFollows, OthersStay
<1> QED BY <1>1, <1>2, <1>3, OthersStay DEF Next, Expire, vars

LEMMA DisturbedStays ==
  ASSUME TypeOK, [Next]_vars, NEW q, Disturbed(q)
  PROVE  Disturbed(q)'
<1>1. PICK c \in Consumers : c[1] = q /\ Marked(consumer[c])
  BY DEF Disturbed, Marked
<1>2. Marked(consumer'[c])
  BY <1>1, StepFollows DEF Follows
<1> QED BY <1>1, <1>2 DEF Disturbed, Marked

(* Every retry there is after a step was there before, or is that of a     *)
(* task that has its channel.                                              *)
LEMMA RetriesHeld ==
  ASSUME TypeOK, Holders, [Next]_vars, NEW r \in BagToSet(retries')
  PROVE  Held(r) /\ r.by \in Consumers
<1> USE DEF Holders
<1>0. ASSUME NEW s \in BagToSet(retries) PROVE Held(s) /\ s.by \in Consumers
  BY TypeOKParts DEF IsBagOf, Retries
<1>1. ASSUME NEW c \in Consumers, At(c, "callback"), NEW via \in {"false", "push"},
             NEW copy \in Copies, retries' = Retry(c, via, copy)
      PROVE  Held(r) /\ r.by \in Consumers
  <2> DEFINE s == [by |-> c, epoch |-> consumer[c].epoch, via |-> via, copy |-> copy]
  <2>1. s \in Retries
    BY TypeOKParts, TaskType DEF Retries
  <2>2. r \in BagToSet(retries) \cup {s}
    BY <1>1, <2>1, TypeOKParts, AddedIsBag DEF Retry
  <2>3. Held(s)
    BY <1>1, TypeOKParts, TaskType DEF Held, At
  <2> QED BY <1>0, <2>2, <2>3
<1>2. ASSUME NEW c \in Consumers, TaskStep(c)
      PROVE  Held(r) /\ r.by \in Consumers
  <2>1. UNCHANGED retries \/ ReturnFalse(c) \/ Push(c)
    BY <1>2 DEF TaskStep, Start, Receive, ReceiveNothing, AutoAck, Ack, ReturnTrue, ReturnPushed
  <2>2. CASE ReturnFalse(c)
    <3>1. UNCHANGED retries \/ \E copy \in Copies : retries' = Retry(c, "false", copy)
      BY <2>2, TaskType, CopyType, TypeOKParts DEF ReturnFalse
    <3> QED BY <1>0, <1>1, <2>2, <3>1 DEF ReturnFalse
  <2>3. CASE Push(c)
    <3>1. UNCHANGED retries \/ \E copy \in Copies : retries' = Retry(c, "push", copy)
      BY <2>3, TaskType, CopyType, TypeOKParts DEF Push
    <3> QED BY <1>0, <1>1, <2>3, <3>1 DEF Push
  <2> QED BY <1>0, <2>1, <2>2, <2>3
<1>3. ASSUME NEW s \in BagToSet(retries), Publish(s)
      PROVE  Held(r) /\ r.by \in Consumers
  <2>1. r \in BagToSet(retries)
    BY <1>3, TypeOKParts, RemovedIsBag DEF Publish
  <2> QED BY <1>0, <2>1
<1> QED BY <1>0, <1>2, <1>3 DEF Next, Deliver, Notified, Lose, Expire, vars

LEMMA StepHolders ==
  ASSUME TypeOK, Holders, [Next]_vars
  PROVE  Holders'
<1> SUFFICES ASSUME NEW r \in BagToSet(retries') PROVE Held(r)'
  BY DEF Holders
<1>1. Held(r) /\ r.by \in Consumers
  BY RetriesHeld
<1>2. Follows(consumer[r.by], consumer'[r.by])
  BY <1>1, StepFollows
<1>3. r.epoch \in Nat /\ consumer[r.by].epoch \in Nat /\ consumer'[r.by].epoch \in Nat
  <2>1. IsBagOf(retries, Retries)' /\ consumer \in [Consumers -> Task]
        /\ consumer' \in [Consumers -> Task]
    BY StepTypeOK, TypeOKParts DEF TypeOK
  <2> QED BY <1>1, <2>1 DEF IsBagOf, Retries, Task
<1> QED BY <1>1, <1>2, <1>3 DEF Held, Follows, At

---------------------------------------------------------------------------
(* How the counts of a copy change.                                        *)
LEMMA CopyCounts ==
  ASSUME NEW copy \in Copies, Running(copy)
  PROVE  /\ Waiting([copy EXCEPT !.requeued = copy.requeued + 1])
         /\ Waiting([copy EXCEPT !.pushed = copy.pushed + 1])
         /\ Running([copy EXCEPT !.pushed = copy.pushed + 1])
         /\ ~Final(copy) => Waiting([copy EXCEPT !.nums = NextNums(copy)])
BY RetryAssumption DEF Running, Waiting, Final, NextNums, Copies

LEMMA WaitingRuns ==
  ASSUME NEW copy \in Copies, Waiting(copy)
  PROVE  Running(copy) /\ Running([copy EXCEPT !.tries = copy.tries + 1])
BY DEF Running, Waiting, Copies

LEMMA AddedWait ==
  ASSUME NEW bags, BagsType(bags), \A q \in Queues : AllWaiting(bags[q]),
         NEW qs, NEW copy \in Copies, Waiting(copy)
  PROVE  \A q \in Queues : AllWaiting(AddTo(bags, qs, copy)[q])
BY AddedIsBag DEF BagsType, AddTo, AllWaiting

LEMMA TakenWait ==
  ASSUME NEW bags, BagsType(bags), \A q \in Queues : AllWaiting(bags[q]),
         NEW p \in Queues, NEW copy \in BagToSet(bags[p])
  PROVE  \A q \in Queues : AllWaiting(TakeFrom(bags, p, copy)[q])
BY RemovedIsBag DEF BagsType, TakeFrom, AllWaiting

LEMMA RetryWaits ==
  ASSUME TypeOK, \A r \in BagToSet(retries) : Waiting(r.copy), NEW c \in Consumers,
         NEW via \in {"false", "push"}, NEW copy \in Copies, Waiting(copy)
  PROVE  \A r \in BagToSet(Retry(c, via, copy)) : Waiting(r.copy)
<1> DEFINE s == [by |-> c, epoch |-> consumer[c].epoch, via |-> via, copy |-> copy]
<1>1. s \in Retries
  BY TypeOKParts, TaskType DEF Retries
<1>2. BagToSet(Retry(c, via, copy)) = BagToSet(retries) \cup {s}
  BY <1>1, TypeOKParts, AddedIsBag DEF Retry
<1> QED BY <1>2

LEMMA ClosedCounts ==
  ASSUME TypeOK, Hands, Counts, NEW c \in Consumers, CloseChannel(c)
  PROVE  /\ \A q \in Queues : AllWaiting(queue'[q])
         /\ HandCounts(consumer'[c])
<1> DEFINE t == consumer[c]
<1>0. t \in Task /\ Hand(t) /\ HandCounts(t)
  BY TypeOKParts DEF Hands, Counts
<1>1. HandCounts(consumer'[c])
  <2>1. PICK rest \in {t.buffered, NoCopy} :
          consumer'[c] = [t EXCEPT !.open = FALSE, !.unacked = NoCopy, !.buffered = rest]
    BY Closed
  <2> QED BY <1>0, <2>1 DEF HandCounts, Task
<1>2. CASE t.unacked = NoCopy
  BY <1>1, <1>2 DEF CloseChannel, Counts
<1>3. CASE t.unacked # NoCopy
  <2> DEFINE copy == [t.unacked EXCEPT !.requeued = t.unacked.requeued + 1]
  <2>1. t.unacked \in Copies /\ copy \in Copies
    BY <1>3, TypeOKParts, TaskType, CopyType
  <2>2. Running(t.unacked)
    BY <1>0, <1>3, <2>1, WaitingRuns DEF Hand, HandCounts
  <2>3. Waiting(copy)
    BY <2>1, <2>2, CopyCounts
  <2>4. queue' = AddTo(queue, {c[1]}, copy)
    BY <1>3 DEF CloseChannel
  <2> HIDE DEF copy
  <2>5. \A q \in Queues : AllWaiting(queue'[q])
    BY <2>1, <2>3, <2>4, TypeOKParts, AddedWait DEF Counts
  <2> QED BY <1>1, <2>5
<1> QED BY <1>2, <1>3

LEMMA DoneCounts ==
  ASSUME TypeOK, Counts, NEW c \in Consumers, Done(c)
  PROVE  HandCounts(consumer'[c])
<1>1. consumer[c] \in Task /\ HandCounts(consumer[c])
  BY TypeOKParts DEF Counts
<1> QED BY <1>1, DoneFollows DEF HandCounts, Task

LEMMA TaskStepCounts ==
  ASSUME TypeOK, Counts, NEW c \in Consumers, TaskStep(c)
  PROVE  /\ HandCounts(consumer'[c])
         /\ \A r \in BagToSet(retries') : Waiting(r.copy)
<1> DEFINE t == consumer[c]
<1>0. /\ t \in Task /\ HandCounts(t)
      /\ \A r \in BagToSet(retries) : Waiting(r.copy)
      /\ t.cur # NoCopy => t.cur \in Copies /\ Running(t.cur)
  BY TypeOKParts DEF Counts, HandCounts, Task
<1>1. CASE Start(c)
  <2>1. consumer'[c] = [t EXCEPT !.pc = "select", !.open = TRUE]
    BY <1>1, BecameThis DEF Start
  <2> QED BY <1>0, <1>1, <2>1 DEF Start, HandCounts, Task
<1>2. CASE Receive(c)
  <2> DEFINE tried == [t.buffered EXCEPT !.tries = t.buffered.tries + 1]
  <2>1. t.buffered \in Copies /\ t.buffered # NoCopy
    BY <1>2, TypeOKParts, TaskType DEF Receive
  <2>2. Running(tried)
    BY <1>0, <2>1, WaitingRuns DEF HandCounts
  <2>3. \E y : consumer'[c] = [t EXCEPT !.pc = Taken(c), !.buffered = NoCopy,
                                        !.cur = tried, !.unacked = y]
    BY <1>2, BecameThis DEF Receive
  <2> HIDE DEF tried
  <2> QED BY <1>0, <1>2, <2>2, <2>3 DEF Receive, HandCounts, Task
<1>3. CASE ReceiveNothing(c)
  <2>1. consumer'[c] = [t EXCEPT !.pc = Taken(c)]
    BY <1>3, BecameThis DEF ReceiveNothing
  <2> QED BY <1>0, <1>3, <2>1 DEF ReceiveNothing, HandCounts, Task
<1>4. CASE AutoAck(c)
  <2>1. consumer'[c] = [t EXCEPT !.pc = "callback", !.unacked = NoCopy]
    BY <1>4, BecameThis DEF AutoAck, Owed
  <2> QED BY <1>0, <1>4, <2>1 DEF AutoAck, HandCounts, Task
<1>5. CASE Ack(c)
  <2>1. consumer'[c] = [t EXCEPT !.unacked = NoCopy]
    BY <1>5, BecameThis DEF Ack, Owed
  <2> QED BY <1>0, <1>5, <2>1 DEF Ack, HandCounts, Task
<1>6. CASE ReturnTrue(c) \/ ReturnPushed(c)
  BY <1>0, <1>6, DoneCounts DEF ReturnTrue, ReturnPushed
<1>7. CASE ReturnFalse(c)
  <2> DEFINE next == [t.cur EXCEPT !.nums = NextNums(t.cur)]
  <2>1. HandCounts(consumer'[c])
    BY <1>7, DoneCounts DEF ReturnFalse
  <2>2. CASE UNCHANGED retries
    BY <1>0, <2>1, <2>2
  <2>3. CASE t.cur # NoCopy /\ ~Final(t.cur) /\ retries' = Retry(c, "false", next)
    <3>1. next \in Copies /\ Waiting(next)
      BY <1>0, <2>3, CopyType, CopyCounts
    <3> HIDE DEF next
    <3> QED BY <1>0, <2>1, <2>3, <3>1, RetryWaits
  <2> QED BY <1>7, <2>2, <2>3 DEF ReturnFalse
<1>8. CASE Push(c)
  <2> DEFINE pushed == [t.cur EXCEPT !.pushed = t.cur.pushed + 1]
  <2>1. pushed \in Copies /\ Waiting(pushed) /\ Running(pushed)
    BY <1>0, <1>8, CopyType, CopyCounts DEF Push
  <2>2. \A r \in BagToSet(retries') : Waiting(r.copy)
    <3>1. UNCHANGED retries \/ retries' = Retry(c, "push", pushed)
      BY <1>8 DEF Push
    <3> HIDE DEF pushed
    <3> QED BY <1>0, <2>1, <3>1, RetryWaits
  <2>3. CASE Become(c, [t EXCEPT !.pc = "pushed", !.cur = pushed, !.unacked = pushed])
    <3>1. consumer'[c] = [t EXCEPT !.pc = "pushed", !.cur = pushed, !.unacked = pushed]
      BY <2>3, BecameThis
    <3> HIDE DEF pushed
    <3> QED BY <1>0, <2>1, <2>2, <3>1 DEF HandCounts, Task
  <2> QED BY <1>8, <2>2, <2>3, DoneCounts DEF Push
<1> QED BY <1>1, <1>2, <1>3, <1>4, <1>5, <1>6, <1>7, <1>8 DEF TaskStep

LEMMA StepCounts ==
  ASSUME TypeOK, Hands, Counts, [Next]_vars
  PROVE  Counts'
<1> DEFINE QueuesWait  == \A q \in Queues : AllWaiting(queue[q])
           DeadWait    == \A q \in Queues : AllWaiting(dead[q])
           RetriesWait == \A r \in BagToSet(retries) : Waiting(r.copy)
           TasksCount  == \A c \in Consumers : HandCounts(consumer[c])
<1>0. Counts <=> QueuesWait /\ DeadWait /\ RetriesWait /\ TasksCount
  BY DEF Counts
<1>1. ASSUME QueuesWait', DeadWait', RetriesWait', TasksCount'
      PROVE  Counts'
  BY <1>1 DEF Counts
<1>2. UNCHANGED queue => QueuesWait'
  BY <1>0 DEF AllWaiting
<1>3. UNCHANGED dead => DeadWait'
  BY <1>0 DEF AllWaiting
<1>4. UNCHANGED retries => RetriesWait'
  BY <1>0 DEF Waiting
<1>5. UNCHANGED consumer => TasksCount'
  BY <1>0 DEF HandCounts
<1>6. ASSUME NEW c \in Consumers, HandCounts(consumer'[c]),
             \A d \in Consumers \ {c} : consumer'[d] = consumer[d]
      PROVE  TasksCount'
  BY <1>0, <1>6 DEF HandCounts
<1> USE DEF fixed, brokerVars, outcomes
<1>7. CASE UNCHANGED vars
  BY <1>1, <1>2, <1>3, <1>4, <1>5, <1>7 DEF vars
<1>8. ASSUME NEW c \in Consumers, TaskStep(c)
      PROVE  Counts'
  <2>1. TasksCount' /\ RetriesWait'
    BY <1>6, <1>8, OthersStay, TaskStepCounts
  <2>2. UNCHANGED <<queue, dead>>
    BY <1>8 DEF TaskStep, Start, Receive, ReceiveNothing, AutoAck, Ack, ReturnTrue,
       ReturnFalse, Push, ReturnPushed
  <2> QED BY <1>1, <1>2, <1>3, <2>1, <2>2
<1>9. ASSUME NEW c \in Consumers, Deliver(c)
      PROVE  Counts'
  <2>1. PICK copy \in BagToSet(queue[c[1]]) :
          /\ queue' = TakeFrom(queue, c[1], copy)
          /\ consumer'[c] = [consumer[c] EXCEPT !.unacked = copy, !.buffered = copy]
    BY <1>9, BecameThis DEF Deliver
  <2>2. Waiting(copy)
    BY <1>0, ConsumerParts DEF AllWaiting
  <2>3. QueuesWait'
    BY <1>0, <2>1, TypeOKParts, ConsumerParts, TakenWait
  <2>4. HandCounts(consumer'[c])
    <3>1. consumer[c] \in Task /\ HandCounts(consumer[c])
      BY <1>0, TypeOKParts
    <3> QED BY <2>1, <2>2, <3>1 DEF HandCounts, Task
  <2> QED BY <1>1, <1>3, <1>4, <1>6, <1>9, <2>3, <2>4, OthersStay DEF Deliver
<1>10. ASSUME NEW c \in Consumers, Notified(c)
       PROVE  Counts'
  <2>1. HandCounts(consumer'[c])
    BY <1>10, BecameThis DEF Notified, NewTask, HandCounts
  <2> QED BY <1>1, <1>2, <1>3, <1>4, <1>6, <1>10, <2>1, OthersStay DEF Notified
<1>11. ASSUME NEW c \in Consumers, Lose(c)
       PROVE  Counts'
  <2>1. QueuesWait' /\ HandCounts(consumer'[c])
    BY <1>11, ClosedCounts DEF Lose
  <2> QED BY <1>1, <1>3, <1>4, <1>6, <1>11, <2>1, OthersStay DEF Lose
<1>12. ASSUME NEW r \in BagToSet(retries), Publish(r)
       PROVE  Counts'
  <2>1. r.by \in Consumers /\ r.copy \in Copies /\ Waiting(r.copy)
    BY <1>0, TypeOKParts DEF IsBagOf, Retries
  <2>2. RetriesWait'
    BY <1>0, <1>12, TypeOKParts, RemovedIsBag DEF Publish
  <2>3. DeadWait'
    BY <1>0, <1>3, <1>12, <2>1, TypeOKParts, AddedWait DEF Publish
  <2>4. QueuesWait' /\ TasksCount'
    <3>1. CASE CloseChannel(r.by)
      BY <1>6, <2>1, <3>1, ClosedCounts, OthersStay
    <3> QED BY <1>2, <1>5, <1>12, <3>1 DEF Publish
  <2> QED BY <1>1, <2>2, <2>3, <2>4
<1>13. ASSUME NEW q \in Queues, Expire(q)
       PROVE  Counts'
  <2>1. PICK copy \in BagToSet(dead[q]) :
          dead' = TakeFrom(dead, q, copy) /\ queue' = AddTo(queue, Routed(q), copy)
    BY <1>13 DEF Expire
  <2>2. copy \in Copies /\ Waiting(copy)
    BY <1>0, TypeOKParts DEF BagsType, IsBagOf, AllWaiting
  <2>3. QueuesWait' /\ DeadWait'
    BY <1>0, <2>1, <2>2, TypeOKParts, TakenWait, AddedWait
  <2> QED BY <1>1, <1>4, <1>5, <1>13, <2>3 DEF Expire
<1> QED BY <1>7, <1>8, <1>9, <1>10, <1>11, <1>12, <1>13 DEF Next

LEMMA InitInvariants == Init => Hands /\ Holders /\ Counts
<1> SUFFICES ASSUME Init PROVE Hands /\ Holders /\ Counts
  OBVIOUS
<1>1. Hands
  BY DEF Init, Hands, Hand, NewTask
<1>2. Holders /\ \A r \in BagToSet(retries) : Waiting(r.copy)
  BY DEF Init, Holders, EmptyBag, SetToBag, BagToSet
<1>3. \A q \in Queues : AllWaiting(queue[q])
  BY RetryAssumption DEF Init, AllWaiting, SetToBag, BagToSet, Waiting
<1>4. \A q \in Queues : AllWaiting(dead[q])
  BY DEF Init, AllWaiting, EmptyBag, SetToBag, BagToSet
<1>5. \A c \in Consumers : HandCounts(consumer[c])
  BY DEF Init, HandCounts, NewTask
<1> QED BY <1>1, <1>2, <1>3, <1>4, <1>5 DEF Counts

Inv == TypeOK /\ Hands /\ Holders /\ Counts

LEMMA Invariants == Spec => []Inv
<1>1. Init => Inv
  BY InitTypeOK, InitInvariants DEF Inv
<1>2. Inv /\ [Next]_vars => Inv'
  BY StepTypeOK, StepHands, StepHolders, StepCounts DEF Inv
<1> QED BY <1>1, <1>2, PTL DEF Spec

(* Returning false lets a callback see a message MaxReTry times at most;   *)
(* what the broker takes back and what is pushed add one each (readme 121, *)
(* rabbitmqPool.go:737).                                                   *)
THEOREM AutoRetriesAreBounded == Spec => []AutoRetriesBounded
<1>1. Inv => AutoRetriesBounded
  <2> SUFFICES ASSUME Inv, NEW c \in Consumers,
                      consumer[c].cur # NoCopy, MaxReTry > 0
               PROVE  consumer[c].cur.tries <=
                        MaxReTry + consumer[c].cur.requeued + consumer[c].cur.pushed
    BY DEF AutoRetriesBounded
  <2>1. consumer[c].cur \in Copies /\ Running(consumer[c].cur)
    BY TypeOKParts, TaskType DEF Inv, Counts, HandCounts
  <2> QED BY <2>1, RetryAssumption DEF Running, Copies
<1> QED BY <1>1, Invariants, PTL

---------------------------------------------------------------------------
(* Counting a message.                                                     *)
Is(p, copy, q, m) == IF p = q /\ copy.msg = m THEN 1 ELSE 0
Carries(t, m) == (IF Buffers(t, m) THEN 1 ELSE 0) + (IF Handles(t, m) THEN 1 ELSE 0)

LEMMA SizeType ==
  ASSUME NEW B, NEW S, IsFiniteSet(Tokens(B, S))
  PROVE  Size(B, S) \in Nat
BY FS_CardinalityType DEF Size

LEMMA SizeAdded ==
  ASSUME NEW bags, BagsType(bags), NEW qs, NEW copy \in Copies,
         NEW q \in Queues, NEW m, IsFiniteSet(Tokens(bags[q], Of(m)))
  PROVE  /\ IsFiniteSet(Tokens(AddTo(bags, qs, copy)[q], Of(m)))
         /\ Size(AddTo(bags, qs, copy)[q], Of(m)) =
              Size(bags[q], Of(m)) + IF q \in qs /\ copy.msg = m THEN 1 ELSE 0
<1>1. IsABag(bags[q]) /\ (copy \in Of(m) <=> copy.msg = m) /\ Size(bags[q], Of(m)) \in Nat
  BY SizeType DEF BagsType, IsBagOf, Of
<1>2. AddTo(bags, qs, copy)[q] = IF q \in qs THEN BagAdd(bags[q], copy) ELSE bags[q]
  BY DEF AddTo
<1> QED BY <1>1, <1>2, AddedToken

LEMMA SizeTaken ==
  ASSUME NEW bags, BagsType(bags), NEW p \in Queues, NEW copy \in BagToSet(bags[p]),
         NEW q \in Queues, NEW m, IsFiniteSet(Tokens(bags[q], Of(m)))
  PROVE  /\ IsFiniteSet(Tokens(TakeFrom(bags, p, copy)[q], Of(m)))
         /\ Size(TakeFrom(bags, p, copy)[q], Of(m)) =
              Size(bags[q], Of(m)) - Is(p, copy, q, m)
<1>1. /\ IsABag(bags[q]) /\ copy \in Copies
      /\ copy \in Of(m) <=> copy.msg = m
      /\ Size(bags[q], Of(m)) \in Nat
  BY SizeType DEF BagsType, IsBagOf, Of
<1>2. TakeFrom(bags, p, copy)[q] = IF q = p THEN BagRemove(bags[q], copy) ELSE bags[q]
  BY DEF TakeFrom, BagsType
<1> QED BY <1>1, <1>2, RemovedToken DEF Is

LEMMA SizeRetry ==
  ASSUME TypeOK, NEW c \in Consumers, NEW via \in {"false", "push"}, NEW copy \in Copies,
         NEW q, NEW m, IsFiniteSet(Tokens(retries, RetriesOf(q, m)))
  PROVE  /\ IsFiniteSet(Tokens(Retry(c, via, copy), RetriesOf(q, m)))
         /\ Size(Retry(c, via, copy), RetriesOf(q, m)) =
              Size(retries, RetriesOf(q, m)) + Is(c[1], copy, q, m)
<1> DEFINE s == [by |-> c, epoch |-> consumer[c].epoch, via |-> via, copy |-> copy]
<1>1. s \in Retries
  BY TypeOKParts, TaskType DEF Retries
<1>2. s \in RetriesOf(q, m) <=> c[1] = q /\ copy.msg = m
  BY <1>1 DEF RetriesOf
<1>3. IsABag(retries) /\ Size(retries, RetriesOf(q, m)) \in Nat
  BY TypeOKParts, SizeType DEF IsBagOf
<1>4. Retry(c, via, copy) = BagAdd(retries, s)
  BY DEF Retry
<1> HIDE DEF s
<1> QED BY <1>2, <1>3, <1>4, AddedToken DEF Is

LEMMA TasksAreFew ==
  ASSUME NEW q, NEW S \in SUBSET { c \in Consumers : c[1] = q }
  PROVE  IsFiniteSet(S)
<1> DEFINE ids == 0 .. ConsumeMaxChannel - 1
           T   == { c \in Consumers : c[1] = q }
           f   == [c \in T |-> c[2]]
<1>1. IsFiniteSet(ids)
  BY FS_Interval, RetryAssumption
<1>2. f \in Injection(T, ids)
  BY DEF Consumers, Injection, IsInjective
<1>3. IsFiniteSet(T)
  BY <1>1, <1>2, FS_Injection
<1> QED BY <1>3, FS_Subset

LEMMA OneChanges ==
  ASSUME NEW S, NEW T, NEW c, IsFiniteSet(S), IsFiniteSet(T), S \ {c} = T \ {c}
  PROVE  /\ Cardinality(S) \in Nat /\ Cardinality(T) \in Nat
         /\ Cardinality(T) - (IF c \in T THEN 1 ELSE 0) =
              Cardinality(S) - IF c \in S THEN 1 ELSE 0
<1>1. Cardinality(S) \in Nat /\ Cardinality(T) \in Nat
  BY FS_CardinalityType
<1>2. Cardinality(S \ {c}) = Cardinality(S) - IF c \in S THEN 1 ELSE 0
  BY <1>1, FS_RemoveElement
<1>3. Cardinality(T \ {c}) = Cardinality(T) - IF c \in T THEN 1 ELSE 0
  BY <1>1, FS_RemoveElement
<1> QED BY <1>1, <1>2, <1>3

LEMMA InTasksType ==
  ASSUME NEW q, NEW m
  PROVE  InTasks(q, m) \in Nat
<1>1. IsFiniteSet(Buffering(q, m)) /\ IsFiniteSet(Handling(q, m))
  BY TasksAreFew DEF Buffering, Handling
<1> QED BY <1>1, FS_CardinalityType DEF InTasks

LEMMA TaskChanges ==
  ASSUME NEW c \in Consumers, \A d \in Consumers \ {c} : consumer'[d] = consumer[d],
         NEW q, NEW m
  PROVE  /\ InTasks(q, m)' \in Nat
         /\ InTasks(q, m)' = InTasks(q, m) +
              IF c[1] = q THEN Carries(consumer'[c], m) - Carries(consumer[c], m) ELSE 0
<1>1. /\ IsFiniteSet(Buffering(q, m)) /\ IsFiniteSet(Buffering(q, m)')
      /\ IsFiniteSet(Handling(q, m)) /\ IsFiniteSet(Handling(q, m)')
  BY TasksAreFew DEF Buffering, Handling
<1>2. /\ Buffering(q, m) \ {c} = Buffering(q, m)' \ {c}
      /\ Handling(q, m) \ {c} = Handling(q, m)' \ {c}
  BY DEF Buffering, Handling, Buffers, Handles
<1>3. /\ c \in Buffering(q, m) <=> c[1] = q /\ Buffers(consumer[c], m)
      /\ c \in Buffering(q, m)' <=> c[1] = q /\ Buffers(consumer'[c], m)
      /\ c \in Handling(q, m) <=> c[1] = q /\ Handles(consumer[c], m)
      /\ c \in Handling(q, m)' <=> c[1] = q /\ Handles(consumer'[c], m)
  BY DEF Buffering, Handling, Buffers, Handles
<1> DEFINE B1 == Buffering(q, m)
           B2 == Buffering(q, m)'
           H1 == Handling(q, m)
           H2 == Handling(q, m)'
<1>4. InTasks(q, m) = Cardinality(B1) + Cardinality(H1)
      /\ InTasks(q, m)' = Cardinality(B2) + Cardinality(H2)
  BY DEF InTasks
<1> HIDE DEF B1, B2, H1, H2
<1>5. /\ Cardinality(B1) \in Nat /\ Cardinality(B2) \in Nat
      /\ Cardinality(B2) - (IF c \in B2 THEN 1 ELSE 0) =
           Cardinality(B1) - IF c \in B1 THEN 1 ELSE 0
  BY <1>1, <1>2, OneChanges DEF B1, B2
<1>6. /\ Cardinality(H1) \in Nat /\ Cardinality(H2) \in Nat
      /\ Cardinality(H2) - (IF c \in H2 THEN 1 ELSE 0) =
           Cardinality(H1) - IF c \in H1 THEN 1 ELSE 0
  BY <1>1, <1>2, OneChanges DEF H1, H2
<1>7. /\ c \in B1 <=> c[1] = q /\ Buffers(consumer[c], m)
      /\ c \in B2 <=> c[1] = q /\ Buffers(consumer'[c], m)
      /\ c \in H1 <=> c[1] = q /\ Handles(consumer[c], m)
      /\ c \in H2 <=> c[1] = q /\ Handles(consumer'[c], m)
  BY <1>3 DEF B1, B2, H1, H2
<1> QED BY <1>4, <1>5, <1>6, <1>7 DEF Carries

LEMMA TasksStay ==
  ASSUME UNCHANGED consumer, NEW q, NEW m
  PROVE  InTasks(q, m)' = InTasks(q, m)
BY DEF InTasks, Buffering, Handling, Buffers, Handles

(* What a step must do to a message of a queue: it may drop a copy only    *)
(* when a channel of the queue is lost, and make one only of what the      *)
(* broker takes back.                                                      *)
Kept(q, m) ==
  /\ Countable(q, m)'
  /\ Total(q, m)' + requeues[q][m] <= Total(q, m) + requeues'[q][m]
  /\ OwnExchanges => Disturbed(q)' \/ Total(q, m)' = Total(q, m)

LEMMA TotalParts ==
  ASSUME TypeOK, NEW q \in Queues, NEW m \in Msgs, Countable(q, m)
  PROVE  /\ Size(queue[q], Of(m)) \in Nat /\ Size(dead[q], Of(m)) \in Nat
         /\ Size(retries, RetriesOf(q, m)) \in Nat /\ InTasks(q, m) \in Nat
         /\ oks[q][m] \in Nat /\ fails[q][m] \in Nat /\ requeues[q][m] \in Nat
<1>1. oks \in Tally /\ fails \in Tally /\ requeues \in Tally
  BY TypeOKParts
<1>2. oks[q][m] \in Nat /\ fails[q][m] \in Nat /\ requeues[q][m] \in Nat
  BY <1>1 DEF Tally
<1> QED BY <1>2, SizeType, InTasksType DEF Countable

(* One task's step balances what it holds with its retries and outcomes.   *)
LEMMA TaskBalance ==
  ASSUME TypeOK, NEW q \in Queues, NEW m \in Msgs, Countable(q, m), NEW c \in Consumers,
         \A d \in Consumers \ {c} : consumer'[d] = consumer[d],
         UNCHANGED <<queue, dead, requeues>>,
         IsFiniteSet(Tokens(retries', RetriesOf(q, m))),
         oks' \in Tally, fails' \in Tally,
         Size(retries', RetriesOf(q, m)) + oks'[q][m] + fails'[q][m] +
           (IF c[1] = q THEN Carries(consumer'[c], m) ELSE 0) =
         Size(retries, RetriesOf(q, m)) + oks[q][m] + fails[q][m] +
           (IF c[1] = q THEN Carries(consumer[c], m) ELSE 0)
  PROVE  Kept(q, m)
<1> DEFINE R == RetriesOf(q, m)
<1>1. /\ InTasks(q, m)' \in Nat
      /\ InTasks(q, m)' = InTasks(q, m) +
           IF c[1] = q THEN Carries(consumer'[c], m) - Carries(consumer[c], m) ELSE 0
  BY TaskChanges
<1>2. Countable(q, m)'
  BY DEF Countable
<1>3. /\ Size(retries', R) \in Nat /\ oks'[q][m] \in Nat /\ fails'[q][m] \in Nat
      /\ InTasks(q, m)' \in Nat
  BY TaskChanges, SizeType DEF Tally
<1>4. /\ Total(q, m) = Size(queue[q], Of(m)) + Size(dead[q], Of(m)) + Size(retries, R)
                         + InTasks(q, m) + oks[q][m] + fails[q][m]
      /\ Total(q, m)' = Size(queue[q], Of(m)) + Size(dead[q], Of(m)) + Size(retries', R)
                         + InTasks(q, m)' + oks'[q][m] + fails'[q][m]
  BY DEF Total
<1>5. /\ Carries(consumer[c], m) \in Nat /\ Carries(consumer'[c], m) \in Nat
  BY DEF Carries
<1> DEFINE T1 == Carries(consumer[c], m)
           T2 == Carries(consumer'[c], m)
           I1 == InTasks(q, m)
           I2 == InTasks(q, m)'
<1>6. Total(q, m)' = Total(q, m)
  <2> HIDE DEF T1, T2, I1, I2
  <2>1. I2 = I1 + (IF c[1] = q THEN T2 - T1 ELSE 0) /\ I1 \in Nat /\ I2 \in Nat
    BY <1>1, <1>3, InTasksType DEF T1, T2, I1, I2
  <2>2. T1 \in Nat /\ T2 \in Nat
    BY <1>5 DEF T1, T2
  <2>3. Size(retries', R) + oks'[q][m] + fails'[q][m] + (IF c[1] = q THEN T2 ELSE 0) =
          Size(retries, R) + oks[q][m] + fails[q][m] + (IF c[1] = q THEN T1 ELSE 0)
    BY DEF T1, T2
  <2>4. /\ Total(q, m) = Size(queue[q], Of(m)) + Size(dead[q], Of(m)) + Size(retries, R)
                          + I1 + oks[q][m] + fails[q][m]
        /\ Total(q, m)' = Size(queue[q], Of(m)) + Size(dead[q], Of(m)) + Size(retries', R)
                          + I2 + oks'[q][m] + fails'[q][m]
    BY <1>4 DEF I1, I2
  <2> QED BY <1>3, <2>1, <2>2, <2>3, <2>4, TotalParts
<1>7. Total(q, m) \in Nat /\ requeues[q][m] \in Nat
  BY <1>4, TotalParts
<1> QED BY <1>2, <1>6, <1>7 DEF Kept

LEMMA DoneCarries ==
  ASSUME TypeOK, NEW c \in Consumers, Done(c), NEW m
  PROVE  Carries(consumer[c], m) =
           Carries(consumer'[c], m) + IF Handles(consumer[c], m) THEN 1 ELSE 0
<1>1. consumer[c] \in Task
  BY TypeOKParts
<1>2. consumer'[c] = [consumer[c] EXCEPT !.pc = "select", !.cur = NoCopy]
  BY DoneFollows
<1>3. ~Handles(consumer'[c], m) /\ (Buffers(consumer'[c], m) <=> Buffers(consumer[c], m))
  BY <1>1, <1>2 DEF Handles, Buffers, Task
<1> QED BY <1>3 DEF Carries

(* Steps that report nothing and retry nothing.                            *)
LEMMA QuietStepKeeps ==
  ASSUME TypeOK, Hands, NEW q \in Queues, NEW m \in Msgs, Countable(q, m),
         NEW c \in Consumers,
         Start(c) \/ Receive(c) \/ ReceiveNothing(c) \/ AutoAck(c) \/ Ack(c) \/ ReturnPushed(c)
  PROVE  Kept(q, m)
<1> DEFINE t == consumer[c]
<1>0. t \in Task /\ Hand(t)
  BY TypeOKParts DEF Hands
<1>1. Carries(consumer'[c], m) = Carries(t, m)
  <2>1. CASE Start(c)
    <3>1. consumer'[c] = [t EXCEPT !.pc = "select", !.open = TRUE] /\ t.pc = "start"
      BY <2>1, BecameThis DEF Start, At
    <3> QED BY <1>0, <3>1 DEF Carries, Buffers, Handles, Task
  <2>2. CASE Receive(c)
    <3> DEFINE tried == [t.buffered EXCEPT !.tries = t.buffered.tries + 1]
    <3>1. t.pc = "select" /\ t.buffered # NoCopy /\ t.buffered \in Copies
      BY <2>2, TypeOKParts, TaskType DEF Receive, At
    <3>2. tried # NoCopy /\ tried.msg = t.buffered.msg
      BY <3>1, CopyType DEF Copies
    <3>3. \E y : consumer'[c] = [t EXCEPT !.pc = Taken(c), !.buffered = NoCopy,
                                          !.cur = tried, !.unacked = y]
      BY <2>2, BecameThis DEF Receive
    <3> HIDE DEF tried
    <3>4. ~Handles(t, m) /\ ~Buffers(consumer'[c], m)
          /\ (Handles(consumer'[c], m) <=> Buffers(t, m))
      BY <1>0, <3>1, <3>2, <3>3 DEF Buffers, Handles, Task, Taken
    <3> QED BY <3>4 DEF Carries
  <2>3. CASE ReceiveNothing(c)
    <3>1. consumer'[c] = [t EXCEPT !.pc = Taken(c)] /\ t.pc = "select"
      BY <2>3, BecameThis DEF ReceiveNothing, At
    <3> QED BY <1>0, <3>1 DEF Carries, Buffers, Handles, Task, Taken, Hand
  <2>4. CASE AutoAck(c)
    <3>1. consumer'[c] = [t EXCEPT !.pc = "callback", !.unacked = NoCopy] /\ t.pc = "ack"
      BY <2>4, BecameThis DEF AutoAck, Owed, At
    <3> QED BY <1>0, <3>1 DEF Carries, Buffers, Handles, Task
  <2>5. CASE Ack(c)
    <3>1. consumer'[c] = [t EXCEPT !.unacked = NoCopy]
      BY <2>5, BecameThis DEF Ack, Owed
    <3> QED BY <1>0, <3>1 DEF Carries, Buffers, Handles, Task
  <2>6. CASE ReturnPushed(c)
    <3>1. ~Handles(t, m) /\ Done(c)
      BY <2>6 DEF ReturnPushed, At, Handles
    <3> QED BY <3>1, DoneCarries DEF Carries
  <2> QED BY <2>1, <2>2, <2>3, <2>4, <2>5, <2>6
<1>2. UNCHANGED <<queue, dead, retries, oks, fails, requeues>>
  BY DEF Start, Receive, ReceiveNothing, AutoAck, Ack, ReturnPushed, brokerVars, outcomes
<1>3. \A d \in Consumers \ {c} : consumer'[d] = consumer[d]
  BY OthersStay DEF TaskStep
<1>4. IsFiniteSet(Tokens(retries', RetriesOf(q, m))) /\ oks' \in Tally /\ fails' \in Tally
  BY <1>2, TypeOKParts DEF Countable
<1> QED BY <1>1, <1>2, <1>3, <1>4, TaskBalance

(* Steps that are done with a message: what the callback had is counted as *)
(* an outcome, or held by a goroutine.                                     *)
LEMMA SettlingStepKeeps ==
  ASSUME TypeOK, Hands, NEW q \in Queues, NEW m \in Msgs, Countable(q, m),
         NEW c \in Consumers, ReturnTrue(c) \/ ReturnFalse(c) \/ Push(c)
  PROVE  Kept(q, m)
<1> DEFINE t == consumer[c]
           R == RetriesOf(q, m)
           h == IF Handles(t, m) THEN 1 ELSE 0
           had == IF c[1] = q /\ Handles(t, m) THEN 1 ELSE 0
<1>0. t \in Task /\ Hand(t) /\ c[1] \in Queues /\ t.pc = "callback"
  BY TypeOKParts, ConsumerParts DEF Hands, ReturnTrue, ReturnFalse, Push, At
<1>1. UNCHANGED <<queue, dead, requeues>>
  BY DEF ReturnTrue, ReturnFalse, Push, brokerVars
<1>2. \A d \in Consumers \ {c} : consumer'[d] = consumer[d]
  BY OthersStay DEF TaskStep
<1>3. Carries(t, m) = Carries(consumer'[c], m) + h
  <2>1. CASE Push(c) /\ ~Done(c)
    <3> DEFINE pushed == [t.cur EXCEPT !.pushed = t.cur.pushed + 1]
    <3>1. consumer'[c] = [t EXCEPT !.pc = "pushed", !.cur = pushed, !.unacked = pushed]
      BY <2>1, BecameThis DEF Push
    <3> HIDE DEF pushed
    <3>2. ~Handles(consumer'[c], m) /\ (Buffers(consumer'[c], m) <=> Buffers(t, m))
      BY <1>0, <3>1 DEF Buffers, Handles, Task
    <3> QED BY <3>2 DEF Carries
  <2> QED BY <2>1, DoneCarries DEF ReturnTrue, ReturnFalse
<1>4. CASE t.cur = NoCopy
  <2>1. UNCHANGED <<retries, oks, fails>>
    BY <1>4 DEF ReturnTrue, ReturnFalse, Push
  <2>2. h = 0
    BY <1>4 DEF Handles
  <2>3. Carries(consumer'[c], m) = Carries(t, m)
    BY <1>3, <2>2 DEF Carries
  <2>4. IsFiniteSet(Tokens(retries', R)) /\ oks' \in Tally /\ fails' \in Tally
    BY <2>1, TypeOKParts DEF Countable
  <2> QED BY <1>1, <1>2, <2>1, <2>3, <2>4, TaskBalance
<1>5. CASE t.cur # NoCopy
  <2> DEFINE one == Is(c[1], t.cur, q, m)
             Passed ==
               /\ IsFiniteSet(Tokens(retries', R)) /\ oks' \in Tally /\ fails' \in Tally
               /\ Size(retries', R) + oks'[q][m] + fails'[q][m] =
                    Size(retries, R) + oks[q][m] + fails[q][m] + one
  <2>0. t.cur \in Copies /\ one = had /\ one \in {0, 1}
    BY <1>0, <1>5 DEF Handles, Is, Task
  <2>1. Passed
    <3>0. /\ IsFiniteSet(Tokens(retries, R)) /\ oks \in Tally /\ fails \in Tally
          /\ Size(retries, R) \in Nat /\ oks[q][m] \in Nat /\ fails[q][m] \in Nat
      BY TypeOKParts, TotalParts DEF Countable
    <3>1. CASE UNCHANGED <<retries, fails>> /\ oks' = Count(oks, c[1], t.cur)
      <4>1. oks' \in Tally /\ oks'[q][m] = oks[q][m] + one
        BY <1>0, <2>0, <3>0, <3>1, CountType DEF Is
      <4> QED BY <2>0, <3>0, <3>1, <4>1
    <3>2. CASE UNCHANGED <<retries, oks>> /\ fails' = Count(fails, c[1], t.cur)
      <4>1. fails' \in Tally /\ fails'[q][m] = fails[q][m] + one
        BY <1>0, <2>0, <3>0, <3>2, CountType DEF Is
      <4> QED BY <2>0, <3>0, <3>2, <4>1
    <3>3. ASSUME UNCHANGED <<oks, fails>>, NEW via \in {"false", "push"},
                 NEW copy \in Copies, copy.msg = t.cur.msg, retries' = Retry(c, via, copy)
          PROVE  Passed
      <4>1. /\ IsFiniteSet(Tokens(retries', R))
            /\ Size(retries', R) = Size(retries, R) + one
        BY <2>0, <3>0, <3>3, SizeRetry DEF Is
      <4> QED BY <2>0, <3>0, <3>3, <4>1
    <3>4. CASE ReturnTrue(c)
      BY <1>5, <3>1, <3>4 DEF ReturnTrue
    <3>5. CASE ReturnFalse(c)
      <4> DEFINE next == [t.cur EXCEPT !.nums = NextNums(t.cur)]
      <4>1. next \in Copies /\ next.msg = t.cur.msg
        BY <2>0, CopyType DEF Copies
      <4>2. \/ UNCHANGED <<retries, fails>> /\ oks' = Count(oks, c[1], t.cur)
            \/ UNCHANGED <<retries, oks>> /\ fails' = Count(fails, c[1], t.cur)
            \/ UNCHANGED <<oks, fails>> /\ retries' = Retry(c, "false", next)
        BY <1>5, <3>5 DEF ReturnFalse, ReportMax
      <4> HIDE DEF next
      <4> QED BY <3>1, <3>2, <3>3, <4>1, <4>2
    <3>6. CASE Push(c)
      <4> DEFINE pushed == [t.cur EXCEPT !.pushed = t.cur.pushed + 1]
      <4>1. pushed \in Copies /\ pushed.msg = t.cur.msg
        BY <2>0, CopyType DEF Copies
      <4>2. \/ UNCHANGED <<retries, oks>> /\ fails' = Count(fails, c[1], t.cur)
            \/ UNCHANGED <<oks, fails>> /\ retries' = Retry(c, "push", pushed)
        BY <3>6 DEF Push, ReportMax
      <4> HIDE DEF pushed
      <4> QED BY <3>2, <3>3, <4>1, <4>2
    <3> QED BY <3>4, <3>5, <3>6
  <2>2. Carries(t, m) \in Nat /\ Carries(consumer'[c], m) \in Nat
    BY DEF Carries
  <2>3. Size(retries', R) + oks'[q][m] + fails'[q][m] +
          (IF c[1] = q THEN Carries(consumer'[c], m) ELSE 0) =
        Size(retries, R) + oks[q][m] + fails[q][m] +
          (IF c[1] = q THEN Carries(t, m) ELSE 0)
    <3>1. /\ Size(retries, R) \in Nat /\ oks[q][m] \in Nat /\ fails[q][m] \in Nat
          /\ Size(retries', R) \in Nat /\ oks'[q][m] \in Nat /\ fails'[q][m] \in Nat
      BY <2>1, TotalParts, SizeType DEF Tally
    <3>2. had = IF c[1] = q THEN h ELSE 0
      OBVIOUS
    <3> HIDE DEF h, had, one
    <3> QED BY <1>3, <2>0, <2>1, <2>2, <3>1, <3>2
  <2> QED BY <1>1, <1>2, <2>1, <2>3, TaskBalance
<1> QED BY <1>4, <1>5

LEMMA MarkedDisturbs ==
  ASSUME NEW c \in Consumers, Marked(consumer'[c])
  PROVE  Disturbed(c[1])'
BY DEF Disturbed, Marked

(* What the broker takes back is counted, what the client had buffered may *)
(* go, and the channel's queue is disturbed.                               *)
LEMMA ClosedKeeps ==
  ASSUME TypeOK, Hands, NEW q \in Queues, NEW m \in Msgs, Countable(q, m),
         NEW c \in Consumers, CloseChannel(c), consumer[c].open
  PROVE  /\ IsFiniteSet(Tokens(queue'[q], Of(m)))
         /\ Size(queue'[q], Of(m)) \in Nat /\ requeues'[q][m] \in Nat
         /\ Size(queue'[q], Of(m)) + requeues[q][m] = Size(queue[q], Of(m)) + requeues'[q][m]
         /\ InTasks(q, m)' \in Nat /\ InTasks(q, m)' <= InTasks(q, m)
         /\ Disturbed(c[1])'
         /\ c[1] # q => /\ Size(queue'[q], Of(m)) = Size(queue[q], Of(m))
                        /\ InTasks(q, m)' = InTasks(q, m)
<1> DEFINE t == consumer[c]
<1>0. t \in Task /\ Hand(t) /\ c[1] \in Queues /\ requeues \in Tally /\ BagsType(queue)
  BY TypeOKParts, ConsumerParts DEF Hands
<1>1. Disturbed(c[1])'
  <2>1. t.pc # "start"
    BY <1>0 DEF Hand
  <2> QED BY <2>1, ClosedFollows, MarkedDisturbs
<1>2. /\ InTasks(q, m)' \in Nat /\ InTasks(q, m)' <= InTasks(q, m)
      /\ c[1] # q => InTasks(q, m)' = InTasks(q, m)
  <2>1. PICK rest \in {t.buffered, NoCopy} :
          consumer'[c] = [t EXCEPT !.open = FALSE, !.unacked = NoCopy, !.buffered = rest]
    BY Closed
  <2>2. /\ Handles(consumer'[c], m) <=> Handles(t, m)
        /\ Buffers(consumer'[c], m) => Buffers(t, m)
    BY <1>0, <2>1 DEF Handles, Buffers, Task
  <2>3. Carries(consumer'[c], m) \in Int /\ Carries(t, m) \in Int
        /\ Carries(consumer'[c], m) <= Carries(t, m)
    BY <2>2 DEF Carries
  <2> HIDE DEF t
  <2>4. \A d \in Consumers \ {c} : consumer'[d] = consumer[d]
    BY OthersStay
  <2>5. InTasks(q, m) \in Nat
    BY InTasksType
  <2> QED BY <2>3, <2>4, <2>5, TaskChanges DEF t
<1>3. CASE t.unacked = NoCopy
  <2>1. UNCHANGED <<queue, requeues>>
    BY <1>3 DEF CloseChannel
  <2> QED BY <1>1, <1>2, <2>1, TotalParts DEF Countable
<1>4. CASE t.unacked # NoCopy
  <2> DEFINE copy == [t.unacked EXCEPT !.requeued = t.unacked.requeued + 1]
  <2>1. t.unacked \in Copies /\ copy \in Copies /\ copy.msg = t.unacked.msg
    BY <1>0, <1>4, CopyType DEF Task, Copies
  <2>2. queue' = AddTo(queue, {c[1]}, copy) /\ requeues' = Count(requeues, c[1], t.unacked)
    BY <1>4 DEF CloseChannel
  <2> HIDE DEF copy
  <2>3. IsFiniteSet(Tokens(queue[q], Of(m))) /\ Size(queue[q], Of(m)) \in Nat
        /\ requeues[q][m] \in Nat
    BY TotalParts DEF Countable
  <2> DEFINE one == IF q = c[1] /\ copy.msg = m THEN 1 ELSE 0
  <2>4. /\ IsFiniteSet(Tokens(queue'[q], Of(m)))
        /\ Size(queue'[q], Of(m)) = Size(queue[q], Of(m)) + one
    BY <1>0, <2>1, <2>2, <2>3, SizeAdded
  <2>5. requeues'[q][m] = requeues[q][m] + one
    <3>1. Count(requeues, c[1], t.unacked)[q][m] =
            IF q = c[1] /\ m = t.unacked.msg THEN requeues[q][m] + 1 ELSE requeues[q][m]
      BY <1>0, <2>1, CountType
    <3> QED BY <2>1, <2>2, <2>3, <3>1
  <2> QED BY <1>1, <1>2, <2>3, <2>4, <2>5
<1> QED BY <1>3, <1>4

LEMMA ChannelStepKeeps ==
  ASSUME TypeOK, Hands, NEW q \in Queues, NEW m \in Msgs, Countable(q, m),
         NEW c \in Consumers, Deliver(c) \/ Notified(c) \/ Lose(c)
  PROVE  Kept(q, m)
<1> DEFINE t == consumer[c]
           Q == Size(queue[q], Of(m))
           I == InTasks(q, m)
           rest == Size(dead[q], Of(m)) + Size(retries, RetriesOf(q, m)) + oks[q][m] + fails[q][m]
<1>0. t \in Task /\ Hand(t) /\ c[1] \in Queues
  BY TypeOKParts, ConsumerParts DEF Hands
<1>1. Q \in Nat /\ I \in Nat /\ rest \in Nat /\ requeues[q][m] \in Nat
  BY TotalParts
<1>2. UNCHANGED <<dead, retries, oks, fails>>
  BY DEF Deliver, Notified, Lose, brokerVars, outcomes
<1>3. /\ Total(q, m) = Q + I + rest
      /\ Total(q, m)' = Size(queue'[q], Of(m)) + InTasks(q, m)' + rest
  <2>1. Total(q, m) = Q + Size(dead[q], Of(m)) + Size(retries, RetriesOf(q, m)) + I
                        + oks[q][m] + fails[q][m]
    BY DEF Total
  <2>2. Total(q, m)' = Size(queue'[q], Of(m)) + Size(dead[q], Of(m))
                        + Size(retries, RetriesOf(q, m)) + InTasks(q, m)' + oks[q][m] + fails[q][m]
    BY <1>2 DEF Total
  <2>3. Size(queue'[q], Of(m)) \in Nat /\ InTasks(q, m)' \in Nat
    <3>1. InTasks(q, m)' \in Nat
      BY OthersStay, TaskChanges
    <3>2. Size(queue'[q], Of(m)) \in Nat
      <4>1. CASE Deliver(c)
        BY <1>0, <4>1, TypeOKParts, SizeTaken, SizeType DEF Deliver, Countable
      <4>2. CASE Notified(c)
        BY <1>1, <4>2 DEF Notified, brokerVars
      <4>3. CASE Lose(c)
        BY <4>3, ClosedKeeps DEF Lose
      <4> QED BY <4>1, <4>2, <4>3
    <3> QED BY <3>1, <3>2
  <2> HIDE DEF I
  <2> QED BY <1>1, <2>1, <2>2, <2>3, TotalParts
<1>4. IsFiniteSet(Tokens(queue'[q], Of(m))) => Countable(q, m)'
  BY <1>2 DEF Countable
<1>5. CASE Deliver(c)
  <2>1. PICK copy \in BagToSet(queue[c[1]]) :
          /\ queue' = TakeFrom(queue, c[1], copy)
          /\ consumer'[c] = [t EXCEPT !.unacked = copy, !.buffered = copy]
    BY <1>5, BecameThis DEF Deliver
  <2>2. copy \in Copies /\ copy # NoCopy
    BY <1>0, TypeOKParts, NoCopyAssumption DEF BagsType, IsBagOf
  <2>3. t.buffered = NoCopy
    BY <1>0, <1>5 DEF Deliver, Hand
  <2> DEFINE one == IF copy.msg = m THEN 1 ELSE 0
  <2>4. Carries(consumer'[c], m) = Carries(t, m) + one
    <3>1. /\ Handles(consumer'[c], m) <=> Handles(t, m)
          /\ Buffers(consumer'[c], m) <=> copy.msg = m
          /\ ~Buffers(t, m)
      BY <1>0, <2>1, <2>2, <2>3 DEF Handles, Buffers, Task
    <3> QED BY <3>1 DEF Carries
  <2>5. /\ IsFiniteSet(Tokens(queue'[q], Of(m)))
        /\ Size(queue'[q], Of(m)) = Q - Is(c[1], copy, q, m)
    BY <1>0, <2>1, TypeOKParts, SizeTaken DEF Countable
  <2>6. InTasks(q, m)' = I + IF c[1] = q THEN Carries(consumer'[c], m) - Carries(t, m) ELSE 0
    BY <1>5, OthersStay, TaskChanges
  <2>7. Carries(t, m) \in Nat
    BY DEF Carries
  <2>8. InTasks(q, m)' = I + Is(c[1], copy, q, m)
    <3> HIDE DEF I, t
    <3> QED BY <1>1, <2>4, <2>6, <2>7 DEF Is
  <2>9. Total(q, m)' = Total(q, m) /\ Total(q, m) \in Nat
    <3>1. Is(c[1], copy, q, m) \in Int
      BY DEF Is
    <3> HIDE DEF I, Q, rest
    <3> QED BY <1>1, <1>3, <2>5, <2>8, <3>1
  <2>10. UNCHANGED requeues
    BY <1>5 DEF Deliver
  <2> QED BY <1>1, <1>4, <2>5, <2>9, <2>10 DEF Kept
<1>6. CASE Notified(c)
  <2>1. consumer'[c] = [NewTask EXCEPT !.epoch = t.epoch + 1]
    BY <1>6, BecameThis DEF Notified
  <2>2. Carries(consumer'[c], m) = 0 /\ Marked(consumer'[c])
    BY <1>0, <2>1 DEF Carries, Buffers, Handles, NewTask, Marked, Task
  <2>3. Carries(t, m) \in Nat
    BY DEF Carries
  <2>4. UNCHANGED <<queue, requeues>>
    BY <1>6 DEF Notified, brokerVars
  <2>5. /\ InTasks(q, m)' = I + IF c[1] = q THEN Carries(consumer'[c], m) - Carries(t, m) ELSE 0
        /\ InTasks(q, m)' \in Nat
    BY <1>6, OthersStay, TaskChanges
  <2>6. /\ InTasks(q, m)' <= I
        /\ c[1] # q => InTasks(q, m)' = I
    <3> HIDE DEF I, t
    <3> QED BY <1>1, <2>2, <2>3, <2>5
  <2>7. Disturbed(c[1])'
    BY <2>2, MarkedDisturbs
  <2>8. /\ Total(q, m)' + requeues[q][m] <= Total(q, m) + requeues'[q][m]
        /\ c[1] # q => Total(q, m)' = Total(q, m)
    <3> HIDE DEF I, rest
    <3> QED BY <1>1, <1>3, <2>4, <2>5, <2>6
  <2>9. Countable(q, m)'
    BY <1>4, <2>4 DEF Countable
  <2> QED BY <2>7, <2>8, <2>9 DEF Kept
<1>7. CASE Lose(c)
  <2>1. /\ IsFiniteSet(Tokens(queue'[q], Of(m)))
        /\ Size(queue'[q], Of(m)) \in Nat /\ requeues'[q][m] \in Nat
        /\ Size(queue'[q], Of(m)) + requeues[q][m] = Q + requeues'[q][m]
        /\ InTasks(q, m)' \in Nat /\ InTasks(q, m)' <= I
        /\ Disturbed(c[1])'
        /\ c[1] # q => Size(queue'[q], Of(m)) = Q /\ InTasks(q, m)' = I
    BY <1>7, ClosedKeeps DEF Lose
  <2>2. /\ Total(q, m)' + requeues[q][m] <= Total(q, m) + requeues'[q][m]
        /\ c[1] # q => Total(q, m)' = Total(q, m)
    <3> HIDE DEF I, rest, Q
    <3> QED BY <1>1, <1>3, <2>1
  <2> QED BY <1>4, <2>1, <2>2 DEF Kept
<1> QED BY <1>5, <1>6, <1>7

LEMMA OwnAreIndependent == OwnExchanges => Independent
BY DEF OwnExchanges, Independent, Routed

(* With receives that are independent a retry returns to its own queue     *)
(* only, and with exchanges of their own there is one for it to return to. *)
LEMMA DeadReached ==
  ASSUME TypeOK, Independent, NEW p \in Queues
  PROVE  /\ DeadRouted(p) \subseteq {p}
         /\ OwnExchanges /\ DeadExchangeExists(p) => p \in DeadRouted(p)
<1>1. DeadRouted(p) \subseteq Routed(p)
  BY TypeOKParts DEF DeadRouted, Routed
<1>2. OwnExchanges /\ DeadExchangeExists(p) => p \in DeadRouted(p)
  BY TypeOKParts DEF OwnExchanges, DeadExchangeExists, DeadRouted
<1> QED BY <1>1, <1>2 DEF Independent

LEMMA PublishKeeps ==
  ASSUME TypeOK, Hands, Holders, Independent,
         NEW q \in Queues, NEW m \in Msgs, Countable(q, m),
         NEW r \in BagToSet(retries), Publish(r)
  PROVE  Kept(q, m)
<1> DEFINE c == r.by
           R == RetriesOf(q, m)
           one == Is(c[1], r.copy, q, m)
           Q == Size(queue[q], Of(m))
           D == Size(dead[q], Of(m))
           I == InTasks(q, m)
           rs == Size(retries, R)
           settled == oks[q][m] + fails[q][m]
           before == requeues[q][m]
           Q2 == Size(queue'[q], Of(m))
           D2 == Size(dead'[q], Of(m))
           I2 == InTasks(q, m)'
           rs2 == Size(retries', R)
           settled2 == oks[q][m] + fails'[q][m]
           after == requeues'[q][m]
<1>0. r \in Retries /\ c \in Consumers /\ c[1] \in Queues /\ r.copy \in Copies
  BY TypeOKParts, ConsumerParts DEF IsBagOf, Retries
<1>1. /\ Q \in Nat /\ D \in Nat /\ I \in Nat /\ rs \in Nat /\ settled \in Nat /\ before \in Nat
      /\ one \in {0, 1}
  BY TotalParts DEF Is
<1>2. /\ IsFiniteSet(Tokens(retries', R)) /\ rs2 = rs - one /\ rs2 \in Nat
  <2>1. r \in R <=> one = 1
    BY <1>0 DEF RetriesOf, Is
  <2>2. retries' = BagRemove(retries, r) /\ IsABag(retries) /\ IsFiniteSet(Tokens(retries, R))
    BY TypeOKParts DEF Publish, Countable, IsBagOf
  <2>3. /\ IsFiniteSet(Tokens(BagRemove(retries, r), R))
        /\ Size(BagRemove(retries, r), R) =
             IF r \in R THEN Size(retries, R) - 1 ELSE Size(retries, R)
    BY <2>2, RemovedToken
  <2>4. rs2 \in Nat
    BY <2>2, <2>3, SizeType
  <2> HIDE DEF R, one
  <2> QED BY <1>1, <2>1, <2>2, <2>3, <2>4
<1>3. UNCHANGED oks
  BY DEF Publish
<1>4. ASSUME D2 \in Nat, Q2 \in Nat, I2 \in Nat, settled2 \in Nat
      PROVE  /\ Total(q, m) = Q + D + rs + I + settled
             /\ Total(q, m)' = Q2 + D2 + rs2 + I2 + settled2
  <2>1. Total(q, m) = Q + D + rs + I + oks[q][m] + fails[q][m]
    BY DEF Total
  <2>2. Total(q, m)' = Q2 + D2 + rs2 + I2 + oks[q][m] + fails'[q][m]
    BY <1>3 DEF Total
  <2>3. oks[q][m] \in Nat /\ fails[q][m] \in Nat /\ fails'[q][m] \in Int
    <3>1. fails' \in Tally
      BY PublishTypeOK DEF TypeOK, Tally
    <3> QED BY <3>1, TotalParts DEF Tally
  <2> HIDE DEF Q, D, rs, I, Q2, D2, rs2, I2
  <2> QED BY <1>1, <1>2, <1>4, <2>1, <2>2, <2>3
<1>5. CASE consumer[c].open /\ consumer[c].epoch = r.epoch /\ DeadExchangeExists(c[1])
  <2> DEFINE there == IF q \in DeadRouted(c[1]) /\ r.copy.msg = m THEN 1 ELSE 0
  <2>1. dead' = AddTo(dead, DeadRouted(c[1]), r.copy)
        /\ UNCHANGED <<queue, consumer, fails, requeues>>
    BY <1>5 DEF Publish
  <2>2. IsFiniteSet(Tokens(dead'[q], Of(m))) /\ D2 = D + there
    BY <1>0, <2>1, TypeOKParts, SizeAdded DEF Countable
  <2>3. there <= one /\ there \in {0, 1} /\ (OwnExchanges => there = one)
    BY <1>0, <1>5, DeadReached DEF Is
  <2>4. I2 = I
    BY <2>1, TasksStay
  <2>5. /\ Total(q, m) = Q + D + rs + I + settled
        /\ Total(q, m)' = Q2 + D2 + rs2 + I2 + settled2
        /\ Q2 = Q /\ settled2 = settled /\ after = before
    <3>1. Q2 = Q /\ settled2 = settled /\ after = before
      BY <2>1
    <3>2. D2 \in Nat /\ I2 \in Nat
      <4> HIDE DEF D2, D, I2, I, there
      <4> QED BY <1>1, <2>2, <2>3, <2>4
    <3> HIDE DEF Q, D, rs, I, Q2, D2, rs2, I2, settled, settled2, before, after
    <3> QED BY <1>1, <1>4, <3>1, <3>2
  <2>6. /\ Total(q, m)' + before <= Total(q, m) + after
        /\ OwnExchanges => Total(q, m)' = Total(q, m)
    <3> HIDE DEF Q, D, rs, I, Q2, D2, rs2, I2, settled, settled2, before, after, one, there
    <3> QED BY <1>1, <1>2, <2>2, <2>3, <2>4, <2>5
  <2>7. Countable(q, m)'
    BY <1>2, <2>1, <2>2 DEF Countable
  <2> QED BY <2>6, <2>7 DEF Kept
<1>6. CASE consumer[c].open /\ ~DeadExchangeExists(c[1]) /\ CloseChannel(c)
           /\ UNCHANGED <<dead, fails>>
  <2>1. /\ IsFiniteSet(Tokens(queue'[q], Of(m)))
        /\ Q2 \in Nat /\ after \in Nat /\ Q2 + before = Q + after
        /\ I2 \in Nat /\ I2 <= I
        /\ Disturbed(c[1])'
        /\ c[1] # q => Q2 = Q /\ I2 = I
    BY <1>0, <1>6, ClosedKeeps
  <2>2. D2 = D /\ settled2 = settled
    BY <1>6
  <2>3. c[1] # q => one = 0
    BY DEF Is
  <2>4. /\ Total(q, m)' + before <= Total(q, m) + after
        /\ c[1] # q => Total(q, m)' = Total(q, m)
    <3>1. /\ Total(q, m) = Q + D + rs + I + settled
          /\ Total(q, m)' = Q2 + D2 + rs2 + I2 + settled2
      <4> HIDE DEF Q, D, rs, I, Q2, D2, rs2, I2, settled, settled2
      <4> QED BY <1>1, <1>4, <2>1, <2>2
    <3>2. /\ rs2 = rs - one /\ rs2 \in Nat
          /\ Q2 \in Nat /\ after \in Nat /\ Q2 + before = Q + after
          /\ I2 \in Nat /\ I2 <= I
          /\ c[1] # q => Q2 = Q /\ I2 = I
      BY <1>2, <2>1
    <3> HIDE DEF Q, D, rs, I, Q2, D2, rs2, I2, settled, settled2, before, after, one, c
    <3>3. Total(q, m)' + before <= Total(q, m) + after
      <4>1. rs2 <= rs
        BY <1>1, <3>2
      <4>2. Q2 + before + rs2 + I2 + D + settled <= Q + after + rs + I + D + settled
        BY <1>1, <3>2, <4>1
      <4> QED BY <1>1, <2>2, <3>1, <3>2, <4>2
    <3>4. c[1] # q => Total(q, m)' = Total(q, m)
      BY <1>1, <2>2, <2>3, <3>1, <3>2
    <3> QED BY <3>3, <3>4
  <2>5. Countable(q, m)'
    BY <1>2, <1>6, <2>1 DEF Countable
  <2> QED BY <2>1, <2>4, <2>5 DEF Kept
<1>7. CASE ~(consumer[c].open /\ consumer[c].epoch = r.epoch)
  <2>1. /\ fails' \in {fails, Count(fails, c[1], r.copy)}
        /\ UNCHANGED <<queue, dead, consumer, requeues>>
    BY <1>7 DEF Publish, ReportMax
  <2>2. settled2 = settled \/ settled2 = settled + one
    <3>1. fails \in Tally /\ oks[q][m] \in Nat /\ fails[q][m] \in Nat
      BY TypeOKParts, TotalParts
    <3>2. Count(fails, c[1], r.copy)[q][m] = fails[q][m] + one
      BY <1>0, <3>1, CountType DEF Is
    <3> HIDE DEF one
    <3> QED BY <1>1, <2>1, <3>1, <3>2
  <2>3. Q2 = Q /\ D2 = D /\ I2 = I /\ after = before
    BY <2>1, TasksStay
  <2>4. Disturbed(c[1])'
    <3>1. Marked(consumer[c])
      <4>1. Held(r) /\ consumer[c] \in Task /\ r.epoch \in Nat
        BY <1>0, TypeOKParts DEF Holders, Retries
      <4> QED BY <1>7, <4>1 DEF Held, At, Marked, Task
    <3> QED BY <1>0, <2>1, <3>1, MarkedDisturbs
  <2>5. c[1] # q => one = 0
    BY DEF Is
  <2>6. /\ Total(q, m)' + before <= Total(q, m) + after
        /\ c[1] # q => Total(q, m)' = Total(q, m)
    <3>1. /\ Total(q, m) = Q + D + rs + I + settled
          /\ Total(q, m)' = Q2 + D2 + rs2 + I2 + settled2
      <4>1. settled2 \in Nat
        <5> HIDE DEF settled, settled2, one
        <5> QED BY <1>1, <2>2
      <4> HIDE DEF Q, D, rs, I, Q2, D2, rs2, I2, settled, settled2
      <4> QED BY <1>1, <1>4, <2>3, <4>1
    <3> HIDE DEF Q, D, rs, I, Q2, D2, rs2, I2, settled, settled2, before, after, one, c
    <3> QED BY <1>1, <1>2, <2>2, <2>3, <2>5, <3>1
  <2>7. Countable(q, m)'
    BY <1>2, <2>1 DEF Countable
  <2> QED BY <2>4, <2>6, <2>7 DEF Kept
<1> QED BY <1>5, <1>6, <1>7 DEF Publish

LEMMA ExpireKeeps ==
  ASSUME TypeOK, Independent, NEW q \in Queues, NEW m \in Msgs, Countable(q, m),
         NEW p \in Queues, Expire(p)
  PROVE  Kept(q, m)
<1> DEFINE Q == Size(queue[q], Of(m))
           D == Size(dead[q], Of(m))
           I == InTasks(q, m)
           rest == Size(retries, RetriesOf(q, m)) + I + oks[q][m] + fails[q][m]
           Q2 == Size(queue'[q], Of(m))
           D2 == Size(dead'[q], Of(m))
<1>1. PICK copy \in BagToSet(dead[p]) :
        dead' = TakeFrom(dead, p, copy) /\ queue' = AddTo(queue, Routed(p), copy)
  BY DEF Expire
<1> DEFINE one == Is(p, copy, q, m)
<1>2. copy \in Copies /\ Routed(p) = {p} /\ one \in {0, 1}
  BY TypeOKParts DEF BagsType, IsBagOf, Independent, Is
<1>3. UNCHANGED <<consumer, retries, oks, fails, requeues>>
  BY DEF Expire, outcomes
<1>4. IsFiniteSet(Tokens(dead'[q], Of(m))) /\ D2 = D - one
  BY <1>1, TypeOKParts, SizeTaken DEF Countable
<1>5. IsFiniteSet(Tokens(queue'[q], Of(m))) /\ Q2 = Q + one
  BY <1>1, <1>2, TypeOKParts, SizeAdded DEF Countable, Is
<1>6. Q \in Nat /\ D \in Nat /\ rest \in Nat /\ requeues[q][m] \in Nat
  BY TotalParts
<1>7. D2 \in Nat /\ Q2 \in Nat
  BY <1>4, <1>5, SizeType
<1>8. Total(q, m) = Q + D + rest /\ Total(q, m)' = Q2 + D2 + rest
  <2>1. Total(q, m) = Q + D + Size(retries, RetriesOf(q, m)) + I + oks[q][m] + fails[q][m]
    BY DEF Total
  <2>2. Total(q, m)' = Q2 + D2 + Size(retries, RetriesOf(q, m)) + I + oks[q][m] + fails[q][m]
    BY <1>3, TasksStay DEF Total
  <2> HIDE DEF Q, D, Q2, D2, I
  <2>3. I \in Nat
    BY TotalParts DEF I
  <2> QED BY <1>6, <1>7, <2>1, <2>2, <2>3, TotalParts
<1>9. Total(q, m)' = Total(q, m) /\ Total(q, m) \in Nat
  <2> HIDE DEF Q, D, Q2, D2, rest, one
  <2> QED BY <1>2, <1>4, <1>5, <1>6, <1>8
<1>10. Countable(q, m)'
  BY <1>3, <1>4, <1>5 DEF Countable
<1> QED BY <1>3, <1>6, <1>9, <1>10 DEF Kept

LEMMA TotalNext ==
  ASSUME TypeOK', NEW q \in Queues, NEW m \in Msgs, Countable(q, m)'
  PROVE  Total(q, m)' \in Nat /\ requeues'[q][m] \in Nat
<1>1. /\ oks' \in Tally /\ fails' \in Tally /\ requeues' \in Tally
  BY DEF TypeOK, Tally
<1>2. oks'[q][m] \in Nat /\ fails'[q][m] \in Nat /\ requeues'[q][m] \in Nat
  BY <1>1 DEF Tally
<1>3. InTasks(q, m)' \in Nat
  <2>1. IsFiniteSet(Buffering(q, m)') /\ IsFiniteSet(Handling(q, m)')
    BY TasksAreFew DEF Buffering, Handling
  <2>2. Cardinality(Buffering(q, m)') \in Nat /\ Cardinality(Handling(q, m)') \in Nat
    BY <2>1, FS_CardinalityType
  <2> QED BY <2>2 DEF InTasks
<1>4. /\ Size(queue'[q], Of(m)) \in Nat /\ Size(dead'[q], Of(m)) \in Nat
      /\ Size(retries', RetriesOf(q, m)) \in Nat
  BY SizeType DEF Countable
<1>5. Total(q, m)' = Size(queue'[q], Of(m)) + Size(dead'[q], Of(m))
        + Size(retries', RetriesOf(q, m)) + InTasks(q, m)' + oks'[q][m] + fails'[q][m]
  BY DEF Total
<1> QED BY <1>2, <1>3, <1>4, <1>5

LEMMA StillConserved ==
  ASSUME TypeOK, [Next]_vars, NEW q \in Queues, NEW m \in Msgs, ConservedFor(q, m), Kept(q, m)
  PROVE  ConservedFor(q, m)'
<1>1. /\ Countable(q, m)'
      /\ Total(q, m)' + requeues[q][m] <= Total(q, m) + requeues'[q][m]
      /\ OwnExchanges => Disturbed(q)' \/ Total(q, m)' = Total(q, m)
  BY DEF Kept
<1>2. /\ Countable(q, m) /\ Total(q, m) <= 1 + requeues[q][m]
      /\ OwnExchanges => Disturbed(q) \/ Total(q, m) = Expected(q, m)
  BY DEF ConservedFor
<1>3. Total(q, m)' \in Nat /\ requeues'[q][m] \in Nat
  BY <1>1, StepTypeOK, TotalNext
<1>4. Total(q, m) \in Nat /\ requeues[q][m] \in Nat
  BY <1>2, TotalParts DEF Total
<1>5. Total(q, m)' <= 1 + requeues'[q][m]
  BY <1>1, <1>2, <1>3, <1>4
<1>6. Expected(q, m)' = Expected(q, m)
  BY DEF Expected, Next, TaskStep, Start, Receive, ReceiveNothing, AutoAck, Ack, ReturnTrue,
     ReturnFalse, Push, ReturnPushed, Deliver, Notified, Lose, Publish, Expire,
     vars, brokerVars, fixed
<1>7. Disturbed(q) => Disturbed(q)'
  BY DisturbedStays
<1>8. OwnExchanges => Disturbed(q)' \/ Total(q, m)' = Expected(q, m)'
  BY <1>1, <1>2, <1>6, <1>7
<1> QED BY <1>1, <1>5, <1>8 DEF ConservedFor, OwnExchanges

LEMMA StepConserved ==
  ASSUME TypeOK, Hands, Holders, Independent, Conserved, [Next]_vars
  PROVE  Conserved'
<1> SUFFICES ASSUME NEW q \in Queues, NEW m \in Msgs PROVE ConservedFor(q, m)'
  BY DEF Conserved
<1>1. ConservedFor(q, m) /\ Countable(q, m)
  BY DEF Conserved, ConservedFor
<1>2. ASSUME NEW c \in Consumers, TaskStep(c)
      PROVE  Kept(q, m)
  BY <1>1, <1>2, QuietStepKeeps, SettlingStepKeeps DEF TaskStep
<1>3. ASSUME NEW c \in Consumers, Deliver(c) \/ Notified(c) \/ Lose(c)
      PROVE  Kept(q, m)
  BY <1>1, <1>3, ChannelStepKeeps
<1>4. CASE Next
  BY <1>1, <1>2, <1>3, <1>4, PublishKeeps, ExpireKeeps, StillConserved DEF Next
<1>5. CASE UNCHANGED vars
  <2>1. UNCHANGED <<home, queue, dead, consumer, retries, oks, fails, requeues>>
    BY <1>5 DEF vars, brokerVars, fixed, outcomes
  <2>2. Total(q, m)' = Total(q, m)
    BY <2>1, TasksStay DEF Total
  <2> QED BY <1>1, <2>1, <2>2 DEF ConservedFor, Countable, OwnExchanges, Disturbed, Expected
<1> QED BY <1>4, <1>5

LEMMA InitConserved == Init => Conserved
<1> SUFFICES ASSUME Init, NEW q \in Queues, NEW m \in Msgs PROVE ConservedFor(q, m)
  BY DEF Conserved
<1> DEFINE first(n) == [msg |-> n, nums |-> 0, tries |-> 0, requeued |-> 0, pushed |-> 0]
           published == { n \in DOMAIN home : q \in Routed(home[n]) }
<1>0. DOMAIN home \subseteq Msgs
  BY DEF Init
<1>1. queue[q] = SetToBag({ first(n) : n \in published })
  BY DEF Init
<1>2. Tokens(queue[q], Of(m)) = IF m \in published THEN { <<first(m), 1>> } ELSE {}
  <2>1. BagToSet(queue[q]) \cap Of(m) = IF m \in published THEN { first(m) } ELSE {}
    BY <1>0, <1>1 DEF SetToBag, BagToSet, Of, Copies
  <2>2. m \in published => queue[q][first(m)] = 1
    BY <1>1 DEF SetToBag
  <2>3. 1 .. 1 = {1}
    OBVIOUS
  <2> HIDE DEF first, published
  <2>4. \A t : t \in Tokens(queue[q], Of(m)) <=>
                 t \in IF m \in published THEN { <<first(m), 1>> } ELSE {}
    BY <2>1, <2>2, <2>3 DEF Tokens
  <2> QED BY <2>4
<1>3. Tokens(dead[q], Of(m)) = {} /\ Tokens(retries, RetriesOf(q, m)) = {}
  BY DEF Init, EmptyBag, SetToBag, BagToSet, Tokens
<1>4. Buffering(q, m) = {} /\ Handling(q, m) = {}
  BY DEF Init, Buffering, Handling, Buffers, Handles, NewTask
<1>5. IsFiniteSet(Tokens(queue[q], Of(m))) /\ Size(queue[q], Of(m)) = Expected(q, m)
  <2>1. m \in published <=> m \in DOMAIN home /\ q \in Routed(home[m])
    OBVIOUS
  <2> DEFINE token == <<first(m), 1>>
  <2>2. Tokens(queue[q], Of(m)) = IF m \in published THEN { token } ELSE {}
    BY <1>2
  <2> HIDE DEF published, token
  <2>3. IsFiniteSet({ token }) /\ Cardinality({ token }) = 1
    BY FS_Singleton
  <2> QED BY <2>1, <2>2, <2>3, FS_EmptySet DEF Size, Expected
<1>6. oks[q][m] = 0 /\ fails[q][m] = 0 /\ requeues[q][m] = 0
  BY DEF Init
<1>7. Countable(q, m)
  BY <1>3, <1>5, FS_EmptySet DEF Countable
<1>8. Total(q, m) = Expected(q, m) /\ Expected(q, m) \in {0, 1}
  BY <1>3, <1>4, <1>5, <1>6, FS_EmptySet DEF Total, Size, InTasks, Expected
<1> QED BY <1>6, <1>7, <1>8 DEF ConservedFor

(* With receives that are independent, messages are conserved.             *)
LEMMA Conservation ==
  ASSUME Independent
  PROVE  Spec => []Conserved
<1>1. Init => Conserved
  BY InitConserved
<1>2. Inv /\ Conserved /\ [Next]_vars => Conserved'
  BY StepConserved DEF Inv
<1> QED BY <1>1, <1>2, Invariants, PTL DEF Spec

(* Where no message of one receive reaches another, a callback is done     *)
(* with a message, or gives up on it, once, and once more for each time    *)
(* the broker took it back (readme 76).  RetryFanout shows that it need    *)
(* not be so where receives share a fanout exchange.                       *)
THEOREM SettlesOnce ==
  ASSUME Independent
  PROVE  Spec => []SettledOnce
<1>1. TypeOK /\ Conserved => SettledOnce
  <2> SUFFICES ASSUME TypeOK, Conserved, NEW q \in Queues, NEW m \in Msgs
               PROVE  oks[q][m] + fails[q][m] <= 1 + requeues[q][m]
    BY DEF SettledOnce
  <2>1. Countable(q, m) /\ Total(q, m) <= 1 + requeues[q][m]
    BY DEF Conserved, ConservedFor
  <2> QED BY <2>1, TotalParts DEF Total
<1>2. Spec => []TypeOK
  BY TypeCorrect
<1>3. Spec => []Conserved
  BY Conservation
<1> QED BY <1>1, <1>2, <1>3, PTL

(* A counted message is where Pending looks for it.                        *)
LEMMA CountedIsPending ==
  ASSUME TypeOK, NEW q \in Queues, NEW m \in Msgs, Countable(q, m), Total(q, m) > 0,
         ~Settled(q, m)
  PROVE  Pending(q, m) \/ \E c \in Buffering(q, m) : consumer[c].unacked # consumer[c].buffered
<1>1. oks[q][m] = 0 /\ fails[q][m] = 0
  BY TotalParts DEF Settled
<1>2. \/ Tokens(queue[q], Of(m)) # {} \/ Tokens(dead[q], Of(m)) # {}
      \/ Tokens(retries, RetriesOf(q, m)) # {}
      \/ Buffering(q, m) # {} \/ Handling(q, m) # {}
  <2> SUFFICES ASSUME /\ Tokens(queue[q], Of(m)) = {} /\ Tokens(dead[q], Of(m)) = {}
                      /\ Tokens(retries, RetriesOf(q, m)) = {}
                      /\ Buffering(q, m) = {} /\ Handling(q, m) = {}
               PROVE  FALSE
    OBVIOUS
  <2>1. /\ Size(queue[q], Of(m)) = 0 /\ Size(dead[q], Of(m)) = 0
        /\ Size(retries, RetriesOf(q, m)) = 0 /\ InTasks(q, m) = 0
    BY FS_EmptySet DEF Size, InTasks
  <2> QED BY <1>1, <2>1 DEF Total
<1>3. ASSUME NEW bag, IsABag(bag), Tokens(bag, Of(m)) # {}
      PROVE  Holds(bag, m)
  <2>1. PICK t : t \in Tokens(bag, Of(m))
    BY <1>3
  <2>2. \E x \in BagToSet(bag) \cap Of(m) : TRUE
    BY <1>3, <2>1, InTokens
  <2> QED BY <2>2 DEF Of, Holds
<1>4. CASE Tokens(queue[q], Of(m)) # {} \/ Tokens(dead[q], Of(m)) # {}
  BY <1>3, <1>4, TypeOKParts DEF BagsType, IsBagOf, Pending
<1>5. CASE Tokens(retries, RetriesOf(q, m)) # {}
  <2>1. \E r \in BagToSet(retries) : r \in RetriesOf(q, m)
    BY <1>5, InTokens, TypeOKParts DEF IsBagOf
  <2> QED BY <2>1 DEF RetriesOf, Pending
<1>6. CASE Buffering(q, m) # {}
  BY <1>6 DEF Buffering, Buffers, Pending, InHand
<1>7. CASE Handling(q, m) # {}
  BY <1>7 DEF Handling, Handles, Pending, InHand
<1> QED BY <1>2, <1>4, <1>5, <1>6, <1>7

(* Where each receive has an exchange of its own, a message that is not    *)
(* settled is in a queue, with a task, or with a goroutine, unless a       *)
(* channel of its queue has been lost: acknowledged too early or not,      *)
(* nothing else loses it (rabbitmqPool.go:722, 743, 759).                  *)
THEOREM OnlyChannelsLose ==
  ASSUME OwnExchanges
  PROVE  Spec => []LostOnlyWithAChannel
<1>0. Independent
  BY OwnAreIndependent
<1>1. Inv /\ Conserved => LostOnlyWithAChannel
  <2> SUFFICES ASSUME Inv, Conserved, NEW m \in DOMAIN home, NEW q \in Routed(home[m]),
                      ~Settled(q, m), ~Disturbed(q)
               PROVE  Pending(q, m)
    BY DEF LostOnlyWithAChannel
  <2>1. m \in Msgs /\ q \in Queues
    BY TypeOKParts DEF Inv, Routed
  <2>2. Countable(q, m) /\ Total(q, m) > 0
    BY <2>1 DEF Conserved, ConservedFor, Expected
  <2>3. ASSUME NEW c \in Buffering(q, m)
        PROVE  consumer[c].unacked = consumer[c].buffered
    <3>1. /\ c \in Consumers /\ c[1] = q /\ consumer[c].buffered # NoCopy
          /\ Hand(consumer[c]) /\ consumer[c] \in Task
      BY TypeOKParts DEF Inv, Hands, Buffering, Buffers
    <3>2. consumer[c].open
      BY <3>1 DEF Disturbed, Hand, Task
    <3> QED BY <3>1, <3>2 DEF Hand
  <2> QED BY <2>1, <2>2, <2>3, CountedIsPending DEF Inv
<1>2. Spec => []Inv
  BY Invariants
<1>3. Spec => []Conserved
  BY <1>0, Conservation
<1> QED BY <1>1, <1>2, <1>3, PTL

============================================================================
