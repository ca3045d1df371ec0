--------------------------- MODULE ProducerPool ---------------------------
(***************************************************************************)
(* The producer side of mq.RabbitPool: goroutines that call Push share a   *)
(* round-robin list of TCP connections and a cache of AMQP channels.  One  *)
(* attempt of rPush selects a connection, re-dials it when it is closed    *)
(* and fetches or opens a channel, all under channelLock, and publishes    *)
(* after releasing the lock.  A failed publish starts the next attempt.    *)
(*                                                                         *)
(* The broker appears only as what the streadway/amqp client shows the     *)
(* pool: open connections and channels, exchanges, the success of a dial.  *)
(***************************************************************************)
EXTENDS Integers

CONSTANTS
  Pushers,          \* goroutines calling RabbitPool.Push
  Targets,          \* (exchange, type, queue, route) of a RabbitMqData
  BadTargets,       \* targets whose exchange type rDeclare rejects itself
  ConflictTargets,  \* targets whose exchange the broker refuses to declare
  MaxConnection,    \* r.maxConnection
  MinConnected,     \* connections that Connect is sure to open
  PushMaxTime,      \* r.pushMaxTime
  ChannelMax,       \* channel numbers of one AMQP connection
  HashCode(_, _),   \* channelHashCode as a function of connection and target
  ChannelExceptions, \* whether the broker may close a single channel
  MaxLosses,        \* bound: connections and channels the environment drops
  MaxDialFailures,  \* bound: dials that fail
  Nobody, NoTarget, NoChannel \* the absent pusher, target and channel

Slots     == 0 .. MaxConnection - 1
HashCodes == { HashCode(i, t) : i \in Slots, t \in Targets }
Channels  == [slot : Slots, gen : Nat, target : Targets, number : 1 .. ChannelMax]

ASSUME ProducerAssumption ==
  /\ BadTargets \subseteq Targets /\ ConflictTargets \subseteq Targets
  /\ MaxConnection \in Nat /\ MinConnected \in 0 .. MaxConnection
  /\ PushMaxTime \in Nat /\ ChannelMax \in Nat
  /\ ChannelExceptions \in BOOLEAN
  /\ MaxLosses \in Nat /\ MaxDialFailures \in Nat
  /\ Nobody \notin Pushers /\ NoTarget \notin Targets /\ NoChannel \notin Channels

(* The connection index is a field of the hashed string: keys of different *)
(* connections are taken to differ.  Keys of one connection may collide,   *)
(* "a"-"direct"-"topic-q" with "a-direct"-"topic"-"q" for one.             *)
ASSUME HashSeparatesSlots ==
  \A i, j \in Slots : \A t, u \in Targets : HashCode(i, t) = HashCode(j, u) => i = j

VARIABLES
  panicked,            \* a goroutine has panicked
  connections,         \* r.connections[clientType], one rConn per slot
  connectionIndex,     \* r.connectionIndex
  channelPool,         \* r.channelPool: hash code -> channel
  channelLock,         \* holder of r.channelLock
  productCurrentRetry, \* r.productCurrentRetry
  push,                \* locals of each pusher's rPush, and its last result
  openChannels,        \* broker: channels both ends consider open
  exchanges,           \* broker: targets whose exchange exists
  losses               \* environment: drops so far

poolVars   == <<panicked, connections, connectionIndex, channelPool, productCurrentRetry>>
brokerVars == <<openChannels, exchanges, losses>>
vars       == <<poolVars, brokerVars, channelLock, push>>

(* gen counts the dials of a slot; "absent" is an index beyond the end of  *)
(* the slice, "nil" a dial that failed.                                    *)
Conns     == [gen : Nat, state : {"absent", "open", "closed", "nil"}]
Locations == {"idle", "try", "readIndex", "pick", "checkConn", "dial",
              "getChannel", "declare", "unlock", "publish"}

(* dialGen and lossesBefore are history: the generation this attempt       *)
(* dialled (0 if none), and the drops there had been when Push was called. *)
Locals == [pc : Locations, target : Targets \cup {NoTarget}, sendTime : Nat,
           readIndex : Nat, slot : Nat, channel : Channels \cup {NoChannel},
           result : {"none", "ok", "pushMaxError", "getChannelError"},
           dialGen : Nat, lossesBefore : Nat]
Idle   == [pc |-> "idle", target |-> NoTarget, sendTime |-> 0, readIndex |-> 0, slot |-> 0,
           channel |-> NoChannel, result |-> "none", dialGen |-> 0, lossesBefore |-> 0]

(* initConnections dials the slots in order and stops at the first error:  *)
(* an unsuccessful Connect leaves the pool with a prefix of the slice.     *)
Init ==
  /\ \E n \in MinConnected .. MaxConnection :
       connections = [i \in Slots |-> IF i < n THEN [gen |-> 1, state |-> "open"]
                                               ELSE [gen |-> 0, state |-> "absent"]]
  /\ panicked = FALSE
  /\ connectionIndex = 0
  /\ channelPool = [h \in HashCodes |-> NoChannel]
  /\ channelLock = Nobody
  /\ productCurrentRetry = 0
  /\ push = [p \in Pushers |-> Idle]
  /\ openChannels = {}
  /\ exchanges = {}
  /\ losses = 0

---------------------------------------------------------------------------
At(p, loc)   == push[p].pc = loc
Goto(p, loc) == push' = [push EXCEPT ![p].pc = loc]
Take(p, loc, c) == push' = [push EXCEPT ![p] = [@ EXCEPT !.pc = loc, !.channel = c]]
Return(p, r) ==
  push' = [push EXCEPT ![p] = [Idle EXCEPT !.result = r, !.lossesBefore = push[p].lossesBefore]]

---------------------------------------------------------------------------
(* Slips that the configurations are tested against; Next uses none of     *)
(* them: RLock for Lock, a lock held for getConnection only, an index that *)
(* never wraps, a cached channel kept across a re-dial, the closed test    *)
(* inverted, a hash of the connection alone, a retry that does not count,  *)
(* a new channel that is not cached.                                       *)
LockShared == TRUE
LockIndexOnly == \A p \in Pushers : push[p].pc \notin {"readIndex", "pick"}
NoWrap(cIndex, max) == IF max = 0 THEN 0 ELSE cIndex + 1
KeepChannel(i, t) == channelPool
ConnNotClosed(i) == connections[i].state \in {"nil", "open"}
ConnectionKey(p) == HashCode(push[p].slot, CHOOSE t \in Targets : TRUE)
SameTime(n) == n
NotStored(p) == channelPool

---------------------------------------------------------------------------
(* Push calls rPush with sendTime 1.                                       *)
Push(p, t) ==
  /\ At(p, "idle")
  /\ push' = [push EXCEPT ![p] = [Idle EXCEPT !.pc = "try", !.target = t, !.sendTime = 1,
                                             !.lossesBefore = losses]]
  /\ UNCHANGED <<poolVars, brokerVars, channelLock>>

Exhausted(n) == n >= PushMaxTime

GiveUp(p) ==
  /\ At(p, "try") /\ Exhausted(push[p].sendTime)
  /\ Return(p, "pushMaxError")
  /\ UNCHANGED <<poolVars, brokerVars, channelLock>>

LockFree == channelLock = Nobody

AcquireLock(p) ==
  /\ At(p, "try") /\ ~Exhausted(push[p].sendTime)
  /\ LockFree
  /\ channelLock' = p
  /\ Goto(p, "readIndex")
  /\ UNCHANGED <<poolVars, brokerVars>>

(* getConnection: a plain read of connectionIndex, then an atomic addition *)
(* of the distance to the next index, then the indexing of the slice.      *)
RoundRobin(cIndex, max) == IF max = 0 THEN 0 ELSE (cIndex + 1) % max

ReadIndex(p) ==
  /\ At(p, "readIndex")
  /\ push' = [push EXCEPT ![p] = [@ EXCEPT !.pc = "pick", !.readIndex = connectionIndex]]
  /\ UNCHANGED <<poolVars, brokerVars, channelLock>>

InSlice(i) == i \in Slots /\ connections[i].state # "absent"

PickConnection(p) ==
  LET read == push[p].readIndex
      next == connectionIndex + (RoundRobin(read, MaxConnection) - read)
  IN  /\ At(p, "pick")
      /\ connectionIndex' = next
      /\ \/ /\ InSlice(next)
            /\ push' = [push EXCEPT ![p] = [@ EXCEPT !.pc = "checkConn", !.slot = next]]
            /\ UNCHANGED panicked
         \/ /\ ~InSlice(next)
            /\ panicked' = TRUE
            /\ UNCHANGED push
      /\ UNCHANGED <<connections, channelPool, productCurrentRetry, channelLock, brokerVars>>

(* tryConn: while the connection is nil or closed, forget this target's    *)
(* channel and dial again.  The recursion checks neither pushMaxTime nor   *)
(* productMaxRetry, and channelLock stays held.                            *)
ConnBroken(i) == connections[i].state \in {"nil", "closed"}

DeleteChannel(i, t) == [channelPool EXCEPT ![HashCode(i, t)] = NoChannel]

CheckConnection(p) ==
  /\ At(p, "checkConn")
  /\ \/ /\ ~ConnBroken(push[p].slot)
        /\ Goto(p, "getChannel")
        /\ UNCHANGED channelPool
     \/ /\ ConnBroken(push[p].slot)
        /\ Goto(p, "dial")
        /\ channelPool' = DeleteChannel(push[p].slot, push[p].target)
  /\ UNCHANGED <<panicked, connections, connectionIndex, productCurrentRetry,
                 channelLock, brokerVars>>

Dial(p) ==
  LET i == push[p].slot
      g == connections[i].gen + 1
  IN  /\ At(p, "dial")
      /\ \/ /\ connections' = [connections EXCEPT ![i] = [gen |-> g, state |-> "open"]]
            /\ push' = [push EXCEPT ![p] = [@ EXCEPT !.pc = "getChannel", !.dialGen = g]]
            /\ UNCHANGED productCurrentRetry
         \/ /\ productCurrentRetry < MaxDialFailures
            /\ connections' = [connections EXCEPT ![i].state = "nil"]
            /\ productCurrentRetry' = productCurrentRetry + 1
            /\ Goto(p, "checkConn")
      /\ UNCHANGED <<panicked, connectionIndex, channelPool, channelLock, brokerVars>>

(* getChannelQueueReset.  Its isReset argument is tryConn's second result, *)
(* which is the isRetry argument of rPush's own call: always false.        *)
Key(p) == HashCode(push[p].slot, push[p].target)

FreeNumbers(i) == 1 .. ChannelMax \ { c.number : c \in { d \in openChannels : d.slot = i } }

CanOpen(i) == connections[i].state = "open" /\ FreeNumbers(i) # {}

NewChannel(p) ==
  [slot |-> push[p].slot, gen |-> connections[push[p].slot].gen, target |-> push[p].target,
   number |-> CHOOSE n \in FreeNumbers(push[p].slot) : TRUE]

GetChannel(p) ==
  /\ At(p, "getChannel")
  /\ \/ /\ channelPool[Key(p)] # NoChannel
        /\ Take(p, "unlock", channelPool[Key(p)])
        /\ UNCHANGED openChannels
     \/ /\ channelPool[Key(p)] = NoChannel /\ CanOpen(push[p].slot)
        /\ Take(p, "declare", NewChannel(p))
        /\ openChannels' = openChannels \cup {NewChannel(p)}
     \/ /\ channelPool[Key(p)] = NoChannel /\ ~CanOpen(push[p].slot)
        /\ Goto(p, "unlock")
        /\ UNCHANGED openChannels
  /\ UNCHANGED <<poolVars, exchanges, losses, channelLock>>

(* The channel declared is cached under the target's hash code.            *)
Stored(p) == [channelPool EXCEPT ![Key(p)] = push[p].channel]

(* rDeclare for a producer declares the exchange, never the queue.  A type *)
(* it does not know is rejected before anything is sent, and the channel   *)
(* just opened is neither closed nor kept; a declaration the broker        *)
(* refuses is a channel exception, after which the broker closes it.       *)
Declarable(p) == push[p].target \notin ConflictTargets /\ push[p].channel \in openChannels

Declare(p) ==
  LET rejected == push[p].target \in BadTargets
  IN  /\ At(p, "declare")
      /\ \/ /\ rejected
            /\ Take(p, "unlock", NoChannel)
            /\ UNCHANGED <<exchanges, channelPool, openChannels>>
         \/ /\ ~rejected /\ Declarable(p)
            /\ exchanges' = exchanges \cup {push[p].target}
            /\ channelPool' = Stored(p)
            /\ Take(p, "unlock", push[p].channel)
            /\ UNCHANGED openChannels
         \/ /\ ~rejected /\ ~Declarable(p)
            /\ openChannels' = openChannels \ {push[p].channel}
            /\ Take(p, "unlock", NoChannel)
            /\ UNCHANGED <<exchanges, channelPool>>
      /\ UNCHANGED <<panicked, connections, connectionIndex, productCurrentRetry,
                     channelLock, losses>>

Unlock(p) ==
  /\ At(p, "unlock")
  /\ channelLock' = Nobody
  /\ \/ push[p].channel # NoChannel /\ Goto(p, "publish")
     \/ push[p].channel = NoChannel /\ Return(p, "getChannelError")
  /\ UNCHANGED <<poolVars, brokerVars>>

NextTime(n) == n + 1

(* Publish runs outside the lock and returns nil once the frames are       *)
(* written; an exchange that does not exist makes the broker close the     *)
(* channel afterwards.  On an error rPush sleeps and calls itself.         *)
Publish(p) ==
  LET c == push[p].channel
  IN  /\ At(p, "publish")
      /\ \/ /\ c \in openChannels
            /\ openChannels' = IF push[p].target \in exchanges THEN openChannels
                                                               ELSE openChannels \ {c}
            /\ Return(p, "ok")
         \/ /\ c \notin openChannels
            /\ push' = [push EXCEPT ![p] = [@ EXCEPT !.pc = "try", !.sendTime = NextTime(push[p].sendTime),
                                                      !.channel = NoChannel, !.dialGen = 0]]
            /\ UNCHANGED openChannels
      /\ UNCHANGED <<poolVars, exchanges, losses, channelLock>>

---------------------------------------------------------------------------
(* The environment: a connection is lost with its channels, or the broker  *)
(* closes one channel with an exception.                                   *)
Drop(channels) ==
  /\ losses < MaxLosses
  /\ losses' = losses + 1
  /\ openChannels' = openChannels \ channels
  /\ UNCHANGED <<panicked, connectionIndex, channelPool, productCurrentRetry,
                 channelLock, push, exchanges>>

LoseConnection(i) ==
  /\ connections[i].state = "open"
  /\ connections' = [connections EXCEPT ![i].state = "closed"]
  /\ Drop({ c \in openChannels : c.slot = i })

LoseChannel(c) == ChannelExceptions /\ Drop({c}) /\ UNCHANGED connections

---------------------------------------------------------------------------
(* What rPush does once it has been called, but for taking the lock.       *)
Advance(p) ==
  \/ GiveUp(p) \/ ReadIndex(p) \/ PickConnection(p) \/ CheckConnection(p) \/ Dial(p)
  \/ GetChannel(p) \/ Declare(p) \/ Unlock(p) \/ Publish(p)

Next ==
  /\ ~panicked
  /\ \/ \E p \in Pushers : AcquireLock(p) \/ Advance(p) \/ \E t \in Targets : Push(p, t)
     \/ \E i \in Slots : LoseConnection(i)
     \/ \E c \in openChannels : LoseChannel(c)

Spec == Init /\ [][Next]_vars

(* Goroutines are scheduled fairly, and sync.Mutex hands the lock over to  *)
(* a waiter starved for a millisecond.  At most MaxDialFailures dials fail *)
(* and MaxLosses drops occur: the broker is eventually reachable.          *)
FairSpec ==
  /\ Spec
  /\ \A p \in Pushers : /\ WF_vars(~panicked /\ Advance(p))
                        /\ SF_vars(~panicked /\ AcquireLock(p))

---------------------------------------------------------------------------
TypeOK ==
  /\ panicked \in BOOLEAN
  /\ connections \in [Slots -> Conns]
  /\ connectionIndex \in {0} \cup Slots
  /\ channelPool \in [HashCodes -> Channels \cup {NoChannel}]
  /\ channelLock \in Pushers \cup {Nobody}
  /\ productCurrentRetry \in Nat
  /\ push \in [Pushers -> Locals]
  /\ openChannels \subseteq Channels
  /\ exchanges \subseteq Targets
  /\ losses \in Nat

(* Between reading connectionIndex and adding to it no other pusher moves  *)
(* it (getConnection's read is plain, only the addition is atomic), so no  *)
(* turn of the round robin is lost and the index stays inside the slice.   *)
NoLostTurn ==
  \A p \in Pushers : At(p, "pick") /\ ~panicked => push[p].readIndex = connectionIndex

(* An attempt that re-dialled its connection publishes on a channel of the *)
(* connection it dialled, never on one cached before the loss.             *)
FreshAfterRedial ==
  \A p \in Pushers :
    At(p, "publish") /\ push[p].dialGen # 0 => push[p].channel.gen = push[p].dialGen

(* Whatever the pool opened on a live connection is still cached or in the *)
(* hands of a pusher, except channels opened for a rejected exchange type. *)
NoOrphanChannel ==
  \A c \in openChannels :
    \/ \E h \in HashCodes : channelPool[h] = c
    \/ \E p \in Pushers : push[p].channel = c
    \/ c.target \in BadTargets

(* A message is published only after its own exchange has been declared:   *)
(* the channel found under the target's hash code declared it.             *)
DeclaredBeforePublish ==
  \A p \in Pushers : At(p, "publish") => push[p].target \in exchanges

(* Push reports 501, sendTime exhausted, only if some connection or        *)
(* channel has been lost: what the pool opens and caches works until then. *)
GivesUpOnlyAfterDrop ==
  \A p \in Pushers : push[p].result = "pushMaxError" => losses > 0

(* getConnection indexes beyond its connections only in a pool that        *)
(* Connect has left short: otherwise no loss and no pusher makes it panic. *)
PanicsOnlyIfShort ==
  panicked => MaxConnection = 0 \/ \E i \in Slots : connections[i].state = "absent"

(* While nothing is lost, Push reports 502 for a target that can be        *)
(* declared only when all the numbers of its connection are taken, by      *)
(* channels of which every other target has one at most and this target    *)
(* none; rejected types alone pile up more (rDeclare).                     *)
Crowded(p) ==
  LET here == { c \in openChannels : c.slot = push[p].slot }
  IN  /\ FreeNumbers(push[p].slot) = {}
      /\ \A c \in here : c.target \notin BadTargets =>
           c.target # push[p].target /\ \A d \in here : d.target = c.target => d = c

RefusedForAReason ==
  \A p \in Pushers :
    At(p, "unlock") /\ push[p].channel = NoChannel /\ losses = push[p].lossesBefore =>
      push[p].target \in BadTargets \cup ConflictTargets \/ Crowded(p)

(* tryConn puts a new connection, or nil, only in the place of one that is *)
(* down: of two pushers that found it so the second does not overwrite,   *)
(* and leak, what the first has dialled.                                   *)
LiveConnectionKept ==
  [][\A i \in Slots : connections[i].state = "open" =>
       connections'[i] \in {connections[i], [connections[i] EXCEPT !.state = "closed"]}]_vars

(* readme.md:20, the producer reconnects automatically after a loss: a     *)
(* Push during which nothing is lost does not exhaust its attempts.        *)
PushRecovers ==
  \A p \in Pushers : push[p].result = "pushMaxError" => losses > push[p].lossesBefore

(* Every Push returns.                                                     *)
PushReturns == \A p \in Pushers : ~At(p, "idle") ~> (At(p, "idle") \/ panicked)
=============================================================================
