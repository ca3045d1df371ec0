------------------------ MODULE ProducerPoolProofs ------------------------
(* Theorems about ProducerPool for any number of pushers, targets,         *)
(* connections and losses.  All rest on one inductive invariant, IInv:     *)
(* what a pusher knows at each point of rPush (LocalOK), what the channel  *)
(* cache holds (CacheOK) and where every open channel is (OpenOK).         *)
EXTENDS ProducerPool, TLAPS

(* Where a pusher holds channelLock, and where it has selected a slot.     *)
Critical == {"readIndex", "pick", "checkConn", "dial", "getChannel", "declare", "unlock"}
Selected == {"checkConn", "dial", "getChannel", "declare", "unlock", "publish"}

(* channelLock excludes every other pusher from the critical section.      *)
Exclusive(p) == push[p].pc \in Critical => channelLock = p

Aimed(p) == /\ push[p].pc # "idle" => push[p].target \in Targets
            /\ push[p].pc \in Selected => push[p].slot \in Slots

Turn(p) == push[p].pc = "pick" /\ ~panicked => push[p].readIndex = connectionIndex

(* Before a dial the connection is down and the target's key forgotten;    *)
(* after it, the channel in use is of the generation dialled.              *)
Redialling(p) ==
  push[p].pc = "dial" => ConnBroken(push[p].slot) /\ channelPool[Key(p)] = NoChannel

Redialled(p) ==
  push[p].dialGen # 0 =>
    /\ push[p].pc \in {"getChannel", "declare", "unlock", "publish"}
    /\ push[p].pc = "getChannel" => /\ connections[push[p].slot].gen = push[p].dialGen
                                    /\ channelPool[Key(p)] = NoChannel
    /\ push[p].pc # "getChannel" /\ push[p].channel # NoChannel =>
         push[p].channel.gen = push[p].dialGen

(* The channel in a pusher's hands is new and uncached while it declares,  *)
(* afterwards it is one found or stored under the target's own key.        *)
Holding(p) ==
  /\ push[p].pc \notin {"declare", "unlock", "publish"} => push[p].channel = NoChannel
  /\ push[p].pc = "declare" =>
       /\ push[p].channel \in Channels
       /\ push[p].channel.slot = push[p].slot /\ push[p].channel.target = push[p].target
       /\ channelPool[Key(p)] = NoChannel
  /\ push[p].pc = "publish" => push[p].channel # NoChannel
  /\ push[p].pc \in {"unlock", "publish"} /\ push[p].channel # NoChannel =>
       /\ HashCode(push[p].channel.slot, push[p].channel.target) = Key(p)
       /\ push[p].channel.target \in exchanges

LocalOK(p) == Exclusive(p) /\ Aimed(p) /\ Turn(p) /\ Redialling(p) /\ Redialled(p) /\ Holding(p)

(* A cached channel sits under the hash code of the target it declared.    *)
CacheOK ==
  \A h \in HashCodes : channelPool[h] # NoChannel =>
    /\ HashCode(channelPool[h].slot, channelPool[h].target) = h
    /\ channelPool[h].target \in exchanges

(* An open channel has an open connection, and someone who knows it.       *)
OpenOK ==
  \A c \in openChannels :
    /\ connections[c.slot].state = "open"
    /\ \/ \E h \in HashCodes : channelPool[h] = c
       \/ \E p \in Pushers : push[p].pc = "declare" /\ push[p].channel = c
       \/ c.target \in BadTargets

PresentOK == MinConnected = MaxConnection => \A i \in Slots : connections[i].state # "absent"

IInv == /\ TypeOK
        /\ \A p \in Pushers : LocalOK(p)
        /\ CacheOK /\ OpenOK /\ PresentOK /\ PanicsOnlyIfShort

---------------------------------------------------------------------------
LEMMA SlotsNat == Slots \subseteq Nat
BY ProducerAssumption DEF Slots

LEMMA RoundRobinInSlots ==
  ASSUME NEW i \in Nat
  PROVE  /\ RoundRobin(i, MaxConnection) \in {0} \cup Slots
         /\ RoundRobin(i, MaxConnection) \in Nat
         /\ MaxConnection > 0 => RoundRobin(i, MaxConnection) \in Slots
<1>1. CASE MaxConnection = 0
  BY <1>1 DEF RoundRobin
<1>2. CASE MaxConnection # 0
  BY <1>2, ProducerAssumption DEF RoundRobin, Slots
<1> QED BY <1>1, <1>2

LEMMA IdleType == Idle \in Locals
BY ProducerAssumption DEF Idle, Locals, Locations

(* How one pusher's step changes the array of locals.                      *)
LEMMA Updated ==
  ASSUME push \in [Pushers -> Locals], NEW p \in Pushers, NEW v \in Locals,
         push' = [push EXCEPT ![p] = v]
  PROVE  /\ push' \in [Pushers -> Locals]
         /\ push'[p] = v
         /\ \A q \in Pushers \ {p} : push'[q] = push[q]
OBVIOUS

(* A pusher outside the critical section does not depend on what the lock  *)
(* protects, so the holder's step leaves its part of the invariant alone.  *)
LEMMA Bystander ==
  ASSUME NEW p, NEW q \in Pushers, LocalOK(q), channelLock = p, q # p, 
         push'[q] = push[q], exchanges \subseteq exchanges'
  PROVE  LocalOK(q)'
<1>1. push[q].pc \notin Critical
  BY DEF LocalOK, Exclusive
<1>2. Exclusive(q)' /\ Turn(q)' /\ Redialling(q)'
  BY <1>1 DEF Exclusive, Turn, Redialling, Critical
<1>3. Aimed(q)'
  BY DEF LocalOK, Aimed
<1>4. Redialled(q)'
  BY <1>1 DEF LocalOK, Redialled, Critical
<1>5. Holding(q)'
  BY <1>1 DEF LocalOK, Holding, Critical, Key
<1> QED BY <1>2, <1>3, <1>4, <1>5 DEF LocalOK

(* Nor does a step that leaves the pool alone.                             *)
LEMMA Unaffected ==
  ASSUME NEW q \in Pushers, LocalOK(q), push'[q] = push[q],
         UNCHANGED <<panicked, connections, connectionIndex, channelPool, channelLock,
            exchanges>>
  PROVE  LocalOK(q)'
BY DEF LocalOK, Exclusive, Aimed, Turn, Redialling, Redialled, Holding, ConnBroken, Key
(* A slot that Connect never dialled stays so: only broken ones are dialled.*)
LEMMA StaysShort ==
  ASSUME PanicsOnlyIfShort, panicked' = panicked,
         \A i \in Slots : connections[i].state = "absent" => connections'[i].state = "absent"
  PROVE  PanicsOnlyIfShort'
BY DEF PanicsOnlyIfShort

---------------------------------------------------------------------------
LEMMA InitOK == Init => IInv
<1> SUFFICES ASSUME Init PROVE IInv
  OBVIOUS
<1>1. PICK n \in MinConnected .. MaxConnection :
        connections = [i \in Slots |-> IF i < n THEN [gen |-> 1, state |-> "open"]
                                              ELSE [gen |-> 0, state |-> "absent"]]
  BY DEF Init
<1>2. connections \in [Slots -> Conns] /\ PresentOK
  BY <1>1, ProducerAssumption DEF Conns, PresentOK, Slots
<1>3. push \in [Pushers -> Locals]
  BY IdleType DEF Init
<1>4. TypeOK /\ PanicsOnlyIfShort
  BY <1>2, <1>3, ProducerAssumption DEF Init, TypeOK, PanicsOnlyIfShort
<1>5. ASSUME NEW p \in Pushers PROVE LocalOK(p)
  <2>1. push[p].pc = "idle" /\ push[p].dialGen = 0 /\ push[p].channel = NoChannel
    BY DEF Init, Idle
  <2> QED BY <2>1 DEF LocalOK, Exclusive, Aimed, Turn, Redialling, Redialled, Holding,
                      Critical, Selected
<1>6. CacheOK /\ OpenOK
  BY DEF Init, CacheOK, OpenOK
<1> QED BY <1>2, <1>4, <1>5, <1>6 DEF IInv

LEMMA PushOK == ASSUME IInv, NEW p \in Pushers, NEW t \in Targets, Push(p, t) PROVE IInv'
<1> DEFINE v == [Idle EXCEPT !.pc = "try", !.target = t, !.sendTime = 1,
   !.lossesBefore = losses]
<1>1. v \in Locals /\ v.pc = "try" /\ v.target = t /\ v.dialGen = 0 /\ v.channel = NoChannel
  BY DEF IInv, TypeOK, Locals, Locations, Idle
<1>2. push' = [push EXCEPT ![p] = v]
  BY DEF Push
<1> HIDE DEF v
<1>3. /\ push' \in [Pushers -> Locals] /\ push'[p] = v
      /\ \A q \in Pushers \ {p} : push'[q] = push[q]
  BY <1>1, <1>2, Updated DEF IInv, TypeOK
<1>4. TypeOK' /\ CacheOK' /\ PresentOK' /\ PanicsOnlyIfShort'
  BY <1>3 DEF IInv, TypeOK, CacheOK, PresentOK, PanicsOnlyIfShort, Push, poolVars, brokerVars
<1>5. LocalOK(p)'
  BY <1>1, <1>3 DEF LocalOK, Exclusive, Aimed, Turn, Redialling, Redialled, Holding,
                    Critical, Selected
<1>6. ASSUME NEW q \in Pushers, q # p PROVE LocalOK(q)'
  BY <1>3, <1>6, Unaffected DEF IInv, Push, poolVars, brokerVars
<1>7. OpenOK'
  BY <1>3 DEF IInv, OpenOK, Push, poolVars, brokerVars, At
<1> QED BY <1>4, <1>5, <1>6, <1>7 DEF IInv

LEMMA GiveUpOK == ASSUME IInv, NEW p \in Pushers, GiveUp(p) PROVE IInv'
<1> DEFINE v == [Idle EXCEPT !.result = "pushMaxError", !.lossesBefore = push[p].lossesBefore]
<1>1. v \in Locals /\ v.pc = "idle" /\ v.dialGen = 0 /\ v.channel = NoChannel
  BY IdleType DEF IInv, TypeOK, Locals, Locations, Idle
<1>2. push' = [push EXCEPT ![p] = v]
  BY DEF GiveUp, Return
<1> HIDE DEF v
<1>3. /\ push' \in [Pushers -> Locals] /\ push'[p] = v
      /\ \A q \in Pushers \ {p} : push'[q] = push[q]
  BY <1>1, <1>2, Updated DEF IInv, TypeOK
<1>4. TypeOK' /\ CacheOK' /\ PresentOK' /\ PanicsOnlyIfShort'
  BY <1>3 DEF IInv, TypeOK, CacheOK, PresentOK, PanicsOnlyIfShort, GiveUp, poolVars,
     brokerVars
<1>5. LocalOK(p)'
  BY <1>1, <1>3 DEF LocalOK, Exclusive, Aimed, Turn, Redialling, Redialled, Holding,
                    Critical, Selected
<1>6. ASSUME NEW q \in Pushers, q # p PROVE LocalOK(q)'
  BY <1>3, <1>6, Unaffected DEF IInv, GiveUp, poolVars, brokerVars
<1>7. OpenOK'
  BY <1>3 DEF IInv, OpenOK, GiveUp, poolVars, brokerVars, At
<1> QED BY <1>4, <1>5, <1>6, <1>7 DEF IInv

LEMMA AcquireLockOK == ASSUME IInv, NEW p \in Pushers, AcquireLock(p) PROVE IInv'
<1> DEFINE v == [push[p] EXCEPT !.pc = "readIndex"]
<1>0. push[p].pc = "try" /\ LocalOK(p) /\ push[p] \in Locals
  BY DEF IInv, TypeOK, AcquireLock, At
<1>1. /\ v \in Locals /\ v.pc = "readIndex" /\ v.dialGen = 0 /\ v.channel = NoChannel
      /\ v.target \in Targets
  BY <1>0 DEF LocalOK, Aimed, Redialled, Holding, Locals, Locations
<1>2. push' = [push EXCEPT ![p] = v]
  BY DEF AcquireLock, Goto
<1> HIDE DEF v
<1>3. /\ push' \in [Pushers -> Locals] /\ push'[p] = v
      /\ \A q \in Pushers \ {p} : push'[q] = push[q]
  BY <1>1, <1>2, Updated DEF IInv, TypeOK
<1>4. TypeOK' /\ CacheOK' /\ PresentOK' /\ PanicsOnlyIfShort'
  BY <1>3 DEF IInv, TypeOK, CacheOK, PresentOK, PanicsOnlyIfShort, AcquireLock, poolVars,
     brokerVars
<1>5. LocalOK(p)'
  BY <1>1, <1>3 DEF LocalOK, Exclusive, Aimed, Turn, Redialling, Redialled, Holding,
                    Selected, AcquireLock
<1>6. ASSUME NEW q \in Pushers, q # p PROVE LocalOK(q)'
  <2>1. push[q].pc \notin Critical
    BY ProducerAssumption DEF IInv, LocalOK, Exclusive, AcquireLock, LockFree
  <2> QED BY <1>3, <1>6, <2>1 DEF IInv, LocalOK, Exclusive, Aimed, Turn, Redialling, Redialled,
            Holding, ConnBroken, Key, Critical, AcquireLock, poolVars, brokerVars
<1>7. OpenOK'
  BY <1>0, <1>3 DEF IInv, OpenOK, AcquireLock, poolVars, brokerVars
<1> QED BY <1>4, <1>5, <1>6, <1>7 DEF IInv

LEMMA ReadIndexOK == ASSUME IInv, NEW p \in Pushers, ReadIndex(p) PROVE IInv'
<1> DEFINE v == [push[p] EXCEPT !.pc = "pick", !.readIndex = connectionIndex]
<1>0. push[p].pc = "readIndex" /\ LocalOK(p) /\ push[p] \in Locals /\ connectionIndex \in Nat
  BY SlotsNat DEF IInv, TypeOK, ReadIndex, At
<1>1. /\ v \in Locals /\ v.pc = "pick" /\ v.dialGen = 0 /\ v.channel = NoChannel
      /\ v.target \in Targets
      /\ v.readIndex = connectionIndex
  BY <1>0 DEF LocalOK, Aimed, Redialled, Holding, Locals, Locations
<1>2. push' = [push EXCEPT ![p] = v]
  BY DEF ReadIndex
<1> HIDE DEF v
<1>3. /\ push' \in [Pushers -> Locals] /\ push'[p] = v
      /\ \A q \in Pushers \ {p} : push'[q] = push[q]
  BY <1>1, <1>2, Updated DEF IInv, TypeOK
<1>4. TypeOK' /\ CacheOK' /\ PresentOK' /\ PanicsOnlyIfShort'
  BY <1>3 DEF IInv, TypeOK, CacheOK, PresentOK, PanicsOnlyIfShort, ReadIndex, poolVars,
     brokerVars
<1>5. LocalOK(p)' /\ channelLock = p
  BY <1>0, <1>1, <1>3 DEF LocalOK, Exclusive, Aimed, Turn, Redialling, Redialled, Holding,
                    Selected, Critical, ReadIndex, poolVars
<1>6. ASSUME NEW q \in Pushers, q # p PROVE LocalOK(q)'
  BY <1>3, <1>5, <1>6, Bystander DEF IInv, ReadIndex, brokerVars
<1>7. OpenOK'
  BY <1>0, <1>3 DEF IInv, OpenOK, ReadIndex, poolVars, brokerVars
<1> QED BY <1>4, <1>5, <1>6, <1>7 DEF IInv

LEMMA PickConnectionOK ==
  ASSUME IInv, NEW p \in Pushers, ~panicked, PickConnection(p) PROVE IInv'
<1>0. push[p].pc = "pick" /\ LocalOK(p) /\ push[p] \in Locals /\ connectionIndex \in Nat
  BY SlotsNat DEF IInv, TypeOK, PickConnection, At
<1>1. connectionIndex' = RoundRobin(connectionIndex, MaxConnection)
  <2>1. push[p].readIndex = connectionIndex
    BY <1>0 DEF LocalOK, Turn
  <2>2. RoundRobin(connectionIndex, MaxConnection) \in Nat
    BY <1>0, RoundRobinInSlots
  <2> QED BY <1>0, <2>1, <2>2 DEF PickConnection
<1>2. connectionIndex' \in {0} \cup Slots /\ (MaxConnection > 0 => connectionIndex' \in Slots)
  BY <1>0, <1>1, RoundRobinInSlots
<1>3. /\ channelLock = p /\ push[p].dialGen = 0 /\ push[p].channel = NoChannel
      /\ push[p].target \in Targets
  BY <1>0 DEF LocalOK, Exclusive, Aimed, Redialled, Holding, Critical
<1>4. CacheOK' /\ PresentOK'
  BY DEF IInv, CacheOK, PresentOK, PickConnection, brokerVars
<1>5. CASE InSlice(connectionIndex')
  <2> DEFINE v == [push[p] EXCEPT !.pc = "checkConn", !.slot = connectionIndex']
  <2>1. /\ v \in Locals /\ v.pc = "checkConn" /\ v.dialGen = 0 /\ v.channel = NoChannel
        /\ v.target \in Targets /\ v.slot \in Slots
    BY <1>0, <1>3, <1>5, SlotsNat DEF InSlice, Locals, Locations
  <2>2. push' = [push EXCEPT ![p] = v] /\ panicked' = panicked
    BY <1>5 DEF PickConnection, InSlice
  <2> HIDE DEF v
  <2>3. /\ push' \in [Pushers -> Locals] /\ push'[p] = v
        /\ \A q \in Pushers \ {p} : push'[q] = push[q]
    BY <2>1, <2>2, Updated DEF IInv, TypeOK
  <2>4. TypeOK' /\ PanicsOnlyIfShort'
    BY <1>2, <2>2, <2>3 DEF IInv, TypeOK, PanicsOnlyIfShort, PickConnection, brokerVars
  <2>5. LocalOK(p)'
    BY <1>3, <2>1, <2>3 DEF LocalOK, Exclusive, Aimed, Turn, Redialling, Redialled, Holding,
                            PickConnection
  <2>6. ASSUME NEW q \in Pushers, q # p PROVE LocalOK(q)'
    BY <1>3, <2>3, <2>6, Bystander DEF IInv, PickConnection, brokerVars
  <2>7. OpenOK'
    BY <1>0, <2>3 DEF IInv, OpenOK, PickConnection, brokerVars
  <2> QED BY <1>4, <2>4, <2>5, <2>6, <2>7 DEF IInv
<1>6. CASE ~InSlice(connectionIndex')
  <2>1. panicked' = TRUE /\ push' = push
    BY <1>6 DEF PickConnection, InSlice
  <2>2. PanicsOnlyIfShort'
    BY <1>2, <1>6, ProducerAssumption DEF PanicsOnlyIfShort, InSlice, PickConnection
  <2>3. TypeOK' /\ OpenOK'
    BY <1>2, <2>1 DEF IInv, TypeOK, OpenOK, PickConnection, brokerVars
  <2>4. ASSUME NEW q \in Pushers PROVE LocalOK(q)'
    BY <2>1 DEF IInv, LocalOK, Exclusive, Aimed, Turn, Redialling, Redialled, Holding,
                ConnBroken, Key, PickConnection, brokerVars
  <2> QED BY <1>4, <2>2, <2>3, <2>4 DEF IInv
<1> QED BY <1>5, <1>6

LEMMA CheckConnectionOK == ASSUME IInv, NEW p \in Pushers, CheckConnection(p) PROVE IInv'
<1>0. push[p].pc = "checkConn" /\ LocalOK(p) /\ push[p] \in Locals
  BY DEF IInv, TypeOK, CheckConnection, At
<1>1. /\ channelLock = p /\ push[p].dialGen = 0 /\ push[p].channel = NoChannel
      /\ push[p].target \in Targets /\ push[p].slot \in Slots
  BY <1>0 DEF LocalOK, Exclusive, Aimed, Redialled, Holding, Critical, Selected
<1>2. PresentOK' /\ PanicsOnlyIfShort'
  BY DEF IInv, PresentOK, PanicsOnlyIfShort, CheckConnection
<1>3. CASE ~ConnBroken(push[p].slot)
  <2> DEFINE v == [push[p] EXCEPT !.pc = "getChannel"]
  <2>1. /\ v \in Locals /\ v.pc = "getChannel" /\ v.dialGen = 0 /\ v.channel = NoChannel
        /\ v.target \in Targets /\ v.slot \in Slots
    BY <1>0, <1>1 DEF Locals, Locations
  <2>2. push' = [push EXCEPT ![p] = v] /\ channelPool' = channelPool
    BY <1>3 DEF CheckConnection, Goto
  <2> HIDE DEF v
  <2>3. /\ push' \in [Pushers -> Locals] /\ push'[p] = v
        /\ \A q \in Pushers \ {p} : push'[q] = push[q]
    BY <2>1, <2>2, Updated DEF IInv, TypeOK
  <2>4. TypeOK' /\ CacheOK'
    BY <2>2, <2>3 DEF IInv, TypeOK, CacheOK, CheckConnection, brokerVars
  <2>5. LocalOK(p)'
    BY <1>1, <2>1, <2>3 DEF LocalOK, Exclusive, Aimed, Turn, Redialling, Redialled, Holding,
                            CheckConnection
  <2>6. ASSUME NEW q \in Pushers, q # p PROVE LocalOK(q)'
    BY <1>1, <2>3, <2>6, Bystander DEF IInv, CheckConnection, brokerVars
  <2>7. OpenOK'
    BY <1>0, <2>2, <2>3 DEF IInv, OpenOK, CheckConnection, brokerVars
  <2> QED BY <1>2, <2>4, <2>5, <2>6, <2>7 DEF IInv
<1>4. CASE ConnBroken(push[p].slot)
  <2> DEFINE v == [push[p] EXCEPT !.pc = "dial"]
             k == HashCode(push[p].slot, push[p].target)
  <2>1. /\ v \in Locals /\ v.pc = "dial" /\ v.dialGen = 0 /\ v.channel = NoChannel
        /\ v.target = push[p].target /\ v.slot = push[p].slot
    BY <1>0, <1>1 DEF Locals, Locations
  <2>2. push' = [push EXCEPT ![p] = v] /\ channelPool' = [channelPool EXCEPT ![k] = NoChannel]
    BY <1>4 DEF CheckConnection, Goto, DeleteChannel
  <2>key. k \in HashCodes
    BY <1>1 DEF HashCodes
  <2>pool. /\ channelPool' \in [HashCodes -> Channels \cup {NoChannel}]
           /\ channelPool'[k] = NoChannel
           /\ \A h \in HashCodes \ {k} : channelPool'[h] = channelPool[h]
    BY <2>2, <2>key DEF IInv, TypeOK
  <2> HIDE DEF v
  <2>3. /\ push' \in [Pushers -> Locals] /\ push'[p] = v
        /\ \A q \in Pushers \ {p} : push'[q] = push[q]
    BY <2>1, <2>2, Updated DEF IInv, TypeOK
  <2>4. TypeOK'
    BY <2>pool, <2>3 DEF IInv, TypeOK, CheckConnection, brokerVars
  <2>cache. CacheOK'
    BY <2>pool DEF IInv, CacheOK, CheckConnection, brokerVars
  <2>5. LocalOK(p)'
    BY <1>1, <1>4, <2>1, <2>3, <2>pool DEF LocalOK, Exclusive, Aimed, Turn, Redialling,
       Redialled, Holding,
                            CheckConnection, ConnBroken, Key
  <2>6. ASSUME NEW q \in Pushers, q # p PROVE LocalOK(q)'
    BY <1>1, <2>3, <2>6, Bystander DEF IInv, CheckConnection, brokerVars
  <2>7. ASSUME NEW c \in openChannels PROVE channelPool[k] # c
    <3>1. SUFFICES ASSUME channelPool[k] = c PROVE FALSE
      OBVIOUS
    <3>2. c \in Channels /\ c # NoChannel
      BY ProducerAssumption DEF IInv, TypeOK
    <3>3. HashCode(c.slot, c.target) = k
      BY <3>1, <3>2, <2>key DEF IInv, CacheOK
    <3>4. c.slot = push[p].slot
      BY <3>2, <3>3, <1>1, HashSeparatesSlots DEF Channels
    <3> QED BY <3>4, <1>4 DEF IInv, OpenOK, ConnBroken
  <2>8. OpenOK'
    BY <1>0, <2>pool, <2>3, <2>7 DEF IInv, OpenOK, CheckConnection, brokerVars
  <2> QED BY <1>2, <2>4, <2>cache, <2>5, <2>6, <2>8 DEF IInv
<1> QED BY <1>3, <1>4

LEMMA DialOK == ASSUME IInv, NEW p \in Pushers, Dial(p) PROVE IInv'
<1> DEFINE i == push[p].slot
           g == connections[i].gen + 1
<1>0. push[p].pc = "dial" /\ LocalOK(p) /\ push[p] \in Locals
  BY DEF IInv, TypeOK, Dial, At
<1>1. /\ channelLock = p /\ push[p].dialGen = 0 /\ push[p].channel = NoChannel
      /\ push[p].target \in Targets /\ i \in Slots
      /\ ConnBroken(i) /\ channelPool[Key(p)] = NoChannel
  BY <1>0 DEF LocalOK, Exclusive, Aimed, Redialled, Redialling, Holding, Critical, Selected
<1>2. panicked' = panicked /\ CacheOK'
  BY DEF IInv, CacheOK, Dial, brokerVars
<1>3. g \in Nat /\ g # 0
  BY <1>1 DEF IInv, TypeOK, Conns
<1>4. \A c \in openChannels : c \in Channels /\ c.slot \in Slots /\ c.slot # i
  BY <1>1 DEF IInv, TypeOK, OpenOK, ConnBroken, Channels
<1>5. CASE /\ connections' = [connections EXCEPT ![i] = [gen |-> g, state |-> "open"]]
           /\ UNCHANGED productCurrentRetry
           /\ push' = [push EXCEPT ![p] = [@ EXCEPT !.pc = "getChannel", !.dialGen = g]]
  <2> DEFINE v == [push[p] EXCEPT !.pc = "getChannel", !.dialGen = g]
  <2> HIDE DEF g
  <2>1. /\ v \in Locals /\ v.pc = "getChannel" /\ v.dialGen = g /\ v.channel = NoChannel
        /\ v.target = push[p].target /\ v.slot = i
    BY <1>0, <1>1, <1>3 DEF Locals, Locations
  <2>2. push' = [push EXCEPT ![p] = v]
    BY <1>5
  <2>conn. /\ connections' \in [Slots -> Conns] /\ connections'[i].gen = g
           /\ connections'[i].state = "open"
           /\ \A j \in Slots : j # i => connections'[j] = connections[j]
    BY <1>1, <1>3, <1>5 DEF IInv, TypeOK, Conns
  <2> HIDE DEF v, i
  <2>3. /\ push' \in [Pushers -> Locals] /\ push'[p] = v
        /\ \A q \in Pushers \ {p} : push'[q] = push[q]
    BY <2>1, <2>2, Updated DEF IInv, TypeOK
  <2>4. TypeOK'
    BY <1>5, <2>conn, <2>3 DEF IInv, TypeOK, Dial, brokerVars
  <2>present. PresentOK' /\ PanicsOnlyIfShort'
    BY <2>conn, <1>1, <1>2, StaysShort DEF IInv, PresentOK, ConnBroken
  <2>5. LocalOK(p)'
    BY <1>1, <2>1, <2>3, <2>conn DEF LocalOK, Exclusive, Aimed, Turn, Redialling, Redialled,
       Holding,
                            Dial, Key, i
  <2>6. ASSUME NEW q \in Pushers, q # p PROVE LocalOK(q)'
    BY <1>1, <2>3, <2>6, Bystander DEF IInv, Dial, brokerVars
  <2>7. OpenOK'
    BY <1>0, <1>4, <2>3, <2>conn DEF IInv, OpenOK, Dial, brokerVars
  <2> QED BY <1>2, <2>4, <2>present, <2>5, <2>6, <2>7 DEF IInv
<1>6. CASE /\ connections' = [connections EXCEPT ![i].state = "nil"]
           /\ productCurrentRetry' = productCurrentRetry + 1 /\ Goto(p, "checkConn")
  <2> DEFINE v == [push[p] EXCEPT !.pc = "checkConn"]
  <2>1. /\ v \in Locals /\ v.pc = "checkConn" /\ v.dialGen = 0 /\ v.channel = NoChannel
        /\ v.target = push[p].target /\ v.slot = i
    BY <1>0, <1>1 DEF Locals, Locations
  <2>2. push' = [push EXCEPT ![p] = v]
    BY <1>6 DEF Goto
  <2>conn. /\ connections' \in [Slots -> Conns] /\ connections'[i].state = "nil"
           /\ \A j \in Slots : j # i => connections'[j] = connections[j]
    BY <1>1, <1>6 DEF IInv, TypeOK, Conns
  <2> HIDE DEF v, i
  <2>3. /\ push' \in [Pushers -> Locals] /\ push'[p] = v
        /\ \A q \in Pushers \ {p} : push'[q] = push[q]
    BY <2>1, <2>2, Updated DEF IInv, TypeOK
  <2>4. TypeOK'
    BY <1>6, <2>conn, <2>3 DEF IInv, TypeOK, Dial, brokerVars
  <2>present. PresentOK' /\ PanicsOnlyIfShort'
    BY <2>conn, <1>1, <1>2, StaysShort DEF IInv, PresentOK, ConnBroken
  <2>5. LocalOK(p)'
    BY <1>1, <2>1, <2>3, <2>conn DEF LocalOK, Exclusive, Aimed, Turn, Redialling, Redialled,
       Holding,
                            Dial, Key, i
  <2>6. ASSUME NEW q \in Pushers, q # p PROVE LocalOK(q)'
    BY <1>1, <2>3, <2>6, Bystander DEF IInv, Dial, brokerVars
  <2>7. OpenOK'
    BY <1>0, <1>4, <2>3, <2>conn DEF IInv, OpenOK, Dial, brokerVars
  <2> QED BY <1>2, <2>4, <2>present, <2>5, <2>6, <2>7 DEF IInv
<1> QED BY <1>5, <1>6 DEF Dial

LEMMA NewChannelType ==
  ASSUME IInv, NEW p \in Pushers, push[p].slot \in Slots, push[p].target \in Targets,
         CanOpen(push[p].slot)
  PROVE  /\ NewChannel(p) \in Channels
         /\ NewChannel(p).slot = push[p].slot /\ NewChannel(p).target = push[p].target
         /\ NewChannel(p).gen = connections[push[p].slot].gen
<1> DEFINE n == CHOOSE m \in FreeNumbers(push[p].slot) : TRUE
<1>1. n \in 1 .. ChannelMax
  BY DEF CanOpen, FreeNumbers
<1>2. connections[push[p].slot].gen \in Nat
  BY DEF IInv, TypeOK, Conns
<1> QED BY <1>1, <1>2 DEF NewChannel, Channels

LEMMA GetChannelOK == ASSUME IInv, NEW p \in Pushers, GetChannel(p) PROVE IInv'
<1>0. push[p].pc = "getChannel" /\ LocalOK(p) /\ push[p] \in Locals
  BY DEF IInv, TypeOK, GetChannel, At
<1>1. channelLock = p /\ push[p].target \in Targets /\ push[p].slot \in Slots
  BY <1>0 DEF LocalOK, Exclusive, Aimed, Critical, Selected
<1>2. Key(p) \in HashCodes /\ channelPool[Key(p)] \in Channels \cup {NoChannel}
  BY <1>1 DEF Key, HashCodes, IInv, TypeOK
<1>3. PresentOK' /\ PanicsOnlyIfShort' /\ CacheOK'
  BY DEF IInv, PresentOK, PanicsOnlyIfShort, CacheOK, GetChannel, poolVars
<1>4. CASE channelPool[Key(p)] # NoChannel /\ Take(p, "unlock", channelPool[Key(p)])
           /\ UNCHANGED openChannels
  <2> DEFINE v == [push[p] EXCEPT !.pc = "unlock", !.channel = channelPool[Key(p)]]
  <2>1. /\ v \in Locals /\ v.pc = "unlock" /\ v.dialGen = push[p].dialGen
        /\ v.target = push[p].target /\ v.slot = push[p].slot /\ v.channel = channelPool[Key(p)]
    BY <1>0, <1>2 DEF Locals, Locations
  <2>2. push' = [push EXCEPT ![p] = v]
    BY <1>4 DEF Take
  <2> HIDE DEF v
  <2>3. /\ push' \in [Pushers -> Locals] /\ push'[p] = v
        /\ \A q \in Pushers \ {p} : push'[q] = push[q]
    BY <2>1, <2>2, Updated DEF IInv, TypeOK
  <2>4. TypeOK'
    BY <1>4, <2>3 DEF IInv, TypeOK, GetChannel, poolVars
  <2>5. v.dialGen = 0
    BY <1>0, <1>4, <2>1 DEF LocalOK, Redialled
  <2>6. LocalOK(p)'
    BY <1>0, <1>1, <1>2, <1>4, <2>1, <2>3, <2>5
       DEF IInv, CacheOK, LocalOK, Exclusive, Aimed, Turn, Redialling, Redialled, Holding,
           GetChannel, Key, poolVars
  <2>7. ASSUME NEW q \in Pushers, q # p PROVE LocalOK(q)'
    BY <1>1, <2>3, <2>7, Bystander DEF IInv, GetChannel
  <2>8. OpenOK'
    BY <1>0, <1>4, <2>3 DEF IInv, OpenOK, GetChannel, poolVars
  <2> QED BY <1>3, <2>4, <2>6, <2>7, <2>8 DEF IInv
<1>5. CASE /\ channelPool[Key(p)] = NoChannel /\ CanOpen(push[p].slot)
           /\ Take(p, "declare", NewChannel(p))
           /\ openChannels' = openChannels \cup {NewChannel(p)}
  <2> DEFINE c == NewChannel(p)
             v == [push[p] EXCEPT !.pc = "declare", !.channel = c]
  <2>0. /\ c \in Channels /\ c.slot = push[p].slot /\ c.target = push[p].target
        /\ c.gen = connections[push[p].slot].gen
    BY <1>1, <1>5, NewChannelType
  <2>open. connections[c.slot].state = "open" /\ openChannels' = openChannels \cup {c}
    BY <1>5, <2>0 DEF CanOpen
  <2> HIDE DEF c
  <2>1. /\ v \in Locals /\ v.pc = "declare" /\ v.dialGen = push[p].dialGen
        /\ v.target = push[p].target /\ v.slot = push[p].slot /\ v.channel = c
    BY <1>0, <2>0 DEF Locals, Locations
  <2>2. push' = [push EXCEPT ![p] = v]
    BY <1>5 DEF Take, c
  <2> HIDE DEF v
  <2>3. /\ push' \in [Pushers -> Locals] /\ push'[p] = v
        /\ \A q \in Pushers \ {p} : push'[q] = push[q]
    BY <2>1, <2>2, Updated DEF IInv, TypeOK
  <2>4. TypeOK'
    BY <2>0, <2>open, <2>3 DEF IInv, TypeOK, GetChannel, poolVars
  <2>6. LocalOK(p)'
    BY <1>0, <1>1, <1>2, <1>5, <2>0, <2>1, <2>3
       DEF LocalOK, Exclusive, Aimed, Turn, Redialling, Redialled, Holding,
           GetChannel, Key, poolVars
  <2>7. ASSUME NEW q \in Pushers, q # p PROVE LocalOK(q)'
    BY <1>1, <2>3, <2>7, Bystander DEF IInv, GetChannel
  <2>8. OpenOK'
    BY <1>0, <2>0, <2>open, <2>1, <2>3 DEF IInv, OpenOK, GetChannel, poolVars
  <2> QED BY <1>3, <2>4, <2>6, <2>7, <2>8 DEF IInv
<1>6. CASE channelPool[Key(p)] = NoChannel /\ Goto(p, "unlock") /\ UNCHANGED openChannels
  <2> DEFINE v == [push[p] EXCEPT !.pc = "unlock"]
  <2>1. /\ v \in Locals /\ v.pc = "unlock" /\ v.dialGen = push[p].dialGen
        /\ v.target = push[p].target /\ v.slot = push[p].slot /\ v.channel = push[p].channel
    BY <1>0 DEF Locals, Locations
  <2>2. push' = [push EXCEPT ![p] = v]
    BY <1>6 DEF Goto
  <2> HIDE DEF v
  <2>3. /\ push' \in [Pushers -> Locals] /\ push'[p] = v
        /\ \A q \in Pushers \ {p} : push'[q] = push[q]
    BY <2>1, <2>2, Updated DEF IInv, TypeOK
  <2>4. TypeOK'
    BY <1>6, <2>3 DEF IInv, TypeOK, GetChannel, poolVars
  <2>6. LocalOK(p)'
    BY <1>0, <1>1, <2>1, <2>3
       DEF LocalOK, Exclusive, Aimed, Turn, Redialling, Redialled, Holding,
           GetChannel, Key, poolVars
  <2>7. ASSUME NEW q \in Pushers, q # p PROVE LocalOK(q)'
    BY <1>1, <2>3, <2>7, Bystander DEF IInv, GetChannel
  <2>8. OpenOK'
    BY <1>0, <1>6, <2>3 DEF IInv, OpenOK, GetChannel, poolVars
  <2> QED BY <1>3, <2>4, <2>6, <2>7, <2>8 DEF IInv
<1> QED BY <1>4, <1>5, <1>6 DEF GetChannel

LEMMA DeclareOK == ASSUME IInv, NEW p \in Pushers, Declare(p) PROVE IInv'
<1> DEFINE c == push[p].channel
           rejected == push[p].target \in BadTargets
<1>0. push[p].pc = "declare" /\ LocalOK(p) /\ push[p] \in Locals
  BY DEF IInv, TypeOK, Declare, At
<1>1. /\ channelLock = p /\ push[p].target \in Targets /\ push[p].slot \in Slots
      /\ c \in Channels /\ c # NoChannel
      /\ c.slot = push[p].slot /\ c.target = push[p].target /\ channelPool[Key(p)] = NoChannel
  BY <1>0, ProducerAssumption DEF LocalOK, Exclusive, Aimed, Holding, Critical, Selected
<1>2. Key(p) \in HashCodes /\ HashCode(c.slot, c.target) = Key(p)
  BY <1>1 DEF Key, HashCodes
<1>3. PresentOK' /\ PanicsOnlyIfShort'
  BY DEF IInv, PresentOK, PanicsOnlyIfShort, Declare
<1>4. CASE /\ Take(p, "unlock", NoChannel) /\ UNCHANGED <<exchanges, channelPool>>
           /\ openChannels' \subseteq openChannels
           /\ c \in openChannels' => rejected
  <2> DEFINE v == [push[p] EXCEPT !.pc = "unlock", !.channel = NoChannel]
  <2>1. /\ v \in Locals /\ v.pc = "unlock" /\ v.dialGen = push[p].dialGen
        /\ v.target = push[p].target /\ v.slot = push[p].slot /\ v.channel = NoChannel
    BY <1>0 DEF Locals, Locations
  <2>2. push' = [push EXCEPT ![p] = v]
    BY <1>4 DEF Take
  <2> HIDE DEF v
  <2>3. /\ push' \in [Pushers -> Locals] /\ push'[p] = v
        /\ \A q \in Pushers \ {p} : push'[q] = push[q]
    BY <2>1, <2>2, Updated DEF IInv, TypeOK
  <2>4. TypeOK' /\ CacheOK'
    BY <1>4, <2>3 DEF IInv, TypeOK, CacheOK, Declare
  <2>5. LocalOK(p)'
    BY <1>0, <1>1, <2>1, <2>3
       DEF LocalOK, Exclusive, Aimed, Turn, Redialling, Redialled, Holding, Declare
  <2>6. ASSUME NEW q \in Pushers, q # p PROVE LocalOK(q)'
    BY <1>1, <1>4, <2>3, <2>6, Bystander DEF IInv
  <2>7. OpenOK'
    <3> SUFFICES ASSUME NEW d \in openChannels'
                 PROVE /\ connections'[d.slot].state = "open"
                       /\ \/ \E h \in HashCodes : channelPool'[h] = d
                          \/ \E q \in Pushers : push'[q].pc = "declare" /\ push'[q].channel = d
                          \/ d.target \in BadTargets
      BY DEF OpenOK
    <3>1. d \in openChannels /\ connections'[d.slot].state = "open"
      BY <1>4 DEF IInv, OpenOK, Declare
    <3>2. CASE d = c
      BY <1>1, <1>4, <3>1, <3>2
    <3>3. CASE d # c
      BY <1>4, <2>3, <3>1, <3>3 DEF IInv, OpenOK
    <3> QED BY <3>1, <3>2, <3>3
  <2> QED BY <1>3, <2>4, <2>5, <2>6, <2>7 DEF IInv
<1>5. CASE /\ exchanges' = exchanges \cup {push[p].target}
           /\ channelPool' = [channelPool EXCEPT ![Key(p)] = c]
           /\ Take(p, "unlock", c) /\ UNCHANGED openChannels
  <2> DEFINE v == [push[p] EXCEPT !.pc = "unlock", !.channel = c]
  <2>1. /\ v \in Locals /\ v.pc = "unlock" /\ v.dialGen = push[p].dialGen
        /\ v.target = push[p].target /\ v.slot = push[p].slot /\ v.channel = c
    BY <1>0 DEF Locals, Locations
  <2>2. push' = [push EXCEPT ![p] = v]
    BY <1>5 DEF Take
  <2>pool. /\ channelPool' \in [HashCodes -> Channels \cup {NoChannel}]
           /\ channelPool'[Key(p)] = c
           /\ \A h \in HashCodes \ {Key(p)} : channelPool'[h] = channelPool[h]
    BY <1>1, <1>2, <1>5 DEF IInv, TypeOK
  <2> HIDE DEF v
  <2>3. /\ push' \in [Pushers -> Locals] /\ push'[p] = v
        /\ \A q \in Pushers \ {p} : push'[q] = push[q]
    BY <2>1, <2>2, Updated DEF IInv, TypeOK
  <2>4. TypeOK'
    BY <1>1, <1>5, <2>3, <2>pool DEF IInv, TypeOK, Declare
  <2>cache. CacheOK'
    BY <1>1, <1>2, <1>5, <2>pool DEF IInv, CacheOK
  <2>5. LocalOK(p)'
    BY <1>0, <1>1, <1>2, <1>5, <2>1, <2>3
       DEF LocalOK, Exclusive, Aimed, Turn, Redialling, Redialled, Holding, Declare, Key
  <2>6. ASSUME NEW q \in Pushers, q # p PROVE LocalOK(q)'
    BY <1>1, <1>5, <2>3, <2>6, Bystander DEF IInv
  <2>7. OpenOK'
    <3> SUFFICES ASSUME NEW d \in openChannels
                 PROVE /\ connections'[d.slot].state = "open"
                       /\ \/ \E h \in HashCodes : channelPool'[h] = d
                          \/ \E q \in Pushers : push'[q].pc = "declare" /\ push'[q].channel = d
                          \/ d.target \in BadTargets
      BY <1>5 DEF OpenOK
    <3>1. connections'[d.slot].state = "open" /\ d # NoChannel
      BY ProducerAssumption DEF IInv, TypeOK, OpenOK, Declare
    <3>2. CASE d = c
      BY <1>2, <2>pool, <3>1, <3>2
    <3>3. CASE d # c
      BY <1>1, <2>pool, <2>3, <3>1, <3>3 DEF IInv, OpenOK
    <3> QED BY <3>1, <3>2, <3>3
  <2> QED BY <1>3, <2>4, <2>cache, <2>5, <2>6, <2>7 DEF IInv
<1> QED BY <1>4, <1>5 DEF Declare, Stored

LEMMA UnlockOK == ASSUME IInv, NEW p \in Pushers, Unlock(p) PROVE IInv'
<1>0. push[p].pc = "unlock" /\ LocalOK(p) /\ push[p] \in Locals
  BY DEF IInv, TypeOK, Unlock, At
<1>1. channelLock = p /\ push[p].target \in Targets /\ push[p].slot \in Slots
  BY <1>0 DEF LocalOK, Exclusive, Aimed, Critical, Selected
<1>2. PresentOK' /\ PanicsOnlyIfShort' /\ CacheOK'
  BY DEF IInv, PresentOK, PanicsOnlyIfShort, CacheOK, Unlock, poolVars, brokerVars
<1>3. PICK v \in Locals :
        /\ push' = [push EXCEPT ![p] = v]
        /\ \/ /\ v.pc = "publish" /\ v.channel = push[p].channel /\ v.channel # NoChannel
              /\ v.dialGen = push[p].dialGen /\ v.target = push[p].target
              /\ v.slot = push[p].slot
           \/ v.pc = "idle" /\ v.channel = NoChannel /\ v.dialGen = 0
  <2>1. CASE push[p].channel # NoChannel
    <3> DEFINE v == [push[p] EXCEPT !.pc = "publish"]
    <3>1. v \in Locals /\ v.pc = "publish" /\ v.channel = push[p].channel
          /\ v.dialGen = push[p].dialGen /\ v.target = push[p].target /\ v.slot = push[p].slot
      BY <1>0 DEF Locals, Locations
    <3>2. push' = [push EXCEPT ![p] = v]
      BY <2>1 DEF Unlock, Goto
    <3> HIDE DEF v
    <3> QED BY <2>1, <3>1, <3>2
  <2>2. CASE push[p].channel = NoChannel
    <3> DEFINE v == [Idle EXCEPT !.result = "getChannelError",
       !.lossesBefore = push[p].lossesBefore]
    <3>1. v \in Locals /\ v.pc = "idle" /\ v.channel = NoChannel /\ v.dialGen = 0
      BY <1>0, IdleType DEF Locals, Locations, Idle
    <3>2. push' = [push EXCEPT ![p] = v]
      BY <2>2 DEF Unlock, Return
    <3> HIDE DEF v
    <3> QED BY <3>1, <3>2
  <2> QED BY <2>1, <2>2
<1>4. /\ push' \in [Pushers -> Locals] /\ push'[p] = v
      /\ \A q \in Pushers \ {p} : push'[q] = push[q]
  BY <1>3, Updated DEF IInv, TypeOK
<1>5. TypeOK'
  BY <1>4 DEF IInv, TypeOK, Unlock, poolVars, brokerVars
<1>6. LocalOK(p)'
  BY <1>0, <1>1, <1>3, <1>4
     DEF LocalOK, Exclusive, Aimed, Turn, Redialling, Redialled, Holding, Critical, Selected,
         Unlock, Key, brokerVars
<1>7. ASSUME NEW q \in Pushers, q # p PROVE LocalOK(q)'
  BY <1>1, <1>4, <1>7, Bystander DEF IInv, Unlock, brokerVars
<1>8. OpenOK'
  BY <1>0, <1>4 DEF IInv, OpenOK, Unlock, poolVars, brokerVars
<1> QED BY <1>2, <1>5, <1>6, <1>7, <1>8 DEF IInv

LEMMA PublishOK == ASSUME IInv, NEW p \in Pushers, Publish(p) PROVE IInv'
<1>0. push[p].pc = "publish" /\ LocalOK(p) /\ push[p] \in Locals
  BY DEF IInv, TypeOK, Publish, At
<1>1. push[p].target \in Targets
  BY <1>0 DEF LocalOK, Aimed
<1>2. PresentOK' /\ PanicsOnlyIfShort' /\ CacheOK' /\ openChannels' \subseteq openChannels
  BY DEF IInv, PresentOK, PanicsOnlyIfShort, CacheOK, Publish, poolVars
<1>3. PICK v \in Locals :
        /\ push' = [push EXCEPT ![p] = v]
        /\ v.pc \in {"idle", "try"} /\ v.channel = NoChannel /\ v.dialGen = 0
        /\ v.pc = "try" => v.target \in Targets
  <2>1. CASE push[p].channel \in openChannels
    <3> DEFINE v == [Idle EXCEPT !.result = "ok", !.lossesBefore = push[p].lossesBefore]
    <3>1. v \in Locals /\ v.pc = "idle" /\ v.channel = NoChannel /\ v.dialGen = 0
      BY <1>0, IdleType DEF Locals, Locations, Idle
    <3>2. push' = [push EXCEPT ![p] = v]
      BY <2>1 DEF Publish, Return
    <3> HIDE DEF v
    <3> QED BY <3>1, <3>2
  <2>2. CASE push[p].channel \notin openChannels
    <3> DEFINE n == push[p].sendTime + 1
               v == [push[p] EXCEPT !.pc = "try", !.sendTime = n,
                                    !.channel = NoChannel, !.dialGen = 0]
    <3>0. n \in Nat
      BY <1>0 DEF Locals
    <3> HIDE DEF n
    <3>1. /\ v \in Locals /\ v.pc = "try" /\ v.channel = NoChannel /\ v.dialGen = 0
          /\ v.target \in Targets
      BY <1>0, <1>1, <3>0 DEF Locals, Locations
    <3>2. push' = [push EXCEPT ![p] = v]
      BY <2>2 DEF Publish, NextTime, n
    <3> HIDE DEF v
    <3> QED BY <3>1, <3>2
  <2> QED BY <2>1, <2>2
<1>4. /\ push' \in [Pushers -> Locals] /\ push'[p] = v
      /\ \A q \in Pushers \ {p} : push'[q] = push[q]
  BY <1>3, Updated DEF IInv, TypeOK
<1>5. TypeOK'
  BY <1>2, <1>4 DEF IInv, TypeOK, Publish, poolVars
<1>6. LocalOK(p)'
  BY <1>3, <1>4
     DEF LocalOK, Exclusive, Aimed, Turn, Redialling, Redialled, Holding, Critical, Selected
<1>7. ASSUME NEW q \in Pushers, q # p PROVE LocalOK(q)'
  BY <1>4, <1>7, Unaffected DEF IInv, Publish, poolVars
<1>8. OpenOK'
  BY <1>0, <1>2, <1>4 DEF IInv, OpenOK, Publish, poolVars
<1> QED BY <1>2, <1>5, <1>6, <1>7, <1>8 DEF IInv

LEMMA LoseConnectionOK == ASSUME IInv, NEW i \in Slots, LoseConnection(i) PROVE IInv'
<1>1. /\ connections' \in [Slots -> Conns] /\ connections'[i].state = "closed"
      /\ connections'[i].gen = connections[i].gen
      /\ \A j \in Slots : j # i => connections'[j] = connections[j]
  BY DEF IInv, TypeOK, Conns, LoseConnection
<1>2. TypeOK' /\ PresentOK' /\ CacheOK'
  BY <1>1 DEF IInv, TypeOK, PresentOK, CacheOK, LoseConnection, Drop
<1>short. PanicsOnlyIfShort'
  BY <1>1, StaysShort DEF IInv, LoseConnection, Drop
<1>3. ASSUME NEW q \in Pushers PROVE LocalOK(q)'
  <2>1. LocalOK(q) /\ push' = push
    BY DEF IInv, LoseConnection, Drop
  <2>2. Redialling(q)' /\ Redialled(q)'
    BY <1>1, <2>1 DEF LocalOK, Aimed, Selected, Redialling, Redialled, ConnBroken, Key,
                      LoseConnection, Drop
  <2> QED BY <2>1, <2>2 DEF LocalOK, Exclusive, Aimed, Turn, Holding, Key, LoseConnection, Drop
<1>4. \A c \in openChannels' : c \in openChannels /\ c.slot \in Slots /\ c.slot # i
  BY DEF IInv, TypeOK, Channels, LoseConnection, Drop
<1>5. OpenOK'
  BY <1>1, <1>4 DEF IInv, OpenOK, LoseConnection, Drop
<1> QED BY <1>2, <1>short, <1>3, <1>5 DEF IInv

LEMMA LoseChannelOK == ASSUME IInv, NEW c \in openChannels, LoseChannel(c) PROVE IInv'
<1>1. /\ UNCHANGED <<panicked, connections, connectionIndex, channelPool, productCurrentRetry,
                    channelLock, push, exchanges>>
      /\ openChannels' \subseteq openChannels /\ losses' = losses + 1
  BY DEF LoseChannel, Drop
<1>2. ASSUME NEW q \in Pushers PROVE LocalOK(q)'
  BY <1>1, Unaffected DEF IInv
<1>3. TypeOK' /\ PresentOK' /\ PanicsOnlyIfShort' /\ CacheOK' /\ OpenOK'
  BY <1>1 DEF IInv, TypeOK, PresentOK, PanicsOnlyIfShort, CacheOK, OpenOK
<1> QED BY <1>2, <1>3 DEF IInv

(* Each action of rPush and of its environment preserves IInv.             *)
THEOREM Invariance == Spec => []IInv
<1>1. IInv /\ [Next]_vars => IInv'
  <2> SUFFICES ASSUME IInv, [Next]_vars PROVE IInv'
    OBVIOUS
  <2>1. CASE UNCHANGED vars
    <3>1. UNCHANGED <<panicked, connections, connectionIndex, channelPool, productCurrentRetry,
                    channelLock, push, openChannels, exchanges, losses>>
      BY <2>1 DEF vars, poolVars, brokerVars
    <3>2. ASSUME NEW q \in Pushers PROVE LocalOK(q)'
      BY <3>1, Unaffected DEF IInv
    <3>3. TypeOK' /\ PresentOK' /\ PanicsOnlyIfShort' /\ CacheOK' /\ OpenOK'
      BY <3>1 DEF IInv, TypeOK, PresentOK, PanicsOnlyIfShort, CacheOK, OpenOK
    <3> QED BY <3>2, <3>3 DEF IInv
  <2>2. CASE Next
    BY <2>2, PushOK, GiveUpOK, AcquireLockOK, ReadIndexOK, PickConnectionOK, CheckConnectionOK,
       DialOK, GetChannelOK, DeclareOK, UnlockOK, PublishOK, LoseConnectionOK, LoseChannelOK
       DEF Next, Advance
  <2> QED BY <2>1, <2>2
<1> QED BY InitOK, <1>1, PTL DEF Spec

---------------------------------------------------------------------------
(* Every variable keeps its type: in particular connectionIndex never      *)
(* leaves the slots, the read of getConnection being plain.                *)
THEOREM TypeCorrect == Spec => []TypeOK
BY Invariance, PTL DEF IInv

(* getConnection's read and addition are never separated by another's.     *)
THEOREM NoTurnIsLost == Spec => []NoLostTurn
<1>1. IInv => NoLostTurn
  BY DEF IInv, LocalOK, Turn, NoLostTurn, At
<1> QED BY Invariance, <1>1, PTL

(* An attempt that re-dialled publishes on the connection it dialled,      *)
(* whatever hash codes collide.                                            *)
THEOREM RedialIsFresh == Spec => []FreshAfterRedial
<1>1. IInv => FreshAfterRedial
  BY DEF IInv, LocalOK, Redialled, Holding, FreshAfterRedial, At
<1> QED BY Invariance, <1>1, PTL

(* rPush leaks no channel but those whose exchange type rDeclare rejects.  *)
THEOREM NoChannelIsOrphaned == Spec => []NoOrphanChannel
<1>1. IInv => NoOrphanChannel
  BY DEF IInv, OpenOK, NoOrphanChannel
<1> QED BY Invariance, <1>1, PTL

(* A panic of getConnection takes a pool that Connect has left short: no   *)
(* interleaving of pushers and no loss leads the index off the slice.      *)
THEOREM PanicMeansShort == Spec => []PanicsOnlyIfShort
BY Invariance, PTL DEF IInv

(* So a pool whose Connect succeeded never panics.                         *)
THEOREM NeverPanicsOnceConnected ==
  ASSUME MinConnected = MaxConnection, MaxConnection > 0
  PROVE  Spec => []~panicked
<1>1. IInv => ~panicked
  BY DEF IInv, PresentOK, PanicsOnlyIfShort
<1> QED BY Invariance, <1>1, PTL

(* channelHashCode separates the targets of a connection.                  *)
HashSeparatesTargets ==
  \A i \in Slots : \A t, u \in Targets : HashCode(i, t) = HashCode(i, u) => t = u

LEMMA PublishingDeclared ==
  ASSUME HashSeparatesTargets, IInv, NEW p \in Pushers, push[p].pc = "publish"
  PROVE  push[p].target \in exchanges
<1> DEFINE c == push[p].channel
<1>1. LocalOK(p) /\ push[p] \in Locals
  BY DEF IInv, TypeOK
<1>2. c \in Channels /\ c.slot \in Slots /\ c.target \in Targets
  BY <1>1 DEF LocalOK, Holding, Locals, Channels
<1>3. /\ push[p].slot \in Slots /\ push[p].target \in Targets /\ c.target \in exchanges
      /\ HashCode(c.slot, c.target) = HashCode(push[p].slot, push[p].target)
  BY <1>1 DEF LocalOK, Holding, Aimed, Selected, Key
<1>4. c.slot = push[p].slot
  BY <1>2, <1>3, HashSeparatesSlots
<1> QED BY <1>2, <1>3, <1>4 DEF HashSeparatesTargets

(* If channelHashCode separates the targets of a connection, each message  *)
(* is published on a channel that declared its own exchange.               *)
THEOREM PublishesDeclared ==
  ASSUME HashSeparatesTargets
  PROVE  Spec => []DeclaredBeforePublish
<1>1. IInv => DeclaredBeforePublish
  BY PublishingDeclared DEF DeclaredBeforePublish, At
<1> QED BY Invariance, <1>1, PTL

---------------------------------------------------------------------------
(* Until something is lost, no connection is down, every channel cached or *)
(* in use is open, the one being declared is in nobody else's hands, and   *)
(* every Push is in its first attempt.                                     *)
Working(p) ==
  /\ push[p].channel # NoChannel => push[p].channel \in openChannels
  /\ push[p].pc # "idle" => push[p].sendTime = 1
  /\ push[p].pc = "declare" => \A q \in Pushers \ {p} : push[q].channel # push[p].channel
  /\ push[p].result # "pushMaxError"

Lossless ==
  losses = 0 =>
    /\ \A i \in Slots : ~ConnBroken(i)
    /\ \A h \in HashCodes : channelPool[h] # NoChannel => channelPool[h] \in openChannels
    /\ \A p \in Pushers : Working(p)

LEMMA InitLossless == Init => Lossless
BY DEF Init, Lossless, Working, ConnBroken, Idle

(* A step that moves one pusher, keeps its channel and opens or closes     *)
(* none.                                                                   *)
LEMMA SteadyLossless ==
  ASSUME IInv, Lossless, NEW p \in Pushers, NEW v,
         push' = [push EXCEPT ![p] = v],
         UNCHANGED <<connections, openChannels, losses>>,
         \A h \in HashCodes : channelPool'[h] \in {channelPool[h], NoChannel},
         v.channel \in {push[p].channel, NoChannel}, v.pc # "declare",
         losses = 0 /\ v.pc # "idle" => v.sendTime = 1,
         losses = 0 => v.result # "pushMaxError"
  PROVE  Lossless'
<1> SUFFICES ASSUME losses = 0 PROVE Lossless'
  BY DEF Lossless
<1>1. push'[p] = v /\ \A q \in Pushers \ {p} : push'[q] = push[q]
  BY DEF IInv, TypeOK
<1>2. Working(p) /\ \A q \in Pushers : Working(q)
  BY DEF Lossless
<1>3. Working(p)'
  BY <1>1, <1>2 DEF Working
<1>4. ASSUME NEW q \in Pushers \ {p} PROVE Working(q)'
  <2>1. push'[q] = push[q] /\ Working(q)
    BY <1>1, <1>2
  <2>2. push[q].pc = "declare" =>
          \A r \in Pushers \ {q} : push'[r].channel # push'[q].channel
    <3>1. push[q].pc = "declare" => push[q].channel # NoChannel
      BY ProducerAssumption DEF IInv, LocalOK, Holding
    <3> QED BY <1>1, <2>1, <3>1 DEF Working
  <2> QED BY <2>1, <2>2 DEF Working
<1>5. /\ \A i \in Slots : ~ConnBroken(i)'
      /\ \A h \in HashCodes : channelPool'[h] # NoChannel => channelPool'[h] \in openChannels'
  BY DEF Lossless, ConnBroken
<1> QED BY <1>3, <1>4, <1>5 DEF Lossless

LEMMA RestOfPushLossless ==
  ASSUME IInv, Lossless, PushMaxTime > 1, HashSeparatesTargets, NEW p \in Pushers,
         \/ \E t \in Targets : Push(p, t)
         \/ GiveUp(p) \/ AcquireLock(p) \/ ReadIndex(p) \/ PickConnection(p)
         \/ CheckConnection(p) \/ Unlock(p) \/ Publish(p)
  PROVE  Lossless'
<1> DEFINE v == push'[p]
<1>0. push[p] \in Locals /\ push \in [Pushers -> Locals] /\ LocalOK(p)
      /\ (losses = 0 => Working(p))
  BY DEF IInv, TypeOK, Lossless
<1>1. CASE \E t \in Targets : Push(p, t)
  <2>1. PICK t \in Targets : push' = [push EXCEPT ![p] =
          [Idle EXCEPT !.pc = "try", !.target = t, !.sendTime = 1, !.lossesBefore = losses]]
    BY <1>1 DEF Push
  <2> DEFINE w == [Idle EXCEPT !.pc = "try", !.target = t, !.sendTime = 1, !.lossesBefore = losses]
  <2>2. w.pc = "try" /\ w.sendTime = 1 /\ w.channel = NoChannel /\ w.result = "none"
    BY DEF Idle
  <2>3. UNCHANGED <<connections, openChannels, losses, channelPool>>
    BY <1>1 DEF Push, poolVars, brokerVars
  <2> HIDE DEF w
  <2> QED BY <2>1, <2>2, <2>3, SteadyLossless DEF w
<1>2. CASE GiveUp(p)
  <2>1. losses # 0
    BY <1>0, <1>2, ProducerAssumption DEF GiveUp, Exhausted, At, Working
  <2> QED BY <1>2, <2>1 DEF GiveUp, brokerVars, Lossless
<1>3. CASE AcquireLock(p) \/ ReadIndex(p) \/ PickConnection(p)
  <2>1. UNCHANGED <<connections, openChannels, losses, channelPool>>
    BY <1>3 DEF AcquireLock, ReadIndex, PickConnection, poolVars, brokerVars
  <2>2. CASE UNCHANGED push
    BY <2>1, <2>2 DEF Lossless, Working, ConnBroken
  <2>3. CASE AcquireLock(p)
    <3> DEFINE w == [push[p] EXCEPT !.pc = "readIndex"]
    <3>1. push' = [push EXCEPT ![p] = w] /\ push[p].pc # "idle"
      BY <1>0, <2>3 DEF AcquireLock, Goto, At
    <3>2. w.pc = "readIndex" /\ w.channel = push[p].channel
          /\ w.sendTime = push[p].sendTime /\ w.result = push[p].result
      BY <1>0 DEF Locals
    <3> HIDE DEF w
    <3> QED BY <1>0, <2>1, <3>1, <3>2, SteadyLossless DEF Working
  <2>4. CASE ReadIndex(p)
    <3> DEFINE w == [push[p] EXCEPT !.pc = "pick", !.readIndex = connectionIndex]
    <3>1. push' = [push EXCEPT ![p] = w] /\ push[p].pc # "idle"
      BY <1>0, <2>4 DEF ReadIndex, At
    <3>2. w.pc = "pick" /\ w.channel = push[p].channel
          /\ w.sendTime = push[p].sendTime /\ w.result = push[p].result
      BY <1>0 DEF Locals
    <3> HIDE DEF w
    <3> QED BY <1>0, <2>1, <3>1, <3>2, SteadyLossless DEF Working
  <2>5. CASE PickConnection(p) /\ ~UNCHANGED push
    <3>1. PICK next : push' = [push EXCEPT ![p] = [@ EXCEPT !.pc = "checkConn", !.slot = next]]
      BY <2>5 DEF PickConnection
    <3> DEFINE w == [push[p] EXCEPT !.pc = "checkConn", !.slot = next]
    <3>2. push' = [push EXCEPT ![p] = w] /\ push[p].pc # "idle"
      BY <1>0, <2>5, <3>1 DEF PickConnection, At
    <3>3. w.pc = "checkConn" /\ w.channel = push[p].channel
          /\ w.sendTime = push[p].sendTime /\ w.result = push[p].result
      BY <1>0 DEF Locals
    <3> HIDE DEF w
    <3> QED BY <1>0, <2>1, <3>2, <3>3, SteadyLossless DEF Working
  <2> QED BY <1>3, <2>2, <2>3, <2>4, <2>5
<1>4. CASE CheckConnection(p)
  <2>1. UNCHANGED <<connections, openChannels, losses>> /\ push[p].pc = "checkConn"
    BY <1>4 DEF CheckConnection, brokerVars, At
  <2>2. losses = 0 => ~ConnBroken(push[p].slot)
    BY <1>0, <2>1 DEF Lossless, LocalOK, Aimed, Selected
  <2>3. CASE losses = 0
    <3> DEFINE w == [push[p] EXCEPT !.pc = "getChannel"]
    <3>1. push' = [push EXCEPT ![p] = w] /\ UNCHANGED channelPool
      BY <1>0, <1>4, <2>2, <2>3 DEF CheckConnection, Goto
    <3>2. w.pc = "getChannel" /\ w.channel = push[p].channel
          /\ w.sendTime = push[p].sendTime /\ w.result = push[p].result
      BY <1>0 DEF Locals
    <3> HIDE DEF w
    <3> QED BY <1>0, <2>1, <3>1, <3>2, SteadyLossless DEF Working
  <2> QED BY <2>1, <2>3 DEF Lossless
<1>5. CASE Unlock(p)
  <2>1. UNCHANGED <<connections, openChannels, losses, channelPool>> /\ push[p].pc = "unlock"
    BY <1>5 DEF Unlock, poolVars, brokerVars, At
  <2>2. CASE Goto(p, "publish")
    <3> DEFINE w == [push[p] EXCEPT !.pc = "publish"]
    <3>1. push' = [push EXCEPT ![p] = w]
      BY <1>0, <2>2 DEF Goto
    <3>2. w.pc = "publish" /\ w.channel = push[p].channel
          /\ w.sendTime = push[p].sendTime /\ w.result = push[p].result
      BY <1>0 DEF Locals
    <3> HIDE DEF w
    <3> QED BY <1>0, <2>1, <3>1, <3>2, SteadyLossless DEF Working
  <2>3. CASE Return(p, "getChannelError")
    <3> DEFINE w == [Idle EXCEPT !.result = "getChannelError", !.lossesBefore = push[p].lossesBefore]
    <3>1. push' = [push EXCEPT ![p] = w]
      BY <2>3 DEF Return
    <3>2. w.pc = "idle" /\ w.channel = NoChannel /\ w.result = "getChannelError"
      BY DEF Idle
    <3> HIDE DEF w
    <3> QED BY <2>1, <3>1, <3>2, SteadyLossless
  <2> QED BY <1>5, <2>2, <2>3 DEF Unlock
<1>6. CASE Publish(p)
  <2>1. UNCHANGED <<connections, losses, channelPool>> /\ push[p].pc = "publish"
    BY <1>6 DEF Publish, poolVars, At
  <2>2. push[p].channel # NoChannel /\ push[p].target \in exchanges
    BY <1>0, <2>1, PublishingDeclared DEF LocalOK, Holding
  <2>3. CASE losses = 0
    <3>1. UNCHANGED openChannels /\ Return(p, "ok")
      BY <1>0, <1>6, <2>2, <2>3 DEF Publish, Working
    <3> DEFINE w == [Idle EXCEPT !.result = "ok", !.lossesBefore = push[p].lossesBefore]
    <3>2. push' = [push EXCEPT ![p] = w]
      BY <3>1 DEF Return
    <3>3. w.pc = "idle" /\ w.channel = NoChannel /\ w.result = "ok"
      BY DEF Idle
    <3> HIDE DEF w
    <3> QED BY <2>1, <3>1, <3>2, <3>3, SteadyLossless
  <2> QED BY <2>1, <2>3 DEF Lossless
<1> QED BY <1>1, <1>2, <1>3, <1>4, <1>5, <1>6

(* No connection is dialled before one is lost.                            *)
LEMMA DialLossless ==
  ASSUME IInv, Lossless, NEW p \in Pushers, Dial(p)
  PROVE  Lossless'
<1>1. push[p].pc = "dial" /\ push[p].slot \in Slots /\ ConnBroken(push[p].slot)
  BY DEF IInv, LocalOK, Aimed, Redialling, Selected, Dial, At
<1>2. losses # 0 /\ UNCHANGED losses
  BY <1>1 DEF Lossless, Dial, brokerVars
<1> QED BY <1>2 DEF Lossless

LEMMA GetChannelLossless ==
  ASSUME IInv, Lossless, NEW p \in Pushers, GetChannel(p)
  PROVE  Lossless'
<1> SUFFICES ASSUME losses = 0 PROVE Lossless'
  BY DEF Lossless, GetChannel
<1>0. /\ push[p] \in Locals /\ push \in [Pushers -> Locals] /\ LocalOK(p) /\ Working(p)
      /\ push[p].pc = "getChannel" /\ channelLock = p /\ Key(p) \in HashCodes
      /\ push[p].channel = NoChannel
  BY DEF IInv, TypeOK, Lossless, GetChannel, At, LocalOK, Exclusive, Aimed, Holding, Critical,
     Selected, Key, HashCodes
<1>1. UNCHANGED <<connections, channelPool, losses>>
  BY DEF GetChannel, poolVars
<1>2. ASSUME NEW w, push' = [push EXCEPT ![p] = w], w.sendTime = push[p].sendTime,
             w.result = push[p].result, openChannels \subseteq openChannels',
             w.channel # NoChannel => w.channel \in openChannels',
             w.pc = "declare" => w.channel \notin openChannels /\ w.channel # NoChannel,
             w.pc # "idle"
      PROVE  Lossless'
  <2>1. push'[p] = w /\ \A q \in Pushers \ {p} : push'[q] = push[q]
    BY <1>0, <1>2
  <2>2. \A q \in Pushers : Working(q)
    BY DEF Lossless
  <2>3. ASSUME NEW q \in Pushers \ {p} PROVE Working(q)'
    <3>1. push[q].pc # "declare"
      BY <1>0 DEF IInv, LocalOK, Exclusive, Critical
    <3> QED BY <1>2, <2>1, <2>2, <3>1 DEF Working
  <2>4. Working(p)'
    BY <1>0, <1>2, <2>1, <2>2 DEF Working
  <2>5. /\ \A i \in Slots : ~ConnBroken(i)'
        /\ \A h \in HashCodes : channelPool'[h] # NoChannel => channelPool'[h] \in openChannels'
    BY <1>1, <1>2 DEF Lossless, ConnBroken
  <2> QED BY <2>3, <2>4, <2>5 DEF Lossless
<1>3. CASE /\ channelPool[Key(p)] # NoChannel
           /\ Take(p, "unlock", channelPool[Key(p)])
           /\ UNCHANGED openChannels
  <2> DEFINE w == [push[p] EXCEPT !.pc = "unlock", !.channel = channelPool[Key(p)]]
  <2>1. push' = [push EXCEPT ![p] = w]
    BY <1>0, <1>3 DEF Take
  <2>2. /\ w.pc = "unlock" /\ w.channel = channelPool[Key(p)]
        /\ w.sendTime = push[p].sendTime /\ w.result = push[p].result
    BY <1>0 DEF Locals
  <2>3. w.channel \in openChannels
    BY <1>0, <1>3, <2>2 DEF Lossless
  <2> HIDE DEF w
  <2> QED BY <1>2, <1>3, <2>1, <2>2, <2>3
<1>4. CASE /\ CanOpen(push[p].slot)
           /\ Take(p, "declare", NewChannel(p))
           /\ openChannels' = openChannels \cup {NewChannel(p)}
  <2> DEFINE w == [push[p] EXCEPT !.pc = "declare", !.channel = NewChannel(p)]
  <2>1. push' = [push EXCEPT ![p] = w]
    BY <1>0, <1>4 DEF Take
  <2>2. /\ w.pc = "declare" /\ w.channel = NewChannel(p)
        /\ w.sendTime = push[p].sendTime /\ w.result = push[p].result
    BY <1>0 DEF Locals
  <2>3. NewChannel(p) \notin openChannels
    <3>1. NewChannel(p).number \in FreeNumbers(push[p].slot) /\ NewChannel(p).slot = push[p].slot
      BY <1>4 DEF CanOpen, NewChannel
    <3> QED BY <3>1 DEF FreeNumbers
  <2>4. NewChannel(p) # NoChannel
    BY <1>0, <1>4, NewChannelType, ProducerAssumption DEF LocalOK, Aimed, Selected, IInv
  <2> HIDE DEF w
  <2> QED BY <1>2, <1>4, <2>1, <2>2, <2>3, <2>4
<1>5. CASE Goto(p, "unlock") /\ UNCHANGED openChannels
  <2> DEFINE w == [push[p] EXCEPT !.pc = "unlock"]
  <2>1. push' = [push EXCEPT ![p] = w]
    BY <1>0, <1>5 DEF Goto
  <2>2. /\ w.pc = "unlock" /\ w.channel = NoChannel
        /\ w.sendTime = push[p].sendTime /\ w.result = push[p].result
    BY <1>0 DEF Locals
  <2> HIDE DEF w
  <2> QED BY <1>2, <1>5, <2>1, <2>2
<1> QED BY <1>3, <1>4, <1>5 DEF GetChannel

LEMMA DeclareLossless ==
  ASSUME IInv, Lossless, NEW p \in Pushers, Declare(p)
  PROVE  Lossless'
<1> SUFFICES ASSUME losses = 0 PROVE Lossless'
  BY DEF Lossless, Declare
<1> DEFINE c == push[p].channel
<1>0. /\ push[p] \in Locals /\ push \in [Pushers -> Locals] /\ LocalOK(p) /\ Working(p)
      /\ push[p].pc = "declare" /\ channelLock = p
      /\ channelPool \in [HashCodes -> Channels \cup {NoChannel}]
  BY DEF IInv, TypeOK, Lossless, Declare, At, LocalOK, Exclusive, Critical
<1>1. /\ c \in Channels /\ c # NoChannel /\ c \in openChannels
      /\ c.slot = push[p].slot /\ c.target = push[p].target
      /\ channelPool[Key(p)] = NoChannel /\ Key(p) \in HashCodes
      /\ HashCode(c.slot, c.target) = Key(p)
  BY <1>0, ProducerAssumption
     DEF Working, LocalOK, Holding, Aimed, Selected, Key, HashCodes
<1>2. UNCHANGED <<connections, losses>>
  BY DEF Declare
<1>3. \A h \in HashCodes : channelPool[h] # c
  BY <1>1 DEF IInv, CacheOK
<1>4. ASSUME NEW w, push' = [push EXCEPT ![p] = w], w.sendTime = push[p].sendTime,
             w.result = push[p].result, w.pc = "unlock",
             \/ /\ w.channel = c /\ openChannels' = openChannels
                /\ channelPool' = [channelPool EXCEPT ![Key(p)] = c]
             \/ /\ w.channel = NoChannel /\ openChannels \ {c} \subseteq openChannels'
                /\ channelPool' = channelPool
      PROVE  Lossless'
  <2>1. push'[p] = w /\ \A q \in Pushers \ {p} : push'[q] = push[q]
    BY <1>0, <1>4
  <2>2. \A q \in Pushers : Working(q)
    BY DEF Lossless
  <2>3. ASSUME NEW q \in Pushers \ {p} PROVE Working(q)'
    <3>1. push[q].pc # "declare"
      BY <1>0 DEF IInv, LocalOK, Exclusive, Critical
    <3>2. push[q].channel # c
      BY <1>0, <2>2 DEF Working
    <3> QED BY <1>4, <2>1, <2>2, <3>1, <3>2 DEF Working
  <2>4. Working(p)'
    BY <1>0, <1>1, <1>4, <2>1, <2>2 DEF Working
  <2>5. \A h \in HashCodes : channelPool'[h] # NoChannel => channelPool'[h] \in openChannels'
    BY <1>0, <1>1, <1>3, <1>4 DEF Lossless
  <2>6. \A i \in Slots : ~ConnBroken(i)'
    BY <1>2 DEF Lossless, ConnBroken
  <2> QED BY <2>3, <2>4, <2>5, <2>6 DEF Lossless
<1>5. CASE Take(p, "unlock", NoChannel) /\ UNCHANGED channelPool
           /\ openChannels \ {c} \subseteq openChannels'
  <2> DEFINE w == [push[p] EXCEPT !.pc = "unlock", !.channel = NoChannel]
  <2>1. push' = [push EXCEPT ![p] = w]
    BY <1>0, <1>5 DEF Take
  <2>2. /\ w.pc = "unlock" /\ w.channel = NoChannel
        /\ w.sendTime = push[p].sendTime /\ w.result = push[p].result
    BY <1>0 DEF Locals
  <2> HIDE DEF w
  <2> QED BY <1>4, <1>5, <2>1, <2>2
<1>6. CASE Take(p, "unlock", c) /\ channelPool' = [channelPool EXCEPT ![Key(p)] = c]
           /\ UNCHANGED openChannels
  <2> DEFINE w == [push[p] EXCEPT !.pc = "unlock", !.channel = c]
  <2>1. push' = [push EXCEPT ![p] = w]
    BY <1>0, <1>6 DEF Take
  <2>2. /\ w.pc = "unlock" /\ w.channel = c
        /\ w.sendTime = push[p].sendTime /\ w.result = push[p].result
    BY <1>0 DEF Locals
  <2> HIDE DEF w
  <2> QED BY <1>4, <1>6, <2>1, <2>2
<1> QED BY <1>5, <1>6 DEF Declare, Stored

LEMMA StepLossless ==
  ASSUME PushMaxTime > 1, HashSeparatesTargets, IInv, Lossless, [Next]_vars
  PROVE  Lossless'
<1>1. CASE UNCHANGED vars
  BY <1>1 DEF vars, poolVars, brokerVars, Lossless, Working, ConnBroken
<1>2. ASSUME NEW channels, Drop(channels)
      PROVE  Lossless'
  BY <1>2 DEF Drop, Lossless, IInv, TypeOK
<1> QED BY <1>1, <1>2, RestOfPushLossless, DialLossless, GetChannelLossless, DeclareLossless
        DEF Next, Advance, LoseConnection, LoseChannel

(* If channelHashCode separates the targets of a connection and pushMaxTime*)
(* allows one attempt (consts.go:7 has five), Push reports that it is      *)
(* exhausted only after a connection or a channel was lost.                *)
THEOREM GivesUpAfterDrop ==
  ASSUME PushMaxTime > 1, HashSeparatesTargets
  PROVE  Spec => []GivesUpOnlyAfterDrop
<1>1. Init => Lossless
  BY InitLossless
<1>2. IInv /\ Lossless /\ [Next]_vars => Lossless'
  BY StepLossless
<1>3. IInv /\ Lossless => GivesUpOnlyAfterDrop
  BY DEF IInv, TypeOK, Lossless, Working, GivesUpOnlyAfterDrop
<1> QED BY <1>1, <1>2, <1>3, Invariance, PTL DEF Spec

---------------------------------------------------------------------------
(* What a pusher that nothing has disturbed since its Push knows under the *)
(* lock: its connection is open, the channel it declares too, and if it    *)
(* found none for a target that can be declared, none was left to open.    *)
Undisturbed(p) == losses = push[p].lossesBefore

Refused(p) == /\ push[p].pc = "unlock" /\ push[p].channel = NoChannel
              /\ push[p].target \notin BadTargets \cup ConflictTargets

Sound(p) ==
  /\ push[p].lossesBefore <= losses
  /\ push[p].pc \in {"checkConn", "getChannel"} => connections[push[p].slot].state # "absent"
  /\ Undisturbed(p) =>
       /\ push[p].pc = "getChannel" => connections[push[p].slot].state = "open"
       /\ push[p].pc = "declare" => push[p].channel \in openChannels
       /\ Refused(p) => FreeNumbers(push[p].slot) = {} /\ channelPool[Key(p)] = NoChannel

SoundAll == \A p \in Pushers : Sound(p)

(* Outside the lock nothing is claimed but that losses only grow.          *)
LEMMA OutsideSound ==
  ASSUME NEW q, Sound(q), push'[q] = push[q], losses' = losses, push[q].pc \notin Critical
  PROVE  Sound(q)'
BY DEF Sound, Undisturbed, Refused, Critical

LEMMA IdlerSound ==
  ASSUME NEW q, push'[q].lossesBefore <= losses', push'[q].pc \in {"idle", "try", "readIndex",
         "pick", "dial", "publish"}
  PROVE  Sound(q)'
BY DEF Sound, Undisturbed, Refused

LEMMA UntouchedSound ==
  ASSUME NEW q, Sound(q), push'[q] = push[q], losses' = losses,
         UNCHANGED <<connections, channelPool, openChannels>>
  PROVE  Sound(q)'
BY DEF Sound, Undisturbed, Refused, FreeNumbers, Key

(* The step of a pusher that holds the lock.                               *)
LEMMA HolderSound ==
  ASSUME IInv, SoundAll, NEW p \in Pushers, push[p].pc \in Critical, losses' = losses,
         \A q \in Pushers \ {p} : push'[q] = push[q], Sound(p)'
  PROVE  SoundAll'
<1> SUFFICES ASSUME NEW q \in Pushers \ {p} PROVE Sound(q)'
  BY DEF SoundAll
<1>1. push[q].pc \notin Critical
  BY DEF IInv, LocalOK, Exclusive
<1> QED BY <1>1, OutsideSound DEF SoundAll

(* The steps that take or leave the lock, or run without it.               *)
LEMMA FreeSound ==
  ASSUME HashSeparatesTargets, IInv, SoundAll, NEW p \in Pushers,
         \/ \E t \in Targets : Push(p, t)
         \/ GiveUp(p) \/ AcquireLock(p) \/ ReadIndex(p) \/ Unlock(p) \/ Publish(p)
  PROVE  SoundAll'
<1>1. /\ push \in [Pushers -> Locals] /\ push[p] \in Locals /\ losses \in Nat
      /\ push[p].lossesBefore <= losses
  BY DEF IInv, TypeOK, SoundAll, Sound
<1>2. losses' = losses /\ UNCHANGED <<connections, channelPool>>
  BY DEF Push, GiveUp, AcquireLock, ReadIndex, Unlock, Publish, poolVars, brokerVars
<1>3. UNCHANGED openChannels
  BY PublishingDeclared
     DEF Push, GiveUp, AcquireLock, ReadIndex, Unlock, Publish, poolVars, brokerVars, At
<1>4. ASSUME NEW v, push' = [push EXCEPT ![p] = v], v.lossesBefore <= losses,
             v.pc \in {"idle", "try", "readIndex", "pick", "publish"}
      PROVE  SoundAll'
  <2>1. push'[p] = v /\ \A q \in Pushers \ {p} : push'[q] = push[q]
    BY <1>1, <1>4
  <2>2. Sound(p)'
    BY <1>2, <1>4, <2>1, IdlerSound
  <2>3. ASSUME NEW q \in Pushers \ {p} PROVE Sound(q)'
    BY <1>2, <1>3, <2>1, UntouchedSound DEF SoundAll
  <2> QED BY <2>2, <2>3 DEF SoundAll
<1>5. CASE \E t \in Targets : Push(p, t)
  <2>1. PICK t \in Targets : push' = [push EXCEPT ![p] =
          [Idle EXCEPT !.pc = "try", !.target = t, !.sendTime = 1, !.lossesBefore = losses]]
    BY <1>5 DEF Push
  <2> DEFINE w == [Idle EXCEPT !.pc = "try", !.target = t, !.sendTime = 1, !.lossesBefore = losses]
  <2>2. w.pc = "try" /\ w.lossesBefore <= losses
    BY <1>1 DEF Idle
  <2> HIDE DEF w
  <2> QED BY <1>4, <2>1, <2>2 DEF w
<1>6. ASSUME NEW r, Return(p, r) PROVE SoundAll'
  <2> DEFINE w == [Idle EXCEPT !.result = r, !.lossesBefore = push[p].lossesBefore]
  <2>1. push' = [push EXCEPT ![p] = w]
    BY <1>6 DEF Return
  <2>2. w.pc = "idle" /\ w.lossesBefore <= losses
    BY <1>1 DEF Idle
  <2> HIDE DEF w
  <2> QED BY <1>4, <2>1, <2>2
<1>7. ASSUME NEW loc \in {"readIndex", "publish"}, Goto(p, loc) PROVE SoundAll'
  <2> DEFINE w == [push[p] EXCEPT !.pc = loc]
  <2>1. push' = [push EXCEPT ![p] = w]
    BY <1>1, <1>7 DEF Goto
  <2>2. w.pc = loc /\ w.lossesBefore <= losses
    BY <1>1 DEF Locals
  <2> HIDE DEF w
  <2> QED BY <1>4, <2>1, <2>2
<1>8. CASE ReadIndex(p)
  <2> DEFINE w == [push[p] EXCEPT !.pc = "pick", !.readIndex = connectionIndex]
  <2>1. push' = [push EXCEPT ![p] = w]
    BY <1>1, <1>8 DEF ReadIndex
  <2>2. w.pc = "pick" /\ w.lossesBefore <= losses
    BY <1>1 DEF Locals
  <2> HIDE DEF w
  <2> QED BY <1>4, <2>1, <2>2
<1>9. CASE Publish(p) /\ push[p].channel \notin openChannels
  <2> DEFINE w == [push[p] EXCEPT !.pc = "try", !.sendTime = NextTime(push[p].sendTime),
                                  !.channel = NoChannel, !.dialGen = 0]
  <2>1. push' = [push EXCEPT ![p] = w]
    BY <1>1, <1>9 DEF Publish
  <2>2. w.pc = "try" /\ w.lossesBefore <= losses
    BY <1>1 DEF Locals
  <2> HIDE DEF w
  <2> QED BY <1>4, <2>1, <2>2
<1>10. CASE GiveUp(p)
  BY <1>6, <1>10 DEF GiveUp
<1>11. CASE AcquireLock(p)
  BY <1>7, <1>11 DEF AcquireLock
<1>12. CASE Unlock(p)
  BY <1>6, <1>7, <1>12 DEF Unlock
<1>13. CASE Publish(p)
  BY <1>6, <1>9, <1>13 DEF Publish
<1> QED BY <1>5, <1>8, <1>10, <1>11, <1>12, <1>13

LEMMA PickSound ==
  ASSUME IInv, SoundAll, NEW p \in Pushers, PickConnection(p) PROVE SoundAll'
<1>1. /\ push \in [Pushers -> Locals] /\ push[p] \in Locals /\ Sound(p)
      /\ push[p].pc = "pick" /\ push[p].pc \in Critical
  BY DEF IInv, TypeOK, SoundAll, PickConnection, At, Critical
<1>2. losses' = losses /\ UNCHANGED <<connections, channelPool, openChannels>>
  BY DEF PickConnection, brokerVars
<1>3. CASE UNCHANGED push
  <2> SUFFICES ASSUME NEW q \in Pushers PROVE Sound(q)'
    BY DEF SoundAll
  <2> QED BY <1>2, <1>3, UntouchedSound DEF SoundAll
<1>4. CASE ~UNCHANGED push
  <2>1. PICK next : InSlice(next)
                    /\ push' = [push EXCEPT ![p] = [@ EXCEPT !.pc = "checkConn", !.slot = next]]
    BY <1>4 DEF PickConnection
  <2> DEFINE w == [push[p] EXCEPT !.pc = "checkConn", !.slot = next]
  <2>2. push' = [push EXCEPT ![p] = w]
    BY <1>1, <2>1
  <2>3. w.pc = "checkConn" /\ w.slot = next /\ w.lossesBefore = push[p].lossesBefore
    BY <1>1 DEF Locals
  <2> HIDE DEF w
  <2>4. push'[p] = w /\ \A q \in Pushers \ {p} : push'[q] = push[q]
    BY <1>1, <2>2
  <2>5. Sound(p)'
    BY <1>1, <1>2, <2>1, <2>3, <2>4 DEF Sound, Undisturbed, Refused, InSlice
  <2> QED BY <1>1, <1>2, <2>4, <2>5, HolderSound
<1> QED BY <1>3, <1>4

LEMMA CheckSound ==
  ASSUME IInv, SoundAll, NEW p \in Pushers, CheckConnection(p) PROVE SoundAll'
<1>1. /\ push \in [Pushers -> Locals] /\ push[p] \in Locals /\ Sound(p)
      /\ push[p].pc = "checkConn" /\ push[p].pc \in Critical /\ push[p].slot \in Slots
      /\ connections \in [Slots -> Conns]
  BY DEF IInv, TypeOK, SoundAll, CheckConnection, At, Critical, LocalOK, Aimed, Selected
<1>2. losses' = losses /\ UNCHANGED connections
  BY DEF CheckConnection, brokerVars
<1>3. PICK loc \in {"getChannel", "dial"} :
        Goto(p, loc) /\ (loc = "getChannel" => ~ConnBroken(push[p].slot))
  BY DEF CheckConnection
<1> DEFINE w == [push[p] EXCEPT !.pc = loc]
<1>4. push' = [push EXCEPT ![p] = w]
  BY <1>1, <1>3 DEF Goto
<1>5. w.pc = loc /\ w.slot = push[p].slot /\ w.lossesBefore = push[p].lossesBefore
  BY <1>1 DEF Locals
<1> HIDE DEF w
<1>6. push'[p] = w /\ \A q \in Pushers \ {p} : push'[q] = push[q]
  BY <1>1, <1>4
<1>7. loc = "getChannel" => connections[push[p].slot].state = "open"
  BY <1>1, <1>3 DEF Sound, ConnBroken, Conns
<1>8. Sound(p)'
  BY <1>1, <1>2, <1>5, <1>6, <1>7 DEF Sound, Undisturbed, Refused
<1> QED BY <1>1, <1>2, <1>6, <1>8, HolderSound

LEMMA DialSound ==
  ASSUME IInv, SoundAll, NEW p \in Pushers, Dial(p) PROVE SoundAll'
<1> DEFINE i == push[p].slot
           g == connections[i].gen + 1
<1>1. /\ push \in [Pushers -> Locals] /\ push[p] \in Locals /\ Sound(p)
      /\ push[p].pc = "dial" /\ push[p].pc \in Critical /\ i \in Slots
      /\ connections \in [Slots -> Conns]
  BY DEF IInv, TypeOK, SoundAll, Dial, At, Critical, LocalOK, Aimed, Selected
<1>2. losses' = losses
  BY DEF Dial, brokerVars
<1>3. ASSUME NEW w, push' = [push EXCEPT ![p] = w], w.slot = i,
             w.lossesBefore = push[p].lossesBefore,
             \/ w.pc = "getChannel" /\ connections'[i].state = "open"
             \/ w.pc = "checkConn" /\ connections'[i].state = "nil"
      PROVE  SoundAll'
  <2>1. push'[p] = w /\ \A q \in Pushers \ {p} : push'[q] = push[q]
    BY <1>1, <1>3
  <2>2. Sound(p)'
    BY <1>1, <1>2, <1>3, <2>1 DEF Sound, Undisturbed, Refused
  <2> QED BY <1>1, <1>2, <2>1, <2>2, HolderSound
<1>4. CASE /\ connections' = [connections EXCEPT ![i] = [gen |-> g, state |-> "open"]]
           /\ push' = [push EXCEPT ![p] = [@ EXCEPT !.pc = "getChannel", !.dialGen = g]]
  <2> DEFINE w == [push[p] EXCEPT !.pc = "getChannel", !.dialGen = g]
  <2> HIDE DEF g
  <2>1. push' = [push EXCEPT ![p] = w] /\ connections'[i].state = "open"
    BY <1>1, <1>4
  <2>2. w.slot = i /\ w.lossesBefore = push[p].lossesBefore /\ w.pc = "getChannel"
    BY <1>1 DEF Locals
  <2> HIDE DEF w
  <2> QED BY <1>3, <2>1, <2>2
<1>5. CASE connections' = [connections EXCEPT ![i].state = "nil"] /\ Goto(p, "checkConn")
  <2> DEFINE w == [push[p] EXCEPT !.pc = "checkConn"]
  <2>1. push' = [push EXCEPT ![p] = w]
    BY <1>1, <1>5 DEF Goto
  <2>2. w.slot = i /\ w.lossesBefore = push[p].lossesBefore /\ w.pc = "checkConn"
    BY <1>1 DEF Locals
  <2>3. connections'[i].state = "nil"
    BY <1>1, <1>5 DEF Conns
  <2> HIDE DEF w
  <2> QED BY <1>3, <2>1, <2>2, <2>3
<1> QED BY <1>4, <1>5 DEF Dial

LEMMA GetSound ==
  ASSUME IInv, SoundAll, NEW p \in Pushers, GetChannel(p) PROVE SoundAll'
<1>1. /\ push \in [Pushers -> Locals] /\ push[p] \in Locals /\ Sound(p)
      /\ push[p].pc = "getChannel" /\ push[p].pc \in Critical /\ push[p].channel = NoChannel
  BY DEF IInv, TypeOK, SoundAll, GetChannel, At, Critical, LocalOK, Holding
<1>2. losses' = losses /\ UNCHANGED <<connections, channelPool>>
  BY DEF GetChannel, poolVars
<1>3. ASSUME NEW w, push' = [push EXCEPT ![p] = w], w.slot = push[p].slot,
             w.target = push[p].target, w.lossesBefore = push[p].lossesBefore,
             \/ w.pc = "declare" /\ w.channel \in openChannels'
             \/ w.pc = "unlock" /\ w.channel # NoChannel
             \/ /\ w.pc = "unlock" /\ channelPool[Key(p)] = NoChannel
                /\ ~CanOpen(push[p].slot) /\ UNCHANGED openChannels
      PROVE  SoundAll'
  <2>1. push'[p] = w /\ \A q \in Pushers \ {p} : push'[q] = push[q]
    BY <1>1, <1>3
  <2>2. Sound(p)'
    BY <1>1, <1>2, <1>3, <2>1 DEF Sound, Undisturbed, Refused, CanOpen, FreeNumbers, Key
  <2> QED BY <1>1, <1>2, <2>1, <2>2, HolderSound
<1>4. CASE channelPool[Key(p)] # NoChannel /\ Take(p, "unlock", channelPool[Key(p)])
  <2> DEFINE w == [push[p] EXCEPT !.pc = "unlock", !.channel = channelPool[Key(p)]]
  <2>1. push' = [push EXCEPT ![p] = w]
    BY <1>1, <1>4 DEF Take
  <2>2. /\ w.slot = push[p].slot /\ w.target = push[p].target
        /\ w.lossesBefore = push[p].lossesBefore /\ w.pc = "unlock" /\ w.channel # NoChannel
    BY <1>1, <1>4 DEF Locals
  <2> HIDE DEF w
  <2> QED BY <1>3, <2>1, <2>2
<1>5. CASE Take(p, "declare", NewChannel(p)) /\ openChannels' = openChannels \cup {NewChannel(p)}
  <2> DEFINE w == [push[p] EXCEPT !.pc = "declare", !.channel = NewChannel(p)]
  <2>1. push' = [push EXCEPT ![p] = w]
    BY <1>1, <1>5 DEF Take
  <2>2. /\ w.slot = push[p].slot /\ w.target = push[p].target
        /\ w.lossesBefore = push[p].lossesBefore /\ w.pc = "declare"
        /\ w.channel \in openChannels'
    BY <1>1, <1>5 DEF Locals
  <2> HIDE DEF w
  <2> QED BY <1>3, <2>1, <2>2
<1>6. CASE /\ channelPool[Key(p)] = NoChannel /\ ~CanOpen(push[p].slot)
           /\ Goto(p, "unlock") /\ UNCHANGED openChannels
  <2> DEFINE w == [push[p] EXCEPT !.pc = "unlock"]
  <2>1. push' = [push EXCEPT ![p] = w]
    BY <1>1, <1>6 DEF Goto
  <2>2. /\ w.slot = push[p].slot /\ w.target = push[p].target
        /\ w.lossesBefore = push[p].lossesBefore /\ w.pc = "unlock"
    BY <1>1 DEF Locals
  <2> HIDE DEF w
  <2> QED BY <1>3, <1>6, <2>1, <2>2
<1> QED BY <1>4, <1>5, <1>6 DEF GetChannel

LEMMA DeclareSound ==
  ASSUME IInv, SoundAll, NEW p \in Pushers, Declare(p) PROVE SoundAll'
<1> DEFINE c == push[p].channel
<1>1. /\ push \in [Pushers -> Locals] /\ push[p] \in Locals /\ Sound(p)
      /\ push[p].pc = "declare" /\ push[p].pc \in Critical /\ c # NoChannel
  BY ProducerAssumption
     DEF IInv, TypeOK, SoundAll, Declare, At, Critical, LocalOK, Holding
<1>2. losses' = losses
  BY DEF Declare
<1>3. PICK d \in {c, NoChannel} :
        /\ Take(p, "unlock", d)
        /\ d = NoChannel => \/ push[p].target \in BadTargets \cup ConflictTargets
                            \/ c \notin openChannels
  <2>1. \/ Take(p, "unlock", c)
        \/ /\ Take(p, "unlock", NoChannel)
           /\ push[p].target \in BadTargets \cup ConflictTargets \/ c \notin openChannels
    BY DEF Declare, Declarable
  <2> HIDE DEF c
  <2> QED BY <1>1, <2>1
<1> DEFINE w == [push[p] EXCEPT !.pc = "unlock", !.channel = d]
<1>4. push' = [push EXCEPT ![p] = w]
  BY <1>1, <1>3 DEF Take
<1>5. /\ w.pc = "unlock" /\ w.channel = d /\ w.target = push[p].target
      /\ w.lossesBefore = push[p].lossesBefore
  BY <1>1 DEF Locals
<1> HIDE DEF w
<1>6. push'[p] = w /\ \A q \in Pushers \ {p} : push'[q] = push[q]
  BY <1>1, <1>4
<1>7. Sound(p)'
  BY <1>1, <1>2, <1>3, <1>5, <1>6 DEF Sound, Undisturbed, Refused
<1> QED BY <1>1, <1>2, <1>6, <1>7, HolderSound

(* A loss disturbs every Push in progress.                                 *)
LEMMA DropSound ==
  ASSUME IInv, SoundAll, NEW channels, Drop(channels),
         \A i \in Slots : connections'[i].state = "absent" => connections[i].state = "absent"
  PROVE  SoundAll'
<1> SUFFICES ASSUME NEW q \in Pushers PROVE Sound(q)'
  BY DEF SoundAll
<1>1. Sound(q) /\ push[q] \in Locals /\ losses \in Nat /\ push' = push /\ losses' = losses + 1
  BY DEF IInv, TypeOK, SoundAll, Drop
<1>2. ~(losses' = push'[q].lossesBefore) /\ push'[q].lossesBefore <= losses'
  BY <1>1 DEF Sound, Locals
<1>3. push[q].pc \in {"checkConn", "getChannel"} => push[q].slot \in Slots
  BY DEF IInv, LocalOK, Aimed, Selected
<1> QED BY <1>1, <1>2, <1>3 DEF Sound, Undisturbed

LEMMA StepSound ==
  ASSUME HashSeparatesTargets, IInv, SoundAll, [Next]_vars PROVE SoundAll'
<1>1. CASE UNCHANGED vars
  <2> SUFFICES ASSUME NEW q \in Pushers PROVE Sound(q)'
    BY DEF SoundAll
  <2> QED BY <1>1, UntouchedSound DEF SoundAll, vars, poolVars, brokerVars
<1>2. ASSUME NEW i \in Slots, LoseConnection(i) PROVE SoundAll'
  <2>1. \A j \in Slots : connections'[j].state = "absent" => connections[j].state = "absent"
    BY <1>2 DEF IInv, TypeOK, Conns, LoseConnection
  <2> QED BY <1>2, <2>1, DropSound DEF LoseConnection
<1>3. ASSUME NEW c \in openChannels, LoseChannel(c) PROVE SoundAll'
  BY <1>3, DropSound DEF LoseChannel
<1> QED BY <1>1, <1>2, <1>3, FreeSound, PickSound, CheckSound, DialSound, GetSound, DeclareSound
        DEF Next, Advance

(* Under the lock every open channel of a known exchange type is the one   *)
(* cached under its target's key, so there is one for each target.         *)
LEMMA SoundMeansCrowded ==
  ASSUME IInv, NEW p \in Pushers, Sound(p), Undisturbed(p), Refused(p)
  PROVE  Crowded(p)
<1>1. FreeNumbers(push[p].slot) = {} /\ channelPool[Key(p)] = NoChannel
  BY DEF Sound
<1>2. ASSUME NEW c \in openChannels, c.slot = push[p].slot, c.target \notin BadTargets
      PROVE  channelPool[HashCode(push[p].slot, c.target)] = c
  <2>1. \A q \in Pushers : push[q].pc # "declare"
    BY DEF IInv, LocalOK, Exclusive, Critical, Refused
  <2>2. PICK h \in HashCodes : channelPool[h] = c
    BY <1>2, <2>1 DEF IInv, OpenOK
  <2>3. c # NoChannel
    BY ProducerAssumption DEF IInv, TypeOK
  <2> QED BY <1>2, <2>2, <2>3 DEF IInv, CacheOK
<1>3. \A c \in openChannels : c # NoChannel
  BY ProducerAssumption DEF IInv, TypeOK
<1>4. ASSUME NEW c \in openChannels, c.slot = push[p].slot, c.target \notin BadTargets
      PROVE  /\ c.target # push[p].target
             /\ \A d \in openChannels : d.slot = push[p].slot /\ d.target = c.target => d = c
  BY <1>1, <1>2, <1>3, <1>4 DEF Key
<1> QED BY <1>1, <1>4 DEF Crowded

(* If channelHashCode separates the targets of a connection, a Push that   *)
(* nothing disturbs gets 502 for a target that can be declared only while  *)
(* the other targets' channels fill its connection.                        *)
THEOREM RefusalsHaveReasons ==
  ASSUME HashSeparatesTargets
  PROVE  Spec => []RefusedForAReason
<1>1. Init => SoundAll
  <2> SUFFICES ASSUME Init, NEW p \in Pushers PROVE Sound(p)
    BY DEF SoundAll
  <2>1. push[p].pc = "idle" /\ push[p].lossesBefore = 0 /\ losses = 0
    BY DEF Init, Idle
  <2> QED BY <2>1 DEF Sound, Refused
<1>2. IInv /\ SoundAll /\ [Next]_vars => SoundAll'
  BY StepSound
<1>3. IInv /\ SoundAll => RefusedForAReason
  BY SoundMeansCrowded DEF SoundAll, RefusedForAReason, At, Undisturbed, Refused
<1> QED BY <1>1, <1>2, <1>3, Invariance, PTL DEF Spec

---------------------------------------------------------------------------
(* What one step may make of a connection that is live: nothing but lose   *)
(* it.                                                                     *)
Kept(i) ==
  connections[i].state = "open" =>
    connections'[i] \in {connections[i], [connections[i] EXCEPT !.state = "closed"]}

LEMMA SteadyKeeps == ASSUME UNCHANGED connections, NEW i \in Slots PROVE Kept(i)
BY DEF Kept

LEMMA DialKeeps ==
  ASSUME IInv, NEW p \in Pushers, Dial(p), NEW i \in Slots
  PROVE  Kept(i)
<1>1. connections \in [Slots -> Conns] /\ Redialling(p) /\ push[p].pc = "dial"
  BY DEF IInv, TypeOK, LocalOK, Dial, At
<1>2. i = push[p].slot => connections[i].state # "open"
  BY <1>1 DEF Redialling, ConnBroken
<1>3. i # push[p].slot => connections'[i] = connections[i]
  BY <1>1 DEF Dial
<1> QED BY <1>2, <1>3 DEF Kept

LEMMA LossKeeps ==
  ASSUME IInv, NEW j \in Slots, LoseConnection(j), NEW i \in Slots
  PROVE  Kept(i)
<1>1. connections \in [Slots -> Conns]
  BY DEF IInv, TypeOK
<1> QED BY <1>1 DEF LoseConnection, Kept, Conns

(* Whatever pushers run, none overwrites a live connection of the pool:    *)
(* the test of tryConn still holds when its dial succeeds or fails.        *)
THEOREM LiveConnectionIsKept == Spec => LiveConnectionKept
<1>1. IInv /\ [Next]_vars => [\A i \in Slots : Kept(i)]_vars
  <2> SUFFICES ASSUME IInv, Next, NEW i \in Slots PROVE Kept(i)
    OBVIOUS
  <2>1. CASE \E p \in Pushers : Dial(p)
    BY <2>1, DialKeeps
  <2>2. CASE \E j \in Slots : LoseConnection(j)
    BY <2>2, LossKeeps
  <2>3. CASE UNCHANGED connections
    BY <2>3, SteadyKeeps
  <2>4. ASSUME NEW p \in Pushers, Advance(p) PROVE Dial(p) \/ UNCHANGED connections
    BY <2>4 DEF Advance, GiveUp, ReadIndex, PickConnection, CheckConnection, GetChannel, Declare,
                Unlock, Publish, poolVars
  <2>5. ASSUME NEW p \in Pushers, AcquireLock(p) \/ \E t \in Targets : Push(p, t)
        PROVE  UNCHANGED connections
    BY <2>5 DEF AcquireLock, Push, poolVars
  <2>6. ASSUME NEW c \in openChannels, LoseChannel(c) PROVE UNCHANGED connections
    BY <2>6 DEF LoseChannel
  <2> QED BY <2>1, <2>2, <2>3, <2>4, <2>5, <2>6 DEF Next
<1>2. [][\A i \in Slots : Kept(i)]_vars => LiveConnectionKept
  BY PTL DEF LiveConnectionKept, Kept
<1> QED BY Invariance, <1>1, <1>2, PTL DEF Spec
=============================================================================
