------------------------ MODULE ConsumerPoolProofs ------------------------
(* Theorems about ConsumerPool for any number of pools, receives, tasks,   *)
(* connections and losses.  Two invariants carry them, each inductive      *)
(* with TypeOK: Handshake, which relates status, statusLock, the tasks at  *)
(* errorChanel and the monitors, and Custody, which relates the channels   *)
(* of the tasks to the connections under them.                             *)
EXTENDS ConsumerPool, FiniteSetTheorems, TLAPS

(* The task in the critical section of setConnectError holds statusLock    *)
(* and has found status unset; once it has been received from, it is on    *)
(* its way to set status, and its own monitor to do the same.              *)
Sending(t) ==
  /\ At(t, "send") \/ At(t, "sent") => statusLock = t /\ ~status
  /\ At(t, "sent") => monitor[t.pool] = "received"

Monitoring(p) ==
  /\ monitor[p] \in {"retry", "clear"} => status
  /\ monitor[p] = "received" => status \/ \E t \in Tasks : t.pool = p /\ At(t, "sent")

Handshake ==
  /\ \A t \in Tasks : Sending(t)
  /\ \A p \in Pools : Monitoring(p)
  /\ OneReconnectAtATime /\ StatusMeansReconnecting

(* What a task's channel can be at each point of consumeTask.              *)
Stage(t) ==
  /\ task[t].pc \notin {"none", "getConn"} => task[t].conn \in Conns
  /\ task[t].pc \in {"none", "getConn", "create"} => task[t].chan = "none"
  /\ task[t].pc \in {"declare", "dead", "consume", "notify"} =>
       task[t].chan \in {"open", "lost", "exception", "closed"}
  /\ task[t].pc \in {"report", "send", "sent", "close"} =>
       task[t].chan \in {"lost", "exception", "closed"}

(* A channel is open only on an open connection; one that was lost or      *)
(* closed by this process went with its connection.                        *)
Carried(t) ==
  /\ task[t].chan = "open" => connections[task[t].conn] = "open"
  /\ task[t].chan \in {"lost", "closed"} => connections[task[t].conn] = "closed"

(* Behind every channel this process closed under a task is another task   *)
(* on the same connection that a channel exception has ended.              *)
Caused(t) ==
  task[t].chan = "closed" =>
    \E u \in Tasks : /\ task[u].conn = task[t].conn
                     /\ At(u, "ended") /\ task[u].chan = "exception"

(* The tasks of a generation do not exist before rConsume starts them.     *)
Unspawned(t) ==
  t.gen >= generation[t.pool] /\ task[t] # NoTask =>
    t.gen = generation[t.pool] /\ monitor[t.pool] \notin {"init", "spawn"}

Custody == \A t \in Tasks : Stage(t) /\ Carried(t) /\ Caused(t) /\ Unspawned(t)

---------------------------------------------------------------------------
LEMMA RoundRobinInSlots ==
  ASSUME NEW i \in Slots
  PROVE  RoundRobin(i, MaxConnection) \in Slots
BY ConsumerAssumption DEF RoundRobin, Slots

LEMMA TaskParts ==
  ASSUME NEW t \in Tasks
  PROVE  t.pool \in Pools /\ t.gen \in Generations
BY DEF Tasks

LEMMA NoTaskType == NoTask \in Task /\ Spawned \in Task
BY DEF NoTask, Spawned, Task, TaskPcs, Chans

LEMMA NobodyIsNoTask == Nobody \notin Tasks
BY ConsumerAssumption

(* Moving one task along keeps the array of tasks well typed and changes   *)
(* no other task, nor this task's connection and channel.                  *)
LEMMA Moved ==
  ASSUME task \in [Tasks -> Task], NEW t \in Tasks, NEW pc \in TaskPcs, Goto(t, pc)
  PROVE  /\ task' \in [Tasks -> Task]
         /\ task'[t].pc = pc /\ task'[t].conn = task[t].conn /\ task'[t].chan = task[t].chan
         /\ \A u \in Tasks \ {t} : task'[u] = task[u]
BY DEF Goto, Task

(* Replacing one task's record.                                            *)
LEMMA Replaced ==
  ASSUME task \in [Tasks -> Task], NEW t \in Tasks, NEW v \in Task,
         task' = [task EXCEPT ![t] = v]
  PROVE  /\ task' \in [Tasks -> Task]
         /\ task'[t] = v
         /\ \A u \in Tasks \ {t} : task'[u] = task[u]
OBVIOUS

(* Shutting a connection's channels moves no task.                         *)
LEMMA ShutType ==
  ASSUME task \in [Tasks -> Task], NEW c, NEW how \in Chans
  PROVE  /\ Shut(c, how) \in [Tasks -> Task]
         /\ \A t \in Tasks :
              /\ Shut(c, how)[t].pc = task[t].pc /\ Shut(c, how)[t].conn = task[t].conn
              /\ Shut(c, how)[t].chan = IF task[t].conn = c /\ task[t].chan = "open"
                                          THEN how ELSE task[t].chan
              /\ task[t].chan # "open" => Shut(c, how)[t] = task[t]
BY DEF Shut, Task

---------------------------------------------------------------------------
LEMMA InitTypeOK == Init => TypeOK
<1> SUFFICES ASSUME Init PROVE TypeOK
  OBVIOUS
<1>1. task \in [Tasks -> Task]
  BY NoTaskType DEF Init
<1>2. connectionIndex \in [Pools -> Slots]
  BY ConsumerAssumption DEF Init, Slots
<1> QED BY <1>1, <1>2 DEF Init, TypeOK, Monitors

LEMMA TaskStepTypeOK ==
  ASSUME TypeOK, NEW t \in Tasks, TaskStep(t)
  PROVE  TypeOK'
<1> USE TaskParts DEF TypeOK, poolVars
<1>1. CASE GetConnection(t)
  <2> DEFINE next == RoundRobin(connectionIndex[t.pool], MaxConnection)
             c == [pool |-> t.pool, gen |-> generation[t.pool], slot |-> next]
             v == [task[t] EXCEPT !.pc = "create", !.conn = c]
  <2>1. next \in Slots
    BY RoundRobinInSlots
  <2>2. connectionIndex' \in [Pools -> Slots]
    BY <1>1, <2>1 DEF GetConnection
  <2>3. panicked' \in BOOLEAN
    BY <1>1 DEF GetConnection, Panic
  <2>4. task' \in [Tasks -> Task]
    <3>1. CASE InList(c) /\ task' = [task EXCEPT ![t] = v]
      BY <3>1 DEF InList, Task, TaskPcs
    <3>2. CASE UNCHANGED task
      BY <3>2
    <3> QED BY <1>1, <3>1, <3>2 DEF GetConnection, Panic
  <2> QED BY <1>1, <2>2, <2>3, <2>4 DEF GetConnection
<1>2. CASE CreateChannel(t)
  <2>1. task' \in [Tasks -> Task]
    <3>1. CASE task' = [task EXCEPT ![t] = [@ EXCEPT !.pc = "declare", !.chan = "open"]]
      BY <3>1 DEF Task, TaskPcs, Chans
    <3>2. CASE Goto(t, "ended")
      BY <3>2, Moved DEF TaskPcs
    <3> QED BY <1>2, <3>1, <3>2 DEF CreateChannel
  <2> QED BY <1>2, <2>1 DEF CreateChannel
<1>3. CASE Declare(t)
  <2>1. task' \in [Tasks -> Task]
    BY <1>3, Moved DEF Declare, AfterDeclare, TaskPcs
  <2> QED BY <1>3, <2>1 DEF Declare
<1>4. CASE DeclareDead(t)
  <2>1. task' \in [Tasks -> Task]
    BY <1>4, Moved DEF DeclareDead, Panic, TaskPcs
  <2> QED BY <1>4, <2>1 DEF DeclareDead, Panic
<1>5. CASE Consume(t)
  <2>1. task' \in [Tasks -> Task]
    BY <1>5, Moved DEF Consume, TaskPcs
  <2> QED BY <1>5, <2>1 DEF Consume
<1>6. CASE NotifyClose(t)
  <2>1. task' \in [Tasks -> Task]
    BY <1>6 DEF NotifyClose, Works, Task, TaskPcs, Chans
  <2> QED BY <1>6, <2>1 DEF NotifyClose
<1>7. CASE Notified(t)
  <2>1. task' \in [Tasks -> Task]
    BY <1>7, Moved DEF Notified, Panic, TaskPcs
  <2> QED BY <1>7, <2>1 DEF Notified, Panic
<1>8. CASE SetConnectError(t)
  <2>1. task' \in [Tasks -> Task]
    BY <1>8, Moved DEF SetConnectError, TaskPcs
  <2> QED BY <1>8, <2>1 DEF SetConnectError
<1>9. CASE Rendezvous(t)
  <2>1. task' \in [Tasks -> Task]
    BY <1>9, Moved DEF Rendezvous, TaskPcs
  <2> QED BY <1>9, <2>1 DEF Rendezvous, MonitorGoto, Monitors
<1>10. CASE Sent(t)
  <2>1. task' \in [Tasks -> Task]
    BY <1>10, Moved DEF Sent, TaskPcs
  <2> QED BY <1>10, <2>1 DEF Sent
<1>11. CASE Close(t)
  <2> DEFINE c == task[t].conn
             after == IF connections[c] = "open" THEN Shut(c, "closed") ELSE task
  <2>1. after \in [Tasks -> Task]
    BY ShutType DEF Chans
  <2>2. task' = [after EXCEPT ![t] = [@ EXCEPT !.pc = "ended"]]
    BY <1>11 DEF Close, Closes
  <2>3. task' \in [Tasks -> Task]
    BY <2>1, <2>2 DEF Task, TaskPcs
  <2>4. connections' \in [Conns -> {"absent", "open", "closed"}]
    BY <1>11 DEF Close
  <2> QED BY <1>11, <2>3, <2>4 DEF Close
<1> QED BY <1>1, <1>2, <1>3, <1>4, <1>5, <1>6, <1>7, <1>8, <1>9, <1>10, <1>11 DEF TaskStep

LEMMA MonitorStepTypeOK ==
  ASSUME TypeOK, NEW p \in Pools, MonitorStep(p)
  PROVE  TypeOK'
<1> USE DEF TypeOK, poolVars, MonitorGoto, Monitors
<1>1. CASE SetStatus(p)
  BY <1>1 DEF SetStatus
<1>2. CASE Retry(p)
  BY <1>2 DEF Retry
<1>3. CASE ClearStatus(p)
  BY <1>3 DEF ClearStatus
<1>4. CASE ResetConnections(p)
  BY <1>4 DEF ResetConnections
<1>5. CASE InitConnections(p)
  <2>1. connections' \in [Conns -> {"absent", "open", "closed"}]
    BY <1>5 DEF InitConnections
  <2> QED BY <1>5, <2>1 DEF InitConnections
<1>6. CASE Spawn(p)
  <2>1. task' \in [Tasks -> Task]
    BY <1>6, NoTaskType DEF Spawn
  <2> QED BY <1>6, <2>1 DEF Spawn
<1> QED BY <1>1, <1>2, <1>3, <1>4, <1>5, <1>6 DEF MonitorStep

LEMMA DropTypeOK ==
  ASSUME TypeOK, \/ \E c \in Conns : LoseConnection(c)
                 \/ \E t \in Tasks : LoseChannel(t)
  PROVE  TypeOK'
<1> USE DEF TypeOK, poolVars
<1>1. ASSUME NEW c \in Conns, LoseConnection(c) PROVE TypeOK'
  <2>1. task' \in [Tasks -> Task]
    BY <1>1, ShutType DEF LoseConnection, Chans
  <2> QED BY <1>1, <2>1 DEF LoseConnection
<1>2. ASSUME NEW t \in Tasks, LoseChannel(t) PROVE TypeOK'
  <2>1. task' \in [Tasks -> Task]
    BY <1>2 DEF LoseChannel, Task, Chans
  <2> QED BY <1>2, <2>1 DEF LoseChannel
<1> QED BY <1>1, <1>2

(* The runtime's fatal error stops the process and changes nothing else.   *)
LEMMA RaceTypeOK == ASSUME TypeOK, NEW p \in Pools, MapRace(p) PROVE TypeOK'
BY DEF MapRace, Panic, TypeOK, poolVars

(* The variables of the specification always hold values of their types.   *)
THEOREM TypeCorrect == Spec => []TypeOK
<1>1. TypeOK /\ [Next]_vars => TypeOK'
  <2> SUFFICES ASSUME TypeOK, [Next]_vars PROVE TypeOK'
    OBVIOUS
  <2>1. CASE UNCHANGED vars
    BY <2>1 DEF TypeOK, vars, poolVars
  <2>2. CASE Next
    BY <2>2, TaskStepTypeOK, MonitorStepTypeOK, DropTypeOK, RaceTypeOK DEF Next
  <2> QED BY <2>1, <2>2
<1> QED BY InitTypeOK, <1>1, PTL DEF Spec

---------------------------------------------------------------------------
(* A step that touches neither status, its lock and the monitors nor the   *)
(* tasks at errorChanel keeps Handshake.                                   *)
Quiet == \A t \in Tasks : (At(t, "send")' <=> At(t, "send")) /\ (At(t, "sent")' <=> At(t, "sent"))

LEMMA HandshakeKept ==
  ASSUME Handshake, Quiet, UNCHANGED <<status, statusLock, monitor>>
  PROVE  Handshake'
<1>1. \A t \in Tasks : Sending(t)'
  BY DEF Handshake, Quiet, Sending
<1>2. \A p \in Pools : Monitoring(p)'
  BY DEF Handshake, Quiet, Monitoring
<1>3. OneReconnectAtATime' /\ StatusMeansReconnecting'
  BY DEF Handshake, OneReconnectAtATime, StatusMeansReconnecting
<1> QED BY <1>1, <1>2, <1>3 DEF Handshake

LEMMA QuietMove ==
  ASSUME TypeOK, NEW t \in Tasks, task[t].pc \notin {"send", "sent"},
         task'[t].pc \notin {"send", "sent"},
         \A u \in Tasks \ {t} : task'[u].pc = task[u].pc
  PROVE  Quiet
BY DEF Quiet, At

LEMMA TaskStepHandshake ==
  ASSUME TypeOK, Handshake, NEW t \in Tasks, TaskStep(t)
  PROVE  Handshake'
<1>0. task \in [Tasks -> Task]
  BY DEF TypeOK
<1>1. CASE GetConnection(t)
  <2> DEFINE v == [task[t] EXCEPT !.pc = "create", !.conn =
                     [pool |-> t.pool, gen |-> generation[t.pool],
                      slot |-> RoundRobin(connectionIndex[t.pool], MaxConnection)]]
  <2>1. task' = task \/ (task' = [task EXCEPT ![t] = v] /\ v.pc = "create")
    BY <1>0, <1>1 DEF GetConnection, Panic, Task
  <2>2. Quiet
    BY <1>0, <1>1, <2>1, QuietMove DEF GetConnection, At
  <2> QED BY <1>1, <2>2, HandshakeKept DEF GetConnection
<1>2. CASE CreateChannel(t)
  <2>1. CASE Goto(t, "ended")
    BY <1>0, <1>2, <2>1, Moved, QuietMove, HandshakeKept DEF CreateChannel, At, TaskPcs
  <2>2. CASE task' = [task EXCEPT ![t] = [@ EXCEPT !.pc = "declare", !.chan = "open"]]
    <3>1. Quiet
      BY <1>0, <1>2, <2>2, QuietMove DEF CreateChannel, At, Task
    <3> QED BY <1>2, <3>1, HandshakeKept DEF CreateChannel
  <2> QED BY <1>2, <2>1, <2>2 DEF CreateChannel
<1>3. CASE Declare(t)
  <2>1. Quiet
    BY <1>0, <1>3, Moved, QuietMove DEF Declare, AfterDeclare, At, TaskPcs
  <2> QED BY <1>3, <2>1, HandshakeKept DEF Declare
<1>4. CASE DeclareDead(t)
  <2>1. Quiet
    BY <1>0, <1>4, Moved, QuietMove DEF DeclareDead, Panic, At, TaskPcs
  <2> QED BY <1>4, <2>1, HandshakeKept DEF DeclareDead
<1>5. CASE Consume(t)
  <2>1. Quiet
    BY <1>0, <1>5, Moved, QuietMove DEF Consume, At, TaskPcs
  <2> QED BY <1>5, <2>1, HandshakeKept DEF Consume
<1>6. CASE NotifyClose(t)
  <2>1. Quiet
    BY <1>0, <1>6, QuietMove DEF NotifyClose, At, Task
  <2> QED BY <1>6, <2>1, HandshakeKept DEF NotifyClose
<1>7. CASE Notified(t)
  <2>1. Quiet
    BY <1>0, <1>7, Moved, QuietMove DEF Notified, Panic, At, TaskPcs
  <2> QED BY <1>7, <2>1, HandshakeKept DEF Notified
<1>8. CASE SetConnectError(t)
  <2>1. CASE status /\ Goto(t, "close") /\ UNCHANGED statusLock
    <3>1. Quiet
      BY <1>0, <1>8, <2>1, Moved, QuietMove DEF SetConnectError, At, TaskPcs
    <3> QED BY <1>8, <2>1, <3>1, HandshakeKept DEF SetConnectError
  <2>2. CASE ~status /\ Goto(t, "send") /\ statusLock' = t
    <3>1. \A u \in Tasks : Sending(u) /\ (u # t => ~At(u, "send") /\ ~At(u, "sent"))
      BY <1>8, NobodyIsNoTask DEF SetConnectError, StatusFree, Handshake, Sending
    <3>2. /\ task'[t].pc = "send"
          /\ \A u \in Tasks \ {t} : task'[u] = task[u]
      BY <1>0, <2>2, Moved DEF TaskPcs
    <3>3. ASSUME NEW u \in Tasks PROVE Sending(u)'
      BY <1>8, <2>2, <3>1, <3>2 DEF SetConnectError, Sending, At
    <3>4. ASSUME NEW p \in Pools PROVE Monitoring(p)'
      <4>1. Monitoring(p) /\ ~ \E u \in Tasks : At(u, "sent")
        BY <1>8, <3>1 DEF SetConnectError, At, Handshake
      <4> QED BY <1>8, <4>1 DEF SetConnectError, Monitoring
    <3>5. OneReconnectAtATime' /\ StatusMeansReconnecting'
      BY <1>8 DEF SetConnectError, Handshake, OneReconnectAtATime, StatusMeansReconnecting
    <3> QED BY <3>3, <3>4, <3>5 DEF Handshake
  <2> QED BY <1>8, <2>1, <2>2 DEF SetConnectError
<1>9. CASE Rendezvous(t)
  <2>1. /\ task'[t].pc = "sent"
        /\ \A u \in Tasks \ {t} : task'[u] = task[u]
    BY <1>0, <1>9, Moved DEF Rendezvous, TaskPcs
  <2>2. statusLock = t /\ ~status /\ \A u \in Tasks \ {t} : ~At(u, "send") /\ ~At(u, "sent")
    BY <1>9 DEF Rendezvous, Handshake, Sending
  <2>3. /\ monitor'[t.pool] = "received"
        /\ \A p \in Pools \ {t.pool} : monitor'[p] = monitor[p]
    BY <1>9, TaskParts DEF Rendezvous, MonitorGoto, TypeOK
  <2>4. \A p \in Pools : monitor[p] \notin Reconnecting
    BY <1>9, <2>2 DEF Rendezvous, Handshake, Monitoring, Reconnecting, At
  <2>5. ASSUME NEW u \in Tasks PROVE Sending(u)'
    BY <1>9, <2>1, <2>2, <2>3 DEF Rendezvous, Sending, At
  <2>6. ASSUME NEW p \in Pools PROVE Monitoring(p)'
    BY <2>1, <2>3, <2>4 DEF Monitoring, At, Reconnecting
  <2>7. OneReconnectAtATime'
    BY <2>3, <2>4 DEF OneReconnectAtATime, Reconnecting
  <2>8. StatusMeansReconnecting'
    BY <1>9, <2>2 DEF Rendezvous, StatusMeansReconnecting
  <2> QED BY <2>5, <2>6, <2>7, <2>8 DEF Handshake
<1>10. CASE Sent(t)
  <2>1. /\ task'[t].pc = "close"
        /\ \A u \in Tasks \ {t} : task'[u] = task[u]
    BY <1>0, <1>10, Moved DEF Sent, TaskPcs
  <2>2. \A u \in Tasks \ {t} : ~At(u, "send") /\ ~At(u, "sent")
    BY <1>10 DEF Sent, Handshake, Sending
  <2>3. ASSUME NEW u \in Tasks PROVE Sending(u)'
    BY <2>1, <2>2 DEF Sending, At
  <2>4. ASSUME NEW p \in Pools PROVE Monitoring(p)'
    BY <1>10 DEF Sent, Monitoring
  <2>5. OneReconnectAtATime'
    BY <1>10 DEF Sent, Handshake, OneReconnectAtATime
  <2>6. StatusMeansReconnecting'
    BY <1>10, TaskParts DEF Sent, Handshake, Sending, StatusMeansReconnecting, Reconnecting
  <2> QED BY <2>3, <2>4, <2>5, <2>6 DEF Handshake
<1>11. CASE Close(t)
  <2> DEFINE c == task[t].conn
             after == IF connections[c] = "open" THEN Shut(c, "closed") ELSE task
  <2>1. after \in [Tasks -> Task] /\ \A u \in Tasks : after[u].pc = task[u].pc
    BY <1>0, ShutType DEF Chans
  <2>2. task' = [after EXCEPT ![t] = [@ EXCEPT !.pc = "ended"]]
    BY <1>11 DEF Close, Closes
  <2>3. Quiet
    BY <1>11, <2>1, <2>2, QuietMove DEF Close, At, Task
  <2> QED BY <1>11, <2>3, HandshakeKept DEF Close
<1> QED BY <1>1, <1>2, <1>3, <1>4, <1>5, <1>6, <1>7, <1>8, <1>9, <1>10, <1>11 DEF TaskStep

LEMMA MonitorStepHandshake ==
  ASSUME TypeOK, Handshake, NEW p \in Pools, MonitorStep(p)
  PROVE  Handshake'
<1>0. monitor \in [Pools -> Monitors]
  BY DEF TypeOK
<1>1. CASE SetStatus(p)
  <2>1. /\ monitor'[p] = "retry"
        /\ \A q \in Pools \ {p} : monitor'[q] = monitor[q]
    BY <1>0, <1>1 DEF SetStatus, MonitorGoto
  <2>2. \A t \in Tasks : ~At(t, "send") /\ ~At(t, "sent")
    BY <1>1, NobodyIsNoTask DEF SetStatus, StatusFree, Handshake, Sending
  <2>3. ASSUME NEW t \in Tasks PROVE Sending(t)'
    BY <1>1, <2>2 DEF SetStatus, Sending, At
  <2>4. ASSUME NEW q \in Pools PROVE Monitoring(q)'
    BY <1>1 DEF SetStatus, Monitoring
  <2>5. OneReconnectAtATime'
    BY <1>1, <2>1 DEF SetStatus, Handshake, OneReconnectAtATime, Reconnecting
  <2>6. StatusMeansReconnecting'
    BY <2>1 DEF StatusMeansReconnecting, Reconnecting
  <2> QED BY <2>3, <2>4, <2>5, <2>6 DEF Handshake
<1>2. CASE Retry(p)
  <2>1. UNCHANGED <<status, statusLock, task>>
    BY <1>2 DEF Retry
  <2>2. monitor' = monitor \/ (monitor[p] = "retry" /\ monitor'[p] = "clear")
    BY <1>0, <1>2 DEF Retry, MonitorGoto
  <2>3. \A q \in Pools \ {p} : monitor'[q] = monitor[q]
    BY <1>0, <1>2 DEF Retry, MonitorGoto
  <2>4. ASSUME NEW t \in Tasks PROVE Sending(t)'
    BY <2>1, <2>2, <2>3, TaskParts DEF Handshake, Sending, At
  <2>5. ASSUME NEW q \in Pools PROVE Monitoring(q)'
    BY <2>1, <2>2, <2>3 DEF Handshake, Monitoring, At
  <2>6. \A q \in Pools : monitor'[q] \in Reconnecting <=> monitor[q] \in Reconnecting
    BY <2>2, <2>3 DEF Reconnecting
  <2>7. OneReconnectAtATime' /\ StatusMeansReconnecting'
    BY <2>1, <2>6 DEF Handshake, OneReconnectAtATime, StatusMeansReconnecting, Reconnecting
  <2> QED BY <2>4, <2>5, <2>7 DEF Handshake
<1>3. CASE ClearStatus(p)
  <2>1. /\ monitor'[p] = "reset" /\ monitor[p] \in Reconnecting
        /\ \A q \in Pools \ {p} : monitor'[q] = monitor[q]
    BY <1>0, <1>3 DEF ClearStatus, MonitorGoto, Reconnecting
  <2>2. \A t \in Tasks : ~At(t, "send") /\ ~At(t, "sent")
    BY <1>3, NobodyIsNoTask DEF ClearStatus, StatusFree, Handshake, Sending
  <2>3. \A q \in Pools : monitor'[q] \notin Reconnecting
    BY <2>1 DEF Handshake, OneReconnectAtATime, Reconnecting
  <2>4. ASSUME NEW t \in Tasks PROVE Sending(t)'
    BY <1>3, <2>2 DEF ClearStatus, Sending, At
  <2>5. ASSUME NEW q \in Pools PROVE Monitoring(q)'
    BY <2>3 DEF Monitoring, Reconnecting
  <2>6. OneReconnectAtATime' /\ StatusMeansReconnecting'
    BY <1>3, <2>3 DEF ClearStatus, OneReconnectAtATime, StatusMeansReconnecting, Reconnecting
  <2> QED BY <2>4, <2>5, <2>6 DEF Handshake
<1>4. CASE ResetConnections(p) \/ InitConnections(p) \/ Spawn(p)
  <2>1. /\ UNCHANGED <<status, statusLock>>
        /\ monitor[p] \in {"reset", "init", "spawn"}
        /\ monitor'[p] \in {"init", "spawn", "listen"}
        /\ \A q \in Pools \ {p} : monitor'[q] = monitor[q]
    BY <1>0, <1>4 DEF ResetConnections, InitConnections, Spawn, MonitorGoto
  <2>2. \A t \in Tasks : task'[t] = task[t] \/ (t.pool = p /\ task'[t].pc = "getConn")
    BY <1>4 DEF ResetConnections, InitConnections, Spawn, Spawned, NoTask
  <2>3. ASSUME NEW t \in Tasks PROVE Sending(t)'
    BY <2>1, <2>2, TaskParts DEF Handshake, Sending, At
  <2>4. ASSUME NEW q \in Pools PROVE Monitoring(q)'
    BY <2>1, <2>2 DEF Handshake, Monitoring, At
  <2>5. \A q \in Pools : monitor'[q] \in Reconnecting <=> monitor[q] \in Reconnecting
    BY <2>1 DEF Reconnecting
  <2>6. OneReconnectAtATime' /\ StatusMeansReconnecting'
    BY <2>1, <2>5 DEF Handshake, OneReconnectAtATime, StatusMeansReconnecting, Reconnecting
  <2> QED BY <2>3, <2>4, <2>6 DEF Handshake
<1> QED BY <1>1, <1>2, <1>3, <1>4 DEF MonitorStep

(* A loss changes channels, never where a task is.                         *)
LEMMA DropHandshake ==
  ASSUME TypeOK, Handshake, \/ \E c \in Conns : LoseConnection(c)
                            \/ \E t \in Tasks : LoseChannel(t)
  PROVE  Handshake'
<1>1. ASSUME NEW c \in Conns, LoseConnection(c) PROVE Handshake'
  <2>1. Quiet
    BY <1>1, ShutType DEF LoseConnection, TypeOK, Chans, Quiet, At
  <2> QED BY <1>1, <2>1, HandshakeKept DEF LoseConnection
<1>2. ASSUME NEW t \in Tasks, LoseChannel(t) PROVE Handshake'
  <2>1. Quiet
    BY <1>2 DEF LoseChannel, TypeOK, Task, Quiet, At
  <2> QED BY <1>2, <2>1, HandshakeKept DEF LoseChannel
<1> QED BY <1>1, <1>2

LEMMA RaceHandshake == ASSUME Handshake, NEW p \in Pools, MapRace(p) PROVE Handshake'
BY HandshakeKept DEF MapRace, Panic, Quiet, At

LEMMA InitHandshake == Init => Handshake
<1> SUFFICES ASSUME Init PROVE Handshake
  OBVIOUS
<1>1. \A t \in Tasks : ~At(t, "send") /\ ~At(t, "sent")
  BY DEF Init, At, Spawned, NoTask
<1>2. \A p \in Pools : monitor[p] = "listen"
  BY DEF Init
<1> QED BY <1>1, <1>2 DEF Init, Handshake, Sending, Monitoring, OneReconnectAtATime,
                          StatusMeansReconnecting, Reconnecting

(* The relation between status, its lock, the reporting tasks and the      *)
(* monitors holds in every behaviour.                                      *)
THEOREM HandshakeInvariant == Spec => []Handshake
<1>1. TypeOK /\ Handshake /\ [Next]_vars => Handshake'
  <2> SUFFICES ASSUME TypeOK, Handshake, [Next]_vars PROVE Handshake'
    OBVIOUS
  <2>1. CASE UNCHANGED vars
    BY <2>1, HandshakeKept DEF vars, Quiet, At
  <2>2. CASE Next
    BY <2>2, TaskStepHandshake, MonitorStepHandshake, DropHandshake, RaceHandshake DEF Next
  <2> QED BY <2>1, <2>2
<1> QED BY InitHandshake, TypeCorrect, <1>1, PTL DEF Spec

(* Two pools never reconnect at the same time: none clears the status      *)
(* another has set (retryConsume).                                         *)
THEOREM ReconnectsExclude == Spec => []OneReconnectAtATime
BY HandshakeInvariant, PTL DEF Handshake

(* status is set only while some monitor is on its way to clear it.        *)
THEOREM StatusIsCleared == Spec => []StatusMeansReconnecting
BY HandshakeInvariant, PTL DEF Handshake

(* A task that blocks on errorChanel with statusLock held never blocks the *)
(* monitor that is to receive from it: setConnectError and retryConsume    *)
(* do not deadlock.                                                        *)
THEOREM NoSendMeetsReconnect == Spec => []NoSendWhileReconnecting
<1>1. Handshake => NoSendWhileReconnecting
  BY TaskParts DEF Handshake, Sending, Monitoring, NoSendWhileReconnecting, Reconnecting, At
<1> QED BY HandshakeInvariant, <1>1, PTL

(* In a process with a single pool an error is dropped only while that     *)
(* pool reconnects.                                                        *)
THEOREM SinglePoolDropsSafely ==
  ASSUME \A p, q \in Pools : p = q
  PROVE  Spec => DropsOnlyWhileReconnecting
<1>1. StatusMeansReconnecting => \A t \in Tasks : status => monitor[t.pool] \in Reconnecting
  BY TaskParts DEF StatusMeansReconnecting
<1>2. StatusMeansReconnecting /\ [Next]_vars
        => [\A t \in Tasks : At(t, "report") /\ status /\ ~At(t, "report")'
              => monitor[t.pool] \in Reconnecting]_vars
  BY <1>1
<1> QED BY StatusIsCleared, <1>2, PTL DEF Spec, DropsOnlyWhileReconnecting

---------------------------------------------------------------------------
(* A task's channel is only ever looked at with its connection.            *)
LEMMA Connected ==
  ASSUME TypeOK, Custody, NEW t \in Tasks, task[t].chan # "none"
  PROVE  task[t].conn \in Conns
BY DEF Custody, Stage

LEMMA TaskExists ==
  ASSUME Custody, NEW t \in Tasks, task[t].pc # "none", t.gen >= generation[t.pool]
  PROVE  t.gen = generation[t.pool] /\ ~Dialling(t.pool)
BY DEF Custody, Unspawned, NoTask, Dialling

(* A step that replaces the record of one live task, the connections,      *)
(* lists and dialling monitors unchanged, has to keep only that task's     *)
(* part of Custody: it cannot be the cause of another's closed channel.    *)
LEMMA OwnStep ==
  ASSUME TypeOK, Custody, NEW t \in Tasks, task[t].pc \notin {"none", "ended"},
         \A u \in Tasks \ {t} : task'[u] = task[u],
         UNCHANGED <<connections, generation>>,
         \A p \in Pools : Dialling(p)' <=> Dialling(p),
         Stage(t)', Carried(t)', Caused(t)'
  PROVE  Custody'
<1>1. ASSUME NEW u \in Tasks \ {t} PROVE Stage(u)' /\ Carried(u)' /\ Caused(u)' /\ Unspawned(u)'
  <2>1. Stage(u)' /\ Carried(u)'
    BY DEF Custody, Stage, Carried
  <2>2. Caused(u)'
    BY DEF Custody, Caused, At
  <2>3. Unspawned(u)'
    BY TaskParts DEF Custody, Unspawned, Dialling
  <2> QED BY <2>1, <2>2, <2>3
<1>2. Unspawned(t)'
  BY TaskExists, TaskParts DEF Unspawned, Dialling
<1> QED BY <1>1, <1>2 DEF Custody

(* One that only moves a live task, to a place its channel allows.         *)
LEMMA OwnGoto ==
  ASSUME TypeOK, Custody, NEW t \in Tasks, task[t].pc \notin {"none", "ended"},
         NEW pc \in TaskPcs, Goto(t, pc),
         UNCHANGED <<connections, generation>>,
         \A p \in Pools : Dialling(p)' <=> Dialling(p),
         Stage(t)'
  PROVE  Custody'
<1>1. /\ task'[t].conn = task[t].conn /\ task'[t].chan = task[t].chan
      /\ \A u \in Tasks \ {t} : task'[u] = task[u]
  BY Moved DEF TypeOK
<1>2. Carried(t)' /\ Caused(t)'
  BY <1>1 DEF Custody, Carried, Caused, At
<1> QED BY <1>1, <1>2, OwnStep

LEMMA SameDialling ==
  ASSUME UNCHANGED monitor
  PROVE  \A p \in Pools : Dialling(p)' <=> Dialling(p)
BY DEF Dialling

LEMMA TaskStepCustody ==
  ASSUME TypeOK, Custody, NEW t \in Tasks, TaskStep(t)
  PROVE  Custody'
<1>0. task \in [Tasks -> Task] /\ Stage(t) /\ Carried(t) /\ Caused(t)
  BY DEF TypeOK, Custody
<1>1. CASE GetConnection(t)
  <2> DEFINE c == [pool |-> t.pool, gen |-> generation[t.pool],
                   slot |-> RoundRobin(connectionIndex[t.pool], MaxConnection)]
             v == [task[t] EXCEPT !.pc = "create", !.conn = c]
  <2>1. CASE UNCHANGED task
    BY <1>1, <2>1 DEF GetConnection, Custody, Stage, Carried, Caused, Unspawned, At, poolVars
  <2>2. CASE InList(c) /\ task' = [task EXCEPT ![t] = v]
    <3>1. v.pc = "create" /\ v.conn = c /\ v.chan = "none" /\ c \in Conns
      BY <1>0, <1>1, <2>2 DEF GetConnection, At, Stage, InList, Task
    <3>2. Stage(t)' /\ Carried(t)' /\ Caused(t)'
      BY <1>0, <2>2, <3>1 DEF Stage, Carried, Caused
    <3> HIDE DEF v
    <3> QED BY <1>0, <1>1, <2>2, <3>2, OwnStep, SameDialling DEF GetConnection, At
  <2> QED BY <1>1, <2>1, <2>2 DEF GetConnection, Panic
<1>2. CASE CreateChannel(t)
  <2>1. CASE Goto(t, "ended")
    <3>1. Stage(t)'
      BY <1>0, <1>2, <2>1, Moved DEF CreateChannel, At, Stage, TaskPcs
    <3> QED BY <1>2, <2>1, <3>1, OwnGoto, SameDialling DEF CreateChannel, At, TaskPcs, poolVars
  <2> DEFINE v == [task[t] EXCEPT !.pc = "declare", !.chan = "open"]
  <2>2. CASE connections[task[t].conn] = "open" /\ task' = [task EXCEPT ![t] = v]
    <3>1. v.pc = "declare" /\ v.conn = task[t].conn /\ v.chan = "open"
      BY <1>0 DEF Task
    <3>2. connections' = connections
      BY <1>2 DEF CreateChannel
    <3>3. Stage(t)' /\ Carried(t)' /\ Caused(t)'
      BY <1>0, <1>2, <2>2, <3>1, <3>2 DEF CreateChannel, At, Stage, Carried, Caused
    <3> HIDE DEF v
    <3> QED BY <1>0, <1>2, <2>2, <3>3, OwnStep, SameDialling DEF CreateChannel, At, poolVars
  <2> QED BY <1>2, <2>1, <2>2 DEF CreateChannel
<1>3. CASE Declare(t)
  <2>1. PICK pc \in {"dead", "consume", "close"} : Goto(t, pc) /\ (pc = "close" => ~Works(t))
    BY <1>3 DEF Declare, AfterDeclare
  <2>2. Stage(t)'
    BY <1>0, <1>3, <2>1, Moved DEF Declare, At, Works, Stage, TaskPcs
  <2> QED BY <1>3, <2>1, <2>2, OwnGoto, SameDialling DEF Declare, At, TaskPcs, poolVars
<1>4. CASE DeclareDead(t)
  <2>1. CASE UNCHANGED task
    BY <1>4, <2>1 DEF DeclareDead, Custody, Stage, Carried, Caused, Unspawned, At, poolVars
  <2>2. CASE Goto(t, IF Works(t) THEN "consume" ELSE "close")
    <3>1. PICK pc \in {"consume", "close"} : Goto(t, pc) /\ (pc = "close" => ~Works(t))
      BY <2>2
    <3>2. Stage(t)'
      BY <1>0, <1>4, <3>1, Moved DEF DeclareDead, At, Works, Stage, TaskPcs
    <3> QED BY <1>4, <3>1, <3>2, OwnGoto, SameDialling DEF DeclareDead, At, TaskPcs, poolVars
  <2> QED BY <1>4, <2>1, <2>2 DEF DeclareDead, Panic
<1>5. CASE Consume(t)
  <2>1. PICK pc \in {"notify", "close"} : Goto(t, pc) /\ (pc = "close" => ~Works(t))
    BY <1>5 DEF Consume
  <2>2. Stage(t)'
    BY <1>0, <1>5, <2>1, Moved DEF Consume, At, Works, Stage, TaskPcs
  <2> QED BY <1>5, <2>1, <2>2, OwnGoto, SameDialling DEF Consume, At, TaskPcs, poolVars
<1>6. CASE NotifyClose(t)
  <2>1. /\ task'[t].pc = "loop" /\ task'[t].conn = task[t].conn
        /\ task'[t].chan \in {"open", "missed"}
        /\ task'[t].chan = "open" => task[t].chan = "open"
    BY <1>0, <1>6 DEF NotifyClose, Works, Task
  <2>2. \A u \in Tasks \ {t} : task'[u] = task[u]
    BY <1>0, <1>6 DEF NotifyClose
  <2>3. UNCHANGED <<connections, generation, monitor>> /\ task[t].pc = "notify"
    BY <1>6 DEF NotifyClose, poolVars, At
  <2>4. Stage(t)' /\ Carried(t)' /\ Caused(t)'
    BY <1>0, <2>1, <2>3 DEF Stage, Carried, Caused
  <2> QED BY <2>2, <2>3, <2>4, OwnStep, SameDialling
<1>7. CASE Notified(t)
  <2>1. CASE UNCHANGED task
    BY <1>7, <2>1 DEF Notified, Custody, Stage, Carried, Caused, Unspawned, At, poolVars
  <2>2. CASE task[t].chan \in {"lost", "exception"} /\ Goto(t, "report")
    <3>1. Stage(t)'
      BY <1>0, <1>7, <2>2, Moved DEF Notified, At, Stage, TaskPcs
    <3> QED BY <1>7, <2>2, <3>1, OwnGoto, SameDialling DEF Notified, At, TaskPcs, poolVars
  <2> QED BY <1>7, <2>1, <2>2 DEF Notified, Panic
<1>8. CASE SetConnectError(t)
  <2>1. PICK pc \in {"send", "close"} : Goto(t, pc)
    BY <1>8 DEF SetConnectError
  <2>2. Stage(t)'
    BY <1>0, <1>8, <2>1, Moved DEF SetConnectError, At, Stage, TaskPcs
  <2> QED BY <1>8, <2>1, <2>2, OwnGoto, SameDialling DEF SetConnectError, At, TaskPcs, poolVars
<1>9. CASE Rendezvous(t)
  <2>1. Stage(t)'
    BY <1>0, <1>9, Moved DEF Rendezvous, At, Stage, TaskPcs
  <2>2. \A p \in Pools : Dialling(p)' <=> Dialling(p)
    BY <1>9 DEF Rendezvous, MonitorGoto, Dialling, TypeOK
  <2> QED BY <1>9, <2>1, <2>2, OwnGoto DEF Rendezvous, At, TaskPcs, poolVars
<1>10. CASE Sent(t)
  <2>1. Stage(t)'
    BY <1>0, <1>10, Moved DEF Sent, At, Stage, TaskPcs
  <2> QED BY <1>10, <2>1, OwnGoto, SameDialling DEF Sent, At, TaskPcs, poolVars
<1>11. CASE Close(t)
  <2> DEFINE c == task[t].conn
             after == IF connections[c] = "open" THEN Shut(c, "closed") ELSE task
  <2>1. /\ after \in [Tasks -> Task]
        /\ \A u \in Tasks :
             /\ after[u].pc = task[u].pc /\ after[u].conn = task[u].conn
             /\ after[u].chan = IF connections[c] = "open" /\ task[u].conn = c
                                   /\ task[u].chan = "open"
                                 THEN "closed" ELSE task[u].chan
             /\ task[u].chan # "open" => after[u] = task[u]
    BY <1>0, ShutType DEF Chans
  <2>2. task' = [after EXCEPT ![t] = [@ EXCEPT !.pc = "ended"]]
    BY <1>11 DEF Close, Closes
  <2> HIDE DEF after
  <2>3. /\ task'[t].pc = "ended" /\ task'[t].conn = c /\ task'[t].chan = after[t].chan
        /\ \A u \in Tasks \ {t} : task'[u] = after[u]
    BY <2>1, <2>2 DEF Task
  <2>4. /\ connections' = [connections EXCEPT ![c] = "closed"]
        /\ connections \in [Conns -> {"absent", "open", "closed"}]
        /\ c \in Conns /\ task[t].chan \in {"lost", "exception", "closed"}
        /\ task[t].pc = "close"
    BY <1>0, <1>11 DEF Close, Closes, At, Stage, TypeOK
  <2>5. connections[c] = "open" => task[t].chan = "exception"
    BY <1>0, <2>4 DEF Carried
  <2>6. ASSUME NEW u \in Tasks PROVE Stage(u)'
    BY <2>1, <2>3, <2>4 DEF Custody, Stage
  <2>7. ASSUME NEW u \in Tasks PROVE Carried(u)'
    <3>1. task[u].chan # "none" => task[u].conn \in Conns
      BY Connected
    <3>2. Carried(u) /\ task'[u].conn = task[u].conn /\ task'[u].chan = after[u].chan
      BY <2>1, <2>3 DEF Custody
    <3> QED BY <2>1, <2>4, <3>1, <3>2 DEF Carried
  <2>8. ASSUME NEW u \in Tasks PROVE Caused(u)'
    <3>1. CASE connections[c] = "open" /\ task[u].conn = c
      BY <2>1, <2>3, <2>4, <2>5, <3>1 DEF Caused, At
    <3>2. CASE ~(connections[c] = "open" /\ task[u].conn = c)
      BY <2>1, <2>3, <2>4, <3>2 DEF Custody, Caused, At
    <3> QED BY <3>1, <3>2
  <2>9. ASSUME NEW u \in Tasks PROVE Unspawned(u)'
    <3>1. u = t \/ task'[u] = after[u]
      BY <2>3
    <3>2. UNCHANGED <<generation, monitor>>
      BY <1>11 DEF Close, poolVars
    <3>3. task[u] = NoTask => task[u].chan # "open" /\ u # t
      BY <2>4 DEF NoTask
    <3> QED BY <2>1, <3>1, <3>2, <3>3 DEF Custody, Unspawned
  <2> QED BY <2>6, <2>7, <2>8, <2>9 DEF Custody
<1> QED BY <1>1, <1>2, <1>3, <1>4, <1>5, <1>6, <1>7, <1>8, <1>9, <1>10, <1>11 DEF TaskStep

LEMMA MonitorStepCustody ==
  ASSUME TypeOK, Custody, NEW p \in Pools, MonitorStep(p)
  PROVE  Custody'
<1>0. task \in [Tasks -> Task] /\ monitor \in [Pools -> Monitors]
      /\ generation \in [Pools -> Nat]
  BY DEF TypeOK
<1>1. CASE SetStatus(p) \/ Retry(p) \/ ClearStatus(p)
  <2>1. UNCHANGED <<task, connections, generation>>
    BY <1>1 DEF SetStatus, Retry, ClearStatus, poolVars
  <2>2. ASSUME NEW t \in Tasks PROVE Unspawned(t)'
    BY <1>0, <1>1, <2>1, TaskParts DEF SetStatus, Retry, ClearStatus, MonitorGoto, Custody, Unspawned
  <2> QED BY <2>1, <2>2 DEF Custody, Stage, Carried, Caused, At
<1>2. CASE ResetConnections(p)
  <2>1. UNCHANGED <<task, connections>>
    BY <1>2 DEF ResetConnections
  <2>2. ASSUME NEW t \in Tasks PROVE Unspawned(t)'
    <3>1. CASE t.pool = p
      <4>1. t.gen \in Nat /\ generation'[t.pool] = generation[t.pool] + 1
            /\ generation[t.pool] \in Nat
        BY <1>0, <1>2, <3>1, TaskParts, ConsumerAssumption DEF ResetConnections, Generations
      <4>2. t.gen >= generation'[t.pool] => task[t] = NoTask
        BY <4>1 DEF Custody, Unspawned
      <4> QED BY <2>1, <4>2 DEF Unspawned
    <3>2. CASE t.pool # p
      BY <1>0, <1>2, <2>1, <3>2, TaskParts DEF ResetConnections, MonitorGoto, Custody, Unspawned
    <3> QED BY <3>1, <3>2
  <2> QED BY <2>1, <2>2 DEF Custody, Stage, Carried, Caused, At
<1>3. CASE InitConnections(p)
  <2>1. UNCHANGED <<task, generation>>
    BY <1>3 DEF InitConnections, poolVars
  <2>2. \A c \in Conns : connections'[c] = connections[c] \/ connections[c] = "absent"
    BY <1>3 DEF InitConnections, Missing, TypeOK
  <2>3. ASSUME NEW t \in Tasks PROVE Carried(t)'
    BY <2>1, <2>2, Connected DEF Custody, Carried
  <2>4. ASSUME NEW t \in Tasks PROVE Unspawned(t)'
    BY <1>0, <1>3, <2>1, TaskParts DEF InitConnections, MonitorGoto, Custody, Unspawned
  <2> QED BY <2>1, <2>3, <2>4 DEF Custody, Stage, Caused, At
<1>4. CASE Spawn(p)
  <2>1. UNCHANGED <<connections, generation>> /\ monitor[p] = "spawn"
    BY <1>4 DEF Spawn, poolVars
  <2>2. \A t \in Tasks : task'[t] = IF t.pool = p /\ t.gen = generation[p]
                                      THEN Spawned ELSE task[t]
    BY <1>4 DEF Spawn
  <2>3. \A t \in Tasks : t.pool = p /\ t.gen = generation[p] => task[t] = NoTask
    BY <1>0, <2>1, ConsumerAssumption DEF Custody, Unspawned, Tasks, Generations
  <2>4. ASSUME NEW t \in Tasks PROVE Stage(t)' /\ Carried(t)'
    BY <2>1, <2>2 DEF Custody, Stage, Carried, Spawned, NoTask
  <2>5. ASSUME NEW t \in Tasks PROVE Caused(t)'
    <3>1. \A u \in Tasks : At(u, "ended") => task'[u] = task[u]
      BY <2>2, <2>3 DEF At, NoTask
    <3>2. task'[t].chan = "closed" => task'[t] = task[t]
      BY <2>2 DEF Spawned, NoTask
    <3> QED BY <3>1, <3>2 DEF Custody, Caused, At
  <2>6. ASSUME NEW t \in Tasks PROVE Unspawned(t)'
    BY <1>0, <1>4, <2>1, <2>2, TaskParts DEF Spawn, MonitorGoto, Custody, Unspawned
  <2> QED BY <2>4, <2>5, <2>6 DEF Custody
<1> QED BY <1>1, <1>2, <1>3, <1>4 DEF MonitorStep

LEMMA DropCustody ==
  ASSUME TypeOK, Custody, \/ \E c \in Conns : LoseConnection(c)
                          \/ \E t \in Tasks : LoseChannel(t)
  PROVE  Custody'
<1>0. task \in [Tasks -> Task] /\ connections \in [Conns -> {"absent", "open", "closed"}]
  BY DEF TypeOK
<1>1. ASSUME NEW c \in Conns, LoseConnection(c) PROVE Custody'
  <2>1. /\ connections' = [connections EXCEPT ![c] = "closed"] /\ connections[c] = "open"
        /\ UNCHANGED <<generation, monitor>>
        /\ task' = Shut(c, "lost")
    BY <1>1 DEF LoseConnection, poolVars
  <2>2. \A t \in Tasks :
          /\ task'[t].pc = task[t].pc /\ task'[t].conn = task[t].conn
          /\ task'[t].chan = IF task[t].conn = c /\ task[t].chan = "open"
                               THEN "lost" ELSE task[t].chan
          /\ task[t].chan # "open" => task'[t] = task[t]
    BY <1>0, <2>1, ShutType DEF Chans
  <2>3. ASSUME NEW t \in Tasks PROVE Stage(t)'
    BY <2>2 DEF Custody, Stage
  <2>4. ASSUME NEW t \in Tasks PROVE Carried(t)'
    BY <1>0, <2>1, <2>2, Connected DEF Custody, Carried
  <2>5. ASSUME NEW t \in Tasks PROVE Caused(t)'
    BY <2>2 DEF Custody, Caused, At
  <2>6. ASSUME NEW t \in Tasks PROVE Unspawned(t)'
    BY <2>1, <2>2 DEF Custody, Unspawned, NoTask
  <2> QED BY <2>3, <2>4, <2>5, <2>6 DEF Custody
<1>2. ASSUME NEW s \in Tasks, LoseChannel(s) PROVE Custody'
  <2>1. /\ UNCHANGED <<connections, generation, monitor>> /\ task[s].chan = "open"
        /\ task'[s].pc = task[s].pc /\ task'[s].conn = task[s].conn
        /\ task'[s].chan = "exception"
        /\ \A t \in Tasks \ {s} : task'[t] = task[t]
    BY <1>0, <1>2 DEF LoseChannel, Task, poolVars
  <2>2. ASSUME NEW t \in Tasks PROVE Stage(t)' /\ Carried(t)'
    BY <2>1 DEF Custody, Stage, Carried
  <2>3. ASSUME NEW t \in Tasks PROVE Caused(t)'
    BY <2>1 DEF Custody, Caused, At
  <2>4. ASSUME NEW t \in Tasks PROVE Unspawned(t)'
    BY <2>1 DEF Custody, Unspawned, NoTask
  <2> QED BY <2>2, <2>3, <2>4 DEF Custody
<1> QED BY <1>1, <1>2

LEMMA RaceCustody == ASSUME Custody, NEW p \in Pools, MapRace(p) PROVE Custody'
BY DEF MapRace, Panic, poolVars, Custody, Stage, Carried, Caused, Unspawned, At

LEMMA InitCustody == Init => Custody
<1> SUFFICES ASSUME Init, NEW t \in Tasks
             PROVE  Stage(t) /\ Carried(t) /\ Caused(t) /\ Unspawned(t)
  BY DEF Custody
<1>1. task[t] = IF t.gen = 1 THEN Spawned ELSE NoTask
  BY DEF Init
<1>2. generation[t.pool] = 1 /\ monitor[t.pool] = "listen"
  BY TaskParts DEF Init
<1> QED BY <1>1, <1>2 DEF Stage, Carried, Caused, Unspawned, Spawned, NoTask

(* The relation between channels, connections and generations holds in     *)
(* every behaviour.                                                        *)
THEOREM CustodyInvariant == Spec => []Custody
<1>1. TypeOK /\ Custody /\ [Next]_vars => Custody'
  <2> SUFFICES ASSUME TypeOK, Custody, [Next]_vars PROVE Custody'
    OBVIOUS
  <2>1. CASE UNCHANGED vars
    BY <2>1 DEF vars, poolVars, Custody, Stage, Carried, Caused, Unspawned, At
  <2>2. CASE Next
    BY <2>2, TaskStepCustody, MonitorStepCustody, DropCustody, RaceCustody DEF Next
  <2> QED BY <2>1, <2>2
<1> QED BY InitCustody, TypeCorrect, <1>1, PTL DEF Spec

(* A consuming task that finds its channel closed by its own process, the  *)
(* nil notification that panics, owes it to a task of the same connection  *)
(* that a channel exception has ended.                                     *)
THEOREM NilNoticeIsCaused == Spec => []NilNoticeHasCause
<1>1. Custody => NilNoticeHasCause
  BY DEF Custody, Caused, NilNoticeHasCause
<1> QED BY CustodyInvariant, <1>1, PTL

---------------------------------------------------------------------------
(* The steps of a task towards the abstract fates of its error.            *)
LEMMA SameFates ==
  ASSUME TypeOK, \A t \in Tasks : Fate(task'[t].pc) = Fate(task[t].pc)
  PROVE  Errors' = Errors
BY DEF Errors

LEMMA NewFate ==
  ASSUME TypeOK, NEW t \in Tasks, NEW fate,
         Fate(task'[t].pc) = fate, \A u \in Tasks \ {t} : task'[u].pc = task[u].pc
  PROVE  Errors' = [Errors EXCEPT ![t] = fate]
<1>1. ASSUME NEW u \in Tasks PROVE Errors'[u] = [Errors EXCEPT ![t] = fate][u]
  <2>1. Errors'[u] = Fate(task'[u].pc) /\ Errors[u] = Fate(task[u].pc)
    BY DEF Errors
  <2>2. [Errors EXCEPT ![t] = fate][u] = IF u = t THEN fate ELSE Errors[u]
    BY DEF Errors
  <2>3. CASE u = t
    BY <2>1, <2>2, <2>3
  <2>4. CASE u # t
    BY <2>1, <2>2, <2>4
  <2> QED BY <2>3, <2>4
<1>2. DOMAIN (Errors') = Tasks /\ DOMAIN [Errors EXCEPT ![t] = fate] = Tasks
  BY DEF Errors
<1> QED BY <1>1, <1>2 DEF Errors

LEMMA SameService ==
  ASSUME UNCHANGED <<monitor, generation>>
  PROVE  UNCHANGED <<Phases, Lists>>
BY DEF Phases, Lists, Dialling

(* A task that runs is of a list that its pool already has tasks for.      *)
LEMMA TaskIsListed ==
  ASSUME TypeOK, Custody, NEW t \in Tasks, task[t].pc # "none"
  PROVE  t.gen <= Lists[t.pool]
<1>1. t.pool \in Pools /\ t.gen \in Nat /\ generation[t.pool] \in Nat
  BY TaskParts DEF TypeOK, Generations
<1>2. Lists[t.pool] = IF Dialling(t.pool) THEN generation[t.pool] - 1 ELSE generation[t.pool]
  BY <1>1 DEF Lists
<1>3. t.gen >= generation[t.pool] => t.gen = generation[t.pool] /\ ~Dialling(t.pool)
  BY TaskExists
<1> QED BY <1>1, <1>2, <1>3

LEMMA PhaseOf == ASSUME NEW p \in Pools PROVE Phases[p] = Phase(monitor[p])
BY DEF Phases

LEMMA IdleMeans == Abstract!Idle <=> \A p \in Pools : monitor[p] \notin Reconnecting
BY PhaseOf DEF Abstract!Idle, Phase, Reconnecting

(* A task whose step leaves the monitors and lists as they are, and moves  *)
(* no other task, makes an abstract step if it reports or ends.            *)
LEMMA OneTaskImplements ==
  ASSUME TypeOK, Custody, NEW t \in Tasks, task[t].pc # "none",
         UNCHANGED <<monitor, generation>>,
         \A u \in Tasks \ {t} : task'[u].pc = task[u].pc,
         \/ Fate(task'[t].pc) = Fate(task[t].pc)
         \/ Fate(task[t].pc) = "none" /\ Fate(task'[t].pc) \in {"raised", "settled"}
         \/ /\ Fate(task[t].pc) = "raised" /\ Fate(task'[t].pc) = "settled"
            /\ \E p \in Pools : monitor[p] \in Reconnecting
  PROVE  [Abstract!Next]_<<Errors, Phases, Lists>>
<1>1. UNCHANGED <<Phases, Lists>> /\ t.gen <= Lists[t.pool] /\ Errors[t] = Fate(task[t].pc)
  BY SameService, TaskIsListed DEF Errors
<1>2. CASE Fate(task'[t].pc) = Fate(task[t].pc)
  <2>1. \A u \in Tasks : Fate(task'[u].pc) = Fate(task[u].pc)
    BY <1>2
  <2> QED BY <1>1, <2>1, SameFates
<1>3. CASE Fate(task[t].pc) = "none" /\ Fate(task'[t].pc) = "raised"
  <2>1. Errors' = [Errors EXCEPT ![t] = "raised"]
    BY <1>3, NewFate
  <2> QED BY <1>1, <1>3, <2>1 DEF Abstract!Next, Abstract!Raise
<1>4. CASE Fate(task[t].pc) = "none" /\ Fate(task'[t].pc) = "settled"
  <2>1. Errors' = [Errors EXCEPT ![t] = "settled"]
    BY <1>4, NewFate
  <2> QED BY <1>1, <1>4, <2>1 DEF Abstract!Next, Abstract!End
<1>5. CASE /\ Fate(task[t].pc) = "raised" /\ Fate(task'[t].pc) = "settled"
           /\ \E p \in Pools : monitor[p] \in Reconnecting
  <2>1. Errors' = [Errors EXCEPT ![t] = "settled"]
    BY <1>5, NewFate
  <2>2. ~Abstract!Idle
    BY <1>5, IdleMeans
  <2> QED BY <1>1, <1>5, <2>1, <2>2 DEF Abstract!Next, Abstract!Drop
<1> QED BY <1>2, <1>3, <1>4, <1>5

LEMMA TaskStepImplements ==
  ASSUME TypeOK, Handshake, Custody, NEW t \in Tasks, TaskStep(t)
  PROVE  [Abstract!Next]_<<Errors, Phases, Lists>>
<1>0. task \in [Tasks -> Task]
  BY DEF TypeOK
<1>1. CASE GetConnection(t)
  <2>1. UNCHANGED <<monitor, generation>> /\ task[t].pc = "getConn"
    BY <1>1 DEF GetConnection, At
  <2>2. task'[t].pc \in {"getConn", "create"} /\ \A u \in Tasks \ {t} : task'[u].pc = task[u].pc
    BY <1>0, <1>1 DEF GetConnection, Panic, Task, At
  <2> QED BY <2>1, <2>2, OneTaskImplements DEF Fate
<1>2. CASE CreateChannel(t)
  <2>1. UNCHANGED <<monitor, generation>> /\ task[t].pc = "create"
    BY <1>2 DEF CreateChannel, At, poolVars
  <2>2. task'[t].pc \in {"declare", "ended"} /\ \A u \in Tasks \ {t} : task'[u].pc = task[u].pc
    BY <1>0, <1>2 DEF CreateChannel, Goto, Task
  <2> QED BY <2>1, <2>2, OneTaskImplements DEF Fate
<1>3. CASE Declare(t)
  <2>1. UNCHANGED <<monitor, generation>> /\ task[t].pc = "declare"
    BY <1>3 DEF Declare, At, poolVars
  <2>2. task'[t].pc \in {"dead", "consume", "close"} /\ \A u \in Tasks \ {t} : task'[u].pc = task[u].pc
    BY <1>0, <1>3 DEF Declare, AfterDeclare, Goto, Task
  <2> QED BY <2>1, <2>2, OneTaskImplements DEF Fate
<1>4. CASE DeclareDead(t)
  <2>1. UNCHANGED <<monitor, generation>> /\ task[t].pc = "dead"
    BY <1>4 DEF DeclareDead, At, poolVars
  <2>2. task'[t].pc \in {"dead", "consume", "close"} /\ \A u \in Tasks \ {t} : task'[u].pc = task[u].pc
    BY <1>0, <1>4 DEF DeclareDead, Panic, Goto, Task, At
  <2> QED BY <2>1, <2>2, OneTaskImplements DEF Fate
<1>5. CASE Consume(t)
  <2>1. UNCHANGED <<monitor, generation>> /\ task[t].pc = "consume"
    BY <1>5 DEF Consume, At, poolVars
  <2>2. task'[t].pc \in {"notify", "close"} /\ \A u \in Tasks \ {t} : task'[u].pc = task[u].pc
    BY <1>0, <1>5 DEF Consume, Goto, Task
  <2> QED BY <2>1, <2>2, OneTaskImplements DEF Fate
<1>6. CASE NotifyClose(t)
  <2>1. UNCHANGED <<monitor, generation>> /\ task[t].pc = "notify"
    BY <1>6 DEF NotifyClose, At, poolVars
  <2>2. task'[t].pc = "loop" /\ \A u \in Tasks \ {t} : task'[u].pc = task[u].pc
    BY <1>0, <1>6 DEF NotifyClose, Task
  <2> QED BY <2>1, <2>2, OneTaskImplements DEF Fate
<1>7. CASE Notified(t)
  <2>1. UNCHANGED <<monitor, generation>> /\ task[t].pc = "loop"
    BY <1>7 DEF Notified, At, poolVars
  <2>2. task'[t].pc \in {"loop", "report"} /\ \A u \in Tasks \ {t} : task'[u].pc = task[u].pc
    BY <1>0, <1>7 DEF Notified, Panic, Goto, Task, At
  <2> QED BY <2>1, <2>2, OneTaskImplements DEF Fate
<1>8. CASE SetConnectError(t)
  <2>1. UNCHANGED <<monitor, generation>> /\ task[t].pc = "report"
    BY <1>8 DEF SetConnectError, At, poolVars
  <2>2. /\ task'[t].pc \in {"close", "send"} /\ (task'[t].pc = "close" => status)
        /\ \A u \in Tasks \ {t} : task'[u].pc = task[u].pc
    BY <1>0, <1>8 DEF SetConnectError, Goto, Task
  <2>3. status => \E p \in Pools : monitor[p] \in Reconnecting
    BY DEF Handshake, StatusMeansReconnecting
  <2> QED BY <2>1, <2>2, <2>3, OneTaskImplements DEF Fate
<1>9. CASE Rendezvous(t)
  <2>1. /\ task[t].pc = "send" /\ task'[t].pc = "sent" /\ UNCHANGED generation
        /\ \A u \in Tasks \ {t} : task'[u].pc = task[u].pc
    BY <1>0, <1>9 DEF Rendezvous, At, Goto, Task, poolVars
  <2>2. t.pool \in Pools /\ monitor[t.pool] = "listen"
    BY <1>9, TaskParts DEF Rendezvous
  <2>3. monitor' = [monitor EXCEPT ![t.pool] = "received"] /\ monitor \in [Pools -> Monitors]
    BY <1>9 DEF Rendezvous, MonitorGoto, TypeOK
  <2>4. statusLock = t /\ ~status /\ \A u \in Tasks : ~At(u, "sent")
    BY <2>1 DEF Handshake, Sending, At
  <2>5. Abstract!Idle
    BY <2>4, IdleMeans DEF Handshake, Monitoring, Reconnecting
  <2>6. Errors' = [Errors EXCEPT ![t] = "settled"] /\ Errors[t] = "raised"
    BY <2>1, NewFate DEF Fate, Errors
  <2>7. Phases[t.pool] = "listening" /\ Phases' = [Phases EXCEPT ![t.pool] = "reconnecting"]
    BY <2>2, <2>3 DEF Phases, Phase, Reconnecting
  <2>8. UNCHANGED Lists
    BY <2>1, <2>2, <2>3 DEF Lists, Dialling
  <2> QED BY <2>5, <2>6, <2>7, <2>8 DEF Abstract!Next, Abstract!Serve
<1>10. CASE Sent(t)
  <2>1. UNCHANGED <<monitor, generation>> /\ task[t].pc = "sent"
    BY <1>10 DEF Sent, At, poolVars
  <2>2. task'[t].pc = "close" /\ \A u \in Tasks \ {t} : task'[u].pc = task[u].pc
    BY <1>0, <1>10 DEF Sent, Goto, Task
  <2> QED BY <2>1, <2>2, OneTaskImplements DEF Fate
<1>11. CASE Close(t)
  <2>1. UNCHANGED <<monitor, generation>> /\ task[t].pc = "close"
    BY <1>11 DEF Close, At, poolVars
  <2> DEFINE c == Closes(t)
             after == IF connections[c] = "open" THEN Shut(c, "closed") ELSE task
  <2>2. after \in [Tasks -> Task] /\ \A u \in Tasks : after[u].pc = task[u].pc
    BY <1>0, ShutType DEF Chans
  <2>3. task' = [after EXCEPT ![t].pc = "ended"]
    BY <1>11 DEF Close
  <2> HIDE DEF after
  <2>4. task'[t].pc = "ended" /\ \A u \in Tasks \ {t} : task'[u].pc = task[u].pc
    BY <2>2, <2>3 DEF Task
  <2> QED BY <2>1, <2>4, OneTaskImplements DEF Fate
<1> QED BY <1>1, <1>2, <1>3, <1>4, <1>5, <1>6, <1>7, <1>8, <1>9, <1>10, <1>11 DEF TaskStep

LEMMA MonitorStepImplements ==
  ASSUME TypeOK, Custody, NEW p \in Pools, MonitorStep(p)
  PROVE  [Abstract!Next]_<<Errors, Phases, Lists>>
<1>0. monitor \in [Pools -> Monitors] /\ generation \in [Pools -> Nat]
  BY DEF TypeOK
<1> USE DEF Phases, Phase, Reconnecting, Lists, Dialling, MonitorGoto
<1>1. CASE SetStatus(p)
  <2>1. UNCHANGED <<Errors, Phases, Lists>>
    BY <1>0, <1>1 DEF SetStatus, Errors, poolVars
  <2> QED BY <2>1
<1>2. CASE Retry(p)
  <2>1. UNCHANGED <<Errors, Phases, Lists>>
    BY <1>0, <1>2 DEF Retry, Errors
  <2> QED BY <2>1
<1>3. CASE ClearStatus(p)
  <2>1. UNCHANGED <<Errors, Lists>>
    BY <1>0, <1>3 DEF ClearStatus, Errors, poolVars
  <2>2. Phases[p] = "reconnecting" /\ Phases' = [Phases EXCEPT ![p] = "restoring"]
    BY <1>0, <1>3 DEF ClearStatus
  <2> QED BY <2>1, <2>2 DEF Abstract!Next, Abstract!Answered
<1>4. CASE ResetConnections(p)
  <2>1. UNCHANGED <<Errors, Phases, Lists>>
    BY <1>0, <1>4 DEF ResetConnections, Errors
  <2> QED BY <2>1
<1>5. CASE InitConnections(p)
  <2>1. UNCHANGED <<Errors, Phases, Lists>>
    BY <1>0, <1>5 DEF InitConnections, Errors, poolVars
  <2> QED BY <2>1
<1>6. CASE Spawn(p)
  <2>1. \A t \in Tasks : Fate(task'[t].pc) = Fate(task[t].pc)
    <3>1. ASSUME NEW t \in Tasks, t.pool = p, t.gen = generation[p] PROVE task[t] = NoTask
      <4>1. t.gen >= generation[t.pool] /\ monitor[t.pool] = "spawn"
        BY <1>0, <1>6, <3>1 DEF Spawn
      <4> QED BY <4>1 DEF Custody, Unspawned
    <3>2. Fate(NoTask.pc) = Fate(Spawned.pc)
      BY DEF Fate, NoTask, Spawned
    <3> QED BY <1>6, <3>1, <3>2 DEF Spawn
  <2>2. UNCHANGED Errors
    BY <2>1, SameFates
  <2>3. Phases[p] = "restoring" /\ Phases' = [Phases EXCEPT ![p] = "listening"]
    BY <1>0, <1>6 DEF Spawn
  <2>4. Lists' = [Lists EXCEPT ![p] = @ + 1]
    <3>1. /\ monitor[p] = "spawn" /\ monitor'[p] = "listen" /\ generation[p] \in Nat
          /\ \A q \in Pools \ {p} : monitor'[q] = monitor[q]
          /\ UNCHANGED generation
      BY <1>0, <1>6 DEF Spawn, poolVars
    <3>2. Lists[p] = generation[p] - 1 /\ Lists'[p] = generation[p]
      BY <3>1
    <3>3. \A q \in Pools \ {p} : Lists'[q] = Lists[q]
      BY <3>1
    <3>4. Lists' = [q \in Pools |-> Lists'[q]] /\ Lists = [q \in Pools |-> Lists[q]]
      OBVIOUS
    <3> HIDE DEF Lists
    <3> QED BY <3>1, <3>2, <3>3, <3>4
  <2> QED BY <2>2, <2>3, <2>4 DEF Abstract!Next, Abstract!Restored
<1> QED BY <1>1, <1>2, <1>3, <1>4, <1>5, <1>6 DEF MonitorStep

LEMMA DropImplements ==
  ASSUME TypeOK, \/ \E c \in Conns : LoseConnection(c)
                 \/ \E t \in Tasks : LoseChannel(t)
  PROVE  UNCHANGED <<Errors, Phases, Lists>>
<1>1. UNCHANGED <<monitor, generation>>
  BY DEF LoseConnection, LoseChannel, poolVars
<1>2. \A t \in Tasks : task'[t].pc = task[t].pc
  <2>1. ASSUME NEW c \in Conns, LoseConnection(c) PROVE \A t \in Tasks : task'[t].pc = task[t].pc
    BY <2>1, ShutType DEF LoseConnection, TypeOK, Chans
  <2>2. ASSUME NEW s \in Tasks, LoseChannel(s) PROVE \A t \in Tasks : task'[t].pc = task[t].pc
    BY <2>2 DEF LoseChannel, TypeOK, Task
  <2> QED BY <2>1, <2>2
<1> QED BY <1>1, <1>2, SameFates, SameService

LEMMA RaceImplements ==
  ASSUME NEW p \in Pools, MapRace(p) PROVE UNCHANGED <<Errors, Phases, Lists>>
BY SameService DEF MapRace, Panic, Errors, poolVars

LEMMA InitImplements == Init => Abstract!Init
<1> SUFFICES ASSUME Init PROVE Abstract!Init
  OBVIOUS
<1>1. \A t \in Tasks : Fate(task[t].pc) = "none"
  BY DEF Init, Fate, Spawned, NoTask
<1>2. Errors = [t \in Tasks |-> "none"]
  BY <1>1 DEF Errors
<1>3. Phases = [p \in Pools |-> "listening"] /\ Lists = [p \in Pools |-> 1]
  BY DEF Init, Phases, Phase, Lists, Dialling
<1> QED BY <1>2, <1>3 DEF Abstract!Init

LEMMA NextImplements ==
  TypeOK /\ Handshake /\ Custody /\ [Next]_vars => [Abstract!Next]_<<Errors, Phases, Lists>>
<1> SUFFICES ASSUME TypeOK, Handshake, Custody, [Next]_vars
             PROVE  [Abstract!Next]_<<Errors, Phases, Lists>>
  OBVIOUS
<1>1. CASE UNCHANGED vars
  BY <1>1, SameService DEF Errors, vars, poolVars
<1>2. CASE Next
  BY <1>2, TaskStepImplements, MonitorStepImplements, DropImplements, RaceImplements
     DEF Next
<1> QED BY <1>1, <1>2

(* The consumer pools of a process, with their tasks, lock and monitors,   *)
(* implement Reconnection: an error of a task is settled once, by a        *)
(* reconnect of its own pool or, while some pool reconnects, by nothing;   *)
(* and each list of connections after the first answers one error.         *)
THEOREM PoolsImplementReconnection == Spec => OneErrorOneReconnect
<1> QED BY InitImplements, NextImplements, TypeCorrect, HandshakeInvariant, CustodyInvariant, PTL
        DEF Spec, OneErrorOneReconnect, Abstract!Spec

---------------------------------------------------------------------------
(* What Reconnection implies about how often a pool rebuilds: with errors  *)
(* e, of the lists up to n as many are settled as there were rebuilds, and *)
(* one more once the next rebuild has begun.                               *)
SettledOf(e, p)  == { t \in Tasks : t.pool = p /\ e[t] = "settled" }
SpentOf(e, p, n) == { t \in Tasks : t.pool = p /\ t.gen <= n /\ e[t] = "settled" }

PaidFor(e, p, where, n) ==
  /\ IsFiniteSet(SettledOf(e, p))
  /\ Cardinality(SpentOf(e, p, n - 1)) >= n - 1
  /\ where # "listening" => Cardinality(SpentOf(e, p, n)) >= n

Paid == \A p \in Pools : PaidFor(Errors, p, Phases[p], Lists[p])

LEMMA SpentCounts ==
  ASSUME NEW e, NEW p, IsFiniteSet(SettledOf(e, p)), NEW n \in Int
  PROVE  IsFiniteSet(SpentOf(e, p, n)) /\ Cardinality(SpentOf(e, p, n)) \in Nat
<1>1. SpentOf(e, p, n) \subseteq SettledOf(e, p)
  BY DEF SpentOf, SettledOf
<1> QED BY <1>1, FS_Subset, FS_CardinalityType

LEMMA SpentOfMoreLists ==
  ASSUME NEW e, NEW p, IsFiniteSet(SettledOf(e, p)), NEW n \in Int
  PROVE  Cardinality(SpentOf(e, p, n - 1)) <= Cardinality(SpentOf(e, p, n))
<1>1. SpentOf(e, p, n - 1) \subseteq SpentOf(e, p, n)
  BY TaskParts DEF SpentOf, Generations
<1> QED BY <1>1, SpentCounts, FS_Subset

(* Settling one error more.                                                *)
LEMMA SettlingCounts ==
  ASSUME NEW e, NEW f, NEW p, IsFiniteSet(SettledOf(e, p)), NEW t \in Tasks,
         e[t] # "settled", \A u \in Tasks : f[u] = IF u = t THEN "settled" ELSE e[u]
  PROVE  /\ IsFiniteSet(SettledOf(f, p))
         /\ \A n \in Int :
              /\ Cardinality(SpentOf(f, p, n)) >= Cardinality(SpentOf(e, p, n))
              /\ t.pool = p /\ t.gen <= n =>
                   Cardinality(SpentOf(f, p, n)) >= Cardinality(SpentOf(e, p, n)) + 1
<1>1. SettledOf(f, p) = IF t.pool = p THEN SettledOf(e, p) \cup {t} ELSE SettledOf(e, p)
  BY DEF SettledOf
<1>2. IsFiniteSet(SettledOf(f, p))
  BY <1>1, FS_AddElement
<1>3. ASSUME NEW n \in Int
      PROVE  /\ Cardinality(SpentOf(f, p, n)) >= Cardinality(SpentOf(e, p, n))
             /\ t.pool = p /\ t.gen <= n =>
                  Cardinality(SpentOf(f, p, n)) >= Cardinality(SpentOf(e, p, n)) + 1
  <2>1. IsFiniteSet(SpentOf(e, p, n)) /\ Cardinality(SpentOf(e, p, n)) \in Nat
    BY SpentCounts
  <2>2. CASE t.pool = p /\ t.gen <= n
    <3>1. SpentOf(f, p, n) = SpentOf(e, p, n) \cup {t} /\ t \notin SpentOf(e, p, n)
      BY <2>2 DEF SpentOf
    <3>2. Cardinality(SpentOf(f, p, n)) = Cardinality(SpentOf(e, p, n)) + 1
      BY <2>1, <3>1, FS_AddElement
    <3> QED BY <2>1, <3>2
  <2>3. CASE ~(t.pool = p /\ t.gen <= n)
    <3>1. SpentOf(f, p, n) = SpentOf(e, p, n)
      BY <2>3 DEF SpentOf
    <3> QED BY <2>1, <2>3, <3>1
  <2> QED BY <2>2, <2>3
<1> QED BY <1>2, <1>3

(* An error that is settled leaves every pool as it is, and pays the       *)
(* rebuild that it begins.                                                 *)
LEMMA SettlingPays ==
  ASSUME NEW e, NEW f, NEW p, NEW n \in Int, NEW was, NEW is, PaidFor(e, p, was, n),
         NEW t \in Tasks, e[t] # "settled", \A u \in Tasks : f[u] = IF u = t THEN "settled" ELSE e[u],
         is = was \/ (t.pool = p /\ t.gen <= n)
  PROVE  PaidFor(f, p, is, n)
<1>1. IsFiniteSet(SettledOf(e, p)) /\ n - 1 \in Int
  BY DEF PaidFor
<1>2. /\ Cardinality(SpentOf(e, p, n - 1)) \in Nat /\ Cardinality(SpentOf(e, p, n)) \in Nat
      /\ Cardinality(SpentOf(e, p, n - 1)) <= Cardinality(SpentOf(e, p, n))
  BY <1>1, SpentCounts, SpentOfMoreLists
<1>3. /\ IsFiniteSet(SettledOf(f, p))
      /\ Cardinality(SpentOf(f, p, n - 1)) >= Cardinality(SpentOf(e, p, n - 1))
      /\ Cardinality(SpentOf(f, p, n)) >= Cardinality(SpentOf(e, p, n))
      /\ t.pool = p /\ t.gen <= n =>
           Cardinality(SpentOf(f, p, n)) >= Cardinality(SpentOf(e, p, n)) + 1
  BY <1>1, SettlingCounts
<1>4. Cardinality(SpentOf(f, p, n - 1)) \in Nat /\ Cardinality(SpentOf(f, p, n)) \in Nat
  BY <1>1, <1>3, SpentCounts
<1> QED BY <1>2, <1>3, <1>4 DEF PaidFor

LEMMA RaisingPaysNothing ==
  ASSUME NEW e, NEW f, NEW p, NEW n, NEW where, PaidFor(e, p, where, n),
         \A t \in Tasks : e[t] = "settled" <=> f[t] = "settled"
  PROVE  PaidFor(f, p, where, n)
<1>1. SettledOf(f, p) = SettledOf(e, p) /\ \A m : SpentOf(f, p, m) = SpentOf(e, p, m)
  BY DEF SettledOf, SpentOf
<1> QED BY <1>1 DEF PaidFor

LEMMA PaidInit == Init => Paid
<1> SUFFICES ASSUME Init, NEW p \in Pools PROVE PaidFor(Errors, p, Phases[p], Lists[p])
  BY DEF Paid
<1>1. Abstract!Init
  BY InitImplements
<1>2. Phases[p] = "listening" /\ Lists[p] = 1 /\ \A t \in Tasks : Errors[t] = "none"
  BY <1>1 DEF Abstract!Init
<1>3. SettledOf(Errors, p) = {} /\ SpentOf(Errors, p, 1 - 1) = {}
  BY <1>2 DEF SettledOf, SpentOf
<1> QED BY <1>2, <1>3, FS_EmptySet DEF PaidFor

LEMMA PaidStep ==
  ASSUME TypeOK, Custody, Paid, [Abstract!Next]_<<Errors, Phases, Lists>>, NEW p \in Pools
  PROVE  PaidFor(Errors', p, Phases'[p], Lists'[p])
<1>0. /\ PaidFor(Errors, p, Phases[p], Lists[p]) /\ Lists[p] \in Int
      /\ DOMAIN Errors = Tasks /\ DOMAIN Phases = Pools /\ DOMAIN Lists = Pools
  BY DEF Paid, TypeOK, Lists, Errors, Phases
<1>1. CASE UNCHANGED <<Errors, Phases, Lists>>
  BY <1>0, <1>1
<1>2. ASSUME NEW t \in Tasks, Abstract!Raise(t) PROVE PaidFor(Errors', p, Phases'[p], Lists'[p])
  <2>1. UNCHANGED <<Phases, Lists>> /\ \A u \in Tasks : Errors[u] = "settled" <=> Errors'[u] = "settled"
    BY <1>0, <1>2 DEF Abstract!Raise
  <2> QED BY <1>0, <2>1, RaisingPaysNothing
<1>3. ASSUME NEW t \in Tasks, Abstract!Serve(t) PROVE PaidFor(Errors', p, Phases'[p], Lists'[p])
  <2>1. /\ Errors[t] # "settled" /\ UNCHANGED Lists
        /\ \A u \in Tasks : Errors'[u] = IF u = t THEN "settled" ELSE Errors[u]
    BY <1>0, <1>3 DEF Abstract!Serve
  <2>2. Phases'[p] = Phases[p] \/ t.pool = p
    BY <1>0, <1>3 DEF Abstract!Serve
  <2>3. t.gen <= Lists[t.pool]
    <3>1. task[t].pc # "none"
      BY <1>3 DEF Abstract!Serve, Errors, Fate
    <3> QED BY <3>1, TaskIsListed
  <2>4. Phases'[p] = Phases[p] \/ (t.pool = p /\ t.gen <= Lists[p])
    BY <2>2, <2>3
  <2> HIDE DEF Errors, Phases, Lists
  <2>5. PaidFor(Errors', p, Phases'[p], Lists[p])
    BY <1>0, <2>1, <2>4, SettlingPays
  <2> QED BY <2>1, <2>5
<1>4. ASSUME NEW t \in Tasks, Abstract!Drop(t) \/ Abstract!End(t)
      PROVE  PaidFor(Errors', p, Phases'[p], Lists'[p])
  <2>1. /\ Errors[t] # "settled" /\ UNCHANGED <<Phases, Lists>>
        /\ \A u \in Tasks : Errors'[u] = IF u = t THEN "settled" ELSE Errors[u]
    BY <1>0, <1>4 DEF Abstract!Drop, Abstract!End
  <2> QED BY <1>0, <2>1, SettlingPays
<1>5. ASSUME NEW q \in Pools, Abstract!Answered(q) PROVE PaidFor(Errors', p, Phases'[p], Lists'[p])
  <2>1. UNCHANGED <<Errors, Lists>> /\ (Phases'[p] # "listening" => Phases[p] # "listening")
    BY <1>0, <1>5 DEF Abstract!Answered
  <2> QED BY <1>0, <2>1 DEF PaidFor
<1>6. ASSUME NEW q \in Pools, Abstract!Restored(q) PROVE PaidFor(Errors', p, Phases'[p], Lists'[p])
  <2>1. UNCHANGED Errors
    BY <1>6 DEF Abstract!Restored
  <2>2. CASE q = p
    <3>1. Phases[p] # "listening" /\ Phases'[p] = "listening" /\ Lists'[p] = Lists[p] + 1
      BY <1>0, <1>6, <2>2 DEF Abstract!Restored
    <3>2. Lists'[p] - 1 = Lists[p]
      BY <1>0, <3>1
    <3> QED BY <1>0, <2>1, <3>1, <3>2 DEF PaidFor
  <2>3. CASE q # p
    <3>1. Phases'[p] = Phases[p] /\ Lists'[p] = Lists[p]
      BY <1>0, <1>6, <2>3 DEF Abstract!Restored
    <3> QED BY <1>0, <2>1, <3>1
  <2> QED BY <2>2, <2>3
<1> QED BY <1>1, <1>2, <1>3, <1>4, <1>5, <1>6 DEF Abstract!Next

(* However often a pool has replaced its list of connections, at least as  *)
(* many tasks of the lists before have reported or dropped their error, or *)
(* ended without one: retryConsume leaves connections and consumers        *)
(* behind, but each time it costs a task.                                  *)
THEOREM RebuildsArePaidFor == Spec => []RebuildsArePaid
<1>1. TypeOK /\ Handshake /\ Custody /\ Paid /\ [Next]_vars => Paid'
  <2> SUFFICES ASSUME TypeOK, Handshake, Custody, Paid, [Next]_vars PROVE Paid'
    OBVIOUS
  <2>1. [Abstract!Next]_<<Errors, Phases, Lists>>
    BY NextImplements
  <2> QED BY <2>1, PaidStep DEF Paid
<1>2. TypeOK /\ Paid => RebuildsArePaid
  <2> SUFFICES ASSUME TypeOK, Paid, NEW p \in Pools
               PROVE  Cardinality(Spent(p, generation[p] - 1)) >= generation[p] - 1
    BY DEF RebuildsArePaid
  <2>1. PaidFor(Errors, p, Phases[p], Lists[p]) /\ generation[p] \in Nat
    BY DEF Paid, TypeOK
  <2>2. \A n \in Int : Spent(p, n) = SpentOf(Errors, p, n)
    BY DEF Spent, SpentOf
  <2>3. CASE Dialling(p)
    <3>1. Phases[p] # "listening" /\ Lists[p] = generation[p] - 1
      BY <2>3 DEF Dialling, Phases, Phase, Reconnecting, Lists
    <3> QED BY <2>1, <2>2, <3>1 DEF PaidFor
  <2>4. CASE ~Dialling(p)
    <3>1. Lists[p] = generation[p]
      BY <2>4 DEF Lists
    <3> QED BY <2>1, <2>2, <3>1 DEF PaidFor
  <2> QED BY <2>3, <2>4
<1> QED BY PaidInit, <1>1, <1>2, TypeCorrect, HandshakeInvariant, CustodyInvariant, PTL DEF Spec
---------------------------------------------------------------------------
(* Before the first loss nothing moves but tasks on their way to the loop: *)
(* each pool has its first list, all of whose connections are open.        *)
Serene(t) == /\ task[t].pc \notin {"report", "send", "sent", "close", "ended"}
             /\ task[t].chan \in {"none", "open"}

Undisturbed ==
  losses = 0 =>
    /\ ~panicked
    /\ \A p \in Pools : monitor[p] = "listen" /\ generation[p] = 1
    /\ \A c \in Conns : c.gen = 1 => connections[c] = "open"
    /\ \A t \in Tasks :
         /\ Serene(t)
         /\ task[t].pc \notin {"none", "getConn"} => task[t].conn.gen = 1

(* A task that goes on serenely, on a connection of the first list, leaves *)
(* the rest of the pool as it is.                                          *)
LEMMA SereneStep ==
  ASSUME Undisturbed, NEW t \in Tasks, losses' = losses,
         UNCHANGED <<monitor, generation, connections>>,
         \A u \in Tasks \ {t} : task'[u] = task[u],
         losses = 0 => /\ ~panicked' /\ Serene(t)'
                       /\ task'[t].pc \notin {"none", "getConn"} => task'[t].conn.gen = 1
  PROVE  Undisturbed'
BY DEF Undisturbed, Serene

LEMMA TaskStepUndisturbed ==
  ASSUME TypeOK, Custody, Undisturbed, NEW t \in Tasks, TaskStep(t)
  PROVE  Undisturbed'
<1>0. /\ task \in [Tasks -> Task] /\ Stage(t) /\ losses' = losses
      /\ connectionIndex \in [Pools -> Slots]
  BY DEF TypeOK, Custody, TaskStep, GetConnection, CreateChannel, Declare, DeclareDead, Consume,
         NotifyClose, Notified, SetConnectError, Rendezvous, Sent, Close
<1> SUFFICES ASSUME losses = 0 PROVE Undisturbed'
  BY <1>0 DEF Undisturbed
<1>1. /\ ~panicked /\ Serene(t) /\ t.pool \in Pools /\ generation[t.pool] = 1
      /\ task[t].pc \notin {"none", "getConn"} => task[t].conn.gen = 1
  BY TaskParts DEF Undisturbed
<1>2. \A c \in Conns : c.gen = 1 => connections[c] = "open"
  BY DEF Undisturbed
<1>3. task[t].pc \notin {"none", "getConn"} => connections[task[t].conn] = "open"
  BY <1>0, <1>1, <1>2 DEF Stage
<1>4. ASSUME NEW pc \in {"dead", "consume", "notify"}, Goto(t, pc), ~panicked',
             task[t].pc \in {"declare", "dead", "consume"},
             UNCHANGED <<monitor, generation, connections>>
      PROVE  Undisturbed'
  <2>1. /\ task'[t].pc = pc /\ task'[t].conn = task[t].conn /\ task'[t].chan = task[t].chan
        /\ \A u \in Tasks \ {t} : task'[u] = task[u]
    BY <1>0, <1>4, Moved DEF TaskPcs
  <2>2. Serene(t)' /\ task'[t].conn.gen = 1
    BY <1>1, <1>4, <2>1 DEF Serene
  <2> QED BY <1>0, <1>4, <2>1, <2>2, SereneStep
<1>works. task[t].pc \in {"declare", "dead", "consume", "notify"} => Works(t)
  BY <1>0, <1>1 DEF Stage, Serene, Works
<1>5. CASE GetConnection(t)
  <2> DEFINE c == [pool |-> t.pool, gen |-> generation[t.pool],
                   slot |-> RoundRobin(connectionIndex[t.pool], MaxConnection)]
             v == [task[t] EXCEPT !.pc = "create", !.conn = c]
  <2>1. c \in Conns /\ c.gen = 1
    BY <1>0, <1>1, RoundRobinInSlots, ConsumerAssumption DEF Conns, Generations
  <2>2. InList(c)
    BY <1>2, <2>1 DEF InList
  <2>3. task' = [task EXCEPT ![t] = v] /\ ~panicked'
        /\ UNCHANGED <<monitor, generation, connections>>
    BY <1>1, <1>5, <2>2 DEF GetConnection
  <2>4. v.pc = "create" /\ v.conn = c /\ v.chan = task[t].chan
    BY <1>0 DEF Task
  <2> HIDE DEF v
  <2>5. task'[t] = v /\ \A u \in Tasks \ {t} : task'[u] = task[u]
    BY <1>0, <2>3
  <2>6. Serene(t)' /\ task'[t].conn.gen = 1
    BY <1>1, <2>1, <2>4, <2>5 DEF Serene
  <2> QED BY <1>0, <2>3, <2>5, <2>6, SereneStep
<1>6. CASE CreateChannel(t)
  <2> DEFINE v == [task[t] EXCEPT !.pc = "declare", !.chan = "open"]
  <2>1. task' = [task EXCEPT ![t] = v] /\ ~panicked'
        /\ UNCHANGED <<monitor, generation, connections>>
    BY <1>1, <1>3, <1>6 DEF CreateChannel, At, poolVars
  <2>2. v.pc = "declare" /\ v.conn = task[t].conn /\ v.chan = "open"
    BY <1>0 DEF Task
  <2> HIDE DEF v
  <2>3. task'[t] = v /\ \A u \in Tasks \ {t} : task'[u] = task[u]
    BY <1>0, <2>1
  <2>4. Serene(t)' /\ task'[t].conn.gen = 1
    BY <1>1, <1>6, <2>2, <2>3 DEF Serene, CreateChannel, At
  <2> QED BY <1>0, <2>1, <2>3, <2>4, SereneStep
<1>7. CASE Declare(t)
  BY <1>1, <1>4, <1>7, <1>works DEF Declare, AfterDeclare, At, poolVars
<1>8. CASE DeclareDead(t)
  BY <1>1, <1>3, <1>4, <1>8, <1>works DEF DeclareDead, At, poolVars
<1>9. CASE Consume(t)
  BY <1>1, <1>4, <1>9, <1>works DEF Consume, At, poolVars
<1>10. CASE NotifyClose(t)
  <2>1. /\ task'[t].pc = "loop" /\ task'[t].conn = task[t].conn /\ task'[t].chan = "open"
        /\ \A u \in Tasks \ {t} : task'[u] = task[u]
    BY <1>0, <1>10, <1>works DEF NotifyClose, At, Task
  <2>2. Serene(t)' /\ task'[t].conn.gen = 1 /\ ~panicked'
        /\ UNCHANGED <<monitor, generation, connections>>
    BY <1>1, <1>10, <2>1 DEF Serene, NotifyClose, At, poolVars
  <2> QED BY <1>0, <2>1, <2>2, SereneStep
<1>11. ~Notified(t) /\ ~SetConnectError(t) /\ ~Rendezvous(t) /\ ~Sent(t) /\ ~Close(t)
  BY <1>1 DEF Serene, Notified, SetConnectError, Rendezvous, Sent, Close, At
<1> QED BY <1>5, <1>6, <1>7, <1>8, <1>9, <1>10, <1>11 DEF TaskStep

LEMMA MonitorUndisturbed ==
  ASSUME Undisturbed, NEW p \in Pools, MonitorStep(p) \/ MapRace(p) PROVE Undisturbed'
<1>1. losses' = losses /\ monitor[p] # "listen"
  BY DEF MonitorStep, MapRace, Assigning, SetStatus, Retry, ClearStatus, ResetConnections,
         InitConnections, Spawn
<1> QED BY <1>1 DEF Undisturbed

LEMMA LossDisturbs ==
  ASSUME TypeOK, \/ \E c \in Conns : LoseConnection(c)
                 \/ \E t \in Tasks : LoseChannel(t)
  PROVE  Undisturbed'
<1>1. losses' = losses + 1 /\ losses \in Nat
  BY DEF TypeOK, LoseConnection, LoseChannel
<1> QED BY <1>1 DEF Undisturbed

LEMMA InitUndisturbed == Init => Undisturbed
<1> SUFFICES ASSUME Init PROVE Undisturbed
  OBVIOUS
<1>1. ASSUME NEW t \in Tasks
      PROVE  Serene(t) /\ (task[t].pc \notin {"none", "getConn"} => task[t].conn.gen = 1)
  BY DEF Init, Serene, Spawned, NoTask
<1> QED BY <1>1 DEF Init, Undisturbed

(* Without a loss the consumers of a process just consume: none ends, none *)
(* panics and no monitor starts to reconnect, whatever the number of tasks *)
(* that share the pool's connections.                                      *)
THEOREM UndisturbedPoolConsumes == Spec => []UndisturbedConsumes
<1>1. TypeOK /\ Custody /\ Undisturbed /\ [Next]_vars => Undisturbed'
  <2> SUFFICES ASSUME TypeOK, Custody, Undisturbed, [Next]_vars PROVE Undisturbed'
    OBVIOUS
  <2>1. CASE UNCHANGED vars
    BY <2>1 DEF vars, poolVars, Undisturbed, Serene
  <2>2. CASE Next
    BY <2>2, TaskStepUndisturbed, MonitorUndisturbed, LossDisturbs DEF Next
  <2> QED BY <2>1, <2>2
<1>2. Undisturbed => UndisturbedConsumes
  BY DEF Undisturbed, Serene, UndisturbedConsumes
<1> QED BY InitUndisturbed, <1>1, <1>2, TypeCorrect, CustodyInvariant, PTL DEF Spec
=============================================================================
