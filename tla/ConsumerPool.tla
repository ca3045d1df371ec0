--------------------------- MODULE ConsumerPool ---------------------------
(***************************************************************************)
(* The consumer side of mq.RabbitPool.  The goroutine that calls           *)
(* RunConsume, the monitor, starts consumeMaxChannel tasks for each        *)
(* registered receive and waits on errorChanel.  A task takes a connection *)
(* of the pool, opens a channel on it, declares, consumes, and on the      *)
(* channel's closing reports an error and closes channel AND connection.   *)
(* The first report makes the monitor dial until the broker answers, build *)
(* a new list of connections and start a new generation of tasks beside    *)
(* what is left of the old one.                                            *)
(*                                                                         *)
(* status and statusLock are package globals: all pools of the process     *)
(* share them, which is why the module has a set of pools.  Deliveries and *)
(* their callbacks are the subject of another module.                      *)
(***************************************************************************)
EXTENDS Integers, FiniteSets

CONSTANTS
  Pools,             \* consumer pools of the process
  Receives,          \* r.consumeReceive
  RetryReceives,     \* the receives with IsTry
  ConsumeMaxChannel, \* r.consumeMaxChannel
  MaxConnection,     \* r.maxConnection
  ChannelExceptions, \* whether the broker may close a single channel
  MaxGeneration,     \* bound: lists of connections a pool ever builds
  MaxRetries,        \* bound: retries of a pool during which a dial may fail
  MaxLosses,         \* bound: connections and channels the environment drops
  Nobody, NoConn     \* the absent holder of statusLock, the absent connection

Slots       == 0 .. MaxConnection - 1
Nums        == 0 .. ConsumeMaxChannel - 1
Generations == 1 .. MaxGeneration
Conns == [pool : Pools, gen : Generations, slot : Slots]
Tasks == [pool : Pools, gen : Generations, receive : Receives, num : Nums]

ASSUME ConsumerAssumption ==
  /\ RetryReceives \subseteq Receives
  /\ ConsumeMaxChannel \in Nat /\ MaxConnection \in Nat \ {0}
  /\ ChannelExceptions \in BOOLEAN
  /\ MaxGeneration \in Nat \ {0} /\ MaxRetries \in Nat /\ MaxLosses \in Nat
  /\ Nobody \notin Tasks /\ NoConn \notin Conns

VARIABLES
  panicked,            \* a goroutine has panicked and taken the process down
  status,              \* the global "somebody is reconnecting"
  statusLock,          \* its mutex: the task that holds it (a monitor holds it
                       \* for one assignment only), or Nobody
  monitor,             \* where each pool's monitor is
  consumeCurrentRetry, \* r.consumeCurrentRetry
  generation,          \* which list r.connections[clientType] is
  connections,         \* every connection dialled for a list, closed or not
  connectionIndex,     \* r.connectionIndex
  task,                \* the goroutines running consumeTask
  losses               \* environment: drops so far

poolVars == <<generation, connectionIndex, consumeCurrentRetry>>
vars     == <<panicked, status, statusLock, monitor, connections, task, losses, poolVars>>

(* A channel is "lost" with its connection, hit by an "exception" of the   *)
(* broker, or "closed" by this process; one whose closing was "missed" was *)
(* already shut when NotifyClose was called.  A lost or hit channel's      *)
(* notification carries an error, the others' is nil.                      *)
Chans    == {"none", "open", "lost", "exception", "closed", "missed"}
TaskPcs  == {"none", "getConn", "create", "declare", "dead", "consume", "notify", "loop",
             "report", "send", "sent", "close", "ended"}
Task     == [pc : TaskPcs, conn : Conns \cup {NoConn}, chan : Chans]
NoTask   == [pc |-> "none", conn |-> NoConn, chan |-> "none"]
Spawned  == [NoTask EXCEPT !.pc = "getConn"]
Monitors == {"listen", "received", "retry", "clear", "reset", "init", "spawn"}

(* Connect has succeeded and RunConsume has started the first tasks.       *)
Init ==
  /\ panicked = FALSE /\ status = FALSE /\ statusLock = Nobody
  /\ monitor = [p \in Pools |-> "listen"]
  /\ consumeCurrentRetry = [p \in Pools |-> 0]
  /\ generation = [p \in Pools |-> 1]
  /\ connections = [c \in Conns |-> IF c.gen = 1 THEN "open" ELSE "absent"]
  /\ connectionIndex = [p \in Pools |-> 0]
  /\ task = [t \in Tasks |-> IF t.gen = 1 THEN Spawned ELSE NoTask]
  /\ losses = 0

At(t, pc) == task[t].pc = pc
Goto(t, pc) == task' = [task EXCEPT ![t].pc = pc]
MonitorGoto(p, pc) == monitor' = [monitor EXCEPT ![p] = pc]
Panic == panicked' = TRUE /\ UNCHANGED task

(* What shutting connection c does to the channels opened on it.           *)
Shut(c, how) ==
  [t \in Tasks |-> IF task[t].conn = c /\ task[t].chan = "open"
                     THEN [task[t] EXCEPT !.chan = how] ELSE task[t]]

StatusFree == statusLock = Nobody
Reconnecting == {"received", "retry", "clear"}

(* The tasks of the pool's list of connections do not exist yet.           *)
Dialling(p) == monitor[p] \in {"init", "spawn"}

---------------------------------------------------------------------------
(* Slips that the configurations are tested against; Next uses none of     *)
(* them: an index that never wraps, setConnectError without its test, its  *)
(* last assignment or its unlock, a task that stays in its loop after it,  *)
(* a reconnect that leaves status set, a deferred close of the pool's      *)
(* current connection instead of the task's, a list that is dialled anew   *)
(* while the pool listens.                                                 *)
NoWrap(cIndex, max) == IF max = 0 THEN 0 ELSE cIndex + 1

SendUnchecked(t) ==
  /\ At(t, "report") /\ StatusFree
  /\ Goto(t, "send")
  /\ statusLock' = t
  /\ UNCHANGED <<panicked, status, monitor, connections, losses, poolVars>>

SentUnmarked(t) ==
  /\ At(t, "sent")
  /\ statusLock' = Nobody
  /\ Goto(t, "close")
  /\ UNCHANGED <<panicked, status, monitor, connections, losses, poolVars>>

SentLocked(t) ==
  /\ At(t, "sent")
  /\ status' = TRUE
  /\ Goto(t, "close")
  /\ UNCHANGED <<panicked, statusLock, monitor, connections, losses, poolVars>>

SentLoops(t) ==
  /\ At(t, "sent")
  /\ status' = TRUE
  /\ statusLock' = Nobody
  /\ Goto(t, "loop")
  /\ UNCHANGED <<panicked, monitor, connections, losses, poolVars>>

StatusKept(p) ==
  /\ monitor[p] = "clear" /\ StatusFree
  /\ MonitorGoto(p, "reset")
  /\ UNCHANGED <<panicked, status, statusLock, connections, task, losses, poolVars>>

ClosesCurrent(t) ==
  [pool |-> t.pool, gen |-> generation[t.pool], slot |-> connectionIndex[t.pool]]

Refreshing(p) == monitor[p] \in {"listen", "reset", "init"}

---------------------------------------------------------------------------
(* The start of consumeTask.  connectionLock makes getConnection atomic    *)
(* among tasks; a list that initConnections left short makes it panic.     *)
RoundRobin(cIndex, max) == IF max = 0 THEN 0 ELSE (cIndex + 1) % max

InList(c) == c \in Conns /\ connections[c] # "absent"

GetConnection(t) ==
  LET next == RoundRobin(connectionIndex[t.pool], MaxConnection)
      c    == [pool |-> t.pool, gen |-> generation[t.pool], slot |-> next]
  IN  /\ At(t, "getConn")
      /\ connectionIndex' = [connectionIndex EXCEPT ![t.pool] = next]
      /\ \/ /\ InList(c)
            /\ task' = [task EXCEPT ![t] = [@ EXCEPT !.pc = "create", !.conn = c]]
            /\ UNCHANGED panicked
         \/ ~InList(c) /\ Panic
      /\ UNCHANGED <<status, statusLock, monitor, connections, losses,
                     generation, consumeCurrentRetry>>

(* Without a channel the task is over before its deferred close exists.    *)
CreateChannel(t) ==
  /\ At(t, "create")
  /\ \/ /\ connections[task[t].conn] = "open"
        /\ task' = [task EXCEPT ![t] = [@ EXCEPT !.pc = "declare", !.chan = "open"]]
     \/ connections[task[t].conn] # "open" /\ Goto(t, "ended")
  /\ UNCHANGED <<panicked, status, statusLock, monitor, connections, losses, poolVars>>

(* Declaring, and consuming, fail on a shut channel: EventFail, if set, is *)
(* called, nobody is told to reconnect, and the deferred close runs.       *)
Works(t) == task[t].chan = "open"

AfterDeclare(t) == IF t.receive \in RetryReceives /\ t.num % 2 = 0 THEN "dead" ELSE "consume"

Declare(t) ==
  /\ At(t, "declare")
  /\ \/ Works(t) /\ Goto(t, AfterDeclare(t))
     \/ ~Works(t) /\ Goto(t, "close")
  /\ UNCHANGED <<panicked, status, statusLock, monitor, connections, losses, poolVars>>

(* The dead-letter declarations of an even task open a second channel.     *)
(* When that fails EventFail, which is taken to be set, is called with     *)
(* err.Error(), err being nil after a successful declare, instead of       *)
(* deadErr.  The declarations are then sent on the first channel.          *)
DeclareDead(t) ==
  /\ At(t, "dead")
  /\ \/ connections[task[t].conn] # "open" /\ Panic
     \/ /\ connections[task[t].conn] = "open"
        /\ Goto(t, IF Works(t) THEN "consume" ELSE "close")
        /\ UNCHANGED panicked
  /\ UNCHANGED <<status, statusLock, monitor, connections, losses, poolVars>>

Consume(t) ==
  /\ At(t, "consume")
  /\ \/ Works(t) /\ Goto(t, "notify")
     \/ ~Works(t) /\ Goto(t, "close")
  /\ UNCHANGED <<panicked, status, statusLock, monitor, connections, losses, poolVars>>

NotifyClose(t) ==
  /\ At(t, "notify")
  /\ task' = [task EXCEPT ![t] = [@ EXCEPT !.pc = "loop",
                                           !.chan = IF Works(t) THEN "open" ELSE "missed"]]
  /\ UNCHANGED <<panicked, status, statusLock, monitor, connections, losses, poolVars>>

---------------------------------------------------------------------------
(* The select of consumeTask takes the notification: a nil one is          *)
(* dereferenced by e.Error().                                              *)
Notified(t) ==
  /\ At(t, "loop")
  /\ \/ task[t].chan \in {"lost", "exception"} /\ Goto(t, "report") /\ UNCHANGED panicked
     \/ task[t].chan \in {"closed", "missed"} /\ Panic
  /\ UNCHANGED <<status, statusLock, monitor, connections, losses, poolVars>>

(* setConnectError: with status set the error is dropped, otherwise it is  *)
(* sent on the unbuffered errorChanel with statusLock held.                *)
SetConnectError(t) ==
  /\ At(t, "report") /\ StatusFree
  /\ \/ status /\ Goto(t, "close") /\ UNCHANGED statusLock
     \/ ~status /\ Goto(t, "send") /\ statusLock' = t
  /\ UNCHANGED <<panicked, status, monitor, connections, losses, poolVars>>

(* The send and the monitor's receive happen together.                     *)
Rendezvous(t) ==
  /\ At(t, "send") /\ monitor[t.pool] = "listen"
  /\ Goto(t, "sent")
  /\ MonitorGoto(t.pool, "received")
  /\ UNCHANGED <<panicked, status, statusLock, connections, losses, poolVars>>

Sent(t) ==
  /\ At(t, "sent")
  /\ status' = TRUE
  /\ statusLock' = Nobody
  /\ Goto(t, "close")
  /\ UNCHANGED <<panicked, monitor, connections, losses, poolVars>>

(* The deferred channel.Close and conn.conn.Close: closing a connection    *)
(* that is still open shuts the channels of all the tasks that share it.   *)
Closes(t) == task[t].conn

Close(t) ==
  LET c == Closes(t)
      after == IF connections[c] = "open" THEN Shut(c, "closed") ELSE task
  IN  /\ At(t, "close")
      /\ connections' = [connections EXCEPT ![c] = "closed"]
      /\ task' = [after EXCEPT ![t].pc = "ended"]
      /\ UNCHANGED <<panicked, status, statusLock, monitor, losses, poolVars>>

---------------------------------------------------------------------------
(* The monitor, after receiving from errorChanel.                          *)
SetStatus(p) ==
  /\ monitor[p] = "received" /\ StatusFree
  /\ status' = TRUE
  /\ MonitorGoto(p, "retry")
  /\ UNCHANGED <<panicked, statusLock, connections, task, losses, poolVars>>

(* retryConsume dials to see whether the broker answers, without a limit,  *)
(* and neither uses nor closes the connection it gets.                     *)
Retry(p) ==
  /\ monitor[p] = "retry"
  /\ consumeCurrentRetry' = [consumeCurrentRetry EXCEPT ![p] = @ + 1]
  /\ \/ generation[p] < MaxGeneration /\ MonitorGoto(p, "clear")
     \/ consumeCurrentRetry[p] < MaxRetries /\ UNCHANGED monitor
  /\ UNCHANGED <<panicked, status, statusLock, connections, task, losses,
                 generation, connectionIndex>>

ClearStatus(p) ==
  /\ monitor[p] = "clear" /\ StatusFree
  /\ status' = FALSE
  /\ MonitorGoto(p, "reset")
  /\ UNCHANGED <<panicked, statusLock, connections, task, losses, poolVars>>

(* initConnections starts an empty list, closing nothing, and dials the    *)
(* slots in order; retryConsume ignores the error with which it stops.     *)
ResetConnections(p) ==
  /\ monitor[p] = "reset"
  /\ MonitorGoto(p, "init")
  /\ generation' = [generation EXCEPT ![p] = @ + 1]
  /\ UNCHANGED <<panicked, status, statusLock, connections, task, losses,
                 connectionIndex, consumeCurrentRetry>>

Missing(p) == { c \in Conns : c.pool = p /\ c.gen = generation[p] /\ connections[c] = "absent" }

InitConnections(p) ==
  /\ monitor[p] = "init"
  /\ \/ /\ \E c \in Missing(p) :
             /\ \A d \in Missing(p) : c.slot <= d.slot
             /\ connections' = [connections EXCEPT ![c] = "open"]
        /\ UNCHANGED monitor
     \/ /\ Missing(p) = {} \/ consumeCurrentRetry[p] < MaxRetries
        /\ MonitorGoto(p, "spawn")
        /\ UNCHANGED connections
  /\ UNCHANGED <<panicked, status, statusLock, task, losses, poolVars>>

(* rConsume starts the tasks and goes to receive from errorChanel.         *)
Spawn(p) ==
  /\ monitor[p] = "spawn"
  /\ MonitorGoto(p, "listen")
  /\ task' = [t \in Tasks |-> IF t.pool = p /\ t.gen = generation[p] THEN Spawned ELSE task[t]]
  /\ UNCHANGED <<panicked, status, statusLock, connections, losses, poolVars>>

(* initConnections assigns to the map r.connections without the            *)
(* connectionLock under which the tasks' getConnection reads it.  When the *)
(* two meet the Go runtime may stop the process: fatal error, concurrent   *)
(* map read and map write.                                                 *)
Assigning(p) == monitor[p] = "reset" \/ (monitor[p] = "init" /\ Missing(p) # {})

MapRace(p) ==
  /\ Assigning(p)
  /\ \E t \in Tasks : t.pool = p /\ At(t, "getConn")
  /\ Panic
  /\ UNCHANGED <<status, statusLock, monitor, connections, losses, poolVars>>

---------------------------------------------------------------------------
(* The environment: a connection is lost with its channels, or the broker  *)
(* closes one channel with an exception.                                   *)
LoseConnection(c) ==
  /\ losses < MaxLosses /\ losses' = losses + 1
  /\ connections[c] = "open"
  /\ connections' = [connections EXCEPT ![c] = "closed"]
  /\ task' = Shut(c, "lost")
  /\ UNCHANGED <<panicked, status, statusLock, monitor, poolVars>>

LoseChannel(t) ==
  /\ ChannelExceptions
  /\ losses < MaxLosses /\ losses' = losses + 1
  /\ task[t].chan = "open"
  /\ task' = [task EXCEPT ![t].chan = "exception"]
  /\ UNCHANGED <<panicked, status, statusLock, monitor, connections, poolVars>>

---------------------------------------------------------------------------
TaskStep(t) ==
  \/ GetConnection(t) \/ CreateChannel(t) \/ Declare(t) \/ DeclareDead(t) \/ Consume(t)
  \/ NotifyClose(t) \/ Notified(t) \/ SetConnectError(t) \/ Rendezvous(t) \/ Sent(t) \/ Close(t)

MonitorStep(p) ==
  \/ SetStatus(p) \/ Retry(p) \/ ClearStatus(p)
  \/ ResetConnections(p) \/ InitConnections(p) \/ Spawn(p)

Next ==
  /\ ~panicked
  /\ \/ \E t \in Tasks : TaskStep(t) \/ LoseChannel(t)
     \/ \E p \in Pools : MonitorStep(p) \/ MapRace(p)
     \/ \E c \in Conns : LoseConnection(c)

Spec == Init /\ [][Next]_vars

(* Goroutines are scheduled fairly; select picks a ready case at random,   *)
(* so a task with a pending notification takes it; a dial fails finitely   *)
(* often (MaxRetries).                                                     *)
FairSpec ==
  /\ Spec
  /\ \A t \in Tasks : WF_vars(~panicked /\ TaskStep(t))
  /\ \A p \in Pools : WF_vars(~panicked /\ MonitorStep(p))

---------------------------------------------------------------------------
TypeOK ==
  /\ panicked \in BOOLEAN /\ status \in BOOLEAN
  /\ statusLock \in Tasks \cup {Nobody}
  /\ monitor \in [Pools -> Monitors]
  /\ consumeCurrentRetry \in [Pools -> Nat]
  /\ generation \in [Pools -> Nat]
  /\ connections \in [Conns -> {"absent", "open", "closed"}]
  /\ connectionIndex \in [Pools -> Slots]
  /\ task \in [Tasks -> Task]
  /\ losses \in Nat

(* setConnectError never blocks on errorChanel while its pool's monitor is *)
(* between the receive and the clearing of status, where it needs the      *)
(* statusLock that the blocked task holds.                                 *)
NoSendWhileReconnecting ==
  \A t \in Tasks : At(t, "send") => monitor[t.pool] \notin Reconnecting

(* The one status of the process admits one reconnect at a time, to        *)
(* whichever pool it belongs: no monitor clears what another has set.      *)
OneReconnectAtATime ==
  \A p, q \in Pools : monitor[p] \in Reconnecting /\ monitor[q] \in Reconnecting => p = q

(* status is set only while some monitor is on its way to clear it again:  *)
(* otherwise setConnectError would drop every later error.                 *)
StatusMeansReconnecting == status => \E p \in Pools : monitor[p] \in Reconnecting

(* readme.md:19, the consumer reconnects automatically after a loss: an    *)
(* error is dropped only while the reporting task's own pool reconnects.   *)
DropsOnlyWhileReconnecting ==
  [][\A t \in Tasks : At(t, "report") /\ status /\ ~At(t, "report")'
       => monitor[t.pool] \in Reconnecting]_vars

(* Until something is lost the pools just consume: no goroutine panics and *)
(* the map of connections is not raced for, no monitor leaves its receive, *)
(* and no task ends, reports an error or sees its channel shut.            *)
UndisturbedConsumes ==
  losses = 0 =>
    /\ ~panicked
    /\ \A p \in Pools : monitor[p] = "listen"
    /\ \A t \in Tasks : /\ task[t].pc \notin {"report", "send", "sent", "close", "ended"}
                        /\ task[t].chan \in {"none", "open"}

(* A task's nil notification, its channel having been open when it called  *)
(* NotifyClose, is the deferred close of a task on the same connection     *)
(* that a channel exception has ended.  The loss of a connection alone     *)
(* makes no sibling panic.                                                 *)
NilNoticeHasCause ==
  \A t \in Tasks : At(t, "loop") /\ task[t].chan = "closed" =>
    \E u \in Tasks : /\ task[u].conn = task[t].conn
                     /\ At(u, "ended") /\ task[u].chan = "exception"

(* The errors of all the tasks start one reconnect after the other, each   *)
(* of the pool of the task that had the error, and each ends in one list   *)
(* of connections (setConnectError, retryConsume, rConsume).               *)
Fate(pc) ==
  IF pc \in {"report", "send"} THEN "raised"
  ELSE IF pc \in {"sent", "close", "ended"} THEN "settled" ELSE "none"

Phase(pc) ==
  IF pc = "listen" THEN "listening"
  ELSE IF pc \in Reconnecting THEN "reconnecting" ELSE "restoring"

Errors == [t \in Tasks |-> Fate(task[t].pc)]
Phases == [p \in Pools |-> Phase(monitor[p])]
Lists  == [p \in Pools |-> IF Dialling(p) THEN generation[p] - 1 ELSE generation[p]]

Abstract == INSTANCE Reconnection WITH error <- Errors, phase <- Phases, lists <- Lists

OneErrorOneReconnect == Abstract!Spec

(* Lists of connections pile up, with the tasks that run on them, since    *)
(* retryConsume closes nothing.  But every rebuild costs a task: of those  *)
(* started for n lists that a pool has replaced, n at least have reported  *)
(* or dropped their error, or have ended without one to report             *)
(* (rListenerConsume starts them all again each time).                     *)
Spent(p, n) == { t \in Tasks : t.pool = p /\ t.gen <= n /\ Errors[t] = "settled" }

RebuildsArePaid ==
  \A p \in Pools : Cardinality(Spent(p, generation[p] - 1)) >= generation[p] - 1

(* retryConsume: a reconnect that has begun ends with the monitor          *)
(* receiving from errorChanel again (readme.md:19).                        *)
ReconnectCompletes ==
  \A p \in Pools : monitor[p] # "listen" ~> (monitor[p] = "listen" \/ panicked)

(* setConnectError returns: a task with an error to report ends.           *)
ErrorEndsTask == \A t \in Tasks : At(t, "report") ~> (At(t, "ended") \/ panicked)

(* readme.md:19, the consumer reconnects automatically after a loss: a     *)
(* pool never waits for an error when no task is left to report one.       *)
NeverSilent ==
  \A p \in Pools : monitor[p] = "listen" =>
    \E t \in Tasks : t.pool = p /\ task[t].pc \notin {"none", "ended"}

(* mq/rabbitmqPool.go:770, on an error a task returns and closes its       *)
(* channel: no consuming task sees its own channel closed by another.      *)
ErrorIsContained == \A t \in Tasks : At(t, "loop") => task[t].chan # "closed"
=============================================================================
