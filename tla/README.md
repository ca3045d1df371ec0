# Formal models of lemonShop-framework

TLA+ specifications of the framework's core, a connection pool and message
handler over RabbitMQ (`src/mq`), and of the libraries beside it (`es`, `cache`,
`config`, `db`, `pool`), the TLC configurations that check them and TLAPS proofs
of their invariants.  `PROJECT.json` relates every definition
to source lines and lists runs, mutants, findings, hazards and theorems.

## 1. Inventory

| Component | State it keeps | Operations | Depends on |
|---|---|---|---|
| Producer pool, `mq/rabbitmqPool.go` | `connections`, `connectionIndex`, `channelPool`, `productCurrentRetry`, under `channelLock` | `Connect`, `Push` (`rPush`, `tryConn`, `getConnection`, `getChannelQueueReset`, `rDeclare`) | streadway/amqp, the broker |
| Consumer pool, `mq/rabbitmqPool.go`, `var.go` | the same list and index under `connectionLock`; `errorChanel`; the package globals `status`, `statusLock` | `RunConsume` (`rConsume`, `retryConsume`, `consumeTask`, `setConnectError`) | amqp, the broker, other pools of the process |
| Delivery and retry, `consumeTask` and `retryClient` | headers of the messages in flight, retry goroutines; queues and dead-letter queues in the broker | `Ack`, `Push`, returning `true` or `false` from `EventSuccess` | consumer pool, the user's callbacks |
| Channel queue, `mq/rabbitmqQueue.go` | a linked list and a counter under `rlock` | `Add`, `Pop`, `Count` | nobody uses it |
| mq utilities, `mq/util.go` | none | `hashCode`, `RandomAround`, `RandomNum` | |
| Goroutine pools, `pool/` | `commonPool`, `workerPool` and a `sync.Once` each | `Init*Pool`, `Get*Pool`, `Submit`, `Invoke`, `Release` | ants |
| Configuration, `config/` | none after loading | `Unmarshal`, `loadConf`, `getEnv` | mergo, yaml, json |
| Database, `db/` | `GRpo`: a read and a write handle | `Init`, `DbRClose`, `DbWClose` | gorm |
| Cache, `cache/` | `Cache`: a redis client | `Set`, `Get`, `Expire`, `Del`, ... | go-redis |
| Search, `es/` | `esClient`; the queue, workers and buffers of `bulkIndexer` | `DocumentSave`, `DocumentBatchSave`, `DocumentFind`, ten index calls | elasticsearch, its transport and bulk indexer |
| Logger, time helpers, replies, security entities | none worth a model | formatting, I/O, plain data | zap |

How they interact.  Any number of goroutines call `Push` on one producer pool;
they meet at `channelLock` and share connections and cached channels, which the
network and the broker shut at any moment.  A consumer pool is one monitor
goroutine and `consumeMaxChannel` task goroutines per registered receive; tasks
share connections, report errors to the monitor over an unbuffered Go channel,
and the monitor builds a new list of connections and new tasks.  All consumer
pools of a process share `status`.  Each task hands deliveries to a callback; a
failed one is published, by a goroutine started for it, to a dead-letter queue
from which the broker returns it later.  `config`, `db`, `cache`, `es` and
`pool` are initialised once at start and do not call each other.

What is hard: a channel used after the lock that guarded its lookup is released;
a cache that outlives the connection it caches; a send on an unbuffered channel
with a mutex held that the receiver needs; a process-wide flag for per-pool
work; closing a connection that others share; acknowledging before the work and
its retry are done; a retry that passes through shared exchanges; a request that
is repeated because its answer, not its effect, was late; a call that returns
before the work it announces is done; a second initialisation that undoes the
first.  `PROJECT.json`
lists these hazards line by line.

What would make each component correct:

* producer pool: no lost turn and no index outside the slice; after a re-dial
  the fresh channel is used; only declared targets are published to; no channel
  is lost track of; `Push` returns, gives up only after a loss, and is refused only
  for its own target or a full connection;
* consumer pool: errors are reported or rightly dropped, reports and reconnects
  never wait for each other, a reconnect ends, a task's error stays its own;
* delivery: bounded retries, each message settled once per receive, none lost
  while its channels live, each settled in the end;
* channel queue: a FIFO queue whose counter is its length;
* utilities: random expirations between their bounds wherever the arithmetic
  does not wrap;
* goroutine pools: one pool per kind, which serves whoever got it as long as
  nobody initialises the kind again;
* configuration: the last file of the active profile overrides the master,
  nothing else does, and a failure leaves nothing of the profile in the caller's
  value;
* database: a handle is closed by the method of its use and nothing else;
* cache, search: what a caller is told is what the server did, over a transport
  that repeats requests; no document of a batch is forgotten.

## 2. Modules

### ProducerPool (with MCProducerPool, ProducerPoolProofs)

One process per goroutine in `Push`, its program counter `push[p].pc` moving
through `rPush`; one action per step at which another goroutine or the broker
can be observed.

| Code | Model |
|---|---|
| `Push`, `rPush` 817-821, the `pushMaxTime` test | `Push`, `GiveUp`, `AcquireLock` |
| `getConnection` 352-358 | `ReadIndex` (plain read), `PickConnection` (atomic addition and slice access, which may panic) |
| `tryConn` 794-814 | `CheckConnection` (deletes the target's channel), `Dial` (loops on failure, the lock held) |
| `getChannelQueueReset` 388-409 | `GetChannel` (cache, open or fail), `Declare` with `Stored` |
| `rDeclare` 512-522 | `Declare`: unknown type rejected locally, a refused declaration closes the channel |
| unlocking and `ch.Publish` 827-844 | `Unlock`, `Publish` |
| amqp and the broker (external) | `openChannels`, `exchanges`, `CanOpen`, `LoseConnection`, `LoseChannel` |

The locals `dialGen` and `lossesBefore` are history.  `channelHashCode` is the
constant operator `HashCode`; the connection's index is part of the hashed
string, so `HashSeparatesSlots` is assumed, while codes of one connection may
collide.  `Connect` appears as `Init`: a full list, or a prefix if
`MinConnected` permits.  `getChannelQueueReset`'s reset branch is unreachable
(its argument is always false) and has no action.

### ConsumerPool, Reconnection (with MCConsumerPool, ConsumerPoolProofs)

`task` maps each (pool, generation, receive, number) to its program counter, the
connection it took and what became of its channel; `monitor` is where each
pool's `RunConsume` goroutine stands.

| Code | Model |
|---|---|
| `consumeTask` 621-717 | `GetConnection`, `CreateChannel`, `Declare`, `DeclareDead`, `Consume`, `NotifyClose` |
| `case e := <-closeChan` 771-781 | `Notified` (a nil notification panics) |
| `setConnectError` 607-618 | `SetConnectError`, `Rendezvous` (the unbuffered send), `Sent` |
| deferred `Close`s 636-643 | `Close`: shuts the channels of all tasks on that connection |
| `rConsume` 552-570, the monitor | `SetStatus`, `Spawn` |
| `retryConsume` 576-591 | `Retry`, `ClearStatus`, `ResetConnections`, `InitConnections` |
| `initConnections` 418-425 against `getConnection` 357 | `MapRace`: the list is assigned to without `connectionLock`, and the Go runtime may stop the process for a map read beside it |
| network and broker (external) | `LoseConnection`, `LoseChannel` |

Every generation keeps its own connections, because the code never closes the
old list.  `RegisterConsumeReceive` is called before `RunConsume` (as in the
tests): the receives are a constant.  They are taken to set `EventFail`: the code
tests that before every call, but dereferences a nil notification at 775 in any
case, so it only decides whether somebody is told of a dead-letter queue that cannot
be declared (665) and, in RetryFlow, of a message given up (738, 79, 100).

`Reconnection` is what the pools of a process promise about the errors of their
tasks: an error is raised at most once by a task, and settled either by starting
a reconnect of the task's own pool (`Serve`), only while no pool reconnects, or by
being dropped (`Drop`), only while one does; a reconnect ends in one new list of
connections with its tasks (`Answered`, `Restored`).  `OneErrorOneReconnect` says
that ConsumerPool implements it.  The mapping reads an error's fate from the place
of its task (`Fate`), a pool's phase from its monitor (`Phase`), and counts a list
as there once its tasks are started (`Lists`): the task's step past the `status`
test is a `Drop`, the rendezvous on `errorChanel` a `Serve`, the clearing of
`status` an `Answered`, the start of the new tasks a `Restored`.

### RetryFlow (with MCRetryFlow, RetryFlowProofs)

Queues and dead-letter queues are bags of copies of messages; a copy carries
`retry_nums` and the history the properties need.  `receive` holds what each
receive asks for.

| Code | Model |
|---|---|
| `consumeTask` 656-717 | `Start` (only even tasks of a receive with `IsTry` declare the dead-letter exchange) |
| `case data := <-msgs` 720-723 | `Receive`, `ReceiveNothing` (the zero delivery of a closed channel), `AutoAck` with `IsAutoAck` |
| `EventSuccess` 724-728 | the states "callback" and "pushed", and how it returns: `ReturnTrue`, `ReturnFalse`, `ReturnPushed` |
| `retryClient.Ack` 54-60 | `Ack`: once, before or after a `Push`, before the callback returns |
| `retryClient.Push` 66-112, 728-768 | `Push`, `ReturnFalse`; the goroutine they leave behind is `Publish` |
| broker and network (external) | `Deliver` (one unacknowledged message per channel), `Expire`, `CloseChannel`, `Lose` |

Bindings compare routes for equality; the random expiration becomes "at any
moment".  The replacement of a lost channel, which ConsumerPool details, is the
one action `Notified`.

### ChannelQueue, Fifo (with ChannelQueueProofs)

`nodes` holds every `Node` in order of allocation, and a pointer is an index
into it, 0 for nil.  With `rlock` held, `Add` changes the counter (`Add`) and
then the list (`Link`), `Pop` likewise (`Pop`, `Unlink`; `PopNothing` when the
list is empty), so that `Count`, which takes no lock, can be read in between.
`Fifo` is what a caller expects: a sequence, the values whose `Add` has not
taken effect yet, and each client's last result.  `FirstInFirstOut` says that
ChannelQueue implements it, `Link` and `Unlink` being the steps that take effect.

### Remote, EsIndex, RedisCache (with RemoteProofs, AnswerProofs)

`Remote` is the client library and the wire that `es` and `cache` both stand on
(elastic's transport, go-redis): a request is sent up to `MaxTries` times; a try
that was given up may still reach the server, and be carried out, at any later
moment; only the answer to the last try counts.  It is instantiated twice, each
time with the server's behaviour (`Elasticsearch`, `Redis`) as the operator
`Apply`.  It also keeps two pieces of history about a call: `done`, that some try
of it was carried out while the caller waited, and `doubt`, that some try was
given up.

In `EsIndex` each function of `es.go` is an action that sends its request
(`EsDo`, which panics while `esClient` is nil) or returns at once (`EsReject`),
and `EsReturn` turns the reply into what the function returns: `Flag` for the
booleans, `Decoded` for "a map or a text", `SaveSaid` for the error that
`DocumentSave` makes even of a success, `IsCloseSaid` which ends the process on an
unreadable body, `PageSize` for the pager.  Mappings, aliases and hits are kept
only as far as they decide an answer.

In `RedisCache` the methods of `cacheRepo` are actions, `CacheReturn` applies
`NoErr`, `Positive` or `NonZero` as the method does, and a key has lives, each
ended by a set, a deletion or an expiry.

### EsBulk (with EsBulkProofs)

`DocumentBatchSave` is a loop of `AddDocument` over the batch and `ReturnNil`;
`BodyOf` is the empty body of a document that cannot be encoded.  The indexer
(external) is a queue with room for as many items as there are workers, and
workers that `Collect`, `FlushBuffer` and learn the reply (`BulkAnswered`) or not
(`FlushFails`, which runs no callback).

### ProfileConfig, RoutinePool, DbRepo (with LibraryProofs), MqUtil

`ProfileConfig` is `Unmarshal` step by step: the loop of `loadConf` over the
directory's entries (`SkipEntry`, `getEnv` where it panics, `ReadFile`), then
`Loaded`, `DecodeActive`, `DecodeMaster` and `Merge`.  Names are told apart by the
scope that `getEnv` cuts out of them, contents by what a decoder makes of them.  The
caller's argument points to a value of one field, or to a "scalar", anything mergo
refuses to merge (a pointer or a number): `Merge` then returns its error, with the
master's file decoded already.

`RoutinePool` separates `InitOnce` (the `sync.Once`) from `StorePool` (the
assignment after it, which a second call makes as well, with nil), and lets
goroutines hold on to what `GetPool` gave them: the address of the global.

`DbRepo` has the two connects of `Init`, `Publish` for the assignment of `GRpo`
and `Return` for reading it again, which another `Init` may precede, and the
closing methods.  `MqUtil` is `RandomAround` in integers from `-Half` to `Half - 1`
and floats that are exact up to `Exact`, two powers of two (2^63 and 2^53 in the
code): `Wrap`, `Float` and `Truncated` are the arithmetic, `Draw` the range of
`rand.Int` or its panic.

### MCLibrary

These parts and ChannelQueue share no state and never call one another, so one
configuration checks them all: the variable `part` is chosen at the start, and a
behaviour moves the variables of that part only.

## 3. Runs

Passing runs (`CHECK_DEADLOCK FALSE` wherever the bounded environment or a panic
may end a behaviour):

* **ProducerSafety**: two pushers, two targets, two connections, three attempts,
  two losses, one failed dial, symmetric pushers.  Two pushers are enough for
  every race between a lookup and its use, two targets for a stale channel of
  the *other* target, two connections for the round robin to wrap, two losses
  for a loss after a re-dial.  Checks `TypeOK`, `NoLostTurn`, `FreshAfterRedial`,
  `NoOrphanChannel`, `DeclaredBeforePublish`, `GivesUpOnlyAfterDrop`,
  the action property `LiveConnectionKept` (no dial over a
  connection that is alive), and the absence of deadlock.
* **ProducerFaults**: what ProducerSafety leaves out.  `Connect` may have failed at
  either connection; of four targets one is of an unknown type, one the broker
  refuses and two are sound, with one channel number per connection, so that a
  channel leaked by `rDeclare` or cached for another target leaves none.  One loss,
  and no loss of a single channel (`ChannelExceptions` is FALSE: the refused target
  closes channels already).  Checks `RefusedForAReason` (without a loss, a push gets
  no channel only for its own target's sake or because the numbers are taken, by one
  channel at most of each other target and by rejected ones), `PanicsOnlyIfShort` (no
  panic but in a pool that `Connect` left short) and `PushReturns` under `FairSpec`.
* **ConsumerSafety**: one pool, two receives on one shared connection, three
  generations, two losses: two tasks of different generations meet the monitor.
  Checks `TypeOK`, `NoSendWhileReconnecting`, `StatusMeansReconnecting`,
  `NilNoticeHasCause`, `RebuildsArePaid` (of the lists replaced so far there are as
  many tasks that have reported or dropped an error, or have ended without one) and
  `UndisturbedConsumes` (until something is lost nobody panics, races for the map of
  connections, reports or ends).
* **ConsumerLiveness**: two pools sharing `status`, receives with a dead-letter
  queue, failing dials; `OneReconnectAtATime`, the refinement
  `OneErrorOneReconnect`, `ReconnectCompletes`, `ErrorEndsTask`.
* **RetrySafety**: two messages, two tasks of one queue, callbacks of all three
  kinds, all four combinations of `IsTry` and `IsAutoAck`, `MaxReTry` 2, one loss,
  one `Push` per chain; `TypeOK`, `AutoRetriesBounded`, `SettledOnce`,
  `LostOnlyWithAChannel`, `EventuallySettled`.  Both messages are published where
  they are acknowledged at once and retried, the combination in which most can
  happen at the same time; one in the others.
* **Library**: every part of MCLibrary.
  * Queue: two clients, two values, four `Add`s: the list fills, empties and fills
    again between any steps of the other client.  `QueueTypeOK`,
    `CountIsClose` and the refinement `FirstInFirstOut`.
  * Search: two callers, two indices, two calls, two tries each and two timeouts:
    a try that was given up is carried out before, between or after the tries and
    calls that follow it, and both callers may be after the same index.
    `EsTypeOK`, `AnswersAreTrue`.
  * Batches: two savers with a good and a bad document each, two workers, one
    serving per request: four documents for a queue of two, so `Add` has to wait.
    `NoneForgotten`, `SuccessIsIndexed` and, under `BulkFairness`, `BatchSettles`.
  * Configuration: every directory of up to three of nine entries, every kind of
    argument, decoder and two profiles, one of them the prefix itself; three files
    are two of one scope and one of another.  `ProfileWins` and
    `FailureLeavesNoProfile`: an error leaves nothing of the profile behind, at most
    the master's file, half of it if that one is garbled, all of it if mergo refuses.
  * Pools: two goroutines, two kinds, two calls of each `Init`.  `PoolServes`.
  * Database: two calls of `Init`, each with or without a reader.  `ClosedByItsOwn`.
  * Cache: two callers on one key, two calls, one command repeated, one expiry.
    `CacheAnswersAreTrue`, `ClaimsDiffer`.
  * Random expiration: all 4096 pairs of 6-bit bounds.  `RandomInRange`.

Runs that show a disagreement between the code and its documentation, each with
a finding in `PROJECT.json`:

* **ProducerRecovers** (`PushRecovers`): `tryConn` forgets only the channel of
  the message at hand; others cached for the lost connection stay and exhaust a
  later `Push` although the broker is back.
* **ConsumerPools** (`DropsOnlyWhileReconnecting` with two pools): pool A's
  reconnect makes pool B drop its error, and B never reconnects.
* **ConsumerSilent** (`NeverSilent`): tasks that fail before their delivery loop
  report to nobody, and the monitor waits for ever.
* **ConsumerPanic** (`ErrorIsContained`): one channel's exception closes the
  shared connection; a sibling gets a nil notification and dereferences it.
* **RetryPush** (`RetriesBounded`): `retryClient.Push` sends the old header, so
  `MaxReTry` is never reached.
* **RetryFanout** (`SettledOnce` with two queues on one exchange): a retry
  returns through the exchange to receives that had finished with it.

The bounds: `MaxLosses`, `MaxDialFailures`, `MaxGeneration`, `MaxRetries` and
`MaxPushes`, `EsTimeouts`, `CacheTimeouts`, `MaxExpiries` and `MaxServings` limit
the environment or the loops that the code leaves unlimited; `MaxAdds`, `EsCalls`,
`CacheCalls`, `MaxInits`, `MaxUses` and `MaxFiles` the calls and the input.  They
appear in guards and are constants of any value in the theorems.

Fairness.  `FairSpec` of each module assumes that goroutines are scheduled (weak
fairness of each one's steps); that a mutex is not withheld for ever from a
waiting pusher (strong fairness of `AcquireLock`: `sync.Mutex` hands over to a
waiter after a millisecond); that `select`, which picks a ready case at random,
eventually takes a notification that stays ready (strong fairness of
`RetryFlow`'s `Notified`); and that the broker delivers and expires messages.  `BulkFairness` assumes that
savers and the indexer's workers are scheduled, that a worker's ticker makes it
flush what it has, and that the transport ends a request in the end; it does not
assume that the server answers.
Dials fail finitely often: with a broker that never returns, `tryConn` and
`retryConsume` loop for ever by design, the former with `channelLock` held.  In
`ReconnectCompletes`, `ErrorEndsTask` and `PushReturns` a panic ends the process
and with it the obligation; `PushReturns` would fail without that clause, since
`getConnection` panics with the lock held after a failed `Connect`.

Every property has a mutant in `PROJECT.json`: a slip of the code, defined beside
the definition it replaces, that makes TLC report exactly that property.

## 4. Proofs

The theorems hold for every value of the constants that satisfies the assumptions
of the modules (`ProducerAssumption` and `HashSeparatesSlots`, `ConsumerAssumption`,
`RetryAssumption`, `QueueAssumption`, `EsAssumption`, `HalfAssumption`, ...), not
only the instances above.  Those that need more say so in their own hypothesis, and each such
hypothesis has an instance among the runs.  Every invariant, action property and
refinement that a passing run checks is proved; liveness is not.

**ProducerPoolProofs.**  None of the properties is inductive.  `IInv` adds what
each pusher knows at its place in `rPush`: it holds `channelLock` in the critical
section, its slot and target are valid, the connection it is about to dial is
down and the target's key forgotten, the channel in its hands is either new and
uncached or sits under its own key; and what the shared state satisfies: a cached
channel lies under the hash code of the target it declared (`CacheOK`), an open
channel has an open connection and somebody who knows it (`OpenOK`).  One lemma
per action shows that `IInv` is kept; `Bystander` handles the other pushers.
From it follow `TypeCorrect`, `NoTurnIsLost`, `RedialIsFresh`,
`NoChannelIsOrphaned`, `PanicMeansShort` with its corollary
`NeverPanicsOnceConnected` for a full `Connect` and, if hash codes also
separate the targets of one connection, `PublishesDeclared`.  `GivesUpAfterDrop`
rests on a second invariant beside `IInv`, `Lossless`, about executions in which
nothing has been lost yet: every connection is up, every cached channel is open,
each pusher is at its first attempt, and a channel that is being declared is in
nobody else's hands.  It assumes, too, that hash codes separate targets (otherwise
two pushers share a channel, and a rejected declaration of the one closes it under
the other) and that `pushMaxTime` allows an attempt.  `RefusalsHaveReasons`, with
the assumption on hash codes, rests on a third, `SoundAll`: while an attempt has lost
nothing, the connection it found is open, the channel it declares is open, and it is
without one only when no number was free and its key led nowhere; that the open channels are those the keys lead to, or of
rejected types, is in `IInv`.
`LiveConnectionIsKept` is an action
property proved from `IInv` step by step: the connection that `Dial` replaces was found down
by a pusher that has held the lock ever since, and no other step replaces one.

**ConsumerPoolProofs.**  `Handshake` describes the protocol around `errorChanel`:
the task that sends holds `statusLock` with `status` unset, a monitor that has
received is covered by `status` or by the task about to set it, and no two pools
reconnect at once.  It gives `ReconnectsExclude`, `StatusIsCleared`,
`NoSendMeetsReconnect` and, for a process with one pool, `SinglePoolDropsSafely`
(whose hypothesis the run ConsumerPools shows to be necessary).  `Custody`
relates tasks' channels to connections: an open channel has an open connection,
a task of a future generation does not exist, and a channel that this process
closed points to a sibling ended by an exception.  It gives
`NilNoticeIsCaused`.  Both invariants were checked by TLC on the consumer
configurations before they were proved.

`PoolsImplementReconnection` needs both: `Handshake` for a rendezvous to find no
pool reconnecting and a drop to find one, `Custody` for tasks to be of lists that
have been started.  For each action the lemmas name the step of Reconnection that
it is, or show that the mapped state stays (`OneTaskImplements`, `TaskStepImplements`,
`MonitorStepImplements`, `DropImplements`).  `RebuildsArePaidFor` then reasons about
Reconnection's steps alone: `Paid` says that of the tasks of the first n - 1 lists at
least n - 1 have settled their error while a pool listens on its list n, and of the
first n lists at least n from the moment its next reconnect starts, since the error
that started it is one more (`SettlingPays`).  A task that ends without an error
counts as settled, too: the bound is on tasks spent, not on errors reported.
`UndisturbedPoolConsumes` has an invariant of its own, `Undisturbed`: until the first
loss the connections of the first list are open and no other list has been begun, no
monitor has left its receive, and every task goes on, on a connection of that list.

**RetryFlowProofs.**  Three invariants, each inductive with `TypeOK`.  `Hands` is
what a task can hold at each point of `consumeTask`: the broker owes its channel
only what the client has buffered or the callback has.  `Counts` relates the
callbacks that a copy has had to the number in its header: a waiting copy has had
at most nums + requeued + pushed, one that a callback has one more, and a copy
with its number used up is not published again; hence `AutoRetriesAreBounded`.
`Conserved` counts a message wherever it can be, in the queue, the dead-letter
queue, a retry goroutine, a client's buffer or a callback, and what has become of
it: never more than one and what the broker took back, and exactly one while the
queue has lost no channel.  Bags are counted as sets of tokens, since sums over a
bag are defined recursively; lemmas at the head of the module say what `BagAdd`
and `BagRemove` do to them.  `SettlesOnce` needs that the routes do not lead from
one receive to another (`Independent`; RetryFanout shows why), `OnlyChannelsLose`
that each receive has an exchange of its own (`OwnExchanges`).

**ChannelQueueProofs.**  `QInv` adds to `Chained` what holds while a client works
under the lock: it is the only one, a `Pop` in progress has a node to take, and
the counter is ahead of the list by exactly its step.  `LinkEffect` and
`UnlinkEffect` describe the new list, from which `LinkPuts` and `UnlinkTakes`
derive that the items from head to end gain their last or lose their first
element.  `Chained`, that `Pop` reaches every node
`Add` has linked, is proved and not run by itself: where it fails so does
`FirstInFirstOut`.  Results: `QueueTypeCorrect`, `ListIsChained`, `CountStaysClose` and the
refinement `QueueRefinesFifo`.

**RemoteProofs, AnswerProofs.**  RemoteProofs shows once, for any server, what the
callers of Remote can rely on.  `OwnLetters`: no try on the wire is of a call to
come, those of the present call carry its request, and without a doubt there is
one of them, which is gone once the reply is there.  `DoneIsAccepted`: an accepted
reply was carried out while its caller waited, and what was carried out without a
doubt has an accepted reply.  One lemma per step keeps `RemoteInv`, and asks of the
server only that its replies are of the set `R`.  `RepliesAreHonest` states the
result for itself: with any server that stays among states `S`, an accepted reply
was carried out while its caller waited, and a call without a doubt that has no
accepted reply was not.  AnswerProofs instantiates it for
both clients and adds what is theirs.  For es: `EsServed` (requests keep the server
well formed) and `EsSays` (what each function makes of a reply), hence
`EsIsWellFormed` and `EsTellsTheTruth`; `EsAssumption` takes the names of documents
to be finitely many, for the size of a page to be a number.  For the cache:
`CacheTellsTheTruth` the same way, and `NoTwoClaimTheSame` by
`GrantsHold`, about claims together with the replies that their callers have not
returned yet: none speaks of a life of its key to come, a count within the present
life is at most the value, a life that was deleted is over.  As a life's value only
grows and lives only begin (`CommandOK`), a new grant differs from all others.

**EsBulkProofs.**  `BulkInv`: the items that exist are those the savers have made,
each at one position of the queue, with one worker or settled in one way, and what
a served request's reply will say is true already (`ReplyIsTrue`, needed because
the answer arrives after the serving, or never).  Results: `NoDocumentForgotten`,
`SuccessTellsTheTruth`.

**LibraryProofs.**  `HandlesClosedByTheirOwn`: `DbInv` adds that what an `Init` has
opened stays open until it has published it, and that the global `Repo` is set when
`Init` reads it again.  `PoolsServe`: `PoolInv` adds what each goroutine has in its
hands, the pool to store or the address of a global that is not nil.
`ProfileWinsAlways`: `ConfigInv` says that the two raw contents are what the last
file of their scope says among those the loop has been through, for directories of
any length, how far decoding has come, and what the two values hold at
each point, from which `FailureLeavesIt` follows.
`RandomStaysInRange` needs no stronger invariant, since `drawn` follows from
`bounds`, but arithmetic: a float64 has every integer up to `Exact` (`FloatIsExact`:
below it the unit is 1, at it 2, which divides it, as powers of two do); and
wherever the values from min to max can be counted, the wraps of `Span` cancel
(`SpanCounts`) and the draw hits each of them (`DrawIsTheRange`).

**Only model-checked.**

* The liveness properties `PushReturns`, `ReconnectCompletes`, `ErrorEndsTask`,
  `EventuallySettled`, `BatchSettles`: fairness and ENABLED are out of the
  prover's reach.
* `DropsOnlyWhileReconnecting` for several pools and `SettledOnce` for receives
  that share a fanout exchange, which are false.  (With one pool the former follows
  from `StatusMeansReconnecting`, and is proved as `SinglePoolDropsSafely`.)

## 5. Not modelled

* The logger, time helpers, replies and security entities: no state and no
  protocol.  `hashCode` is the constant `HashCode` of ProducerPool; `RandomNum`
  is not used.
* The internals of amqp, gorm, go-redis, elasticsearch, mergo and ants beyond
  what their callers can observe.
* Timing: a sleep is a point where others may run; a timeout may come at any
  moment.
* Contents of messages, documents and search results.
* In RetryFlow: topic patterns, and callbacks that neither acknowledge nor have
  `IsAutoAck` do it for them: `Qos(1)` then stalls their task for good, so
  `EventuallySettled` supposes callbacks that return and acknowledge.  A message
  that one acknowledges after its channel was lost is delivered again, which is
  modelled.
* A second `cache.Init` or `InitESClient`, which would replace the client under
  its users (`db.Init` and the pools' are modelled with several calls).
* In EsBulk: a batch saved before `InitESClient`, whose nil indexer panics;
  closing of the indexer, which the code never does.
* Receives without `EventFail` (lines 665, 738, 79 and 100): a message given up
  then tells nobody, and `LostOnlyWithAChannel` and `EventuallySettled` are not
  meant for them.
* In ProfileConfig: merging of nested fields, and a typed nil pointer as the
  caller's argument (nil itself is modelled).

## 6. Beyond this project

Every component with behaviour is modelled, and what its passing runs check is
proved, liveness excepted.  What could follow: a specification of `Push` as a
service (a push succeeds, fails or waits) that ProducerPool implements; the bulk
indexer's promise to `DocumentBatchSave` likewise; and a composition of
ConsumerPool's tasks with RetryFlow's deliveries in place of the one-step
`Notified`.
