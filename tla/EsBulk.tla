------------------------------- MODULE EsBulk -------------------------------
(***************************************************************************)
(* es: DocumentBatchSave and the bulk indexer it feeds.  A batch's         *)
(* documents go one by one into the indexer's queue; NumCPU workers take   *)
(* them into buffers and flush those in requests of their own.  The call   *)
(* returns when its last document is in the queue: what becomes of them is *)
(* told to the callbacks only.  The indexer (esutil) is external, and has  *)
(* been made by InitESClient: before, its nil would panic.                 *)
(***************************************************************************)
EXTENDS Integers, Sequences, SequencesExt, FiniteSets

CONSTANTS
  Savers,        \* goroutines that call DocumentBatchSave, once each
  Batches,       \* what they save: for each document, can it be encoded?
  BulkWorkers,   \* the indexer's workers; its queue has room for as many
  MaxServings    \* bound: times the server gets one bulk request

ASSUME BulkAssumption ==
  Batches \subseteq Seq(BOOLEAN) /\ BulkWorkers # {} /\ MaxServings \in Nat \ {0}

VARIABLES
  batch,     \* each saver's documents, and how many it has been through
  bulkQueue, \* the indexer's queue
  buffer,    \* each worker's buffer
  flushing,  \* each worker's request under way
  indexed,   \* items the server has indexed
  fates      \* items whose OnSuccess or OnFailure ran, or whose flush failed

bulkVars == <<batch, bulkQueue, buffer, flushing, indexed, fates>>

NotCalled == [docs |-> <<>>, added |-> 0, pc |-> "idle"]
NoFlush   == [items |-> <<>>, servings |-> 0, refused |-> {}]
NoFates   == [success |-> {}, failure |-> {}, dropped |-> {}]

BulkInit ==
  /\ batch = [s \in Savers |-> NotCalled]
  /\ bulkQueue = <<>>
  /\ buffer = [w \in BulkWorkers |-> <<>>]
  /\ flushing = [w \in BulkWorkers |-> NoFlush]
  /\ indexed = {} /\ fates = NoFates

Document(s, n)   == [by |-> s, nth |-> n]
Item(s, n, body) == [by |-> s, nth |-> n, body |-> body]
Sound(s, n)      == batch[s].docs[n]

---------------------------------------------------------------------------
(* Slips that the configuration is tested against: a document that cannot  *)
(* be encoded is passed over, or goes with the data of the one before it;  *)
(* the indexer has no interval and flushes full buffers only.              *)
PassOver(s, n) == IF Sound(s, n) THEN Append(bulkQueue, Item(s, n, "data")) ELSE bulkQueue
StaleBody(s, n) == "data"
WhenFull(w)     == Len(buffer[w]) > 1

---------------------------------------------------------------------------
DocumentBatchSave(s, docs) ==
  /\ batch[s].pc = "idle"
  /\ batch' = [batch EXCEPT ![s] = [docs |-> docs, added |-> 0, pc |-> "loop"]]
  /\ UNCHANGED <<bulkQueue, buffer, flushing, indexed, fates>>

(* A document that cannot be encoded is logged and goes on with an empty   *)
(* body.                                                                   *)
BodyOf(s, n) == IF Sound(s, n) THEN "data" ELSE "empty"

Queued(s, n) == Append(bulkQueue, Item(s, n, BodyOf(s, n)))

(* The indexer's Add waits for room in the queue; its context is never     *)
(* cancelled, so it has no error to return.                                *)
AddDocument(s) ==
  LET n == batch[s].added + 1
  IN  /\ batch[s].pc = "loop" /\ n <= Len(batch[s].docs)
      /\ Len(bulkQueue) < Cardinality(BulkWorkers)
      /\ bulkQueue' = Queued(s, n)
      /\ batch' = [batch EXCEPT ![s].added = n]
      /\ UNCHANGED <<buffer, flushing, indexed, fates>>

ReturnNil(s) ==
  /\ batch[s].pc = "loop" /\ batch[s].added = Len(batch[s].docs)
  /\ batch' = [batch EXCEPT ![s].pc = "returned"]
  /\ UNCHANGED <<bulkQueue, buffer, flushing, indexed, fates>>

---------------------------------------------------------------------------
FreeWorker(w) == flushing[w] = NoFlush

Collect(w) ==
  /\ FreeWorker(w) /\ bulkQueue # <<>>
  /\ buffer' = [buffer EXCEPT ![w] = Append(@, Head(bulkQueue))]
  /\ bulkQueue' = Tail(bulkQueue)
  /\ UNCHANGED <<batch, flushing, indexed, fates>>

(* The buffer has FlushBytes, or FlushInterval has gone by.                *)
TimeToFlush(w) == buffer[w] # <<>>

FlushBuffer(w) ==
  /\ FreeWorker(w) /\ TimeToFlush(w)
  /\ flushing' = [flushing EXCEPT ![w] = [NoFlush EXCEPT !.items = buffer[w]]]
  /\ buffer' = [buffer EXCEPT ![w] = <<>>]
  /\ UNCHANGED <<batch, bulkQueue, indexed, fates>>

(* The server indexes the items but those it refuses: the empty ones, and  *)
(* any other for a reason of its own.  A request that is sent again after  *)
(* a timeout is served again.                                              *)
ServeBulk(w) ==
  LET items == ToSet(flushing[w].items)
  IN  /\ ~FreeWorker(w) /\ flushing[w].servings < MaxServings
      /\ \E refused \in SUBSET items :
           /\ { item \in items : item.body = "empty" } \subseteq refused
           /\ indexed' = indexed \cup (items \ refused)
           /\ flushing' = [flushing EXCEPT ![w].servings = @ + 1, ![w].refused = refused]
      /\ UNCHANGED <<batch, bulkQueue, buffer, fates>>

(* The reply to the last serving tells OnSuccess or OnFailure of each item.*)
BulkAnswered(w) ==
  /\ flushing[w].servings > 0
  /\ fates' = [fates EXCEPT
       !.success = @ \cup (ToSet(flushing[w].items) \ flushing[w].refused),
       !.failure = @ \cup flushing[w].refused]
  /\ flushing' = [flushing EXCEPT ![w] = NoFlush]
  /\ UNCHANGED <<batch, bulkQueue, buffer, indexed>>

(* The request fails, is refused as a whole or its answer is lost: the     *)
(* buffer is forgotten, and no callback runs.                              *)
FlushFails(w) ==
  /\ ~FreeWorker(w)
  /\ fates' = [fates EXCEPT !.dropped = @ \cup ToSet(flushing[w].items)]
  /\ flushing' = [flushing EXCEPT ![w] = NoFlush]
  /\ UNCHANGED <<batch, bulkQueue, buffer, indexed>>

SaverStep(s)  == AddDocument(s) \/ ReturnNil(s)
WorkerStep(w) == Collect(w) \/ FlushBuffer(w) \/ BulkAnswered(w) \/ FlushFails(w)

BulkNext ==
  \/ \E s \in Savers : SaverStep(s) \/ \E docs \in Batches : DocumentBatchSave(s, docs)
  \/ \E w \in BulkWorkers : WorkerStep(w) \/ ServeBulk(w)

(* Savers and workers are goroutines, a worker's ticker flushes what it    *)
(* has, and the transport gives up on a request in the end.                *)
BulkFairness == /\ \A s \in Savers : WF_bulkVars(SaverStep(s))
                /\ \A w \in BulkWorkers : WF_bulkVars(WorkerStep(w))

BulkSpec == BulkInit /\ [][BulkNext]_bulkVars /\ BulkFairness

---------------------------------------------------------------------------
Documents(items) == { Document(item.by, item.nth) : item \in items }
PassedBy(s) == { Document(s, n) : n \in 1 .. batch[s].added }

Held(w)  == ToSet(buffer[w]) \cup ToSet(flushing[w].items)
InFlight == ToSet(bulkQueue) \cup UNION { Held(w) : w \in BulkWorkers }

Settled == fates.success \cup fates.failure \cup fates.dropped

(* Every document that DocumentBatchSave has been through is with the      *)
(* indexer, or a callback or a failed flush has disposed of it; no two     *)
(* workers have it, and it meets one fate only.                            *)
NoneForgotten ==
  /\ UNION { PassedBy(s) : s \in Savers } = Documents(InFlight \cup Settled)
  /\ InFlight \cap Settled = {}
  /\ fates.success \cap fates.failure = {}
  /\ fates.dropped \cap (fates.success \cup fates.failure) = {}
  /\ \A v, w \in BulkWorkers : v # w => Held(v) \cap Held(w) = {}

(* OnSuccess runs for documents that were indexed, and never for one whose *)
(* data DocumentBatchSave could not encode.                                *)
SuccessIsIndexed ==
  \A item \in fates.success : item \in indexed /\ Sound(item.by, item.nth)

(* DocumentBatchSave returns, and every document of its batch meets its    *)
(* fate: no saver waits for ever on a full queue, and none stays in a      *)
(* buffer that never fills.                                                *)
BatchSettles ==
  \A s \in Savers : batch[s].pc = "loop" ~>
    /\ batch[s].pc = "returned"
    /\ PassedBy(s) \subseteq Documents(Settled)
=============================================================================
