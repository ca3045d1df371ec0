------------------------------ MODULE EsIndex ------------------------------
(***************************************************************************)
(* es: calls on indices and single documents.  Each function sends one     *)
(* request over HTTP and turns what comes back into a boolean, a text or a *)
(* decoded map; the transport gives up on an answer after one second and   *)
(* sends the request again.  Texts of errors are told apart by their cause.*)
(***************************************************************************)
EXTENDS Integers, FiniteSets

CONSTANTS
  EsCallers,     \* goroutines that call es
  Indices, Ids,  \* names of indices and of documents
  EsTries, EsTimeouts,  \* see Remote
  EsCalls,       \* bound: calls made
  NoIndex        \* the empty name

ASSUME EsAssumption ==
  /\ NoIndex \notin Indices /\ IsFiniteSet(Ids)
  /\ EsTries \in Nat \ {0} /\ EsTimeouts \in Nat /\ EsCalls \in Nat

VARIABLES
  esClient,  \* "nil" or "ready"
  esProcess, \* "running", "exited" (log.Fatalf) or "panicked"
  indices,   \* the server: each index and its documents
  esWire, esWaiting, esTimeouts,  \* see Remote
  esCalls,   \* calls made so far
  esAnswer     \* what each caller's last call returned

NoSuchIndex == [status |-> "absent", docs |-> {}]
NewIndex  == [NoSuchIndex EXCEPT !.status = "open"]
OldIndex == [NewIndex EXCEPT !.docs = Ids]

EsRequest(op, i, j, d) == [op |-> op, index |-> i, dest |-> j, id |-> d]
EsNoRequest == EsRequest("none", NoIndex, NoIndex, NoIndex)

---------------------------------------------------------------------------
(* Elasticsearch.  Mappings and aliases are put and looked at, no more is  *)
(* kept of them here.  Indexing into an index that is missing creates it;  *)
(* a closed index takes and yields no documents.                           *)
HasIndex(s, i) == s[i].status # "absent"
IsOpen(s, i)   == s[i].status = "open"

EsAccepts(q, s) ==
  CASE q.op = "lists"     -> TRUE
    [] q.op = "create"    -> ~HasIndex(s, q.index)
    [] q.op = "find"      -> IsOpen(s, q.index)
    [] q.op = "save"      -> s[q.index].status # "closed"
    [] q.op = "reindex"   -> IsOpen(s, q.index) /\ s[q.dest].status # "closed"
    [] OTHER              -> HasIndex(s, q.index)

AutoCreated(s, i) == IF HasIndex(s, i) THEN s[i] ELSE NewIndex
Filled(s, i, docs) == [s EXCEPT ![i] = [AutoCreated(s, i) EXCEPT !.docs = @ \cup docs]]

EsChanged(q, s) ==
  CASE q.op = "create"  -> [s EXCEPT ![q.index] = NewIndex]
    [] q.op = "delete"  -> [s EXCEPT ![q.index] = NoSuchIndex]
    [] q.op = "close"   -> [s EXCEPT ![q.index].status = "closed"]
    [] q.op = "reindex" -> Filled(s, q.dest, s[q.index].docs)
    [] q.op = "save"    -> Filled(s, q.index, {q.id})
    [] OTHER -> s

(* The part of a reply's body that a function looks at.                    *)
EsBody(q, s) ==
  CASE q.op = "isClose" -> IF s[q.index].status = "closed" THEN 1 ELSE 0
    [] q.op = "find"    -> Cardinality(s[q.index].docs)
    [] OTHER -> 0

Elasticsearch(q, s) ==
  IF EsAccepts(q, s)
  THEN [server |-> EsChanged(q, s), reply |-> [accepted |-> TRUE, body |-> EsBody(q, s)]]
  ELSE [server |-> s, reply |-> [accepted |-> FALSE, body |-> 0]]

ES == INSTANCE Remote WITH
  Callers <- EsCallers, MaxTries <- EsTries, MaxTimeouts <- EsTimeouts, Apply <- Elasticsearch,
  NoRequest <- EsNoRequest,
  server <- indices, wire <- esWire, waiting <- esWaiting, timeouts <- esTimeouts

esRemote == <<indices, esWire, esWaiting, esTimeouts>>
esVars == <<esClient, esProcess, esRemote, esCalls, esAnswer>>

---------------------------------------------------------------------------
(* done and doubt say what Remote knows of the call: it was carried out,   *)
(* it may have been without the caller's knowing.                          *)
EsNoAnswer == [op |-> "none", said |-> "none", size |-> 0, done |-> FALSE, doubt |-> FALSE]

(* What the server holds, it holds from earlier days.                      *)
EsInit ==
  /\ esClient = "nil" /\ esProcess = "running" /\ esCalls = 0
  /\ \E s \in [Indices -> {NoSuchIndex, OldIndex}] : ES!RemoteInit(s)
  /\ esAnswer = [c \in EsCallers |-> EsNoAnswer]

(* An error status of Info is as good as any answer.                       *)
InitESClient ==
  /\ esProcess = "running" /\ esClient = "nil"
  /\ \/ esClient' = "ready" /\ UNCHANGED esProcess
     \/ esProcess' = "exited" /\ UNCHANGED esClient
  /\ UNCHANGED <<esRemote, esCalls, esAnswer>>

EsBegin(c) ==
  /\ esProcess = "running" /\ ~esWaiting[c].busy
  /\ esCalls < EsCalls /\ esCalls' = esCalls + 1
  /\ UNCHANGED esClient

(* A call before InitESClient dereferences the nil client.                 *)
EsDo(c, q) ==
  /\ EsBegin(c)
  /\ esAnswer' = [esAnswer EXCEPT ![c] = EsNoAnswer]
  /\ \/ esClient = "ready" /\ ES!Send(c, q) /\ UNCHANGED esProcess
     \/ esClient = "nil" /\ esProcess' = "panicked" /\ UNCHANGED esRemote

(* A call that returns before it sends anything.                           *)
EsReject(c, op, said) ==
  /\ EsBegin(c)
  /\ esAnswer' = [esAnswer EXCEPT ![c] = [EsNoAnswer EXCEPT !.op = op, !.said = said]]
  /\ UNCHANGED <<esProcess, esRemote>>

OnIndex(op, i) == EsRequest(op, i, NoIndex, NoIndex)

IndexLists(c)         == EsDo(c, OnIndex("lists", NoIndex))
IndexExist(c, i)      == EsDo(c, OnIndex("exist", i))
IndexCreate(c, i)     == EsDo(c, OnIndex("create", i)) \/ EsReject(c, "create", "text")
IndexGetMapping(c, i) == EsDo(c, OnIndex("look", i))
IndexPutMapping(c, i) == EsDo(c, OnIndex("put", i)) \/ EsReject(c, "put", "text")
IndexReindex(c, i, j) == EsDo(c, EsRequest("reindex", i, j, NoIndex))
IndexClose(c, i) ==
  \/ i # NoIndex /\ EsDo(c, OnIndex("close", i))
  \/ i = NoIndex /\ EsReject(c, "close", "false")
IndexDelete(c, i)     == EsDo(c, OnIndex("delete", i))
IndexAlias(c, i)      == EsDo(c, OnIndex("put", i))
IndexAliasLists(c, i) == EsDo(c, OnIndex("look", i))
IndexIsClose(c, i)    == EsDo(c, OnIndex("isClose", i))
DocumentFind(c, i)    == EsDo(c, OnIndex("find", i))
(* An empty name, a document without id or data, one that cannot be        *)
(* encoded: nothing is sent.                                               *)
DocumentSave(c, i, d) ==
  \/ EsDo(c, EsRequest("save", i, NoIndex, d))
  \/ EsReject(c, "save", "text")

---------------------------------------------------------------------------
(* Slips that the configuration is tested against: only a failed transport *)
(* counts as an error; Pager takes its size from any reply.                *)
NoResponse(reply)      == reply.body < 0
SizeOf(reply, read)    == reply.body

---------------------------------------------------------------------------
(* What a function makes of a reply; read says whether its body could be   *)
(* read and decoded.  No reply came if body is negative.                   *)
IsError(reply) == ~reply.accepted

Flag(reply) == IF IsError(reply) THEN "false" ELSE "true"

Decoded(reply, read) == IF ~IsError(reply) /\ read THEN "map" ELSE "text"

ListsSaid(reply) == IF reply.body < 0 THEN "text" ELSE "map"

IsCloseSaid(reply, read) ==
  CASE IsError(reply) -> "false"
    [] ~IsError(reply) /\ ~read -> "exit"
    [] OTHER -> IF reply.body = 1 THEN "true" ELSE "false"

(* Every text is returned as an error, the one with the version as well.   *)
SaveSaid(reply, read) == IF ~IsError(reply) /\ read THEN "version" ELSE "text"

(* Pager's page size is 20 unless a search answered.                       *)
PageSize(reply, read) == IF ~IsError(reply) /\ read THEN reply.body ELSE 20

Said(op, reply, read) ==
  CASE op \in {"exist", "close", "delete"} -> Flag(reply)
    [] op = "lists"   -> ListsSaid(reply)
    [] op = "isClose" -> IsCloseSaid(reply, read)
    [] op = "save"    -> SaveSaid(reply, read)
    [] op = "find"    -> "page"
    [] OTHER          -> Decoded(reply, read)

EsReturn(c) ==
  LET w  == esWaiting[c]
      op == w.request.op
  IN  /\ esProcess = "running"
      /\ ES!Finish(c)
      /\ \E read \in BOOLEAN :
           /\ read \/ op \notin {"exist", "close", "delete", "lists"}
           /\ esAnswer' = [esAnswer EXCEPT ![c] =
                [op |-> op, said |-> Said(op, w.reply, read), done |-> w.done,
                 doubt |-> w.doubt \/ ~read,
                 size |-> IF op = "find" THEN PageSize(w.reply, read) ELSE 0]]
           /\ esProcess' = IF Said(op, w.reply, read) = "exit" THEN "exited" ELSE esProcess
      /\ UNCHANGED <<esClient, esCalls>>

EsTransport == ES!Underway /\ UNCHANGED <<esClient, esProcess, esCalls, esAnswer>>

EsCall(c) ==
  \/ IndexLists(c)
  \/ \E i \in Indices :
       \/ IndexExist(c, i) \/ IndexCreate(c, i) \/ IndexGetMapping(c, i) \/ IndexPutMapping(c, i)
       \/ IndexDelete(c, i) \/ IndexAlias(c, i) \/ IndexAliasLists(c, i) \/ IndexIsClose(c, i)
       \/ DocumentFind(c, i)
       \/ \E d \in Ids : DocumentSave(c, i, d)
       \/ \E j \in Indices \ {i} : IndexReindex(c, i, j)
  \/ \E i \in Indices \cup {NoIndex} : IndexClose(c, i)

EsNext == InitESClient \/ (\E c \in EsCallers : EsCall(c) \/ EsReturn(c)) \/ EsTransport

EsSpec == EsInit /\ [][EsNext]_esVars

---------------------------------------------------------------------------
EsTypeOK ==
  /\ esClient \in {"nil", "ready"} /\ esProcess \in {"running", "exited", "panicked"}
  /\ indices \in [Indices -> [status : {"absent", "open", "closed"},
                             docs : SUBSET Ids]]
  /\ esCalls \in 0 .. EsCalls /\ esTimeouts \in 0 .. EsTimeouts
  /\ \A c \in EsCallers :
       /\ esAnswer[c].said \in {"none", "true", "false", "map", "text", "version", "page", "exit"}
       /\ esAnswer[c].size \in Nat

EsWrites == {"create", "put", "reindex", "close", "delete", "save"}

(* A boolean true, a decoded map, a version: the server carried the call   *)
(* out while its caller waited.  A false or a text from a call that writes *)
(* means it did not, unless some try timed out or the body was unreadable: *)
(* then it may have, and IndexDelete may say false of the index that its   *)
(* own first try deleted.                                                  *)
AnswersAreTrue ==
  \A c \in EsCallers : LET a == esAnswer[c] IN
    /\ a.said \in {"true", "version"} \/ (a.said = "map" /\ a.op # "lists") => a.done
    /\ a.op \in EsWrites /\ a.said \in {"false", "text"} /\ ~a.doubt => ~a.done
=============================================================================
