----------------------------- MODULE AnswerProofs -----------------------------
(* What the callers of es and of the cache are told, for any number of     *)
(* callers, indices, documents, keys, tries and timeouts.  Both clients    *)
(* are instances of Remote, and rest on what RemoteProofs shows of it.     *)
EXTENDS EsIndex, RedisCache, FiniteSetTheorems, TLAPS

ESP == INSTANCE RemoteProofs WITH
  Callers <- EsCallers, MaxTries <- EsTries, MaxTimeouts <- EsTimeouts, Apply <- Elasticsearch,
  NoRequest <- EsNoRequest,
  server <- indices, wire <- esWire, waiting <- esWaiting, timeouts <- esTimeouts

---------------------------------------------------------------------------
(* Elasticsearch: what is asked, what is held, what is replied.            *)
EsOps == {"lists", "exist", "create", "look", "put", "reindex", "close", "delete",
          "isClose", "find", "save"}

EsRequests ==
  {q \in [op : EsOps, index : Indices \cup {NoIndex}, dest : Indices \cup {NoIndex},
          id : Ids \cup {NoIndex}] :
     /\ q.op # "lists" => q.index \in Indices
     /\ q.op = "reindex" => q.dest \in Indices
     /\ q.op = "save" => q.id \in Ids}

EsReplies == [accepted : BOOLEAN, body : Nat]

IndexStates == [status : {"absent", "open", "closed"}, docs : SUBSET Ids]

EsSayings == {"none", "true", "false", "map", "text", "version", "page", "exit"}

EsAnswers == [op : EsOps \cup {"none"}, said : EsSayings, size : Nat,
              done : BOOLEAN, doubt : BOOLEAN]

AnswerIsTrue(a) ==
  /\ a.said \in {"true", "version"} \/ (a.said = "map" /\ a.op # "lists") => a.done
  /\ a.op \in EsWrites /\ a.said \in {"false", "text"} /\ ~a.doubt => ~a.done

(* The inductive invariant: Remote's, and an answer for each caller.       *)
EsInv ==
  /\ ESP!RemoteInv(EsRequests, EsReplies)
  /\ indices \in [Indices -> IndexStates]
  /\ esClient \in {"nil", "ready"} /\ esProcess \in {"running", "exited", "panicked"}
  /\ esCalls \in 0 .. EsCalls
  /\ esAnswer \in [EsCallers -> EsAnswers]
  /\ \A c \in EsCallers : AnswerIsTrue(esAnswer[c])

LEMMA EsStates ==
  /\ NoSuchIndex \in IndexStates /\ NewIndex \in IndexStates /\ OldIndex \in IndexStates
BY DEF NoSuchIndex, NewIndex, OldIndex, IndexStates

LEMMA EsCounts ==
  ASSUME NEW s \in [Indices -> IndexStates], NEW i \in Indices
  PROVE  Cardinality(s[i].docs) \in Nat
<1>1. s[i].docs \subseteq Ids /\ IsFiniteSet(Ids)
  BY EsAssumption DEF IndexStates
<1> QED BY <1>1, FS_Subset, FS_CardinalityType

LEMMA EsFills ==
  ASSUME NEW s \in [Indices -> IndexStates], NEW i \in Indices, NEW docs \in SUBSET Ids
  PROVE  Filled(s, i, docs) \in [Indices -> IndexStates]
<1> DEFINE a == AutoCreated(s, i)
           b == [a EXCEPT !.docs = @ \cup docs]
<1>1. a \in IndexStates
  BY EsStates DEF AutoCreated
<1> HIDE DEF a
<1>2. b \in IndexStates
  BY <1>1 DEF IndexStates
<1>3. Filled(s, i, docs) = [s EXCEPT ![i] = b]
  BY DEF Filled, a
<1> HIDE DEF b
<1> QED BY <1>2, <1>3

(* A served request leaves the server and the reply well formed.           *)
LEMMA EsServed ==
  ASSUME NEW s \in [Indices -> IndexStates], NEW q \in EsRequests
  PROVE  /\ Elasticsearch(q, s).server \in [Indices -> IndexStates]
         /\ Elasticsearch(q, s).reply \in EsReplies
<1>1. /\ q.op = "lists" \/ q.index \in Indices
      /\ q.op = "reindex" => q.dest \in Indices
      /\ q.op = "save" => q.id \in Ids
  BY DEF EsRequests
<1>2. EsChanged(q, s) \in [Indices -> IndexStates]
  <2>1. CASE q.op = "create"
    BY <1>1, <2>1, EsStates DEF EsChanged
  <2>2. CASE q.op = "delete"
    BY <1>1, <2>2, EsStates DEF EsChanged
  <2>3. CASE q.op = "close"
    <3>1. q.index \in Indices
      BY <1>1, <2>3
    <3> DEFINE b == [s[q.index] EXCEPT !.status = "closed"]
    <3>2. b \in IndexStates
      BY <3>1 DEF IndexStates
    <3>3. EsChanged(q, s) = [s EXCEPT ![q.index] = b]
      BY <2>3 DEF EsChanged
    <3> HIDE DEF b
    <3> QED BY <3>1, <3>2, <3>3
  <2>4. CASE q.op = "reindex"
    <3>1. q.dest \in Indices /\ q.index \in Indices
      BY <1>1, <2>4
    <3>3. s[q.index].docs \in SUBSET Ids
      BY <3>1 DEF IndexStates
    <3>2. EsChanged(q, s) = Filled(s, q.dest, s[q.index].docs)
      BY <2>4 DEF EsChanged
    <3> QED BY <3>1, <3>2, <3>3, EsFills
  <2>5. CASE q.op = "save"
    <3>1. EsChanged(q, s) = Filled(s, q.index, {q.id})
      BY <2>5 DEF EsChanged
    <3>2. q.index \in Indices /\ {q.id} \in SUBSET Ids
      BY <1>1, <2>5
    <3> QED BY <3>1, <3>2, EsFills
  <2>6. CASE q.op \notin {"create", "delete", "close", "reindex", "save"}
    BY <2>6 DEF EsChanged
  <2> QED BY <2>1, <2>2, <2>3, <2>4, <2>5, <2>6
<1>3. EsBody(q, s) \in Nat
  <2>1. CASE q.op = "find"
    <3>1. q.index \in Indices
      BY <1>1, <2>1
    <3> QED BY <2>1, <3>1, EsCounts DEF EsBody
  <2>2. CASE q.op # "find"
    BY <2>2 DEF EsBody
  <2> QED BY <2>1, <2>2
<1> QED BY <1>2, <1>3 DEF Elasticsearch, EsReplies

LEMMA EsAsks ==
  ASSUME NEW i \in Indices
  PROVE  /\ \A op \in EsOps \ {"reindex", "save"} : OnIndex(op, i) \in EsRequests
         /\ OnIndex("lists", NoIndex) \in EsRequests
         /\ \A j \in Indices : EsRequest("reindex", i, j, NoIndex) \in EsRequests
         /\ \A d \in Ids : EsRequest("save", i, NoIndex, d) \in EsRequests
BY DEF EsRequests, EsOps, OnIndex, EsRequest

---------------------------------------------------------------------------
(* What a call's reply is made of.                                         *)
LEMMA EsSays ==
  ASSUME NEW op \in EsOps, NEW reply \in ESP!Replies(EsReplies), NEW read \in BOOLEAN
  PROVE  LET said == Said(op, reply, read) IN
         /\ said \in EsSayings
         /\ said \in {"true", "version"} \/ (said = "map" /\ op # "lists") => reply.accepted
         /\ op \in EsWrites /\ said \in {"false", "text"} /\ read => ~reply.accepted
         /\ PageSize(reply, read) \in Nat
<1>1. reply.accepted \in BOOLEAN /\ (reply.accepted => reply.body \in Nat)
  <2>1. CASE reply \in EsReplies
    BY <2>1 DEF EsReplies
  <2>2. CASE reply = ESP!NoReply
    BY <2>2 DEF ESP!NoReply
  <2>3. CASE reply = ESP!TimedOut
    BY <2>3 DEF ESP!TimedOut
  <2> QED BY <2>1, <2>2, <2>3 DEF ESP!Replies
<1>2. PageSize(reply, read) \in Nat
  BY <1>1 DEF PageSize, IsError
<1>3. Said(op, reply, read) \in EsSayings
  BY DEF Said, EsSayings, Flag, ListsSaid, IsCloseSaid, SaveSaid, Decoded
<1>4. Said(op, reply, read) \in {"true", "version"} \/ (Said(op, reply, read) = "map" /\ op # "lists")
        => reply.accepted
  BY <1>1 DEF Said, EsOps, Flag, IsCloseSaid, SaveSaid, Decoded, IsError, ListsSaid
<1>5. op \in EsWrites /\ Said(op, reply, read) \in {"false", "text"} /\ read => ~reply.accepted
  BY <1>1 DEF Said, EsWrites, Flag, SaveSaid, Decoded, IsError
<1> QED BY <1>2, <1>3, <1>4, <1>5

---------------------------------------------------------------------------
LEMMA EsInitOK == EsInit => EsInv
<1> SUFFICES ASSUME EsInit PROVE EsInv
  OBVIOUS
<1>1. PICK s \in [Indices -> {NoSuchIndex, OldIndex}] : ES!RemoteInit(s)
  BY DEF EsInit
<1>2. ESP!RemoteInit(s)
  BY <1>1 DEF ES!RemoteInit, ESP!RemoteInit, ES!Idle, ESP!Idle, ES!NoReply, ESP!NoReply
<1>3. ESP!RemoteInv(EsRequests, EsReplies)
  BY <1>2, EsAssumption, ESP!RemoteInitOK
<1>4. indices \in [Indices -> IndexStates]
  <2>1. indices = s
    BY <1>1 DEF ES!RemoteInit
  <2> QED BY <2>1, EsStates
<1>5. EsNoAnswer \in EsAnswers /\ AnswerIsTrue(EsNoAnswer)
  BY DEF EsNoAnswer, EsAnswers, AnswerIsTrue, EsWrites, EsSayings
<1> QED BY <1>3, <1>4, <1>5, EsAssumption DEF EsInit, EsInv

(* Sending a request, or none.                                             *)
LEMMA EsDoOK ==
  ASSUME EsInv, NEW c \in EsCallers, NEW q \in EsRequests, EsDo(c, q)
  PROVE  EsInv'
<1>1. EsNoAnswer \in EsAnswers /\ AnswerIsTrue(EsNoAnswer)
  BY DEF EsNoAnswer, EsAnswers, AnswerIsTrue, EsWrites, EsSayings
<1>2. /\ esAnswer' = [esAnswer EXCEPT ![c] = EsNoAnswer]
      /\ esCalls' \in 0 .. EsCalls /\ UNCHANGED esClient
  BY EsAssumption DEF EsDo, EsBegin, EsInv
<1>3. /\ ESP!RemoteInv(EsRequests, EsReplies)' /\ indices' = indices
      /\ esProcess' \in {"running", "exited", "panicked"}
  <2>1. CASE ES!Send(c, q) /\ UNCHANGED esProcess
    <3>1. ESP!Send(c, q) /\ indices' = indices
      BY <2>1 DEF ES!Send, ESP!Send, ES!Transmit, ESP!Transmit, ES!Letter, ESP!Letter,
                  ES!Idle, ESP!Idle, ES!NoReply, ESP!NoReply
    <3> QED BY <2>1, <3>1, ESP!SendOK DEF EsInv
  <2>2. CASE esProcess' = "panicked" /\ UNCHANGED esRemote
    BY <2>2, ESP!RemoteUnchanged DEF EsInv, esRemote
  <2> QED BY <2>1, <2>2 DEF EsDo
<1> QED BY <1>1, <1>2, <1>3 DEF EsInv

LEMMA EsRejectOK ==
  ASSUME EsInv, NEW c \in EsCallers, NEW op \in EsOps, NEW said \in {"text", "false"},
         EsReject(c, op, said)
  PROVE  EsInv'
<1> DEFINE a == [EsNoAnswer EXCEPT !.op = op, !.said = said]
<1>1. a \in EsAnswers /\ AnswerIsTrue(a)
  BY DEF EsNoAnswer, EsAnswers, AnswerIsTrue, EsWrites, EsSayings
<1>2. /\ esAnswer' = [esAnswer EXCEPT ![c] = a]
      /\ esCalls' \in 0 .. EsCalls /\ UNCHANGED <<esClient, esProcess, esRemote>>
  BY EsAssumption DEF EsReject, EsBegin, EsInv
<1>3. ESP!RemoteInv(EsRequests, EsReplies)'
  BY <1>2, ESP!RemoteUnchanged DEF EsInv, esRemote
<1> HIDE DEF a
<1> QED BY <1>1, <1>2, <1>3 DEF EsInv, esRemote

LEMMA EsCallOK == ASSUME EsInv, NEW c \in EsCallers, EsCall(c) PROVE EsInv'
<1>1. ASSUME NEW op \in EsOps \ {"reindex", "save"}, NEW i \in Indices, EsDo(c, OnIndex(op, i))
      PROVE  EsInv'
  BY <1>1, EsAsks, EsDoOK
<1>2. ASSUME NEW op \in EsOps, NEW said \in {"text", "false"}, EsReject(c, op, said)
      PROVE  EsInv'
  BY <1>2, EsRejectOK
<1>3. CASE IndexLists(c)
  <2>1. OnIndex("lists", NoIndex) \in EsRequests
    BY DEF EsRequests, EsOps, OnIndex, EsRequest
  <2> QED BY <1>3, <2>1, EsDoOK DEF IndexLists
<1>4. ASSUME NEW i \in Indices,
             \/ IndexExist(c, i) \/ IndexGetMapping(c, i) \/ IndexDelete(c, i) \/ IndexAlias(c, i)
             \/ IndexAliasLists(c, i) \/ IndexIsClose(c, i) \/ DocumentFind(c, i)
      PROVE  EsInv'
  BY <1>1, <1>4 DEF EsOps, IndexExist, IndexGetMapping, IndexDelete, IndexAlias,
                    IndexAliasLists, IndexIsClose, DocumentFind
<1>5. ASSUME NEW i \in Indices, IndexCreate(c, i) \/ IndexPutMapping(c, i)
      PROVE  EsInv'
  BY <1>1, <1>2, <1>5 DEF EsOps, IndexCreate, IndexPutMapping
<1>6. ASSUME NEW i \in Indices, NEW d \in Ids, DocumentSave(c, i, d)
      PROVE  EsInv'
  BY <1>2, <1>6, EsAsks, EsDoOK DEF EsOps, DocumentSave
<1>7. ASSUME NEW i \in Indices, NEW j \in Indices, IndexReindex(c, i, j)
      PROVE  EsInv'
  BY <1>7, EsAsks, EsDoOK DEF IndexReindex
<1>8. ASSUME NEW i \in Indices \cup {NoIndex}, IndexClose(c, i)
      PROVE  EsInv'
  BY <1>1, <1>2, <1>8 DEF EsOps, IndexClose
<1> QED BY <1>3, <1>4, <1>5, <1>6, <1>7, <1>8 DEF EsCall

(* Returning: the answer is made of a reply that tells what was done.      *)
LEMMA EsReturnOK == ASSUME EsInv, NEW c \in EsCallers, EsReturn(c) PROVE EsInv'
<1> DEFINE w     == esWaiting[c]
           op    == w.request.op
           reply == w.reply
<1>1. ESP!Finish(c) /\ indices' = indices
  BY DEF EsReturn, ES!Finish, ESP!Finish, ES!Idle, ESP!Idle, ES!NoReply, ESP!NoReply
<1>2. ESP!RemoteInv(EsRequests, EsReplies)'
  BY <1>1, ESP!FinishOK DEF EsInv
<1>3. /\ w \in ESP!Waits(EsRequests, EsReplies) /\ ESP!OwnLetters(EsRequests, c)
      /\ ESP!DoneIsAccepted(c) /\ w.busy
  BY <1>1 DEF EsInv, ESP!RemoteInv, ESP!RemoteTypeOK, ESP!Finish
<1>4. /\ w.request \in EsRequests /\ reply \in ESP!Replies(EsReplies)
      /\ w.done \in BOOLEAN /\ w.doubt \in BOOLEAN
  BY <1>3 DEF ESP!Waits, ESP!OwnLetters
<1>5. op \in EsOps
  BY <1>4 DEF EsRequests
<1>6. /\ reply.accepted => w.done
      /\ w.done /\ ~w.doubt => reply.accepted
  BY <1>3 DEF ESP!DoneIsAccepted
<1>7. PICK read \in BOOLEAN :
        /\ esAnswer' = [esAnswer EXCEPT ![c] =
             [op |-> op, said |-> Said(op, reply, read), done |-> w.done,
              doubt |-> w.doubt \/ ~read,
              size |-> IF op = "find" THEN PageSize(reply, read) ELSE 0]]
        /\ esProcess' = IF Said(op, reply, read) = "exit" THEN "exited" ELSE esProcess
  BY DEF EsReturn
<1> HIDE DEF w, op, reply
<1> DEFINE said == Said(op, reply, read)
           size == IF op = "find" THEN PageSize(reply, read) ELSE 0
           doubt == w.doubt \/ ~read
           a == [op |-> op, said |-> said, done |-> w.done, doubt |-> doubt, size |-> size]
<1>8. /\ said \in EsSayings /\ size \in Nat
      /\ said \in {"true", "version"} \/ (said = "map" /\ op # "lists") => reply.accepted
      /\ op \in EsWrites /\ said \in {"false", "text"} /\ read => ~reply.accepted
  BY <1>4, <1>5, EsSays
<1>9. esAnswer' = [esAnswer EXCEPT ![c] = a]
  BY <1>7
<1>10. doubt \in BOOLEAN /\ (doubt <=> w.doubt \/ ~read)
  BY <1>4
<1> HIDE DEF said, size, doubt
<1>11. a \in EsAnswers
  BY <1>4, <1>5, <1>8, <1>10 DEF EsAnswers
<1>12. AnswerIsTrue(a)
  <2>1. a.said = said /\ a.op = op /\ a.done = w.done /\ a.doubt = doubt
    OBVIOUS
  <2> HIDE DEF a
  <2> QED BY <1>4, <1>6, <1>8, <1>10, <2>1 DEF AnswerIsTrue
<1>13. esProcess' \in {"running", "exited", "panicked"} /\ UNCHANGED <<esClient, esCalls>>
  BY <1>7 DEF EsReturn, EsInv
<1> HIDE DEF a
<1> QED BY <1>1, <1>2, <1>9, <1>11, <1>12, <1>13 DEF EsInv

(* Between caller and server.                                              *)
LEMMA EsTransportOK == ASSUME EsInv, EsTransport PROVE EsInv'
<1>1. ESP!Underway
  BY DEF EsTransport, ES!Underway, ESP!Underway, ES!Serve, ESP!Serve, ES!Retry, ESP!Retry,
         ES!GiveUp, ESP!GiveUp, ES!Expecting, ESP!Expecting, ES!Transmit, ESP!Transmit,
         ES!Letter, ESP!Letter, ES!NoReply, ESP!NoReply, ES!TimedOut, ESP!TimedOut
<1>2. ASSUME NEW m \in esWire PROVE m.request \in EsRequests
  BY DEF EsInv, ESP!RemoteInv, ESP!RemoteTypeOK, ESP!Letters
<1>3. ESP!RemoteInv(EsRequests, EsReplies)'
  BY <1>1, <1>2, EsServed, EsAssumption, ESP!UnderwayOK DEF EsInv
<1>4. indices' \in [Indices -> IndexStates]
  <2>1. CASE \E m \in esWire : ES!Serve(m)
    <3>1. PICK m \in esWire : ES!Serve(m)
      BY <2>1
    <3>2. indices' = Elasticsearch(m.request, indices).server
      BY <3>1 DEF ES!Serve
    <3> QED BY <1>2, <3>2, EsServed DEF EsInv
  <2>2. CASE \E c \in EsCallers : ES!Retry(c) \/ ES!GiveUp(c)
    BY <2>2 DEF EsInv, ES!Retry, ES!GiveUp, ES!Expecting
  <2> QED BY <2>1, <2>2 DEF EsTransport, ES!Underway
<1> QED BY <1>3, <1>4 DEF EsInv, EsTransport

LEMMA EsInvariant == EsSpec => []EsInv
<1>1. EsInv /\ [EsNext]_esVars => EsInv'
  <2> SUFFICES ASSUME EsInv, [EsNext]_esVars PROVE EsInv'
    OBVIOUS
  <2>1. CASE InitESClient
    <3>1. UNCHANGED <<indices, esWire, esWaiting, esTimeouts, esCalls, esAnswer>>
      BY <2>1 DEF InitESClient, esRemote
    <3>2. ESP!RemoteInv(EsRequests, EsReplies)'
      BY <3>1, ESP!RemoteUnchanged DEF EsInv
    <3> QED BY <2>1, <3>1, <3>2 DEF EsInv, InitESClient
  <2>2. CASE \E c \in EsCallers : EsCall(c) \/ EsReturn(c)
    BY <2>2, EsCallOK, EsReturnOK
  <2>3. CASE EsTransport
    BY <2>3, EsTransportOK
  <2>4. CASE UNCHANGED esVars
    <3>1. UNCHANGED <<indices, esWire, esWaiting, esTimeouts, esCalls, esAnswer, esClient, esProcess>>
      BY <2>4 DEF esVars, esRemote
    <3>2. ESP!RemoteInv(EsRequests, EsReplies)'
      BY <3>1, ESP!RemoteUnchanged DEF EsInv
    <3> QED BY <3>1, <3>2 DEF EsInv
  <2> QED BY <2>1, <2>2, <2>3, <2>4 DEF EsNext
<1> QED BY <1>1, EsInitOK, PTL DEF EsSpec

(* Every state of the es client is well formed: what the server holds, how *)
(* often a try was given up, and what each caller's last call returned, a  *)
(* page size among it that is never negative, whatever failed.             *)
THEOREM EsIsWellFormed == EsSpec => []EsTypeOK
<1>1. EsInv => EsTypeOK
  BY DEF EsInv, EsTypeOK, ESP!RemoteInv, ESP!RemoteTypeOK, IndexStates, EsAnswers, EsSayings
<1> QED BY <1>1, EsInvariant, PTL

(* A true, a decoded map or a version from es is the truth: the server     *)
(* carried the call out while its caller waited.  A false or a text from a *)
(* call that writes means that it did not, unless a try was given up or    *)
(* the body could not be read.  However often requests are sent again and  *)
(* however late they arrive.                                               *)
THEOREM EsTellsTheTruth == EsSpec => []AnswersAreTrue
<1>1. EsInv => AnswersAreTrue
  BY DEF EsInv, AnswersAreTrue, AnswerIsTrue
<1> QED BY <1>1, EsInvariant, PTL

---------------------------------------------------------------------------
(* Redis: what is asked, what is held, what is replied.                    *)
RP == INSTANCE RemoteProofs WITH
  Callers <- CacheCallers, MaxTries <- CacheTries, MaxTimeouts <- CacheTimeouts, Apply <- Redis,
  NoRequest <- NoCommand,
  server <- redis, wire <- redisWire, waiting <- redisWaiting, timeouts <- redisTimeouts

AnyKey == CacheKeys \cup {NoKey}

CacheOps == {"set", "get", "ttl", "info", "expire", "exists", "del", "incr"}

CacheRequests == [op : CacheOps, key : AnyKey, value : Int, mortal : BOOLEAN]
CacheReplies  == [accepted : BOOLEAN, body : Int, life : Nat]

Entries == [here : BOOLEAN, value : Int, mortal : BOOLEAN]
Redises == [keys : [AnyKey -> Entries], life : [AnyKey -> Nat]]

(* Lives only begin, and within a life a value only grows.                 *)
Later(s, t) ==
  \A k \in AnyKey : /\ t.life[k] >= s.life[k]
                    /\ t.life[k] = s.life[k] => t.keys[k].value >= s.keys[k].value

LEMMA BothChange ==
  ASSUME NEW K, NEW L, NEW s \in [keys : K, life : L], NEW x \in K, NEW y \in L,
         NEW t, t = [s EXCEPT !.keys = x, !.life = y]
  PROVE  t \in [keys : K, life : L] /\ t.keys = x /\ t.life = y
OBVIOUS

LEMMA NewLifeOK ==
  ASSUME NEW s \in Redises, NEW k \in AnyKey, NEW e \in Entries
  PROVE  LET t == NewLife(s, k, e) IN
         t \in Redises /\ Later(s, t) /\ t.life[k] = s.life[k] + 1
<1> DEFINE t == NewLife(s, k, e)
           x == [s.keys EXCEPT ![k] = e]
           y == [s.life EXCEPT ![k] = s.life[k] + 1]
<1>1. s.keys \in [AnyKey -> Entries] /\ s.life \in [AnyKey -> Nat] /\ s.life[k] + 1 \in Nat
  BY DEF Redises
<1>2. t = [s EXCEPT !.keys = x, !.life = y]
  BY DEF NewLife
<1>3. x \in [AnyKey -> Entries] /\ y \in [AnyKey -> Nat]
  BY <1>1
<1> HIDE DEF t, x, y
<1>4. t \in Redises /\ t.keys = x /\ t.life = y
  BY <1>2, <1>3, BothChange DEF Redises
<1>5. t.life[k] = s.life[k] + 1 /\ \A j \in AnyKey \ {k} : t.life[j] = s.life[j] /\ t.keys[j] = s.keys[j]
  BY <1>1, <1>4 DEF x, y
<1>6. \A j \in AnyKey : s.life[j] \in Nat /\ s.keys[j].value \in Int
  BY <1>1 DEF Entries
<1>7. Later(s, t)
  BY <1>5, <1>6 DEF Later
<1> QED BY <1>4, <1>5, <1>7 DEF t

(* An entry changes within its life.                                       *)
LEMMA SameLifeOK ==
  ASSUME NEW s \in Redises, NEW k \in AnyKey, NEW e \in Entries, e.value >= s.keys[k].value,
         NEW t, t = [s EXCEPT !.keys[k] = e]
  PROVE  t \in Redises /\ Later(s, t) /\ t.life = s.life /\ t.keys[k] = e
<1>1. s.keys \in [AnyKey -> Entries] /\ s.life \in [AnyKey -> Nat]
  BY DEF Redises
<1>2. /\ t.keys = [s.keys EXCEPT ![k] = e] /\ t.life = s.life
      /\ t = [keys |-> t.keys, life |-> t.life]
  BY DEF Redises
<1>3. t.keys \in [AnyKey -> Entries] /\ t.life \in [AnyKey -> Nat]
  BY <1>1, <1>2
<1>4. t \in Redises
  BY <1>2, <1>3 DEF Redises
<1>5. t.keys[k] = e /\ \A j \in AnyKey \ {k} : t.keys[j] = s.keys[j]
  BY <1>1, <1>2
<1>6. \A j \in AnyKey : s.life[j] \in Nat /\ s.keys[j].value \in Int
  BY <1>1 DEF Entries
<1>7. Later(s, t)
  BY <1>2, <1>5, <1>6 DEF Later
<1> QED BY <1>2, <1>4, <1>5, <1>7

LEMMA CacheEntries ==
  ASSUME NEW e \in Entries
  PROVE  /\ Missing \in Entries /\ Counted(e) \in Entries /\ Counted(e).value = e.value + 1
         /\ [e EXCEPT !.mortal = TRUE] \in Entries /\ [e EXCEPT !.mortal = TRUE].value = e.value
         /\ \A n \in Int, mortal \in BOOLEAN : Value(n, mortal) \in Entries
<1>1. e.value + 1 \in Int
  BY DEF Entries
<1>2. Counted(e) \in Entries /\ Counted(e).value = e.value + 1
  BY <1>1 DEF Entries, Counted
<1>3. [e EXCEPT !.mortal = TRUE] \in Entries /\ [e EXCEPT !.mortal = TRUE].value = e.value
  BY DEF Entries
<1> QED BY <1>2, <1>3 DEF Entries, Missing, Value

(* A command that the server carries out.                                  *)
LEMMA CommandOK ==
  ASSUME NEW s \in Redises, NEW q \in CacheRequests
  PROVE  LET t == AfterCommand(q, s)
             k == q.key
         IN  /\ t \in Redises /\ Later(s, t)
             /\ q.op = "incr" => /\ t.life[k] = s.life[k]
                                 /\ t.keys[k].value = s.keys[k].value + 1
             /\ q.op = "del" /\ s.keys[k].here => t.life[k] = s.life[k] + 1
<1> DEFINE k == q.key
           e == s.keys[k]
           t == AfterCommand(q, s)
<1>1. /\ k \in AnyKey /\ q.value \in Int /\ q.mortal \in BOOLEAN /\ e \in Entries /\ e.value \in Int
  BY DEF CacheRequests, Redises, Entries
<1>2. CASE q.op = "set"
  <2>1. t = NewLife(s, k, Value(q.value, q.mortal))
    BY <1>2 DEF AfterCommand
  <2> QED BY <1>1, <1>2, <2>1, CacheEntries, NewLifeOK
<1>3. CASE q.op = "del" /\ e.here
  <2>1. t = NewLife(s, k, Missing)
    BY <1>3 DEF AfterCommand
  <2> HIDE DEF t, e
  <2>2. Missing \in Entries
    BY <1>1, CacheEntries
  <2>3. t \in Redises /\ Later(s, t) /\ t.life[k] = s.life[k] + 1
    BY <1>1, <2>1, <2>2, NewLifeOK
  <2> QED BY <1>3, <2>3 DEF t
<1>4. CASE q.op = "expire" /\ e.here /\ ~q.mortal
  <2>1. t = NewLife(s, k, Missing)
    BY <1>4 DEF AfterCommand
  <2> QED BY <1>1, <1>4, <2>1, CacheEntries, NewLifeOK
<1>5. CASE q.op = "expire" /\ e.here /\ q.mortal
  <2> DEFINE f == [e EXCEPT !.mortal = TRUE]
  <2>1. t = [s EXCEPT !.keys[k] = f]
    BY <1>5 DEF AfterCommand
  <2>2. f \in Entries /\ f.value = e.value
    BY <1>1, CacheEntries
  <2> HIDE DEF f, t
  <2>3. t \in Redises /\ Later(s, t)
    BY <1>1, <2>1, <2>2, SameLifeOK
  <2> QED BY <1>5, <2>3 DEF t
<1>6. CASE q.op = "incr"
  <2>1. t = [s EXCEPT !.keys[k] = Counted(e)]
    BY <1>6 DEF AfterCommand
  <2>2. Counted(e) \in Entries /\ Counted(e).value = e.value + 1
    BY <1>1, CacheEntries
  <2> HIDE DEF t
  <2>3. t \in Redises /\ Later(s, t) /\ t.life = s.life /\ t.keys[k] = Counted(e)
    BY <1>1, <2>1, <2>2, SameLifeOK
  <2> QED BY <1>6, <2>2, <2>3 DEF t
<1>7. CASE /\ q.op \notin {"set", "incr"} /\ ~(q.op = "del" /\ e.here)
           /\ ~(q.op = "expire" /\ e.here)
  <2>1. t = s
    BY <1>7 DEF AfterCommand
  <2>2. Later(s, s)
    BY DEF Later, Redises, Entries
  <2> QED BY <1>7, <2>1, <2>2
<1> QED BY <1>1, <1>2, <1>3, <1>4, <1>5, <1>6, <1>7

---------------------------------------------------------------------------
(* What Incr and Del told or are about to tell: a grant each, for a life   *)
(* of a key.  No two calls hold the same; none speaks of a life or a count *)
(* to come, and a life that was deleted is over.                           *)
Grant(c) == [op |-> redisWaiting[c].request.op, key |-> redisWaiting[c].request.key,
             by |-> <<c, redisWaiting[c].call>>,
             life |-> redisWaiting[c].reply.life, value |-> redisWaiting[c].reply.body]

Granted(c) == /\ redisWaiting[c].busy /\ redisWaiting[c].reply.accepted
              /\ redisWaiting[c].request.op \in {"incr", "del"}
              /\ Good(redisWaiting[c].request.op, redisWaiting[c].reply)

Grants == claims \cup {Grant(c) : c \in {d \in CacheCallers : Granted(d)}}

GrantSet == [op : {"incr", "del"}, key : AnyKey, by : CacheCallers \X Nat, life : Nat, value : Int]

Sound(g, s) ==
  /\ g.life <= s.life[g.key]
  /\ g.op = "incr" /\ g.life = s.life[g.key] => g.value <= s.keys[g.key].value
  /\ g.op = "del" => g.life < s.life[g.key]

Differ(g, h) == <<g.op, g.key, g.life, g.value>> # <<h.op, h.key, h.life, h.value>>

GrantsHold ==
  /\ Grants \subseteq GrantSet
  /\ \A g \in Grants : Sound(g, redis)
  /\ \A g, h \in Grants : g.by # h.by => Differ(g, h)

CacheAnswers == [op : CacheOps \cup {"none"}, good : BOOLEAN, asked : BOOLEAN,
                 done : BOOLEAN, doubt : BOOLEAN]

CacheIsTrue(a) ==
  /\ a.asked /\ a.good => a.done
  /\ a.op = "set" /\ ~a.good /\ ~a.doubt => ~a.done

(* The inductive invariant.                                                *)
CacheInv ==
  /\ RP!RemoteInv(CacheRequests, CacheReplies)
  /\ redis \in Redises
  /\ cacheAnswer \in [CacheCallers -> CacheAnswers]
  /\ \A c \in CacheCallers : CacheIsTrue(cacheAnswer[c])
  /\ GrantsHold

LEMMA SoundLater ==
  ASSUME NEW s \in Redises, NEW t \in Redises, Later(s, t), NEW g \in GrantSet, Sound(g, s)
  PROVE  Sound(g, t)
<1>1. /\ g.key \in AnyKey /\ g.life \in Nat /\ g.value \in Int
      /\ s.life[g.key] \in Nat /\ t.life[g.key] \in Nat
      /\ s.keys[g.key].value \in Int /\ t.keys[g.key].value \in Int
  BY DEF GrantSet, Redises, Entries
<1>2. /\ t.life[g.key] >= s.life[g.key]
      /\ t.life[g.key] = s.life[g.key] => t.keys[g.key].value >= s.keys[g.key].value
  BY <1>1 DEF Later
<1> QED BY <1>1, <1>2 DEF Sound

(* No new grant, and the server as it was or later.                        *)
LEMMA GrantsKept ==
  ASSUME GrantsHold, redis \in Redises, redis' \in Redises, Later(redis, redis'), Grants' \subseteq Grants
  PROVE  GrantsHold'
BY SoundLater DEF GrantsHold

LEMMA LaterSelf == ASSUME NEW s \in Redises PROVE Later(s, s)
BY DEF Later, Redises, Entries

(* One new grant.                                                          *)
LEMMA GrantsGrow ==
  ASSUME GrantsHold, redis \in Redises, redis' \in Redises, Later(redis, redis'),
         NEW g \in GrantSet, Grants' \subseteq Grants \cup {g}, Sound(g, redis'),
         \A h \in Grants : Differ(g, h)
  PROVE  GrantsHold'
<1>1. \A h \in Grants : Sound(h, redis')
  BY SoundLater DEF GrantsHold
<1>2. \A h \in Grants : Differ(h, g)
  BY DEF Differ
<1> QED BY <1>1, <1>2 DEF GrantsHold

(* The callers hold no grants but those they held.                         *)
LEMMA NoNewGrants ==
  ASSUME claims' = claims,
         \A c \in CacheCallers : \/ redisWaiting'[c] = redisWaiting[c]
                                 \/ ~redisWaiting'[c].busy
                                 \/ ~redisWaiting'[c].reply.accepted
  PROVE  Grants' \subseteq Grants
<1>1. ASSUME NEW c \in CacheCallers, Granted(c)' PROVE Granted(c) /\ Grant(c)' = Grant(c)
  <2>1. redisWaiting'[c] = redisWaiting[c]
    BY <1>1 DEF Granted
  <2> QED BY <1>1, <2>1 DEF Granted, Grant
<1> QED BY <1>1 DEF Grants

LEMMA CacheGood ==
  ASSUME NEW op \in CacheOps, NEW reply \in RP!Replies(CacheReplies)
  PROVE  /\ reply.accepted \in BOOLEAN /\ Good(op, reply) \in BOOLEAN
         /\ reply.accepted => reply.body \in Int /\ reply.life \in Nat
         /\ Good(op, reply) => reply.accepted
         /\ op = "set" /\ reply.accepted => Good(op, reply)
         /\ op = "del" /\ Good(op, reply) => reply.body > 0
<1>1. /\ reply.accepted \in BOOLEAN
      /\ reply.accepted => reply.body \in Int /\ reply.life \in Nat
  <2>1. CASE reply \in CacheReplies
    BY <2>1 DEF CacheReplies
  <2>2. CASE reply = RP!NoReply
    BY <2>2 DEF RP!NoReply
  <2>3. CASE reply = RP!TimedOut
    BY <2>3 DEF RP!TimedOut
  <2> QED BY <2>1, <2>2, <2>3 DEF RP!Replies
<1>2. /\ Good(op, reply) \in BOOLEAN
      /\ Good(op, reply) => reply.accepted
      /\ op = "set" /\ reply.accepted => Good(op, reply)
      /\ op = "del" /\ Good(op, reply) => reply.body > 0
  BY <1>1 DEF Good, NoErr, Positive, NonZero, CacheOps
<1> QED BY <1>1, <1>2

---------------------------------------------------------------------------
LEMMA CacheInitOK == CacheInit => CacheInv
<1> SUFFICES ASSUME CacheInit PROVE CacheInv
  OBVIOUS
<1> DEFINE held(s) == [keys |-> [k \in AnyKey |-> IF k = NoKey THEN Missing ELSE s[k]],
                       life |-> [k \in AnyKey |-> 0]]
<1>1. PICK s \in [CacheKeys -> {Missing, Value(0, TRUE)}] : Line!RemoteInit(held(s))
  BY DEF CacheInit, AnyKey
<1>2. Missing \in Entries /\ Value(0, TRUE) \in Entries
  BY DEF Missing, Value, Entries
<1>3. held(s) \in Redises
  <2>1. \A k \in AnyKey : (IF k = NoKey THEN Missing ELSE s[k]) \in Entries
    BY <1>2 DEF AnyKey
  <2>2. /\ [k \in AnyKey |-> IF k = NoKey THEN Missing ELSE s[k]] \in [AnyKey -> Entries]
        /\ [k \in AnyKey |-> 0] \in [AnyKey -> Nat]
    BY <2>1
  <2> QED BY <2>2 DEF Redises
<1> HIDE DEF held
<1>4. redis \in Redises /\ \A c \in CacheCallers : redisWaiting[c] = Line!Idle
  BY <1>1, <1>3 DEF Line!RemoteInit
<1>5. RP!RemoteInit(held(s))
  BY <1>1 DEF Line!RemoteInit, RP!RemoteInit, Line!Idle, RP!Idle, Line!NoReply, RP!NoReply
<1>6. RP!RemoteInv(CacheRequests, CacheReplies)
  BY <1>5, CacheAssumption, RP!RemoteInitOK
<1>7. Grants = {}
  <2>1. \A c \in CacheCallers : ~Granted(c)
    BY <1>4 DEF Granted, Line!Idle
  <2> QED BY <2>1 DEF Grants, CacheInit
<1>8. CacheNoAnswer \in CacheAnswers /\ CacheIsTrue(CacheNoAnswer)
  BY DEF CacheNoAnswer, CacheAnswers, CacheIsTrue
<1> QED BY <1>4, <1>6, <1>7, <1>8 DEF CacheInit, CacheInv, GrantsHold

(* A step that leaves the server, the callers' replies and the claims.     *)
LEMMA CacheIdleOK ==
  ASSUME CacheInv, UNCHANGED <<line, claims>>,
         cacheAnswer' \in [CacheCallers -> CacheAnswers],
         \A c \in CacheCallers : CacheIsTrue(cacheAnswer'[c])
  PROVE  CacheInv'
<1>1. UNCHANGED <<redis, redisWire, redisWaiting, redisTimeouts, claims>>
  BY DEF line
<1>2. RP!RemoteInv(CacheRequests, CacheReplies)'
  BY <1>1, RP!RemoteUnchanged DEF CacheInv
<1>3. Grants' \subseteq Grants
  BY <1>1, NoNewGrants
<1>4. GrantsHold'
  BY <1>1, <1>3, LaterSelf, GrantsKept DEF CacheInv
<1> QED BY <1>1, <1>2, <1>4 DEF CacheInv

LEMMA CacheDoOK ==
  ASSUME CacheInv, NEW c \in CacheCallers, NEW q \in CacheRequests, CacheDo(c, q)
  PROVE  CacheInv'
<1>1. claims' = claims
  BY DEF CacheDo, CacheBegin
<1>2. CASE /\ Line!Send(c, q)
           /\ cacheAnswer' = [cacheAnswer EXCEPT ![c] = CacheNoAnswer]
  <2>1. RP!Send(c, q) /\ redis' = redis
    BY <1>2 DEF Line!Send, RP!Send, Line!Transmit, RP!Transmit, Line!Letter, RP!Letter,
                Line!Idle, RP!Idle, Line!NoReply, RP!NoReply
  <2>2. RP!RemoteInv(CacheRequests, CacheReplies)'
    BY <2>1, RP!SendOK DEF CacheInv
  <2>3. Grants' \subseteq Grants
    <3> DEFINE w == [RP!Idle EXCEPT !.busy = TRUE, !.call = redisWaiting[c].call + 1,
                                   !.try = 1, !.request = q]
    <3>1. redisWaiting' = [redisWaiting EXCEPT ![c] = w]
      BY <2>1 DEF RP!Send, RP!Transmit
    <3>2. w.reply = RP!NoReply
      BY DEF RP!Idle
    <3>3. ~w.reply.accepted
      BY <3>2 DEF RP!NoReply
    <3> HIDE DEF w
    <3>4. \A d \in CacheCallers : redisWaiting'[d] = redisWaiting[d] \/ ~redisWaiting'[d].reply.accepted
      BY <3>1, <3>3 DEF CacheInv, RP!RemoteInv, RP!RemoteTypeOK
    <3> QED BY <1>1, <3>4, NoNewGrants
  <2>4. GrantsHold'
    BY <2>1, <2>3, LaterSelf, GrantsKept DEF CacheInv
  <2>5. CacheNoAnswer \in CacheAnswers /\ CacheIsTrue(CacheNoAnswer)
    BY DEF CacheNoAnswer, CacheAnswers, CacheIsTrue
  <2> QED BY <1>2, <2>1, <2>2, <2>4, <2>5 DEF CacheInv
<1>3. CASE /\ cacheAnswer' = [cacheAnswer EXCEPT ![c] = [CacheNoAnswer EXCEPT !.op = q.op]]
           /\ UNCHANGED line
  <2> DEFINE a == [CacheNoAnswer EXCEPT !.op = q.op]
  <2>1. a \in CacheAnswers /\ CacheIsTrue(a)
    BY DEF CacheNoAnswer, CacheAnswers, CacheIsTrue, CacheRequests
  <2> HIDE DEF a
  <2>2. cacheAnswer' = [cacheAnswer EXCEPT ![c] = a]
    BY <1>3 DEF a
  <2> QED BY <1>1, <1>3, <2>1, <2>2, CacheIdleOK DEF CacheInv
<1>4. CASE UNCHANGED <<line, cacheAnswer>>
  BY <1>1, <1>4, CacheIdleOK DEF CacheInv
<1> QED BY <1>2, <1>3, <1>4 DEF CacheDo

LEMMA TrueUnaskedOK ==
  ASSUME CacheInv, NEW c \in CacheCallers, NEW op \in {"exists", "del"}, TrueUnasked(c, op)
  PROVE  CacheInv'
<1> DEFINE a == [CacheNoAnswer EXCEPT !.op = op, !.good = TRUE]
<1>1. a \in CacheAnswers /\ CacheIsTrue(a)
  BY DEF CacheNoAnswer, CacheAnswers, CacheIsTrue, CacheOps
<1>2. cacheAnswer' = [cacheAnswer EXCEPT ![c] = a] /\ UNCHANGED <<line, claims>>
  BY DEF TrueUnasked, CacheBegin
<1> HIDE DEF a
<1> QED BY <1>1, <1>2, CacheIdleOK DEF CacheInv

LEMMA CacheCallOK == ASSUME CacheInv, NEW c \in CacheCallers, CacheCall(c) PROVE CacheInv'
<1>1. ASSUME NEW op \in CacheOps, NEW k \in AnyKey
      PROVE  /\ Command(op, k) \in CacheRequests
             /\ \A ttl \in BOOLEAN : [Command(op, k) EXCEPT !.mortal = ttl] \in CacheRequests
             /\ \A n \in Int, ttl \in BOOLEAN :
                  [Command(op, k) EXCEPT !.value = n, !.mortal = ttl] \in CacheRequests
  <2>1. Command(op, k) \in CacheRequests
    BY DEF Command, CacheRequests
  <2>2. \A ttl \in BOOLEAN : [Command(op, k) EXCEPT !.mortal = ttl] \in CacheRequests
    BY <2>1 DEF CacheRequests
  <2>3. \A n \in Int, ttl \in BOOLEAN :
           [Command(op, k) EXCEPT !.value = n, !.mortal = ttl] \in CacheRequests
    BY <2>1 DEF CacheRequests
  <2> QED BY <2>1, <2>2, <2>3
<1>2. CASE Version(c)
  BY <1>1, <1>2, CacheDoOK DEF Version, CacheOps, AnyKey
<1>3. ASSUME NEW k \in AnyKey, Exists(c, k) \/ Del(c, k) PROVE CacheInv'
  <2>1. CASE k = NoKey
    BY <1>3, <2>1, TrueUnaskedOK DEF Exists, Del
  <2>2. CASE k # NoKey
    BY <1>1, <1>3, <2>2, CacheDoOK DEF Exists, Del, CacheOps
  <2> QED BY <2>1, <2>2
<1>4. ASSUME NEW k \in AnyKey, Get(c, k) \/ TTL(c, k) \/ Incr(c, k) PROVE CacheInv'
  BY <1>1, <1>4, CacheDoOK DEF Get, TTL, Incr, CacheOps
<1>5. ASSUME NEW k \in AnyKey, NEW n \in Int, NEW ttl \in BOOLEAN, Set(c, k, n, ttl) PROVE CacheInv'
  BY <1>1, <1>5, CacheDoOK DEF Set, CacheOps
<1>6. ASSUME NEW k \in AnyKey, NEW ttl \in BOOLEAN, Expire(c, k, ttl) \/ ExpireAt(c, k, ttl)
      PROVE  CacheInv'
  BY <1>1, <1>6, CacheDoOK DEF Expire, ExpireAt, CacheOps
<1>7. -1 \in Int /\ Text \in Int
  BY DEF Text
<1> QED BY <1>2, <1>3, <1>4, <1>5, <1>6, <1>7 DEF CacheCall, AnyKey

(* The server serves a command: at most its own caller is granted more.    *)
LEMMA CacheServeOK ==
  ASSUME CacheInv, NEW m \in redisWire, RP!Serve(m), claims' = claims, cacheAnswer' = cacheAnswer
  PROVE  CacheInv'
<1> DEFINE c       == m.by
           q       == m.request
           k       == q.key
           v       == redisWaiting[c]
           effect  == Redis(q, redis)
           reply   == effect.reply
           own     == v.busy /\ v.call = m.call
           current == own /\ v.try = m.try /\ v.reply = RP!NoReply
           w       == [v EXCEPT !.done = v.done \/ (own /\ reply.accepted),
                                !.reply = IF current THEN reply ELSE v.reply]
<1>1. /\ m \in RP!Letters(CacheRequests) /\ RP!OwnLetters(CacheRequests, c)
      /\ redisWaiting \in [CacheCallers -> RP!Waits(CacheRequests, CacheReplies)]
      /\ c \in CacheCallers /\ q \in CacheRequests /\ k \in AnyKey
      /\ redis \in Redises /\ redis.life[k] \in Nat /\ GrantsHold
  BY DEF CacheInv, RP!RemoteInv, RP!RemoteTypeOK, RP!Letters, CacheRequests, Redises
<1>2. /\ redisWaiting' = [redisWaiting EXCEPT ![c] = w] /\ redis' = effect.server
  BY DEF RP!Serve
<1>3. /\ reply \in CacheReplies /\ reply.life = redis.life[k]
      /\ reply.accepted => effect.server = AfterCommand(q, redis)
      /\ reply.accepted => reply.body = CommandResult(q, redis)
      /\ ~reply.accepted => effect.server = redis
  <2>1. CommandResult(q, redis) \in Int
    BY <1>1 DEF CommandResult, Redises, Entries
  <2> QED BY <1>1, <2>1 DEF Redis, CacheReplies
<1>4. redis' \in Redises /\ Later(redis, redis')
  BY <1>1, <1>2, <1>3, CommandOK, LaterSelf
<1>5. RP!RemoteInv(CacheRequests, CacheReplies)'
  BY <1>3, RP!ServeOK DEF CacheInv
<1>6. v \in RP!Waits(CacheRequests, CacheReplies)
  BY <1>1
<1>7. /\ w.busy = v.busy /\ w.call = v.call /\ w.request = v.request
      /\ w.reply = IF current THEN reply ELSE v.reply
  BY <1>6 DEF RP!Waits
<1>8. redisWaiting'[c] = w /\ \A d \in CacheCallers \ {c} : redisWaiting'[d] = redisWaiting[d]
  BY <1>1, <1>2
<1>9. ASSUME NEW d \in CacheCallers \ {c} PROVE Granted(d)' = Granted(d) /\ Grant(d)' = Grant(d)
  BY <1>8 DEF Granted, Grant
<1> HIDE DEF w
<1>10. CASE ~current \/ ~Granted(c)'
  <2>1. Granted(c)' => Granted(c) /\ Grant(c)' = Grant(c)
    BY <1>7, <1>8, <1>10 DEF Granted, Grant
  <2>2. Grants' \subseteq Grants
    BY <1>9, <2>1 DEF Grants
  <2>3. GrantsHold'
    BY <1>1, <1>4, <2>2, GrantsKept
  <2> QED BY <1>4, <1>5, <2>3 DEF CacheInv
<1>11. CASE current /\ Granted(c)'
  <2> DEFINE g == [op |-> q.op, key |-> k, by |-> <<c, v.call>>,
                   life |-> redis.life[k], value |-> reply.body]
  <2>1. v.request = q /\ v.call \in Nat
    BY <1>1, <1>6, <1>11 DEF RP!OwnLetters, RP!Own, RP!Waits
  <2>2. Grant(c)' = g
    BY <1>3, <1>7, <1>8, <1>11, <2>1 DEF Grant
  <2>3. q.op \in {"incr", "del"} /\ reply.accepted /\ Good(q.op, reply)
    BY <1>7, <1>8, <1>11, <2>1 DEF Granted
  <2>4. g \in GrantSet
    BY <1>1, <1>3, <2>1, <2>3 DEF GrantSet, CacheReplies
  <2>5. g.op = q.op /\ g.key = k /\ g.life = redis.life[k] /\ g.value = reply.body
    OBVIOUS
  <2> HIDE DEF g
  <2>6. Grants' \subseteq Grants \cup {g}
    BY <1>9, <2>2 DEF Grants
  <2>7. /\ redis' = AfterCommand(q, redis) /\ reply.body = CommandResult(q, redis)
        /\ redis.keys[k].value \in Int
    BY <1>1, <1>2, <1>3, <2>3 DEF Redises, Entries
  <2>8. /\ Sound(g, redis') /\ \A h \in Grants : Differ(g, h)
    <3>1. CASE q.op = "incr"
      <4>1. /\ redis'.life[k] = redis.life[k] /\ redis'.keys[k].value = redis.keys[k].value + 1
            /\ g.value = redis.keys[k].value + 1
        BY <1>1, <2>5, <2>7, <3>1, CommandOK DEF CommandResult
      <4>2. Sound(g, redis')
        BY <1>1, <2>5, <2>7, <3>1, <4>1 DEF Sound
      <4>3. ASSUME NEW h \in Grants PROVE Differ(g, h)
        <5>1. Sound(h, redis) /\ h.value \in Int
          BY <1>1 DEF GrantsHold, GrantSet
        <5> QED BY <2>5, <2>7, <3>1, <4>1, <5>1 DEF Differ, Sound
      <4> QED BY <4>2, <4>3
    <3>2. CASE q.op = "del"
      <4>1. reply.body > 0
        <5>1. reply \in RP!Replies(CacheReplies)
          BY <1>3 DEF RP!Replies
        <5> QED BY <2>3, <3>2, <5>1, CacheGood DEF CacheOps
      <4>2. redis.keys[k].here
        BY <2>7, <3>2, <4>1 DEF CommandResult
      <4>3. redis'.life[k] = redis.life[k] + 1
        BY <1>1, <2>7, <3>2, <4>2, CommandOK
      <4>4. Sound(g, redis')
        BY <1>1, <2>5, <3>2, <4>3 DEF Sound
      <4>5. ASSUME NEW h \in Grants PROVE Differ(g, h)
        <5>1. Sound(h, redis) /\ h.life \in Nat
          BY <1>1 DEF GrantsHold, GrantSet
        <5> QED BY <1>1, <2>5, <3>2, <5>1 DEF Differ, Sound
      <4> QED BY <4>4, <4>5
    <3> QED BY <2>3, <3>1, <3>2
  <2>9. GrantsHold'
    BY <1>1, <1>4, <2>4, <2>6, <2>8, GrantsGrow
  <2> QED BY <1>4, <1>5, <2>9 DEF CacheInv
<1> QED BY <1>10, <1>11

LEMMA CacheTransportOK ==
  ASSUME CacheInv, Line!Underway, UNCHANGED <<cacheAnswer, claims>>
  PROVE  CacheInv'
<1>1. CASE \E m \in redisWire : Line!Serve(m)
  <2>1. PICK m \in redisWire : Line!Serve(m)
    BY <1>1
  <2>2. RP!Serve(m)
    BY <2>1 DEF Line!Serve, RP!Serve, Line!NoReply, RP!NoReply
  <2> QED BY <2>2, CacheServeOK
<1>2. ASSUME NEW c \in CacheCallers, Line!Retry(c) \/ Line!GiveUp(c) PROVE CacheInv'
  <2>1. (RP!Retry(c) \/ RP!GiveUp(c)) /\ redis' = redis
    BY <1>2 DEF Line!Retry, RP!Retry, Line!GiveUp, RP!GiveUp, Line!Expecting, RP!Expecting,
                Line!Transmit, RP!Transmit, Line!Letter, RP!Letter, Line!NoReply, RP!NoReply,
                Line!TimedOut, RP!TimedOut
  <2>2. RP!RemoteInv(CacheRequests, CacheReplies)'
    BY <2>1, CacheAssumption, RP!RetryOK, RP!GiveUpOK DEF CacheInv
  <2>3. /\ redisWaiting \in [CacheCallers -> RP!Waits(CacheRequests, CacheReplies)]
        /\ redisWaiting[c] \in RP!Waits(CacheRequests, CacheReplies)
    BY DEF CacheInv, RP!RemoteInv, RP!RemoteTypeOK
  <2>4. \A d \in CacheCallers : redisWaiting'[d] = redisWaiting[d] \/ ~redisWaiting'[d].reply.accepted
    <3>1. CASE RP!Retry(c)
      <4> DEFINE w == RP!Retried(redisWaiting[c])
      <4>1. redisWaiting' = [redisWaiting EXCEPT ![c] = w]
        BY <3>1 DEF RP!Retry, RP!Transmit, RP!Retried
      <4>2. w.reply = RP!NoReply
        BY <2>3, RP!WaitRetried
      <4>3. ~w.reply.accepted
        BY <4>2 DEF RP!NoReply
      <4> HIDE DEF w
      <4> QED BY <2>3, <4>1, <4>3
    <3>2. CASE RP!GiveUp(c)
      <4> DEFINE w == RP!GivenUp(redisWaiting[c])
      <4>1. redisWaiting' = [redisWaiting EXCEPT ![c] = w]
        BY <3>2 DEF RP!GiveUp, RP!GivenUp
      <4>2. w.reply = RP!TimedOut
        BY <2>3, RP!WaitGivenUp
      <4>3. ~w.reply.accepted
        BY <4>2 DEF RP!TimedOut
      <4> HIDE DEF w
      <4> QED BY <2>3, <4>1, <4>3
    <3> QED BY <2>1, <3>1, <3>2
  <2>5. GrantsHold'
    BY <2>1, <2>4, NoNewGrants, LaterSelf, GrantsKept DEF CacheInv
  <2> QED BY <2>1, <2>2, <2>5 DEF CacheInv
<1> QED BY <1>1, <1>2 DEF Line!Underway

LEMMA CloseOK == ASSUME CacheInv, Close PROVE CacheInv'
<1>1. RP!Disconnect /\ redis' = redis /\ UNCHANGED <<claims, cacheAnswer>>
  BY DEF Close, Line!Disconnect, RP!Disconnect, Line!NoReply, RP!NoReply, Line!TimedOut, RP!TimedOut
<1>2. RP!RemoteInv(CacheRequests, CacheReplies)'
  BY <1>1, RP!DisconnectOK DEF CacheInv
<1>3. \A c \in CacheCallers : redisWaiting'[c] = redisWaiting[c] \/ ~redisWaiting'[c].reply.accepted
  <2> SUFFICES ASSUME NEW c \in CacheCallers, redisWaiting'[c] # redisWaiting[c]
               PROVE  ~redisWaiting'[c].reply.accepted
    OBVIOUS
  <2>1. redisWaiting[c] \in RP!Waits(CacheRequests, CacheReplies)
    BY DEF CacheInv, RP!RemoteInv, RP!RemoteTypeOK
  <2>2. redisWaiting'[c] = RP!GivenUp(redisWaiting[c])
    BY <1>1 DEF RP!Disconnect, RP!GivenUp
  <2>3. redisWaiting'[c].reply = RP!TimedOut
    BY <2>1, <2>2, RP!WaitGivenUp
  <2> QED BY <2>3 DEF RP!TimedOut
<1>4. GrantsHold'
  BY <1>1, <1>3, NoNewGrants, LaterSelf, GrantsKept DEF CacheInv
<1> QED BY <1>1, <1>2, <1>4 DEF CacheInv

(* Returning: what was granted is claimed.                                 *)
LEMMA CacheReturnOK == ASSUME CacheInv, NEW c \in CacheCallers, CacheReturn(c) PROVE CacheInv'
<1> DEFINE w     == redisWaiting[c]
           op    == w.request.op
           reply == w.reply
           good  == Good(op, reply)
           a     == [op |-> op, good |-> good, asked |-> TRUE, done |-> w.done, doubt |-> w.doubt]
<1>1. RP!Finish(c) /\ redis' = redis
  BY DEF CacheReturn, Line!Finish, RP!Finish, Line!Idle, RP!Idle, Line!NoReply, RP!NoReply
<1>2. RP!RemoteInv(CacheRequests, CacheReplies)'
  BY <1>1, RP!FinishOK DEF CacheInv
<1>3. /\ w \in RP!Waits(CacheRequests, CacheReplies) /\ RP!OwnLetters(CacheRequests, c)
      /\ RP!DoneIsAccepted(c) /\ w.busy
      /\ redisWaiting \in [CacheCallers -> RP!Waits(CacheRequests, CacheReplies)]
  BY <1>1 DEF CacheInv, RP!RemoteInv, RP!RemoteTypeOK, RP!Finish
<1>4. /\ w.request \in CacheRequests /\ op \in CacheOps /\ reply \in RP!Replies(CacheReplies)
      /\ w.done \in BOOLEAN /\ w.doubt \in BOOLEAN
  BY <1>3 DEF RP!Waits, RP!OwnLetters, CacheRequests
<1>5. /\ reply.accepted => w.done
      /\ w.done /\ ~w.doubt => reply.accepted
  BY <1>3 DEF RP!DoneIsAccepted
<1>6. cacheAnswer' = [cacheAnswer EXCEPT ![c] = a]
  BY DEF CacheReturn
<1>7. claims' = IF op \in {"incr", "del"} /\ good
                THEN claims \cup {[op |-> op, key |-> w.request.key, by |-> <<c, w.call>>,
                                  life |-> LifeOf(reply), value |-> reply.body]}
                ELSE claims
  BY DEF CacheReturn
<1>8. a \in CacheAnswers /\ CacheIsTrue(a)
  <2>1. /\ good \in BOOLEAN /\ (good => reply.accepted)
        /\ op = "set" /\ reply.accepted => good
    BY <1>4, CacheGood
  <2> HIDE DEF good, op, reply, w
  <2>2. a \in CacheAnswers
    BY <1>4, <2>1 DEF CacheAnswers
  <2>3. /\ a.op = op /\ a.good = good /\ a.asked = TRUE /\ a.done = w.done /\ a.doubt = w.doubt
    OBVIOUS
  <2> HIDE DEF a
  <2> QED BY <1>4, <1>5, <2>1, <2>2, <2>3 DEF CacheIsTrue
<1>9. ~redisWaiting'[c].busy /\ \A d \in CacheCallers \ {c} : redisWaiting'[d] = redisWaiting[d]
  BY <1>1, <1>3 DEF RP!Finish, RP!Idle
<1>10. claims' \subseteq Grants
  <2>1. CASE op \in {"incr", "del"} /\ good
    <3>1. reply.accepted
      BY <1>4, <2>1, CacheGood
    <3>2. Granted(c)
      BY <1>3, <2>1, <3>1 DEF Granted
    <3>3. Grant(c) = [op |-> op, key |-> w.request.key, by |-> <<c, w.call>>,
                      life |-> LifeOf(reply), value |-> reply.body]
      BY <3>1 DEF Grant, LifeOf
    <3>4. Grant(c) \in Grants
      BY <3>2 DEF Grants
    <3>5. claims' = claims \cup {Grant(c)}
      BY <1>7, <2>1, <3>3
    <3> QED BY <3>4, <3>5 DEF Grants
  <2>2. CASE ~(op \in {"incr", "del"} /\ good)
    BY <1>7, <2>2 DEF Grants
  <2> QED BY <2>1, <2>2
<1>11. Grants' \subseteq Grants
  <2>1. ASSUME NEW d \in CacheCallers, Granted(d)' PROVE Granted(d) /\ Grant(d)' = Grant(d)
    BY <1>9, <2>1 DEF Granted, Grant
  <2>2. ASSUME NEW g \in Grants' PROVE g \in Grants
    <3>1. CASE g \in claims'
      BY <1>10, <3>1
    <3>2. CASE \E d \in CacheCallers : Granted(d)' /\ g = Grant(d)'
      BY <2>1, <3>2 DEF Grants
    <3> QED BY <3>1, <3>2 DEF Grants
  <2> QED BY <2>2
<1>12. GrantsHold'
  BY <1>1, <1>11, LaterSelf, GrantsKept DEF CacheInv
<1> HIDE DEF a
<1> QED BY <1>1, <1>2, <1>6, <1>8, <1>12 DEF CacheInv

LEMMA ExpireKeyOK == ASSUME CacheInv, NEW k \in CacheKeys, ExpireKey(k) PROVE CacheInv'
<1>1. /\ redis' = NewLife(redis, k, Missing)
      /\ UNCHANGED <<redisWire, redisWaiting, redisTimeouts, cacheAnswer, claims>>
  BY DEF ExpireKey
<1>2. k \in AnyKey /\ Missing \in Entries
  BY DEF AnyKey, Missing, Entries
<1>3. redis' \in Redises /\ Later(redis, redis')
  BY <1>1, <1>2, NewLifeOK DEF CacheInv
<1>4. RP!RemoteInv(CacheRequests, CacheReplies)'
  BY <1>1, RP!RemoteUnchanged DEF CacheInv
<1>5. GrantsHold'
  BY <1>1, <1>3, NoNewGrants, GrantsKept DEF CacheInv
<1> QED BY <1>1, <1>3, <1>4, <1>5 DEF CacheInv

LEMMA CacheInvariant == CacheSpec => []CacheInv
<1>1. CacheInv /\ [CacheNext]_cacheVars => CacheInv'
  <2> SUFFICES ASSUME CacheInv, [CacheNext]_cacheVars PROVE CacheInv'
    OBVIOUS
  <2>1. CASE InitCache
    BY <2>1, CacheIdleOK DEF InitCache, CacheInv
  <2>2. CASE Close
    BY <2>2, CloseOK
  <2>3. CASE \E c \in CacheCallers : CacheCall(c) \/ CacheReturn(c)
    BY <2>3, CacheCallOK, CacheReturnOK
  <2>4. CASE /\ Line!Underway
             /\ UNCHANGED <<cacheClient, cacheProcess, cacheCalls, expiries, cacheAnswer, claims>>
    BY <2>4, CacheTransportOK
  <2>5. CASE \E k \in CacheKeys : ExpireKey(k)
    BY <2>5, ExpireKeyOK
  <2>6. CASE UNCHANGED cacheVars
    BY <2>6, CacheIdleOK DEF cacheVars, CacheInv
  <2> QED BY <2>1, <2>2, <2>3, <2>4, <2>5, <2>6 DEF CacheNext
<1> QED BY <1>1, CacheInitOK, PTL DEF CacheSpec

(* A call on the cache that ends well was carried out by the server while  *)
(* its caller waited; a Set that ends badly was not, unless one of its     *)
(* tries got no reply.  With any number of keys, callers and tries, and    *)
(* with a Close under the calls.                                           *)
THEOREM CacheTellsTheTruth == CacheSpec => []CacheAnswersAreTrue
<1>1. CacheInv => CacheAnswersAreTrue
  BY DEF CacheInv, CacheAnswersAreTrue, CacheIsTrue
<1> QED BY <1>1, CacheInvariant, PTL

(* Of all the calls on one life of a key Incr gives no two the same count, *)
(* and Del tells only one that it deleted the key: counters and locks are  *)
(* built on that.  It holds although commands are sent again, since what   *)
(* was granted to a call never speaks of a count or a life to come.        *)
THEOREM NoTwoClaimTheSame == CacheSpec => []ClaimsDiffer
<1>1. CacheInv => ClaimsDiffer
  BY DEF CacheInv, GrantsHold, Grants, Differ, ClaimsDiffer
<1> QED BY <1>1, CacheInvariant, PTL

=============================================================================
