----------------------------- MODULE RedisCache -----------------------------
(***************************************************************************)
(* cache: commands to a redis server, one call at a time per goroutine.    *)
(* Set, Get and TTL return the client's errors; the other methods drop     *)
(* them, so their false or zero is an answer of the server or none.  The   *)
(* client sends a command again when its reply fails to come.              *)
(***************************************************************************)
EXTENDS Integers, FiniteSets

CONSTANTS
  CacheCallers,  \* goroutines that call the cache
  CacheKeys,
  CacheTries,    \* cfg.MaxRetries + 1
  CacheTimeouts, \* bound, see Remote
  CacheCalls,    \* bound: calls made
  MaxExpiries,   \* bound: keys that expire
  NoKey          \* the empty key

ASSUME CacheAssumption ==
  NoKey \notin CacheKeys /\ CacheTries \in Nat \ {0}
  /\ {CacheTimeouts, CacheCalls, MaxExpiries} \subseteq Nat

VARIABLES
  cacheClient,   \* "none", "open" or "closed": c.client
  cacheProcess,  \* "running" or "panicked"
  redis,         \* the server: value, expiry and life of each key
  redisWire, redisWaiting, redisTimeouts,  \* see Remote
  cacheCalls,    \* calls made so far
  expiries,      \* keys expired so far
  cacheAnswer,   \* what each caller's last call returned
  claims         \* history: what Incr and Del told whom of which life of a key

(* A key's life ends when it is set anew, deleted or expires.              *)
Missing == [here |-> FALSE, value |-> 0, mortal |-> FALSE]
Value(n, mortal) == [here |-> TRUE, value |-> n, mortal |-> mortal]
Text == -9    \* a value that is no number

Command(op, k) == [op |-> op, key |-> k, value |-> 0, mortal |-> FALSE]
NoCommand == Command("none", NoKey)

---------------------------------------------------------------------------
(* Redis.  A missing key has no value to get; INCR makes one of zero, and  *)
(* refuses a text; EXPIRE with no time left deletes.                       *)
CacheAccepts(q, s) ==
  LET entry == s.keys[q.key]
  IN  CASE q.op = "get"  -> entry.here
        [] q.op = "incr" -> ~entry.here \/ entry.value # Text
        [] OTHER         -> TRUE

NewLife(s, k, entry) == [s EXCEPT !.keys[k] = entry, !.life[k] = @ + 1]

Counted(entry) == [entry EXCEPT !.here = TRUE, !.value = @ + 1]

AfterCommand(q, s) ==
  LET entry == s.keys[q.key]
  IN  CASE q.op = "set" -> NewLife(s, q.key, Value(q.value, q.mortal))
        [] q.op = "del" /\ entry.here -> NewLife(s, q.key, Missing)
        [] q.op = "expire" /\ entry.here ->
             IF q.mortal THEN [s EXCEPT !.keys[q.key].mortal = TRUE]
                         ELSE NewLife(s, q.key, Missing)
        [] q.op = "incr" -> [s EXCEPT !.keys[q.key] = Counted(entry)]
        [] OTHER -> s

(* How many keys a command met, what INCR counted, what TTL tells.         *)
CommandResult(q, s) ==
  LET entry == s.keys[q.key]
  IN  CASE q.op \in {"del", "expire", "exists"} -> IF entry.here THEN 1 ELSE 0
        [] q.op = "incr" -> entry.value + 1
        [] OTHER -> 0

Redis(q, s) ==
  IF CacheAccepts(q, s)
  THEN [server |-> AfterCommand(q, s),
        reply |-> [accepted |-> TRUE, body |-> CommandResult(q, s), life |-> s.life[q.key]]]
  ELSE [server |-> s, reply |-> [accepted |-> FALSE, body |-> 0, life |-> s.life[q.key]]]

Line == INSTANCE Remote WITH
  Callers <- CacheCallers, MaxTries <- CacheTries, MaxTimeouts <- CacheTimeouts, Apply <- Redis,
  NoRequest <- NoCommand,
  server <- redis, wire <- redisWire, waiting <- redisWaiting, timeouts <- redisTimeouts

line == <<redis, redisWire, redisWaiting, redisTimeouts>>
cacheVars == <<cacheClient, cacheProcess, line, cacheCalls, expiries, cacheAnswer, claims>>

---------------------------------------------------------------------------
(* good: a nil error, true, or a number other than zero.                   *)
CacheNoAnswer == [op |-> "none", good |-> FALSE, asked |-> FALSE, done |-> FALSE, doubt |-> FALSE]

(* What the server holds, it holds from earlier days.                      *)
CacheInit ==
  /\ cacheClient = "none" /\ cacheProcess = "running"
  /\ cacheCalls = 0 /\ expiries = 0 /\ claims = {}
  /\ \E s \in [CacheKeys -> {Missing, Value(0, TRUE)}] :
       Line!RemoteInit([keys |-> [k \in CacheKeys \cup {NoKey} |-> IF k = NoKey THEN Missing ELSE s[k]],
                        life |-> [k \in CacheKeys \cup {NoKey} |-> 0]])
  /\ cacheAnswer = [c \in CacheCallers |-> CacheNoAnswer]

(* A client that cannot ping is dropped.  Init succeeds once here.         *)
InitCache ==
  /\ cacheClient = "none" /\ cacheProcess = "running"
  /\ cacheClient' = "open"
  /\ UNCHANGED <<cacheProcess, line, cacheCalls, expiries, cacheAnswer, claims>>

CacheBegin(c) ==
  /\ cacheProcess = "running" /\ ~redisWaiting[c].busy
  /\ cacheCalls < CacheCalls /\ cacheCalls' = cacheCalls + 1
  /\ UNCHANGED <<cacheClient, expiries, claims>>

(* Cache is nil before Init; a closed client answers by itself.            *)
CacheDo(c, q) ==
  /\ CacheBegin(c)
  /\ \/ /\ cacheClient = "open" /\ Line!Send(c, q)
        /\ cacheAnswer' = [cacheAnswer EXCEPT ![c] = CacheNoAnswer]
        /\ UNCHANGED cacheProcess
     \/ /\ cacheClient = "closed"
        /\ cacheAnswer' = [cacheAnswer EXCEPT ![c] = [CacheNoAnswer EXCEPT !.op = q.op]]
        /\ cacheProcess' = IF q.op = "info" THEN "panicked" ELSE "running"
        /\ UNCHANGED line
     \/ cacheClient = "none" /\ cacheProcess' = "panicked" /\ UNCHANGED <<line, cacheAnswer>>

(* Exists without keys and Del of the empty key are true unasked.          *)
TrueUnasked(c, op) ==
  /\ CacheBegin(c) /\ cacheClient # "none"
  /\ cacheAnswer' = [cacheAnswer EXCEPT ![c] = [CacheNoAnswer EXCEPT !.op = op, !.good = TRUE]]
  /\ UNCHANGED <<cacheProcess, line>>

Set(c, k, n, ttl) == CacheDo(c, [Command("set", k) EXCEPT !.value = n, !.mortal = ttl])
Get(c, k)         == CacheDo(c, Command("get", k))
TTL(c, k)         == CacheDo(c, Command("ttl", k))
(* ttl is FALSE for a time that is past: the key goes at once.             *)
Expire(c, k, ttl) == CacheDo(c, [Command("expire", k) EXCEPT !.mortal = ttl])
ExpireAt(c, k, ttl) == CacheDo(c, [Command("expire", k) EXCEPT !.mortal = ttl])
Exists(c, k)      == IF k = NoKey THEN TrueUnasked(c, "exists") ELSE CacheDo(c, Command("exists", k))
Del(c, k)         == IF k = NoKey THEN TrueUnasked(c, "del") ELSE CacheDo(c, Command("del", k))
Incr(c, k)        == CacheDo(c, Command("incr", k))
Version(c)        == CacheDo(c, Command("info", NoKey))

Close ==
  /\ cacheProcess = "running" /\ cacheClient = "open"
  /\ cacheClient' = "closed"
  /\ Line!Disconnect
  /\ UNCHANGED <<cacheProcess, cacheCalls, expiries, cacheAnswer, claims>>

---------------------------------------------------------------------------
(* Slips that the configuration is tested against: Set drops its error     *)
(* like the other methods, Del takes no error for an answer.               *)
Answered(reply)    == TRUE
AtLeastZero(reply) == reply.body >= 0 \/ ~reply.accepted

---------------------------------------------------------------------------
(* What the methods make of a reply; without one, results are zero.        *)
NoErr(reply)    == reply.accepted
Positive(reply) == reply.accepted /\ reply.body > 0
NonZero(reply)  == reply.accepted /\ reply.body # 0

Good(op, reply) ==
  CASE op \in {"set", "get", "ttl", "info"} -> NoErr(reply)
    [] op \in {"expire", "exists", "del"}   -> Positive(reply)
    [] op = "incr" -> NonZero(reply)

LifeOf(reply) == IF reply.accepted THEN reply.life ELSE 0

(* Version cuts the text of INFO apart, which is empty without a reply.    *)
CacheReturn(c) ==
  LET w    == redisWaiting[c]
      op   == w.request.op
      good == Good(op, w.reply)
  IN  /\ cacheProcess = "running"
      /\ Line!Finish(c)
      /\ cacheAnswer' = [cacheAnswer EXCEPT ![c] =
           [op |-> op, good |-> good, asked |-> TRUE, done |-> w.done, doubt |-> w.doubt]]
      /\ claims' = IF op \in {"incr", "del"} /\ good
                   THEN claims \cup {[op |-> op, key |-> w.request.key, by |-> <<c, w.call>>,
                                     life |-> LifeOf(w.reply), value |-> w.reply.body]}
                   ELSE claims
      /\ cacheProcess' = IF op = "info" /\ ~good THEN "panicked" ELSE "running"
      /\ UNCHANGED <<cacheClient, cacheCalls, expiries>>

(* A key's time is up.                                                     *)
ExpireKey(k) ==
  /\ redis.keys[k].mortal
  /\ expiries < MaxExpiries /\ expiries' = expiries + 1
  /\ redis' = NewLife(redis, k, Missing)
  /\ UNCHANGED <<cacheClient, cacheProcess, redisWire, redisWaiting, redisTimeouts,
                 cacheCalls, cacheAnswer, claims>>

CacheCall(c) ==
  \/ Version(c)
  \/ \E k \in CacheKeys \cup {NoKey} : Exists(c, k) \/ Del(c, k)
  \/ \E k \in CacheKeys :
       \/ Get(c, k) \/ TTL(c, k) \/ Incr(c, k)
       \/ Set(c, k, -1, FALSE) \/ Set(c, k, Text, TRUE)
       \/ \E ttl \in BOOLEAN : Expire(c, k, ttl) \/ ExpireAt(c, k, ttl)

CacheNext ==
  \/ InitCache \/ Close
  \/ \E c \in CacheCallers : CacheCall(c) \/ CacheReturn(c)
  \/ Line!Underway /\ UNCHANGED <<cacheClient, cacheProcess, cacheCalls, expiries, cacheAnswer, claims>>
  \/ \E k \in CacheKeys : ExpireKey(k)

CacheSpec == CacheInit /\ [][CacheNext]_cacheVars

---------------------------------------------------------------------------
(* A call that ends well was carried out by the server while its caller    *)
(* waited; a Set that fails, was not, unless some try of it got no reply.  *)
(* Of Incr and Del, whose failures look like answers, no more can be said. *)
CacheAnswersAreTrue ==
  \A c \in CacheCallers : LET a == cacheAnswer[c] IN
    /\ a.asked /\ a.good => a.done
    /\ a.op = "set" /\ ~a.good /\ ~a.doubt => ~a.done

(* Of all the calls on one life of a key no two are given the same count   *)
(* by Incr, and only one is told by Del that it deleted the key.           *)
ClaimsDiffer ==
  \A a, b \in claims : a.by # b.by =>
    <<a.op, a.key, a.life, a.value>> # <<b.op, b.key, b.life, b.value>>
=============================================================================
