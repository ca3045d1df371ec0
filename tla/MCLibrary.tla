----------------------------- MODULE MCLibrary -----------------------------
(* The parts of the library that share nothing with one another.  A        *)
(* behaviour is one of the part that is chosen at its start; the others    *)
(* stay in their initial states, whose choices are fixed.                  *)
EXTENDS ChannelQueue, EsIndex, EsBulk, ProfileConfig, RoutinePool, DbRepo, RedisCache, MqUtil

VARIABLE part

Parts == {"queue", "es", "bulk", "config", "pool", "db", "cache", "util"}

(* A batch with a document that cannot be encoded.                         *)
SomeBatches == { <<TRUE, FALSE>> }

File(scope, content) == [scope |-> scope, content |-> content]
SomeEntries ==
  { File("conf", n) : n \in {4, Silent, Garbled} } \cup
  { File("dev", n) : n \in {0, 2, Void, Unread} } \cup
  { File("test", Garbled), File("short", Void) }

LibraryInit ==
  /\ part \in Parts
  /\ QueueInit /\ EsInit /\ BulkInit /\ ConfigInit /\ RoutineInit /\ DbInit /\ CacheInit /\ UtilInit
  /\ part # "es" => \A i \in Indices : indices[i] = NoSuchIndex
  /\ part # "cache" => \A k \in CacheKeys : redis.keys[k] = Missing

LibraryNext ==
  /\ UNCHANGED part
  /\ \/ part = "queue" /\ QueueNext
     \/ part # "queue" /\ UNCHANGED queueVars
  /\ \/ part = "es" /\ EsNext
     \/ part # "es" /\ UNCHANGED esVars
  /\ \/ part = "bulk" /\ BulkNext
     \/ part # "bulk" /\ UNCHANGED bulkVars
  /\ \/ part = "config" /\ ConfigNext
     \/ part # "config" /\ UNCHANGED configVars
  /\ \/ part = "pool" /\ RoutineNext
     \/ part # "pool" /\ UNCHANGED poolVars
  /\ \/ part = "db" /\ DbNext
     \/ part # "db" /\ UNCHANGED dbVars
  /\ \/ part = "cache" /\ CacheNext
     \/ part # "cache" /\ UNCHANGED cacheVars
  /\ \/ part = "util" /\ UtilNext
     \/ part # "util" /\ UNCHANGED utilVars

libraryVars == <<part, queueVars, esVars, bulkVars, configVars, poolVars, dbVars, cacheVars, utilVars>>

LibrarySpec == LibraryInit /\ [][LibraryNext]_libraryVars /\ BulkFairness
=============================================================================
