--------------------------- MODULE LibraryProofs ---------------------------
(* Theorems about the smaller parts of the library, each for any number of *)
(* goroutines and calls: the repository's handles, the goroutine pools,    *)
(* the configuration loader and the random expiration.                     *)
EXTENDS DbRepo, RoutinePool, ProfileConfig, MqUtil, SequenceTheorems, TLAPS

---------------------------------------------------------------------------
(* The repository.  A Repo is closed only by those who got it, and they    *)
(* get it only once it is published; until then what it has opened stays.  *)
DbTypeOK ==
  /\ repo \in [Inits -> [pc : {"idle", "reader", "publish", "return", "returned", "failed", "leaked"},
                         slave : BOOLEAN, got : Inits \cup {NoRepo}]]
  /\ GRpo \in Inits \cup {NoRepo}
  /\ closings \in [Inits -> SUBSET {"DbRClose", "DbWClose"}]

ReturnsARepo(i) ==
  /\ repo[i].pc = "return" => GRpo # NoRepo
  /\ repo[i].pc = "returned" => repo[i].got \in Inits

OpenUntilPublished(i) ==
  /\ closings[i] # {} => Published(i)
  /\ repo[i].pc \in {"reader", "publish"} => Writer(i) \in openDbs
  /\ repo[i].pc = "publish" /\ repo[i].slave => Reader(i) \in openDbs
  /\ repo[i].pc = "reader" => repo[i].slave /\ Reader(i) \notin openDbs

DbInv ==
  /\ DbTypeOK /\ ClosedByItsOwn
  /\ \A i \in Inits : ReturnsARepo(i) /\ OpenUntilPublished(i)

LEMMA HandlesDiffer ==
  ASSUME NEW i, NEW j
  PROVE  /\ Writer(i) # Reader(j)
         /\ Writer(i) = Writer(j) <=> i = j
         /\ Reader(i) = Reader(j) <=> i = j
BY DEF Writer, Reader

LEMMA DbInitOK == DbInit => DbInv
BY DbAssumption DEF DbInit, DbInv, DbTypeOK, ClosedByItsOwn, ReturnsARepo, OpenUntilPublished,
   Published, NotBegun

(* The four parts of ClosedByItsOwn.                                       *)
CloseTells(i) ==
  Published(i) =>
    /\ Writer(i) \notin openDbs <=>
         closings[i] \cap (IF repo[i].slave THEN {"DbWClose"} ELSE {"DbRClose", "DbWClose"}) # {}
    /\ repo[i].slave => (Reader(i) \notin openDbs <=> "DbRClose" \in closings[i])

OpenBelongs(i) ==
  \A db \in {Writer(i), Reader(i)} \cap openDbs :
    \/ (repo[i].pc \in {"reader", "publish"} \/ Published(i)) /\ db \in Handles(i)
    \/ repo[i].pc = "leaked" /\ db = Writer(i)

GotOwnOrNewer(i) ==
  repo[i].pc = "returned" => repo[i].got = i \/ (Published(repo[i].got) /\ GRpo # i)

LEMMA ClosedParts ==
  ClosedByItsOwn <=> /\ \A i \in Inits : CloseTells(i) /\ OpenBelongs(i) /\ GotOwnOrNewer(i)
                     /\ GRpo # NoRepo => Published(GRpo)
BY DEF ClosedByItsOwn, CloseTells, OpenBelongs, GotOwnOrNewer

DbParts(i) == /\ CloseTells(i) /\ OpenBelongs(i) /\ GotOwnOrNewer(i)
              /\ ReturnsARepo(i) /\ OpenUntilPublished(i)

LEMMA DbInvParts ==
  DbInv <=> DbTypeOK /\ (GRpo # NoRepo => Published(GRpo)) /\ \A i \in Inits : DbParts(i)
BY ClosedParts DEF DbInv, DbParts

LEMMA DbInvNext ==
  ASSUME DbTypeOK', (GRpo # NoRepo => Published(GRpo))', \A i \in Inits : DbParts(i)'
  PROVE  DbInv'
BY DEF DbInv, DbParts, ClosedByItsOwn, CloseTells, OpenBelongs, GotOwnOrNewer

(* An Init that a step passes by.                                          *)
LEMMA DbBystander ==
  ASSUME DbInv, NEW j \in Inits, repo'[j] = repo[j], closings'[j] = closings[j],
         Writer(j) \in openDbs' <=> Writer(j) \in openDbs,
         Reader(j) \in openDbs' <=> Reader(j) \in openDbs,
         \A k \in Inits : Published(k) => Published(k)',
         GRpo' = GRpo \/ (GRpo' # j /\ GRpo' # NoRepo)
  PROVE  DbParts(j)'
<1>1. DbParts(j) /\ DbTypeOK
  BY DbInvParts
<1>2. Published(j)' <=> Published(j)
  BY DEF Published
<1>3. CloseTells(j)' /\ OpenUntilPublished(j)' /\ ReturnsARepo(j)'
  BY <1>1, <1>2 DEF DbParts, CloseTells, OpenUntilPublished, ReturnsARepo, Writer, Reader
<1>4. OpenBelongs(j)'
  <2>1. Handles(j)' = Handles(j)
    BY DEF Handles, Writer, Reader
  <2> QED BY <1>1, <1>2, <2>1 DEF DbParts, OpenBelongs, Writer, Reader
<1>5. GotOwnOrNewer(j)'
  <2>1. repo[j].pc = "returned" => repo[j].got \in Inits
    BY <1>1 DEF DbParts, ReturnsARepo
  <2> QED BY <1>1, <2>1 DEF DbParts, GotOwnOrNewer
<1> QED BY <1>3, <1>4, <1>5 DEF DbParts

(* A step of Init i that leaves the closings alone.                        *)
LEMMA DbOwnStep ==
  ASSUME DbInv, NEW i \in Inits, NEW r, repo' = [repo EXCEPT ![i] = r],
         r \in [pc : {"idle", "reader", "publish", "return", "returned", "failed", "leaked"},
                slave : BOOLEAN, got : Inits \cup {NoRepo}],
         Published(i) => r.pc \in {"return", "returned"},
         UNCHANGED closings,
         \A j \in Inits \ {i} : /\ Writer(j) \in openDbs' <=> Writer(j) \in openDbs
                                /\ Reader(j) \in openDbs' <=> Reader(j) \in openDbs,
         GRpo' = GRpo \/ (GRpo' = i /\ r.pc = "return"),
         DbParts(i)'
  PROVE  DbInv'
<1>1. DbTypeOK
  BY DEF DbInv
<1>2. repo'[i] = r /\ \A j \in Inits \ {i} : repo'[j] = repo[j]
  BY <1>1 DEF DbTypeOK
<1>3. DbTypeOK'
  BY <1>1 DEF DbTypeOK
<1>4. \A k \in Inits : Published(k) => Published(k)'
  BY <1>2 DEF Published
<1>5. GRpo' # NoRepo => Published(GRpo)'
  BY <1>1, <1>2, <1>4, DbAssumption, DbInvParts DEF Published, DbTypeOK
<1>6. \A j \in Inits \ {i} : DbParts(j)'
  BY <1>2, <1>4, DbAssumption, DbBystander
<1> QED BY <1>3, <1>5, <1>6, DbInvNext

LEMMA ConnectWriterOK ==
  ASSUME DbInv, NEW i \in Inits, NEW slave \in BOOLEAN, ConnectWriter(i, slave) PROVE DbInv'
<1>1. repo[i] = NotBegun /\ UNCHANGED <<GRpo, closings>> /\ DbTypeOK /\ DbParts(i)
  BY DbInvParts DEF ConnectWriter
<1>2. ~Published(i) /\ closings[i] = {} /\ Writer(i) \notin openDbs /\ Reader(i) \notin openDbs
  BY <1>1, HandlesDiffer DEF Published, NotBegun, DbParts, OpenUntilPublished, OpenBelongs
<1>3. CASE dbConnect(Writer(i), TRUE)
           /\ repo' = [repo EXCEPT ![i].pc = IF slave THEN "reader" ELSE "publish", ![i].slave = slave]
  <2> DEFINE r == [repo[i] EXCEPT !.pc = IF slave THEN "reader" ELSE "publish", !.slave = slave]
  <2>1. repo' = [repo EXCEPT ![i] = r]
    BY <1>1, <1>3 DEF DbTypeOK
  <2>2. /\ r.pc = (IF slave THEN "reader" ELSE "publish") /\ r.slave = slave
        /\ r \in [pc : {"idle", "reader", "publish", "return", "returned", "failed", "leaked"},
                  slave : BOOLEAN, got : Inits \cup {NoRepo}]
    BY <1>1 DEF DbTypeOK
  <2> HIDE DEF r
  <2>3. openDbs' = openDbs \cup {Writer(i)} /\ repo'[i] = r
    BY <1>1, <1>3, <2>1 DEF dbConnect, DbTypeOK
  <2>4. DbParts(i)'
    BY <1>1, <1>2, <2>2, <2>3, HandlesDiffer
    DEF DbParts, CloseTells, OpenBelongs, GotOwnOrNewer, ReturnsARepo, OpenUntilPublished,
        Published, Handles, Writer, Reader
  <2> QED BY <1>1, <1>2, <2>1, <2>2, <2>3, <2>4, HandlesDiffer, DbOwnStep
<1>4. CASE dbConnect(Writer(i), FALSE)
           /\ repo' = [repo EXCEPT ![i].pc = "failed", ![i].slave = slave]
  <2> DEFINE r == [repo[i] EXCEPT !.pc = "failed", !.slave = slave]
  <2>1. repo' = [repo EXCEPT ![i] = r]
    BY <1>1, <1>4 DEF DbTypeOK
  <2>2. /\ r.pc = "failed" /\ r.slave = slave
        /\ r \in [pc : {"idle", "reader", "publish", "return", "returned", "failed", "leaked"},
                  slave : BOOLEAN, got : Inits \cup {NoRepo}]
    BY <1>1 DEF DbTypeOK
  <2> HIDE DEF r
  <2>3. openDbs' = openDbs /\ repo'[i] = r
    BY <1>1, <1>4, <2>1 DEF dbConnect, DbTypeOK
  <2>4. DbParts(i)'
    BY <1>1, <1>2, <2>2, <2>3, HandlesDiffer
    DEF DbParts, CloseTells, OpenBelongs, GotOwnOrNewer, ReturnsARepo, OpenUntilPublished,
        Published, Handles, Writer, Reader
  <2> QED BY <1>1, <1>2, <2>1, <2>2, <2>3, <2>4, DbOwnStep
<1> QED BY <1>3, <1>4 DEF ConnectWriter

LEMMA ConnectReaderOK ==
  ASSUME DbInv, NEW i \in Inits, ConnectReader(i) PROVE DbInv'
<1>1. repo[i].pc = "reader" /\ UNCHANGED <<GRpo, closings>> /\ DbTypeOK /\ DbParts(i)
  BY DbInvParts DEF ConnectReader
<1>2. PICK ok \in BOOLEAN : dbConnect(Reader(i), ok)
                            /\ RepoGoto(i, IF ok THEN "publish" ELSE "leaked")
  BY DEF ConnectReader
<1> DEFINE r == [repo[i] EXCEPT !.pc = IF ok THEN "publish" ELSE "leaked"]
<1>3. repo' = [repo EXCEPT ![i] = r]
  BY <1>1, <1>2 DEF RepoGoto, DbTypeOK
<1>4. /\ r.pc = (IF ok THEN "publish" ELSE "leaked") /\ r.slave = repo[i].slave
      /\ r \in [pc : {"idle", "reader", "publish", "return", "returned", "failed", "leaked"},
                slave : BOOLEAN, got : Inits \cup {NoRepo}]
  BY <1>1 DEF DbTypeOK
<1> HIDE DEF r
<1>5. ~Published(i) /\ closings[i] = {} /\ Writer(i) \in openDbs /\ repo[i].slave
  BY <1>1 DEF Published, DbParts, OpenUntilPublished
<1>6. openDbs' = IF ok THEN openDbs \cup {Reader(i)} ELSE openDbs
  BY <1>2 DEF dbConnect
<1>7. repo'[i] = r
  BY <1>1, <1>3 DEF DbTypeOK
<1>8. ~ok => Reader(i) \notin openDbs'
  BY <1>1, <1>6 DEF DbParts, OpenUntilPublished
<1>9. DbParts(i)'
  BY <1>1, <1>4, <1>5, <1>6, <1>7, <1>8, HandlesDiffer
  DEF DbParts, CloseTells, OpenBelongs, GotOwnOrNewer, ReturnsARepo, OpenUntilPublished,
      Published, Handles, Writer, Reader
<1> QED BY <1>1, <1>3, <1>4, <1>5, <1>6, <1>9, HandlesDiffer, DbOwnStep

LEMMA PublishOK ==
  ASSUME DbInv, NEW i \in Inits, Publish(i) PROVE DbInv'
<1>1. repo[i].pc = "publish" /\ GRpo' = i /\ UNCHANGED <<openDbs, closings>> /\ DbTypeOK /\ DbParts(i)
  BY DbInvParts DEF Publish
<1> DEFINE r == [repo[i] EXCEPT !.pc = "return"]
<1>2. repo' = [repo EXCEPT ![i] = r]
  BY DEF Publish, RepoGoto
<1>3. /\ r.pc = "return" /\ r.slave = repo[i].slave
      /\ r \in [pc : {"idle", "reader", "publish", "return", "returned", "failed", "leaked"},
                slave : BOOLEAN, got : Inits \cup {NoRepo}]
  BY <1>1 DEF DbTypeOK
<1> HIDE DEF r
<1>4. repo'[i] = r
  BY <1>1, <1>2 DEF DbTypeOK
<1>5. /\ ~Published(i) /\ closings[i] = {} /\ Writer(i) \in openDbs
      /\ repo[i].slave => Reader(i) \in openDbs
  BY <1>1 DEF Published, DbParts, OpenUntilPublished
<1>6. DbParts(i)'
  BY <1>1, <1>3, <1>4, <1>5, DbAssumption, HandlesDiffer
  DEF DbParts, CloseTells, OpenBelongs, GotOwnOrNewer, ReturnsARepo, OpenUntilPublished,
      Published, Handles, Writer, Reader
<1> QED BY <1>1, <1>2, <1>3, <1>5, <1>6, DbOwnStep

LEMMA ReturnOK ==
  ASSUME DbInv, NEW i \in Inits, Return(i) PROVE DbInv'
<1>1. repo[i].pc = "return" /\ UNCHANGED <<openDbs, GRpo, closings>> /\ DbTypeOK /\ DbParts(i)
      /\ GRpo \in Inits /\ Published(GRpo)
  BY DbInvParts DEF Return, DbParts, ReturnsARepo, DbTypeOK
<1> DEFINE r == [repo[i] EXCEPT !.pc = "returned", !.got = GRpo]
<1>2. repo' = [repo EXCEPT ![i] = r]
  BY <1>1 DEF Return, DbTypeOK
<1>3. /\ r.pc = "returned" /\ r.slave = repo[i].slave /\ r.got = GRpo
      /\ r \in [pc : {"idle", "reader", "publish", "return", "returned", "failed", "leaked"},
                slave : BOOLEAN, got : Inits \cup {NoRepo}]
  BY <1>1 DEF DbTypeOK
<1> HIDE DEF r
<1>4. repo'[i] = r /\ \A j \in Inits \ {i} : repo'[j] = repo[j]
  BY <1>1, <1>2 DEF DbTypeOK
<1>5. Published(i) /\ Published(i)' /\ Published(GRpo)'
  BY <1>1, <1>3, <1>4 DEF Published
<1>6. DbParts(i)'
  BY <1>1, <1>3, <1>4, <1>5
  DEF DbParts, CloseTells, OpenBelongs, GotOwnOrNewer, ReturnsARepo, OpenUntilPublished,
      Handles, Writer, Reader
<1> QED BY <1>1, <1>2, <1>3, <1>6, DbOwnStep

(* A Repo that some caller got is published, and one of its handles goes.  *)
LEMMA CloseOK ==
  ASSUME DbInv, NEW r \in Inits, Published(r),
         \/ CloseDb(r, DbR(r), "DbRClose") \/ CloseDb(r, DbW(r), "DbWClose")
  PROVE  DbInv'
<1>1. PICK method \in {"DbRClose", "DbWClose"} :
        CloseDb(r, IF method = "DbRClose" THEN DbR(r) ELSE DbW(r), method)
  OBVIOUS
<1> DEFINE db == IF method = "DbRClose" THEN DbR(r) ELSE DbW(r)
<1>2. /\ openDbs' = openDbs \ {db} /\ UNCHANGED <<repo, GRpo>>
      /\ closings' = [closings EXCEPT ![r] = @ \cup {method}]
  BY <1>1 DEF CloseDb
<1>3. DbTypeOK /\ \A i \in Inits : DbParts(i) /\ (Published(i)' <=> Published(i))
  BY <1>2, DbInvParts DEF Published
<1>4. db \in {Writer(r), Reader(r)}
  BY DEF DbR, DbW
<1>5. closings'[r] = closings[r] \cup {method} /\ closings[r] \subseteq {"DbRClose", "DbWClose"}
      /\ \A j \in Inits \ {r} : closings'[j] = closings[j]
  BY <1>2, <1>3 DEF DbTypeOK
<1>6. DbTypeOK'
  BY <1>2, <1>3 DEF DbTypeOK
<1>7. ASSUME NEW j \in Inits \ {r} PROVE DbParts(j)'
  <2>1. /\ Writer(j) \in openDbs' <=> Writer(j) \in openDbs
        /\ Reader(j) \in openDbs' <=> Reader(j) \in openDbs
    BY <1>2, <1>4, HandlesDiffer
  <2> QED BY <1>2, <1>3, <1>5, <2>1, DbBystander
<1>8. DbParts(r)'
  <2>1. CloseTells(r)'
    <3>1. CloseTells(r)
      BY <1>3 DEF DbParts
    <3>2. CASE method = "DbRClose"
      BY <1>2, <1>3, <1>5, <3>1, <3>2, HandlesDiffer DEF CloseTells, DbR, Writer, Reader
    <3>3. CASE method = "DbWClose"
      BY <1>2, <1>3, <1>5, <3>1, <3>3, HandlesDiffer DEF CloseTells, DbW, Writer, Reader
    <3> QED BY <3>2, <3>3
  <2>2. OpenBelongs(r)'
    BY <1>2, <1>3 DEF DbParts, OpenBelongs, Published, Handles, Writer, Reader
  <2>3. GotOwnOrNewer(r)' /\ ReturnsARepo(r)'
    BY <1>2, <1>3 DEF DbParts, GotOwnOrNewer, ReturnsARepo, Published
  <2>4. OpenUntilPublished(r)'
    BY <1>2 DEF OpenUntilPublished, Published
  <2> QED BY <2>1, <2>2, <2>3, <2>4 DEF DbParts
<1>9. GRpo' # NoRepo => Published(GRpo)'
  BY <1>2, DbInvParts DEF Published
<1> QED BY <1>6, <1>7, <1>8, <1>9, DbInvNext

LEMMA GotARepo ==
  ASSUME DbInv, NEW i \in Inits, repo[i].pc = "returned"
  PROVE  repo[i].got \in Inits /\ Published(repo[i].got)
BY DbInvParts DEF DbParts, ReturnsARepo, GotOwnOrNewer, Published

(* Handles are closed by the method of their use, none leaks but the       *)
(* writer of an Init that failed at its reader, and a caller of Init gets  *)
(* its own Repo or a complete newer one, for any number of calls of Init.  *)
THEOREM HandlesClosedByTheirOwn == DbSpec => []ClosedByItsOwn
<1>1. ASSUME DbInv, [DbNext]_dbVars PROVE DbInv'
  <2>1. CASE UNCHANGED dbVars
    <3>1. \A i \in Inits : DbParts(i)' <=> DbParts(i)
      BY <2>1 DEF dbVars, DbParts, CloseTells, OpenBelongs, GotOwnOrNewer, ReturnsARepo,
                  OpenUntilPublished, Published, Handles, Writer, Reader
    <3>2. DbTypeOK' /\ (GRpo # NoRepo => Published(GRpo))'
      BY <1>1, <2>1, DbInvParts DEF dbVars, DbTypeOK, Published
    <3> QED BY <1>1, <3>1, <3>2, DbInvParts, DbInvNext
  <2>2. ASSUME NEW i \in Inits, DbRClose(i) \/ DbWClose(i) PROVE DbInv'
    BY <1>1, <2>2, GotARepo, CloseOK DEF DbRClose, DbWClose
  <2> QED BY <1>1, <2>1, <2>2, ConnectWriterOK, ConnectReaderOK, PublishOK, ReturnOK DEF DbNext
<1>2. DbInv => ClosedByItsOwn
  BY DEF DbInv
<1> QED BY <1>1, <1>2, DbInitOK, PTL DEF DbSpec

---------------------------------------------------------------------------
(* The goroutine pools.  While Init of a kind is called once, only that    *)
(* call stores a pool of the kind, and it is the one it has created.       *)
RoutineStates == [pc : {"idle", "store", "got"}, kind : PoolKinds \cup {NoKind}, pool : Nat]

RoutineTypeOK ==
  /\ handle \in [PoolKinds -> Nat]
  /\ antsPools \in Seq([kind : PoolKinds, released : BOOLEAN])
  /\ routine \in [Routines -> RoutineStates]
  /\ inits \in [PoolKinds -> Nat]
  /\ poolProcess \in {"running", "exited", "panicked"}
  /\ \A g \in Routines : routine[g].pc # "idle" => routine[g].kind \in PoolKinds

IsPool(p, k) == p \in DOMAIN antsPools /\ antsPools[p].kind = k

OnePoolPerKind ==
  /\ \A p, q \in DOMAIN antsPools : antsPools[p].kind = antsPools[q].kind => p = q
  /\ \A p \in DOMAIN antsPools : inits[antsPools[p].kind] > 0

StoredOrAboutToBe(k) ==
  inits[k] = 1 =>
    \A p \in DOMAIN antsPools : antsPools[p].kind = k =>
      \/ handle[k] = p
      \/ \E g \in Routines : routine[g] = [pc |-> "store", kind |-> k, pool |-> p]

HasItsPool(g) ==
  LET k == routine[g].kind IN
    /\ routine[g].pc = "store" /\ inits[k] <= 1 => IsPool(routine[g].pool, k)
    /\ routine[g].pc = "got" /\ inits[k] <= 1 => handle[k] # NilPool

PanicHasCause == poolProcess = "panicked" => \E k \in PoolKinds : inits[k] > 1

PoolInv ==
  /\ RoutineTypeOK /\ OnePoolPerKind /\ PanicHasCause
  /\ \A k \in PoolKinds : StoredOrAboutToBe(k)
  /\ \A g \in Routines : HasItsPool(g)

LEMMA PoolInitOK == RoutineInit => PoolInv
<1> SUFFICES ASSUME RoutineInit PROVE PoolInv
  OBVIOUS
<1>1. RoutineTypeOK
  BY DEF RoutineInit, RoutineTypeOK, RoutineStates, AtRest, NilPool
<1>2. DOMAIN antsPools = {}
  BY DEF RoutineInit
<1> QED BY <1>1, <1>2 DEF PoolInv, RoutineInit, OnePoolPerKind, PanicHasCause, StoredOrAboutToBe,
                         HasItsPool, AtRest

LEMMA SeqParts ==
  ASSUME NEW S, NEW q \in Seq(S)
  PROVE  DOMAIN q = 1 .. Len(q) /\ Len(q) \in Nat /\ \A i \in DOMAIN q : q[i] \in S
OBVIOUS

LEMMA PoolsAreOfKinds ==
  ASSUME RoutineTypeOK
  PROVE  /\ DOMAIN antsPools = 1 .. Len(antsPools) /\ Len(antsPools) \in Nat
         /\ \A p \in DOMAIN antsPools : antsPools[p] \in [kind : PoolKinds, released : BOOLEAN]
         /\ \A p \in DOMAIN antsPools : antsPools[p].kind \in PoolKinds
<1>1. antsPools \in Seq([kind : PoolKinds, released : BOOLEAN])
  BY DEF RoutineTypeOK
<1>2. /\ DOMAIN antsPools = 1 .. Len(antsPools) /\ Len(antsPools) \in Nat
      /\ \A p \in DOMAIN antsPools : antsPools[p] \in [kind : PoolKinds, released : BOOLEAN]
  BY <1>1, SeqParts
<1> QED BY <1>2

(* Goroutine g goes to another place; the others stay where they are.      *)
LEMMA RoutineMoved ==
  ASSUME RoutineTypeOK, NEW g \in Routines, NEW pc \in {"idle", "store", "got"},
         NEW k \in PoolKinds \cup {NoKind}, NEW p \in Nat, pc # "idle" => k \in PoolKinds,
         RoutineGoto(g, pc, k, p)
  PROVE  /\ routine' \in [Routines -> RoutineStates]
         /\ \A h \in Routines : routine'[h].pc # "idle" => routine'[h].kind \in PoolKinds
         /\ routine'[g] = [pc |-> pc, kind |-> k, pool |-> p]
         /\ \A h \in Routines \ {g} : routine'[h] = routine[h]
BY DEF RoutineTypeOK, RoutineGoto, RoutineStates

LEMMA InitOnceOK ==
  ASSUME PoolInv, NEW g \in Routines, NEW k \in PoolKinds, InitOnce(g, k) PROVE PoolInv'
<1>1. /\ RoutineTypeOK /\ OnePoolPerKind /\ routine[g].pc = "idle" /\ poolProcess = "running"
      /\ inits' = [inits EXCEPT ![k] = @ + 1] /\ UNCHANGED handle
  BY DEF PoolInv, InitOnce, RoutineAt
<1>2. /\ inits'[k] = inits[k] + 1 /\ \A h \in PoolKinds \ {k} : inits'[h] = inits[h]
      /\ inits' \in [PoolKinds -> Nat] /\ \A h \in PoolKinds : inits[h] \in Nat /\ inits'[h] >= inits[h]
  BY <1>1 DEF RoutineTypeOK
<1>3. CASE /\ inits[k] = 0
           /\ antsPools' = Append(antsPools, [kind |-> k, released |-> FALSE])
           /\ RoutineGoto(g, "store", k, Len(antsPools) + 1)
           /\ UNCHANGED poolProcess
  <2> DEFINE n == Len(antsPools) + 1
  <2>1. /\ antsPools' \in Seq([kind : PoolKinds, released : BOOLEAN]) /\ Len(antsPools) \in Nat
        /\ DOMAIN antsPools = 1 .. Len(antsPools) /\ DOMAIN antsPools' = 1 .. n
    BY <1>1, <1>3 DEF RoutineTypeOK
  <2>2. \A p \in DOMAIN antsPools : antsPools'[p] = antsPools[p]
    BY <1>1, <1>3 DEF RoutineTypeOK
  <2>3. antsPools'[n].kind = k
    BY <1>1, <1>3 DEF RoutineTypeOK
  <2>4. \A p : p \in DOMAIN antsPools' <=> p \in DOMAIN antsPools \/ p = n
    BY <2>1
  <2>5. n \in Nat
    BY <2>1
  <2> HIDE DEF n
  <2>6. RoutineGoto(g, "store", k, n)
    BY <1>3 DEF n
  <2>7. /\ routine'[g] = [pc |-> "store", kind |-> k, pool |-> n]
        /\ \A h \in Routines \ {g} : routine'[h] = routine[h]
        /\ RoutineTypeOK'
    BY <1>1, <1>2, <1>3, <2>1, <2>5, <2>6, RoutineMoved DEF RoutineTypeOK
  <2>8. \A p \in DOMAIN antsPools : antsPools[p].kind \in PoolKinds \ {k}
    <3>1. \A p \in DOMAIN antsPools : antsPools[p].kind # k
      BY <1>1, <1>3 DEF OnePoolPerKind
    <3> QED BY <1>1, <3>1, PoolsAreOfKinds
  <2>9. OnePoolPerKind'
    <3>1. \A p \in DOMAIN antsPools' : inits'[antsPools'[p].kind] > 0
      <4>1. inits'[k] > 0
        BY <1>2, <1>3
      <4> QED BY <1>1, <1>2, <2>2, <2>3, <2>4, <2>8, <4>1 DEF OnePoolPerKind
    <3>2. \A p, q \in DOMAIN antsPools' : antsPools'[p].kind = antsPools'[q].kind => p = q
      BY <1>1, <2>2, <2>3, <2>4, <2>8 DEF OnePoolPerKind
    <3> QED BY <3>1, <3>2 DEF OnePoolPerKind
  <2>10. ASSUME NEW h \in PoolKinds PROVE StoredOrAboutToBe(h)'
    <3> SUFFICES ASSUME inits'[h] = 1, NEW p \in DOMAIN antsPools', antsPools'[p].kind = h
                 PROVE  \/ handle'[h] = p
                        \/ \E i \in Routines : routine'[i] = [pc |-> "store", kind |-> h, pool |-> p]
      BY DEF StoredOrAboutToBe
    <3>1. CASE p = n
      BY <2>3, <2>7, <3>1
    <3>2. CASE p \in DOMAIN antsPools
      <4>1. h # k /\ inits[h] = 1 /\ antsPools[p].kind = h
        BY <1>2, <2>2, <2>8, <3>2
      <4>2. \/ handle[h] = p
            \/ \E i \in Routines : routine[i] = [pc |-> "store", kind |-> h, pool |-> p]
        BY <3>2, <4>1 DEF PoolInv, StoredOrAboutToBe
      <4>3. ASSUME NEW i \in Routines, routine[i] = [pc |-> "store", kind |-> h, pool |-> p]
            PROVE  routine'[i] = routine[i]
        <5>1. i # g
          BY <1>1, <4>3
        <5> QED BY <2>7, <5>1
      <4> QED BY <1>1, <4>2, <4>3
    <3> QED BY <2>4, <3>1, <3>2
  <2>11. ASSUME NEW h \in Routines PROVE HasItsPool(h)'
    <3>1. CASE h = g
      BY <2>3, <2>4, <2>7, <3>1 DEF HasItsPool, IsPool
    <3>2. CASE h # g
      <4>1. routine'[h] = routine[h] /\ HasItsPool(h)
        BY <2>7, <3>2 DEF PoolInv
      <4>2. routine[h].pc # "idle" => routine[h].kind \in PoolKinds
        BY <1>1 DEF RoutineTypeOK
      <4>3. routine[h].pc # "idle" /\ inits'[routine[h].kind] <= 1 => inits[routine[h].kind] <= 1
        BY <1>2, <4>2
      <4> QED BY <1>1, <2>2, <2>4, <4>1, <4>3 DEF HasItsPool, IsPool
    <3> QED BY <3>1, <3>2
  <2>12. PanicHasCause'
    BY <1>1, <1>3 DEF PanicHasCause
  <2> QED BY <2>7, <2>9, <2>10, <2>11, <2>12 DEF PoolInv
<1>4. CASE inits[k] = 0 /\ poolProcess' = "exited" /\ UNCHANGED <<antsPools, routine>>
  <2>1. RoutineTypeOK'
    BY <1>1, <1>2, <1>4 DEF RoutineTypeOK
  <2>2. \A p \in DOMAIN antsPools : antsPools[p].kind \in PoolKinds \ {k}
    <3>1. \A p \in DOMAIN antsPools : antsPools[p].kind # k
      BY <1>1, <1>4 DEF OnePoolPerKind
    <3> QED BY <1>1, <3>1, PoolsAreOfKinds
  <2>3. OnePoolPerKind' /\ \A h \in PoolKinds : StoredOrAboutToBe(h)'
    BY <1>1, <1>2, <1>4, <2>2 DEF PoolInv, OnePoolPerKind, StoredOrAboutToBe
  <2>4. ASSUME NEW h \in Routines PROVE HasItsPool(h)'
    <3>1. routine[h].pc # "idle" => routine[h].kind \in PoolKinds
      BY <1>1 DEF RoutineTypeOK
    <3>2. routine[h].pc # "idle" /\ inits'[routine[h].kind] <= 1 => inits[routine[h].kind] <= 1
      BY <1>2, <3>1
    <3> QED BY <1>1, <1>4, <3>2 DEF PoolInv, HasItsPool, IsPool
  <2> QED BY <1>4, <2>1, <2>3, <2>4 DEF PoolInv, PanicHasCause
<1>5. CASE inits[k] > 0 /\ RoutineGoto(g, "store", k, NilPool) /\ UNCHANGED <<antsPools, poolProcess>>
  <2>1. inits'[k] > 1
    BY <1>2, <1>5
  <2>2. /\ routine'[g] = [pc |-> "store", kind |-> k, pool |-> NilPool]
        /\ \A h \in Routines \ {g} : routine'[h] = routine[h]
        /\ RoutineTypeOK'
    BY <1>1, <1>2, <1>5, RoutineMoved DEF RoutineTypeOK, NilPool
  <2>3. OnePoolPerKind'
    BY <1>1, <1>2, <1>5 DEF OnePoolPerKind, RoutineTypeOK
  <2>4. ASSUME NEW h \in PoolKinds PROVE StoredOrAboutToBe(h)'
    <3>1. CASE h = k
      BY <1>2, <2>1, <3>1 DEF StoredOrAboutToBe
    <3>2. CASE h # k
      <4>1. ASSUME NEW i \in Routines, routine[i].pc = "store" PROVE routine'[i] = routine[i]
        BY <1>1, <2>2, <4>1
      <4> QED BY <1>1, <1>2, <1>5, <3>2, <4>1 DEF PoolInv, StoredOrAboutToBe
    <3> QED BY <3>1, <3>2
  <2>5. ASSUME NEW h \in Routines PROVE HasItsPool(h)'
    <3>1. CASE h = g
      BY <1>2, <2>1, <2>2, <3>1 DEF HasItsPool
    <3>2. CASE h # g
      <4>1. routine'[h] = routine[h] /\ HasItsPool(h)
        BY <2>2, <3>2 DEF PoolInv
      <4>2. routine[h].pc # "idle" => routine[h].kind \in PoolKinds
        BY <1>1 DEF RoutineTypeOK
      <4>3. routine[h].pc # "idle" /\ inits'[routine[h].kind] <= 1 => inits[routine[h].kind] <= 1
        BY <1>2, <4>2
      <4> QED BY <1>1, <1>5, <4>1, <4>3 DEF HasItsPool, IsPool
    <3> QED BY <3>1, <3>2
  <2> QED BY <1>1, <1>5, <2>2, <2>3, <2>4, <2>5 DEF PoolInv, PanicHasCause
<1> QED BY <1>3, <1>4, <1>5 DEF InitOnce

(* A step of g that begins no Init and makes no pool.                      *)
LEMMA StorePoolOK ==
  ASSUME PoolInv, NEW g \in Routines, StorePool(g) PROVE PoolInv'
<1> DEFINE k == routine[g].kind
           p == routine[g].pool
<1>1. /\ RoutineTypeOK /\ OnePoolPerKind /\ HasItsPool(g)
      /\ routine[g].pc = "store" /\ poolProcess = "running"
      /\ handle' = [handle EXCEPT ![k] = p] /\ RoutineGoto(g, "idle", NoKind, NilPool)
      /\ UNCHANGED <<antsPools, inits, poolProcess>>
  BY DEF PoolInv, StorePool, RoutineAt
<1>2. k \in PoolKinds /\ p \in Nat
  BY <1>1 DEF RoutineTypeOK, RoutineStates
<1>3. handle'[k] = p /\ handle' \in [PoolKinds -> Nat]
      /\ \A h \in PoolKinds \ {k} : handle'[h] = handle[h]
  BY <1>1, <1>2 DEF RoutineTypeOK
<1>4. /\ routine'[g].pc = "idle"
      /\ \A h \in Routines \ {g} : routine'[h] = routine[h]
      /\ RoutineTypeOK'
  <2>1. NilPool \in Nat
    BY DEF NilPool
  <2>2. RoutineGoto(g, "idle", NoKind, NilPool)
    BY <1>1
  <2>3. /\ routine' \in [Routines -> RoutineStates]
        /\ \A h \in Routines : routine'[h].pc # "idle" => routine'[h].kind \in PoolKinds
        /\ routine'[g] = [pc |-> "idle", kind |-> NoKind, pool |-> NilPool]
        /\ \A h \in Routines \ {g} : routine'[h] = routine[h]
    BY <1>1, <2>1, <2>2, RoutineMoved
  <2> QED BY <1>1, <1>3, <2>3 DEF RoutineTypeOK
<1>5. inits[k] <= 1 => IsPool(p, k)
  BY <1>1 DEF HasItsPool
<1> HIDE DEF k, p
<1>6. ASSUME NEW h \in PoolKinds PROVE StoredOrAboutToBe(h)'
  <2> SUFFICES ASSUME inits[h] = 1, NEW q \in DOMAIN antsPools, antsPools[q].kind = h
               PROVE  \/ handle'[h] = q
                      \/ \E i \in Routines : routine'[i] = [pc |-> "store", kind |-> h, pool |-> q]
    BY <1>1 DEF StoredOrAboutToBe
  <2>1. CASE h = k
    BY <1>1, <1>3, <1>5, <2>1 DEF IsPool, OnePoolPerKind
  <2>2. CASE h # k
    <3>1. ASSUME NEW i \in Routines, routine[i] = [pc |-> "store", kind |-> h, pool |-> q]
          PROVE  routine'[i] = routine[i]
      <4>1. i # g
        BY <2>2, <3>1 DEF k
      <4> QED BY <1>4, <4>1
    <3> QED BY <1>3, <2>2, <3>1 DEF PoolInv, StoredOrAboutToBe
  <2> QED BY <2>1, <2>2
<1>7. ASSUME NEW h \in Routines PROVE HasItsPool(h)'
  <2>1. CASE h = g
    BY <1>4, <2>1 DEF HasItsPool
  <2>2. CASE h # g
    <3>1. routine'[h] = routine[h] /\ HasItsPool(h)
      BY <1>4, <2>2 DEF PoolInv
    <3>2. routine[h].pc # "idle" => routine[h].kind \in PoolKinds
      BY <1>1 DEF RoutineTypeOK
    <3>3. inits[k] <= 1 => p # NilPool
      BY <1>1, <1>5, PoolsAreOfKinds DEF IsPool, NilPool
    <3> QED BY <1>1, <1>3, <3>1, <3>2, <3>3 DEF HasItsPool, IsPool
  <2> QED BY <2>1, <2>2
<1> QED BY <1>1, <1>4, <1>6, <1>7 DEF PoolInv, OnePoolPerKind, PanicHasCause

(* GetPool that succeeds and the last Submit: g moves between idle and got.*)
LEMMA MoveOK ==
  ASSUME PoolInv, NEW g \in Routines, routine[g].pc # "store",
         NEW pc \in {"idle", "got"}, NEW k \in PoolKinds \cup {NoKind}, RoutineGoto(g, pc, k, NilPool),
         pc = "got" => k \in PoolKinds /\ handle[k] # NilPool,
         UNCHANGED <<handle, antsPools, inits, poolProcess>>
  PROVE  PoolInv'
<1>1. RoutineTypeOK
  BY DEF PoolInv
<1>2. /\ routine'[g] = [pc |-> pc, kind |-> k, pool |-> NilPool]
      /\ \A h \in Routines \ {g} : routine'[h] = routine[h]
      /\ RoutineTypeOK'
  <2>1. NilPool \in Nat
    BY DEF NilPool
  <2>2. pc \in {"idle", "store", "got"} /\ (pc # "idle" => k \in PoolKinds)
    OBVIOUS
  <2>3. /\ routine' \in [Routines -> RoutineStates]
        /\ \A h \in Routines : routine'[h].pc # "idle" => routine'[h].kind \in PoolKinds
        /\ routine'[g] = [pc |-> pc, kind |-> k, pool |-> NilPool]
        /\ \A h \in Routines \ {g} : routine'[h] = routine[h]
    BY <1>1, <2>1, <2>2, RoutineMoved
  <2> QED BY <1>1, <2>3 DEF RoutineTypeOK
<1>3. ASSUME NEW i \in Routines, routine[i].pc = "store" PROVE routine'[i] = routine[i]
  BY <1>2, <1>3
<1>4. \A h \in PoolKinds : StoredOrAboutToBe(h)'
  BY <1>3 DEF PoolInv, StoredOrAboutToBe
<1>5. \A h \in Routines : HasItsPool(h)'
  BY <1>2 DEF PoolInv, HasItsPool, IsPool
<1> QED BY <1>2, <1>4, <1>5 DEF PoolInv, OnePoolPerKind, PanicHasCause

LEMMA GetPoolOK ==
  ASSUME PoolInv, NEW g \in Routines, NEW k \in PoolKinds, GetPool(g, k) PROVE PoolInv'
<1>1. CASE poolProcess' = "exited" /\ UNCHANGED routine
  BY <1>1 DEF GetPool, PoolInv, RoutineTypeOK, OnePoolPerKind, PanicHasCause,
              StoredOrAboutToBe, HasItsPool, IsPool
<1>2. CASE ~IsNil(k) /\ RoutineGoto(g, "got", k, NilPool) /\ UNCHANGED poolProcess
  BY <1>2, MoveOK DEF GetPool, RoutineAt, IsNil
<1> QED BY <1>1, <1>2 DEF GetPool

LEMMA OnNilOK ==
  ASSUME PoolInv, NEW g \in Routines, OnNil(g) PROVE PoolInv'
<1>1. /\ RoutineTypeOK /\ HasItsPool(g) /\ routine[g].pc = "got"
      /\ handle[routine[g].kind] = NilPool
      /\ poolProcess' = "panicked" /\ UNCHANGED <<handle, antsPools, routine, inits>>
  BY DEF PoolInv, OnNil, RoutineAt
<1>2. routine[g].kind \in PoolKinds /\ inits[routine[g].kind] > 1
  BY <1>1 DEF RoutineTypeOK, HasItsPool
<1> QED BY <1>1, <1>2 DEF PoolInv, RoutineTypeOK, OnePoolPerKind, PanicHasCause,
                         StoredOrAboutToBe, HasItsPool, IsPool

LEMMA SubmitOK ==
  ASSUME PoolInv, NEW g \in Routines, Submit(g) PROVE PoolInv'
<1>1. CASE UNCHANGED routine
  BY <1>1 DEF Submit, PoolInv, RoutineTypeOK, OnePoolPerKind, PanicHasCause,
              StoredOrAboutToBe, HasItsPool, IsPool
<1>2. CASE RoutineGoto(g, "idle", NoKind, NilPool)
  BY <1>2, MoveOK DEF Submit, RoutineAt
<1> QED BY <1>1, <1>2 DEF Submit

LEMMA ReleaseOK ==
  ASSUME PoolInv, NEW g \in Routines, Release(g) PROVE PoolInv'
<1> DEFINE p == handle[routine[g].kind]
<1>1. /\ RoutineTypeOK /\ antsPools' = [antsPools EXCEPT ![p].released = TRUE]
      /\ UNCHANGED <<handle, routine, inits, poolProcess>>
  BY DEF PoolInv, Release
<1> HIDE DEF p
<1>2. DOMAIN antsPools' = DOMAIN antsPools /\ Len(antsPools) \in Nat
      /\ DOMAIN antsPools = 1 .. Len(antsPools)
  BY <1>1, PoolsAreOfKinds
<1>3. \A q \in DOMAIN antsPools :
        /\ antsPools'[q].kind = antsPools[q].kind
        /\ antsPools'[q] \in [kind : PoolKinds, released : BOOLEAN]
  BY <1>1, PoolsAreOfKinds
<1>4. antsPools' \in Seq([kind : PoolKinds, released : BOOLEAN])
  <2>1. antsPools' = [q \in 1 .. Len(antsPools) |-> antsPools'[q]]
    BY <1>1, <1>2
  <2>2. antsPools' \in [1 .. Len(antsPools) -> [kind : PoolKinds, released : BOOLEAN]]
    BY <1>2, <1>3, <2>1
  <2> QED BY <1>2, <2>2, SeqDef
<1>5. RoutineTypeOK'
  BY <1>1, <1>4 DEF RoutineTypeOK
<1> QED BY <1>1, <1>2, <1>3, <1>5 DEF PoolInv, OnePoolPerKind, PanicHasCause,
                                      StoredOrAboutToBe, HasItsPool, IsPool

(* No kind ever has two pools; while its Init is called once, what was     *)
(* created is stored or about to be, and nobody panics on the nil pool:    *)
(* for any number of goroutines, kinds and calls.                          *)
THEOREM PoolsServe == RoutineSpec => []PoolServes
<1>1. ASSUME PoolInv, [RoutineNext]_poolVars PROVE PoolInv'
  <2>1. CASE UNCHANGED poolVars
    BY <1>1, <2>1 DEF poolVars, PoolInv, RoutineTypeOK, OnePoolPerKind, PanicHasCause,
                      StoredOrAboutToBe, HasItsPool, IsPool
  <2> QED BY <1>1, <2>1, InitOnceOK, StorePoolOK, GetPoolOK, OnNilOK, SubmitOK, ReleaseOK
          DEF RoutineNext
<1>2. PoolInv => PoolServes
  <2> SUFFICES ASSUME PoolInv PROVE PoolServes
    OBVIOUS
  <2>1. \A p \in DOMAIN antsPools : antsPools[p].kind \in PoolKinds
    BY PoolsAreOfKinds DEF PoolInv
  <2> QED BY <2>1 DEF PoolInv, PoolServes, OnePoolPerKind, PanicHasCause, StoredOrAboutToBe
<1> QED BY <1>1, <1>2, PoolInitOK, PTL DEF RoutineSpec

---------------------------------------------------------------------------
(* The configuration loader.  cs.masterConfRaw and cs.activeConfRaw are    *)
(* what the last file of their scope says, of those that the loop has been *)
(* through.                                                                *)
IsLastBefore(scope, n, content) ==
  \/ content = Void /\ \A m \in 1 .. n - 1 : directory[m].scope # scope
  \/ \E m \in 1 .. n - 1 : /\ directory[m].scope = scope /\ directory[m].content = content
                           /\ \A j \in m + 1 .. n - 1 : directory[j].scope # scope

ConfigTypeOK ==
  /\ cfgPc \in {"idle", "loadConf", "active", "master", "merge", "done"}
  /\ directory \in Seq(Entries) /\ nextEntry \in 1 .. Len(directory) + 1
  /\ masterRaw \in Contents /\ activeRaw \in Contents

RawsAreLast ==
  /\ IsLastBefore(profile, nextEntry, activeRaw)
  /\ profile = "conf" => masterRaw = Void
  /\ profile # "conf" => IsLastBefore("conf", nextEntry, masterRaw)

(* How far the decoding has come.                                          *)
Decoding ==
  /\ cfgPc \in {"idle", "loadConf"} => outcome = "none"
  /\ cfgPc \in {"idle", "loadConf", "active"} => overlay = 0 /\ target = Default
  /\ cfgPc \in {"active", "master", "merge"} => outcome = "none" /\ nextEntry = Len(directory) + 1
  /\ cfgPc \in {"master", "merge"} => overlay = Decode(activeRaw, 0)
  /\ cfgPc = "master" => target = Default
  /\ cfgPc = "merge" => masterRaw # Void /\ target = Decode(masterRaw, Default)
  /\ cfgPc = "idle" => directory = <<>>

(* What each end of Unmarshal leaves in v; only three come after the       *)
(* master's file has been looked at.                                       *)
Decoded == {"master", "ErrNotSupported", "ok"}

Ended ==
  /\ outcome \in Decoded => nextEntry = Len(directory) + 1 /\ masterRaw # Void
  /\ outcome = "ok" => target = Override(Decode(masterRaw, Default), Decode(activeRaw, 0))
  /\ outcome = "ErrNotSupported" => target = Decode(masterRaw, Default)
  /\ outcome = "master" => masterRaw = Garbled /\ target \in {Default, Broken}
  /\ outcome \notin Decoded \cup {"none"} => target = Default

ConfigInv == ConfigTypeOK /\ RawsAreLast /\ Decoding /\ Ended

LEMMA ConfigInitOK == ConfigInit => ConfigInv
<1> SUFFICES ASSUME ConfigInit PROVE ConfigInv
  OBVIOUS
<1>1. ConfigTypeOK
  BY DEF ConfigInit, ConfigTypeOK, Contents, Void
<1>2. RawsAreLast
  BY DEF ConfigInit, RawsAreLast, IsLastBefore
<1> QED BY <1>1, <1>2 DEF ConfigInit, ConfigInv, Decoding, Ended, Decoded

LEMMA UnmarshalOK == ASSUME ConfigInv, Unmarshal PROVE ConfigInv'
<1>1. /\ cfgPc = "idle" /\ directory' \in BoundedSeq(Entries, MaxFiles) /\ directory = <<>>
      /\ UNCHANGED <<nextEntry, masterRaw, activeRaw, overlay, target>>
      /\ ConfigTypeOK /\ RawsAreLast /\ Decoding
  BY DEF ConfigInv, Unmarshal, Decoding, Values
<1>2. directory' \in Seq(Entries)
  BY <1>1, ConfigAssumption, SeqDef DEF BoundedSeq, SeqOf
<1>3. Len(directory') \in Nat /\ nextEntry = 1 /\ nextEntry' = 1
  BY <1>1, <1>2 DEF ConfigTypeOK
<1>4. masterRaw = Void /\ activeRaw = Void
  BY <1>1, <1>3 DEF RawsAreLast, IsLastBefore
<1>5. \/ cfgPc' = "done" /\ outcome' \in {"ErrNonPointerArgument", "ReadDir"}
      \/ cfgPc' = "loadConf" /\ outcome' = outcome
  BY DEF Unmarshal, ConfigStop, ConfigGoto
<1>6. ConfigTypeOK'
  BY <1>1, <1>2, <1>3, <1>5 DEF ConfigTypeOK
<1>7. RawsAreLast'
  BY <1>1, <1>3, <1>4 DEF RawsAreLast, IsLastBefore
<1>8. Decoding' /\ Ended'
  BY <1>1, <1>5 DEF Decoding, Ended, Decoded
<1> QED BY <1>6, <1>7, <1>8 DEF ConfigInv

(* One entry further: the last of a scope changes if the entry is of it.   *)
LEMMA OneEntryOn ==
  ASSUME NEW scope, NEW n \in Nat \ {0}, NEW content, IsLastBefore(scope, n, content), UNCHANGED directory
  PROVE  /\ directory[n].scope # scope => IsLastBefore(scope, n + 1, content)'
         /\ directory[n].scope = scope => IsLastBefore(scope, n + 1, directory[n].content)'
<1>1. \A m : m \in 1 .. (n + 1) - 1 <=> m \in 1 .. n - 1 \/ m = n
  OBVIOUS
<1>2. \A m \in 1 .. n - 1 : \A j : j \in m + 1 .. (n + 1) - 1 <=> j \in m + 1 .. n - 1 \/ j = n
  OBVIOUS
<1>3. \A j : j \notin n + 1 .. (n + 1) - 1
  OBVIOUS
<1>4. ASSUME directory[n].scope # scope PROVE IsLastBefore(scope, n + 1, content)'
  BY <1>1, <1>2, <1>4 DEF IsLastBefore
<1>5. ASSUME directory[n].scope = scope PROVE IsLastBefore(scope, n + 1, directory[n].content)'
  BY <1>1, <1>3, <1>5 DEF IsLastBefore
<1> QED BY <1>4, <1>5

LEMMA EntryType ==
  ASSUME ConfigTypeOK, nextEntry <= Len(directory)
  PROVE  /\ Entry.content \in Contents /\ nextEntry \in Nat \ {0}
         /\ nextEntry + 1 \in 1 .. Len(directory) + 1
<1>1. Len(directory) \in Nat /\ nextEntry \in DOMAIN directory /\ directory[nextEntry] \in Entries
  BY DEF ConfigTypeOK
<1> QED BY <1>1, ConfigAssumption DEF ConfigTypeOK, Entry

LEMMA SkipEntryOK == ASSUME ConfigInv, SkipEntry PROVE ConfigInv'
<1>1. /\ cfgPc = "loadConf" /\ nextEntry <= Len(directory) /\ nextEntry' = nextEntry + 1
      /\ directory[nextEntry].scope # profile /\ directory[nextEntry].scope # "conf"
      /\ UNCHANGED <<cfgPc, outcome, profile, directory, masterRaw, activeRaw, overlay, target>>
  BY DEF SkipEntry, AtEntry, Entry, Wanted, Inputs, Values
<1>2. nextEntry \in Nat \ {0} /\ ConfigTypeOK'
  BY <1>1, EntryType DEF ConfigInv, ConfigTypeOK
<1>3. RawsAreLast'
  BY <1>1, <1>2, OneEntryOn DEF ConfigInv, RawsAreLast
<1> QED BY <1>1, <1>2, <1>3 DEF ConfigInv, Decoding, Ended, Decoded

LEMMA ReadFileOK == ASSUME ConfigInv, ReadFile PROVE ConfigInv'
<1>1. /\ cfgPc = "loadConf" /\ nextEntry <= Len(directory)
      /\ directory[nextEntry].scope \in {profile, "conf"}
      /\ UNCHANGED <<profile, directory, overlay, target>>
  BY DEF ReadFile, AtEntry, Entry, Wanted, Inputs, Values
<1>2. CASE ConfigStop("ReadFile") /\ UNCHANGED <<nextEntry, masterRaw, activeRaw>>
  BY <1>1, <1>2 DEF ConfigInv, ConfigTypeOK, RawsAreLast, IsLastBefore, Decoding, Ended, Decoded,
                    ConfigStop
<1>3. CASE /\ IF Entry.scope = profile
              THEN activeRaw' = Entry.content /\ UNCHANGED masterRaw
              ELSE masterRaw' = Entry.content /\ UNCHANGED activeRaw
           /\ nextEntry' = nextEntry + 1
           /\ UNCHANGED <<cfgPc, outcome>>
  <2>1. /\ Entry.content \in Contents /\ nextEntry \in Nat \ {0}
        /\ nextEntry + 1 \in 1 .. Len(directory) + 1
    BY <1>1, EntryType DEF ConfigInv
  <2>2. ConfigTypeOK'
    BY <1>1, <1>3, <2>1 DEF ConfigInv, ConfigTypeOK
  <2>3. RawsAreLast'
    <3>1. CASE Entry.scope = profile
      BY <1>1, <1>3, <2>1, <3>1, OneEntryOn DEF ConfigInv, RawsAreLast, Entry
    <3>2. CASE Entry.scope # profile
      BY <1>1, <1>3, <2>1, <3>2, OneEntryOn DEF ConfigInv, RawsAreLast, Entry
    <3> QED BY <3>1, <3>2
  <2> QED BY <1>1, <1>3, <2>2, <2>3 DEF ConfigInv, Decoding, Ended, Decoded
<1> QED BY <1>2, <1>3 DEF ReadFile

(* The steps that leave the loop alone.                                    *)
LEMMA SameRaws ==
  ASSUME ConfigInv, UNCHANGED <<profile, directory, nextEntry, masterRaw, activeRaw>>,
         cfgPc' \in {"idle", "loadConf", "active", "master", "merge", "done"}
  PROVE  ConfigTypeOK' /\ RawsAreLast'
BY DEF ConfigInv, ConfigTypeOK, RawsAreLast, IsLastBefore

LEMMA GetEnvOK == ASSUME ConfigInv, getEnv PROVE ConfigInv'
BY SameRaws DEF ConfigInv, getEnv, AtEntry, ConfigStop, Inputs, Values, Decoding, Ended, Decoded

LEMMA LoadedOK == ASSUME ConfigInv, Loaded PROVE ConfigInv'
<1>1. /\ cfgPc = "loadConf" /\ nextEntry > Len(directory)
      /\ UNCHANGED <<profile, directory, nextEntry, masterRaw, activeRaw, overlay, target>>
      /\ \/ cfgPc' = "done" /\ outcome' = "panic"
         \/ cfgPc' = "active" /\ UNCHANGED outcome
  BY DEF Loaded, Inputs, Values, ConfigStop, ConfigGoto
<1>2. nextEntry = Len(directory) + 1
  BY <1>1 DEF ConfigInv, ConfigTypeOK
<1> QED BY <1>1, <1>2, SameRaws DEF ConfigInv, Decoding, Ended, Decoded

LEMMA DecodeActiveOK == ASSUME ConfigInv, DecodeActive PROVE ConfigInv'
<1>1. /\ cfgPc = "active" /\ UNCHANGED <<profile, decoder, directory, nextEntry, masterRaw, activeRaw>>
      /\ \/ cfgPc' = "done" /\ outcome' = "active" /\ UNCHANGED <<overlay, target>>
         \/ /\ cfgPc' = "master" /\ overlay' = Decode(activeRaw, overlay)
            /\ UNCHANGED <<outcome, target>>
  BY DEF DecodeActive, Inputs, Values, ConfigStop, ConfigGoto, IntoOverlay
<1> QED BY <1>1, SameRaws DEF ConfigInv, Decoding, Ended, Decoded, Decode

LEMMA DecodeMasterOK == ASSUME ConfigInv, DecodeMaster PROVE ConfigInv'
<1>1. /\ cfgPc = "master" /\ UNCHANGED <<profile, decoder, directory, nextEntry, masterRaw, activeRaw>>
      /\ UNCHANGED overlay
      /\ \/ cfgPc' = "done" /\ outcome' = "MasterProfileConfNotSetError" /\ UNCHANGED target
         \/ /\ cfgPc' = "done" /\ outcome' = "master"
            /\ masterRaw # Void /\ masterRaw = Garbled /\ target' \in {target, Broken}
         \/ /\ cfgPc' = "merge" /\ masterRaw # Void /\ target' = Decode(masterRaw, target)
            /\ UNCHANGED outcome
  BY DEF DecodeMaster, Inputs, Values, ConfigStop, ConfigGoto, Undecodable
<1> QED BY <1>1, SameRaws DEF ConfigInv, Decoding, Ended, Decoded, Decode

LEMMA MergeOK == ASSUME ConfigInv, Merge PROVE ConfigInv'
<1>1. /\ cfgPc = "merge" /\ UNCHANGED <<profile, decoder, directory, nextEntry, masterRaw, activeRaw>>
      /\ UNCHANGED overlay
      /\ cfgPc' = "done"
      /\ \/ outcome' = "ok" /\ target' = Override(target, overlay)
         \/ outcome' = "ErrNotSupported" /\ UNCHANGED target
  BY DEF Merge, Inputs, ConfigStop
<1> QED BY <1>1, SameRaws DEF ConfigInv, Decoding, Ended, Decoded, Decode, Override

LEMMA ConfigInvariant == ConfigSpec => []ConfigInv
<1>1. ASSUME ConfigInv, [ConfigNext]_configVars PROVE ConfigInv'
  <2>1. CASE UNCHANGED configVars
    BY <1>1, <2>1, SameRaws DEF configVars, ConfigInv, ConfigTypeOK, Decoding, Ended, Decoded, Decode
  <2> QED BY <1>1, <2>1, UnmarshalOK, SkipEntryOK, ReadFileOK, GetEnvOK, LoadedOK,
             DecodeActiveOK, DecodeMasterOK, MergeOK DEF ConfigNext
<1> QED BY <1>1, ConfigInitOK, PTL DEF ConfigSpec

(* At the end of the loop, the last before is the last.                    *)
LEMMA LastIsLast ==
  ASSUME NEW scope, NEW content, directory \in Seq(Entries),
         IsLastBefore(scope, Len(directory) + 1, content)
  PROVE  LastOf(scope) = content
<1> DEFINE places == { n \in DOMAIN directory : directory[n].scope = scope }
<1>1. DOMAIN directory = 1 .. Len(directory) /\ Len(directory) \in Nat
  OBVIOUS
<1>2. 1 .. (Len(directory) + 1) - 1 = 1 .. Len(directory)
  BY <1>1
<1>3. CASE content = Void /\ \A m \in 1 .. (Len(directory) + 1) - 1 : directory[m].scope # scope
  <2>1. places = {}
    BY <1>1, <1>2, <1>3
  <2> QED BY <1>3, <2>1 DEF LastOf
<1>4. CASE \E m \in 1 .. (Len(directory) + 1) - 1 :
             /\ directory[m].scope = scope /\ directory[m].content = content
             /\ \A j \in m + 1 .. (Len(directory) + 1) - 1 : directory[j].scope # scope
  <2>1. PICK m \in 1 .. Len(directory) :
             /\ directory[m].scope = scope /\ directory[m].content = content
             /\ \A j \in m + 1 .. (Len(directory) + 1) - 1 : directory[j].scope # scope
    BY <1>2, <1>4
  <2>2. m \in places /\ places # {}
    BY <1>1, <2>1
  <2>3. ASSUME NEW n \in places PROVE n <= m
    <3>1. n \in 1 .. Len(directory) /\ directory[n].scope = scope
      BY <1>1
    <3>2. n > m => n \in m + 1 .. (Len(directory) + 1) - 1
      BY <1>1, <3>1
    <3> QED BY <1>1, <2>1, <3>1, <3>2
  <2>4. \A n \in places : (\A k \in places : k <= n) => n = m
    <3>1. \A n \in places : n \in Int
      BY <1>1
    <3> QED BY <2>2, <2>3, <3>1
  <2>5. (CHOOSE n \in places : \A k \in places : k <= n) = m
    BY <2>2, <2>3, <2>4
  <2> QED BY <2>1, <2>2, <2>5 DEF LastOf
<1> QED BY <1>3, <1>4 DEF IsLastBefore

(* When Unmarshal succeeds, the profile's last file wins over the master's *)
(* last, and that over the caller's value, whatever the directory holds    *)
(* and in whatever order.                                                  *)
THEOREM ProfileWinsAlways == ConfigSpec => []ProfileWins
<1>1. ConfigInv => ProfileWins
  <2> SUFFICES ASSUME ConfigInv, outcome = "ok" PROVE ProfileWins
    BY DEF ProfileWins
  <2>1. /\ directory \in Seq(Entries) /\ nextEntry = Len(directory) + 1 /\ masterRaw # Void
        /\ target = Override(Decode(masterRaw, Default), Decode(activeRaw, 0))
    BY DEF ConfigInv, ConfigTypeOK, Ended, Decoded
  <2>2. LastOf(profile) = activeRaw
    BY <2>1, LastIsLast DEF ConfigInv, RawsAreLast
  <2>3. profile # "conf"
    BY <2>1 DEF ConfigInv, RawsAreLast
  <2>4. LastOf("conf") = masterRaw
    BY <2>1, <2>3, LastIsLast DEF ConfigInv, RawsAreLast
  <2> QED BY <2>1, <2>2, <2>3, <2>4 DEF ProfileWins, Override
<1> QED BY <1>1, ConfigInvariant, PTL

(* When Unmarshal fails, nothing of the active profile is in the caller's  *)
(* value; of the master's file there is what was decoded before it failed  *)
(* itself, and all of it when mergo refuses the value.                     *)
THEOREM FailureLeavesIt == ConfigSpec => []FailureLeavesNoProfile
<1>1. ConfigInv => FailureLeavesNoProfile
  <2> SUFFICES ASSUME ConfigInv, outcome \in {"master", "ErrNotSupported"}
               PROVE  LastOf("conf") = masterRaw
    BY DEF ConfigInv, Ended, Decoded, FailureLeavesNoProfile
  <2>1. directory \in Seq(Entries) /\ nextEntry = Len(directory) + 1 /\ masterRaw # Void
    BY DEF ConfigInv, ConfigTypeOK, Ended, Decoded
  <2>2. profile # "conf"
    BY <2>1 DEF ConfigInv, RawsAreLast
  <2> QED BY <2>1, <2>2, LastIsLast DEF ConfigInv, RawsAreLast
<1> QED BY <1>1, ConfigInvariant, PTL

---------------------------------------------------------------------------
(* The arithmetic of RandomAround: int64 wraps around, and a float64 is    *)
(* exact as far as Exact.                                                  *)
LEMMA HalfFacts ==
  /\ Half \in Nat /\ Exact \in Nat /\ 1 < Exact /\ Exact < Half /\ Exact % 2 = 0
  /\ 1 \in PowersOfTwo /\ 2 \in PowersOfTwo
<1>1. /\ Half \in Nat /\ Exact \in 1 .. 2 * Half /\ 1 < Exact /\ Exact < Half
      /\ \A d \in 2 .. Exact : Exact % d = 0 => d % 2 = 0
  BY HalfAssumption DEF PowersOfTwo
<1>2. Exact \in 2 .. Exact /\ Exact % Exact = 0
  BY <1>1
<1>3. Exact % 2 = 0
  BY <1>1, <1>2
<1>4. 1 \in PowersOfTwo /\ 2 \in PowersOfTwo
  BY <1>1 DEF PowersOfTwo
<1> QED BY <1>1, <1>3, <1>4

(* What is in range stays; what is one turn beyond comes back.             *)
LEMMA WrapStays == ASSUME NEW n \in Least .. Most PROVE Wrap(n) = n
BY HalfFacts DEF Wrap, Least, Most

LEMMA WrapTurns ==
  ASSUME NEW n \in Least .. Most
  PROVE  Wrap(n + 2 * Half) = n /\ Wrap(n - 2 * Half) = n
BY HalfFacts DEF Wrap, Least, Most

LEMMA TimesGrows ==
  ASSUME NEW m \in Nat, NEW k \in Nat, NEW u \in Nat, k <= u
  PROVE  k * m <= u * m
<1> DEFINE d == u - k
<1>1. d \in Nat /\ u = k + d
  OBVIOUS
<1>2. d * m \in Nat
  BY <1>1
<1>3. (k + d) * m = k * m + d * m
  BY <1>1
<1> QED BY <1>1, <1>2, <1>3

LEMMA FloatIsExact == ASSUME NEW n \in 1 .. Exact PROVE Float(n) = n
<1> DEFINE Fits(unit) == n < unit * Exact /\ (unit = 1 \/ n * 2 >= unit * Exact)
<1> USE HalfFacts
<1>1. Float(n) = Nearest(n, CHOOSE unit \in PowersOfTwo : Fits(unit))
  BY DEF Float
<1>2. PowersOfTwo \subseteq Nat \ {0}
  BY DEF PowersOfTwo
<1>3. ASSUME n < Exact PROVE Float(n) = n
  <2>1. Fits(1)
    BY <1>3
  <2>2. ASSUME NEW unit \in PowersOfTwo, Fits(unit) PROVE unit = 1
    <3>1. SUFFICES ASSUME unit # 1 PROVE FALSE
      OBVIOUS
    <3>2. unit \in Nat /\ 2 <= unit
      BY <1>2, <3>1
    <3>3. 2 * Exact <= unit * Exact
      BY <3>2, TimesGrows
    <3>4. unit * Exact \in Nat
      BY <3>2
    <3> QED BY <1>3, <2>2, <3>1, <3>3, <3>4
  <2> HIDE DEF Fits
  <2>3. (CHOOSE unit \in PowersOfTwo : Fits(unit)) = 1
    BY <2>1, <2>2
  <2>4. Nearest(n, 1) = n
    BY DEF Nearest
  <2> QED BY <1>1, <2>3, <2>4
<1>4. ASSUME n = Exact PROVE Float(n) = n
  <2>1. Fits(2)
    BY <1>4
  <2>2. ASSUME NEW unit \in PowersOfTwo, Fits(unit) PROVE unit = 2
    <3>1. unit \in Nat /\ unit # 1 /\ unit * Exact \in Nat /\ unit >= 1
      BY <1>2, <1>4, <2>2
    <3>2. SUFFICES ASSUME 3 <= unit PROVE FALSE
      BY <3>1
    <3>3. 3 * Exact <= unit * Exact
      BY <3>1, <3>2, TimesGrows
    <3> QED BY <1>4, <2>2, <3>1, <3>3
  <2> HIDE DEF Fits
  <2>3. (CHOOSE unit \in PowersOfTwo : Fits(unit)) = 2
    BY <2>1, <2>2
  <2>4. n % 2 = 0 /\ 2 * (n \div 2) = n
    BY <1>4
  <2>5. Nearest(n, 2) = n
    BY <2>4 DEF Nearest
  <2> QED BY <1>1, <2>3, <2>5
<1> QED BY <1>3, <1>4

(* The span counts the values from the one bound to the other, in spite of *)
(* the turns that max + 1 and the difference may take.                     *)
LEMMA SpanCounts ==
  ASSUME NEW min \in Least .. Most, NEW max \in Least .. Most, min <= max, max - min < Most
  PROVE  Span(max, -min) = max - min + 1
<1> USE HalfFacts DEF Least, Most
<1>1. max - min + 1 \in 1 .. Most
  OBVIOUS
<1>2. CASE max < Most
  <2>1. Wrap(max + 1) = max + 1
    BY <1>2, WrapStays
  <2>2. Wrap(max - min + 1) = max - min + 1
    BY <1>1, WrapStays
  <2>3. (max + 1) + (-min) = max - min + 1
    OBVIOUS
  <2> QED BY <2>1, <2>2, <2>3 DEF Span
<1>3. CASE max = Most
  <2>1. Wrap(max + 1) = Least
    <3>1. Least \in Least .. Most /\ Least + 2 * Half = max + 1
      BY <1>3
    <3> QED BY <3>1, WrapTurns
  <2>2. Least + (-min) = (max - min + 1) - 2 * Half
    BY <1>3
  <2>3. Wrap((max - min + 1) - 2 * Half) = max - min + 1
    BY <1>1, WrapTurns
  <2> QED BY <2>1, <2>2, <2>3 DEF Span
<1> QED BY <1>2, <1>3

LEMMA DrawIsTheRange ==
  ASSUME NEW min \in Least .. Most, NEW max \in Least .. Most, min <= max, max - min < Most
  PROVE  Draw(max - min + 1, -min) = [how |-> "nil", values |-> min .. max]
<1> DEFINE span == max - min + 1
           values == { Wrap(r - (-min)) : r \in 0 .. span - 1 }
<1> USE HalfFacts DEF Least, Most
<1>1. span \in Nat /\ span > 0
  OBVIOUS
<1>2. ASSUME NEW r \in 0 .. span - 1 PROVE r - (-min) \in min .. max /\ Wrap(r - (-min)) = r - (-min)
  <2>1. r - (-min) \in min .. max /\ r - (-min) \in Least .. Most
    OBVIOUS
  <2> QED BY <2>1, WrapStays
<1>3. values \subseteq min .. max
  BY <1>2
<1>4. ASSUME NEW v \in min .. max PROVE v \in values
  <2>1. v - min \in 0 .. span - 1 /\ (v - min) - (-min) = v
    OBVIOUS
  <2>2. Wrap((v - min) - (-min)) = v
    BY <1>2, <2>1
  <2> QED BY <2>1, <2>2
<1>5. values = min .. max
  BY <1>3, <1>4
<1>6. Draw(span, -min) = [how |-> "nil", values |-> values]
  <2>1. ~(span <= 0)
    BY <1>1
  <2> HIDE DEF span
  <2> QED BY ONLY <2>1, Zenon DEF Draw, values
<1> QED BY <1>5, <1>6, Zenon

(* Every draw of RandomAround is between its bounds, and every value       *)
(* between them can be drawn, as long as they count in an int64 and the    *)
(* lower one in a float64; an error is for bounds in the wrong order only. *)
LEMMA RandomInRangeStep ==
  ASSUME NEW min \in Least .. Most, NEW max \in Least .. Most, RandomAround(min, max)
  PROVE  RandomInRange'
<1> USE HalfFacts DEF Least, Most
<1>1. bounds' = [min |-> min, max |-> max]
  BY DEF RandomAround
<1>2. CASE min > max /\ drawn' = [how |-> "error", values |-> {0}]
  BY <1>1, <1>2 DEF RandomInRange
<1>3. ASSUME NEW low, min <= max, drawn' = Draw(Span(max, low), low),
             max - min < Most /\ -min <= Exact => low = -min
      PROVE  RandomInRange'
  <2>1. drawn'.how # "error"
    BY <1>3 DEF Draw
  <2>2. ASSUME max - min < Most, -min <= Exact PROVE drawn' = [how |-> "nil", values |-> min .. max]
    BY <1>3, <2>2, SpanCounts, DrawIsTheRange
  <2> QED BY <1>1, <1>3, <2>1, <2>2 DEF RandomInRange
<1>4. ASSUME 0 > min, min <= max, NEW low \in Truncated(Float(-min)), drawn' = Draw(Span(max, low), low)
      PROVE  RandomInRange'
  <2>1. ASSUME -min <= Exact PROVE low = -min
    <3>1. -min \in 1 .. Exact
      BY <1>4, <2>1
    <3>2. Float(-min) = -min
      BY <3>1, FloatIsExact
    <3> QED BY <1>4, <3>1, <3>2 DEF Truncated
  <2> QED BY <1>3, <1>4, <2>1
<1>5. CASE 0 <= min /\ min <= max /\ drawn' = Draw(Span(max, -min), -min)
  BY <1>3, <1>5
<1> QED BY <1>2, <1>4, <1>5 DEF RandomAround

(* Whatever bounds SetRandomRetryTime has been given, RandomInRange holds. *)
THEOREM RandomStaysInRange == UtilSpec => []RandomInRange
<1>1. UtilInit => RandomInRange
  BY DEF UtilInit, RandomInRange
<1>2. RandomInRange /\ [UtilNext]_utilVars => RandomInRange'
  <2>1. SUFFICES ASSUME RandomInRange, [UtilNext]_utilVars PROVE RandomInRange'
    OBVIOUS
  <2>2. CASE UtilNext
    BY <2>2, RandomInRangeStep DEF UtilNext
  <2>3. CASE UNCHANGED utilVars
    BY <2>1, <2>3 DEF RandomInRange, utilVars
  <2> QED BY <2>1, <2>2, <2>3
<1> QED BY <1>1, <1>2, PTL DEF UtilSpec
=============================================================================
