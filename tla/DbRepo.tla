------------------------------- MODULE DbRepo -------------------------------
(***************************************************************************)
(* db: a repository has a handle for writing and one for reading, which is *)
(* the same unless OpenSlaveRead.  Each handle is a pool of connections    *)
(* until it is closed.  Init returns the global Repo, which another Init   *)
(* may have replaced in the meantime.                                      *)
(***************************************************************************)
EXTENDS Integers, FiniteSets

CONSTANTS
  Inits,    \* the calls of Init
  NoRepo    \* nil

ASSUME DbAssumption == NoRepo \notin Inits

VARIABLES
  openDbs,  \* handles that are open, each named for its Init and its use
  repo,     \* where each Init is, and the Repo that it returned
  GRpo,     \* the Init that made the global Repo
  closings  \* history: the methods called to close each Repo

dbVars == <<openDbs, repo, GRpo, closings>>

Writer(i) == [init |-> i, use |-> "write"]
Reader(i) == [init |-> i, use |-> "read"]
NotBegun  == [pc |-> "idle", slave |-> FALSE, got |-> NoRepo]

DbInit ==
  /\ openDbs = {}
  /\ repo = [i \in Inits |-> NotBegun]
  /\ GRpo = NoRepo
  /\ closings = [i \in Inits |-> {}]

RepoGoto(i, pc) == repo' = [repo EXCEPT ![i].pc = pc]

---------------------------------------------------------------------------
(* Slips that the configuration is tested against: DbR is the writer even  *)
(* if a reader was opened.                                                 *)
AlwaysWriter(i) == Writer(i)

---------------------------------------------------------------------------
(* gorm.Open fails, or there is a new pool of connections.                 *)
dbConnect(db, ok) == openDbs' = IF ok THEN openDbs \cup {db} ELSE openDbs

(* Both connects of Init may fail; the writer of one that fails at its     *)
(* reader stays open.                                                      *)
ConnectWriter(i, slave) ==
  /\ repo[i] = NotBegun
  /\ \/ /\ dbConnect(Writer(i), TRUE)
        /\ repo' = [repo EXCEPT ![i].pc = IF slave THEN "reader" ELSE "publish", ![i].slave = slave]
     \/ /\ dbConnect(Writer(i), FALSE)
        /\ repo' = [repo EXCEPT ![i].pc = "failed", ![i].slave = slave]
  /\ UNCHANGED <<GRpo, closings>>

ConnectReader(i) ==
  /\ repo[i].pc = "reader"
  /\ \/ dbConnect(Reader(i), TRUE) /\ RepoGoto(i, "publish")
     \/ dbConnect(Reader(i), FALSE) /\ RepoGoto(i, "leaked")
  /\ UNCHANGED <<GRpo, closings>>

Publish(i) ==
  /\ repo[i].pc = "publish"
  /\ GRpo' = i
  /\ RepoGoto(i, "return")
  /\ UNCHANGED <<openDbs, closings>>

Return(i) ==
  /\ repo[i].pc = "return"
  /\ repo' = [repo EXCEPT ![i].pc = "returned", ![i].got = GRpo]
  /\ UNCHANGED <<openDbs, GRpo, closings>>

DbW(i) == Writer(i)
DbR(i) == IF repo[i].slave THEN Reader(i) ELSE Writer(i)

(* Closing a handle again does nothing.                                    *)
CloseDb(r, db, method) ==
  /\ openDbs' = openDbs \ {db}
  /\ closings' = [closings EXCEPT ![r] = @ \cup {method}]
  /\ UNCHANGED <<repo, GRpo>>

DbRClose(i) == /\ repo[i].pc = "returned"
               /\ LET r == repo[i].got IN CloseDb(r, DbR(r), "DbRClose")
DbWClose(i) == /\ repo[i].pc = "returned"
               /\ LET r == repo[i].got IN CloseDb(r, DbW(r), "DbWClose")

DbNext ==
  \E i \in Inits :
    \/ \E slave \in BOOLEAN : ConnectWriter(i, slave)
    \/ ConnectReader(i) \/ Publish(i) \/ Return(i) \/ DbRClose(i) \/ DbWClose(i)

DbSpec == DbInit /\ [][DbNext]_dbVars

---------------------------------------------------------------------------
Handles(i) == IF repo[i].slave THEN {Writer(i), Reader(i)} ELSE {Writer(i)}

Published(i) == repo[i].pc \in {"return", "returned"}

(* A handle is closed by the method of its use and by no other, but for    *)
(* the shared one, which either method closes.  What is open belongs to an *)
(* Init that goes on or to a Repo that was published, but for the writer   *)
(* of an Init that failed at its reader.  A caller of Init gets its own    *)
(* Repo, or a complete one that has taken its place as the global one.     *)
ClosedByItsOwn ==
  /\ \A i \in Inits : Published(i) =>
       /\ Writer(i) \notin openDbs <=>
            closings[i] \cap (IF repo[i].slave THEN {"DbWClose"} ELSE {"DbRClose", "DbWClose"}) # {}
       /\ repo[i].slave => (Reader(i) \notin openDbs <=> "DbRClose" \in closings[i])
  /\ \A i \in Inits : \A db \in {Writer(i), Reader(i)} \cap openDbs :
       \/ (repo[i].pc \in {"reader", "publish"} \/ Published(i)) /\ db \in Handles(i)
       \/ repo[i].pc = "leaked" /\ db = Writer(i)
  /\ GRpo # NoRepo => Published(GRpo)
  /\ \A i \in Inits : repo[i].pc = "returned" =>
       repo[i].got = i \/ (Published(repo[i].got) /\ GRpo # i)
=============================================================================
