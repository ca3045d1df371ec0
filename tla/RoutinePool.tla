---------------------------- MODULE RoutinePool ----------------------------
(***************************************************************************)
(* pool: the common and the worker pool of goroutines.  Init creates the   *)
(* pool under a sync.Once and stores its local variable afterwards,        *)
(* whether this call created a pool or not.  Get hands out the address of  *)
(* the global, so Submit and Release use what is stored when they run.     *)
(***************************************************************************)
EXTENDS Integers, Sequences

CONSTANTS
  Routines,   \* goroutines that use the pools
  PoolKinds,  \* the common pool, the worker pool
  NoKind,     \* neither
  MaxInits,   \* bound: calls of Init
  MaxUses     \* bound: calls of Submit (Invoke) and Release

ASSUME RoutineAssumption == NoKind \notin PoolKinds /\ MaxInits \in Nat /\ MaxUses \in Nat

VARIABLES
  handle,      \* commonPool.Pool and workerPool.PoolWithFunc
  antsPools,   \* the ants pools created
  routine,     \* what each goroutine is doing
  inits,       \* calls of Init begun
  uses,        \* calls of Submit and Release begun
  poolProcess  \* "running", "exited" (Fatal) or "panicked"

poolVars == <<handle, antsPools, routine, inits, uses, poolProcess>>

NilPool == 0   \* the nil pointer; the others are indices of antsPools
AtRest  == [pc |-> "idle", kind |-> NoKind, pool |-> NilPool]

RoutineInit ==
  /\ handle = [k \in PoolKinds |-> NilPool]
  /\ antsPools = <<>>
  /\ routine = [g \in Routines |-> AtRest]
  /\ inits = [k \in PoolKinds |-> 0]
  /\ uses = 0
  /\ poolProcess = "running"

RoutineAt(g, pc) == poolProcess = "running" /\ routine[g].pc = pc

RoutineGoto(g, pc, k, p) == routine' = [routine EXCEPT ![g] = [pc |-> pc, kind |-> k, pool |-> p]]

Used == uses < MaxUses /\ uses' = uses + 1

---------------------------------------------------------------------------
(* Slips that the configuration is tested against: Get returns the address *)
(* untested.                                                               *)
Untested(k) == FALSE

---------------------------------------------------------------------------
(* InitCommonPool, InitWorkerPool.  A call that the sync.Once holds back   *)
(* creates nothing and has no error; a configuration that ants refuses     *)
(* ends the process.                                                       *)
InitOnce(g, k) ==
  /\ RoutineAt(g, "idle")
  /\ inits[k] < MaxInits /\ inits' = [inits EXCEPT ![k] = @ + 1]
  /\ \/ /\ inits[k] = 0
        /\ antsPools' = Append(antsPools, [kind |-> k, released |-> FALSE])
        /\ RoutineGoto(g, "store", k, Len(antsPools) + 1)
        /\ UNCHANGED poolProcess
     \/ /\ inits[k] = 0 /\ poolProcess' = "exited"
        /\ UNCHANGED <<antsPools, routine>>
     \/ /\ inits[k] > 0 /\ RoutineGoto(g, "store", k, NilPool)
        /\ UNCHANGED <<antsPools, poolProcess>>
  /\ UNCHANGED <<handle, uses>>

StorePool(g) ==
  /\ RoutineAt(g, "store")
  /\ handle' = [handle EXCEPT ![routine[g].kind] = routine[g].pool]
  /\ RoutineGoto(g, "idle", NoKind, NilPool)
  /\ UNCHANGED <<antsPools, inits, uses, poolProcess>>

(* GetCommonPool, GetWorkerPool: what the goroutine gets is not this pool  *)
(* but the place where it is stored.                                       *)
IsNil(k) == handle[k] = NilPool

GetPool(g, k) ==
  /\ RoutineAt(g, "idle")
  /\ \/ IsNil(k) /\ poolProcess' = "exited" /\ UNCHANGED routine
     \/ ~IsNil(k) /\ RoutineGoto(g, "got", k, NilPool) /\ UNCHANGED poolProcess
  /\ UNCHANGED <<handle, antsPools, inits, uses>>

(* A method of the nil pool panics.                                        *)
OnNil(g) ==
  /\ RoutineAt(g, "got") /\ handle[routine[g].kind] = NilPool
  /\ poolProcess' = "panicked"
  /\ UNCHANGED <<handle, antsPools, routine, inits, uses>>

(* Submit, Invoke: the task runs, or ErrPoolClosed or ErrPoolOverload is   *)
(* returned; the goroutine may go on using what it got.                    *)
Submit(g) ==
  /\ RoutineAt(g, "got") /\ handle[routine[g].kind] # NilPool
  /\ Used
  /\ \/ UNCHANGED routine
     \/ RoutineGoto(g, "idle", NoKind, NilPool)
  /\ UNCHANGED <<handle, antsPools, inits, poolProcess>>

Release(g) ==
  LET p == handle[routine[g].kind]
  IN  /\ RoutineAt(g, "got") /\ p # NilPool
      /\ Used
      /\ antsPools' = [antsPools EXCEPT ![p].released = TRUE]
      /\ UNCHANGED <<handle, routine, inits, poolProcess>>

RoutineNext ==
  \E g \in Routines :
    \/ StorePool(g) \/ OnNil(g) \/ Submit(g) \/ Release(g)
    \/ \E k \in PoolKinds : InitOnce(g, k) \/ GetPool(g, k)

RoutineSpec == RoutineInit /\ [][RoutineNext]_poolVars

---------------------------------------------------------------------------
(* No kind ever has two pools.  As long as Init of a kind is called once,  *)
(* its pool is stored or about to be, and nobody who got it meets the nil  *)
(* pool; a second call takes the pool away from those who have it.         *)
PoolServes ==
  /\ \A p, q \in DOMAIN antsPools : antsPools[p].kind = antsPools[q].kind => p = q
  /\ \A p \in DOMAIN antsPools : LET k == antsPools[p].kind IN
       inits[k] = 1 =>
         \/ handle[k] = p
         \/ \E g \in Routines : routine[g] = [pc |-> "store", kind |-> k, pool |-> p]
  /\ poolProcess = "panicked" => \E k \in PoolKinds : inits[k] > 1
=============================================================================
