---------------------------- MODULE Reconnection ----------------------------
(* What the consumer pools of a process promise about the errors of their  *)
(* tasks: a task settles one error at most; an error either starts a       *)
(* reconnect of the task's own pool, while no pool reconnects, or is       *)
(* dropped, while one does; and a new list of connections, with its tasks, *)
(* is what one error has been spent on.                                    *)
EXTENDS Integers

CONSTANTS
  Pools,
  Tasks   \* each of a pool and of one of its lists of connections, gen

VARIABLES
  error,  \* what has become of the error of each task: "none", "raised", "settled"
  phase,  \* each pool is "listening", "reconnecting" or "restoring"
  lists   \* how many lists of connections each pool has had tasks for

Init ==
  /\ error = [t \in Tasks |-> "none"]
  /\ phase = [p \in Pools |-> "listening"]
  /\ lists = [p \in Pools |-> 1]

Idle == \A p \in Pools : phase[p] # "reconnecting"

Raise(t) ==
  /\ error[t] = "none" /\ t.gen <= lists[t.pool]
  /\ error' = [error EXCEPT ![t] = "raised"]
  /\ UNCHANGED <<phase, lists>>

Serve(t) ==
  /\ error[t] = "raised" /\ Idle /\ phase[t.pool] = "listening"
  /\ error' = [error EXCEPT ![t] = "settled"]
  /\ phase' = [phase EXCEPT ![t.pool] = "reconnecting"]
  /\ UNCHANGED lists

Drop(t) ==
  /\ error[t] = "raised" /\ ~Idle
  /\ error' = [error EXCEPT ![t] = "settled"]
  /\ UNCHANGED <<phase, lists>>

(* A task ends without an error to report.                                 *)
End(t) ==
  /\ error[t] = "none" /\ t.gen <= lists[t.pool]
  /\ error' = [error EXCEPT ![t] = "settled"]
  /\ UNCHANGED <<phase, lists>>

Answered(p) ==
  /\ phase[p] = "reconnecting"
  /\ phase' = [phase EXCEPT ![p] = "restoring"]
  /\ UNCHANGED <<error, lists>>

Restored(p) ==
  /\ phase[p] = "restoring"
  /\ phase' = [phase EXCEPT ![p] = "listening"]
  /\ lists' = [lists EXCEPT ![p] = @ + 1]
  /\ UNCHANGED error

Next ==
  \/ \E t \in Tasks : Raise(t) \/ Serve(t) \/ Drop(t) \/ End(t)
  \/ \E p \in Pools : Answered(p) \/ Restored(p)

Spec == Init /\ [][Next]_<<error, phase, lists>>
=============================================================================
