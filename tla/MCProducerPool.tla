-------------------------- MODULE MCProducerPool --------------------------
(* Finite instances of ProducerPool: the hash codes and the symmetry used  *)
(* by the ProducerPool configurations.                                     *)
EXTENDS ProducerPool, TLC

DistinctHash(i, t)  == <<i, t>>   \* no two targets share a hash code
CollidingHash(i, t) == i          \* all targets of a connection share one

Symmetry == Permutations(Pushers)
=============================================================================
