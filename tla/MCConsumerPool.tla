-------------------------- MODULE MCConsumerPool --------------------------
(* Finite instances of ConsumerPool.  Receives with the same IsTry are      *)
(* alike: they are permuted where no liveness property is checked.         *)
EXTENDS ConsumerPool, TLC

Symmetry == Permutations(Receives)
=============================================================================
