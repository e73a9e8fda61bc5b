------------------------------ MODULE MCKMutex ------------------------------
(* KMutex with a few threads. *)
EXTENDS KMutex, TLC

Symmetry == Permutations(Thread)
=============================================================================
