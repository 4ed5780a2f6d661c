------------------------------ MODULE MCRWLock ------------------------------
(* Instances of RWLock for TLC. *)
EXTENDS RWLock, TLC

\* Threads are interchangeable: nothing orders them.
ThreadSymmetry == Permutations(Threads)
=============================================================================
