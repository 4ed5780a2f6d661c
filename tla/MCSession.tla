------------------------------ MODULE MCSession ------------------------------
(* Instances of Session for TLC. *)
EXTENDS Session, TLC

\* Worker threads are interchangeable.
WorkerSymmetry == Permutations(Workers)
=============================================================================
