------------------------------- MODULE MCRoom -------------------------------
(* Instances of Room for TLC. *)
EXTENDS Room, TLC

\* Players are interchangeable where all of them, or none, may expire.
PlayerSymmetry == Permutations(Players)
=============================================================================
