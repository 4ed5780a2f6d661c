---------------------------- MODULE MCChatServer ----------------------------
(* Instances of ChatServer for TLC. *)
EXTENDS ChatServer, TLC

CONSTANTS u1, u2, lounge, den

\* Rooms that are there when the users of an instance come.
OneRoom == <<lounge>>

\* One user types more than the other.
FourAndTwo == (u1 :> 4) @@ (u2 :> 2)

\* Nothing tells one nickname from another.
NameSymmetry == Permutations(Names)
=============================================================================
