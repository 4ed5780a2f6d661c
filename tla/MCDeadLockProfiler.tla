------------------------- MODULE MCDeadLockProfiler -------------------------
(* Two rooms, a session and the pool of chunks. *)
EXTENDS DeadLockProfiler, TLC

CONSTANTS room1, room2, session, pool

AllLocks == {room1, room2, session, pool}
TypeName(lock) == IF lock \in {room1, room2} THEN "Room" ELSE
                  IF lock = session THEN "Session" ELSE "SendBufferManager"

Symmetry == Permutations(Threads) \union Permutations({room1, room2})
=============================================================================
