---------------------------- MODULE MCSendBuffer ----------------------------
(* SendBuffer with threads, chunks and buffers interchangeable. *)
EXTENDS SendBuffer, TLC

Symmetry == Permutations(Threads) \union Permutations(Chunks) \union Permutations(Buffers)
=============================================================================
