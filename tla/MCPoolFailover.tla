--------------------------- MODULE MCPoolFailover ---------------------------
(* TLC instances of PoolFailover. *)
EXTENDS PoolFailover, TLC

Symmetry == Permutations(Socks) \cup Permutations(Windows)
=============================================================================
