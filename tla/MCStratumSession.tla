------------------------- MODULE MCStratumSession -------------------------
(* Instances of StratumSession for TLC. *)
EXTENDS StratumSession, TLC

Symmetry == Permutations(Jobs)
=============================================================================
