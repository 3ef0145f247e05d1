-------------------------- MODULE MCContributions ---------------------------
(* Constants for model checking Contributions. *)
EXTENDS Contributions, TLC

Symmetry == Permutations(Payments)
=============================================================================
