---------------------------- MODULE MC_Invocation ----------------------------
(* A small instance of Invocation for TLC. *)
EXTENDS Invocation, TLC

Symmetry == Permutations(Run)

=============================================================================
