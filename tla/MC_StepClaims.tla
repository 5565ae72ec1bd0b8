--------------------------- MODULE MC_StepClaims ---------------------------
(* Two Hosts and a batch of two steps. *)
EXTENDS StepClaims, TLC

CONSTANTS h1, h2

Symmetry == Permutations(Host)

=============================================================================
