-------------------------- MODULE MC_RunLifecycle --------------------------
(* A small instance of RunLifecycle for TLC. *)
EXTENDS RunLifecycle, TLC

Symmetry == Permutations(Run) \cup Permutations(Session)
            \cup Permutations(Process)

=============================================================================
