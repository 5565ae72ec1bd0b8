------------------------- MODULE MC_WorkspaceFence -------------------------
(* A small instance of WorkspaceFence for TLC. *)
EXTENDS WorkspaceFence, TLC

Symmetry == Permutations(Run) \cup Permutations(Workspace)
            \cup Permutations(Session)

=============================================================================
