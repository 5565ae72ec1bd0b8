------------------------ MODULE MC_IndependentReview ------------------------
(* Two Hosts that name the same changed paths, and an operator whose run has  *)
(* them too.                                                                  *)
EXTENDS IndependentReview, TLC

CONSTANTS h1, h2, o1, x, y, e1, e2, p

SamePaths == [a \in Actor |-> p]

Symmetry == Permutations(Host) \cup Permutations(Content) \cup Permutations(Evidence)

=============================================================================
