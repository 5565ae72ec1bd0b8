------------------------- MODULE MC_ReportOperation -------------------------
(* Two steps, the second after the first, two commands alike; a report that *)
(* names the second step and one that names none.                            *)
EXTENDS ReportOperation, TLC

CONSTANTS c1, c2, x, y

TheNeeds == <<{}, {1}>>
TheReports == {[step |-> 2, claim |-> x], [step |-> 0, claim |-> y]}
Symmetry == Permutations(Command)

=============================================================================
