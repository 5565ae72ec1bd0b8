------------------------- MODULE MC_KnowledgeLedger -------------------------
(* Two workers on two runs, that observe a fact in common.                    *)
EXTENDS KnowledgeLedger

CONSTANTS f, g, r1, r2

Both == [r \in {r1, r2} |-> IF r = r1 THEN {f} ELSE {f, g}]
Alike == Permutations(Worker)
=============================================================================
