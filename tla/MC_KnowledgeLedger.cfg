SPECIFICATION Spec
CONSTANTS
  f = f g = g r1 = r1 r2 = r2
  None = None
  Worker = {w1, w2}
  Run = {r1, r2}
  Fact = {f, g}
  Observed <- Both
  Promoted = {r2}
  Retries = 2
  MaxCommands = 3
  MaxImports = 2
  MaxEvents = 4
  MaxCrashes = 1
SYMMETRY Alike
INVARIANT KnowledgeTypeOK
PROPERTY LedgerIsABook
PROPERTY RetiredKeepsKnowledge
CHECK_DEADLOCK FALSE
