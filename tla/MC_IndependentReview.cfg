SPECIFICATION Spec
CONSTANTS
  h1 = h1 h2 = h2 o1 = o1 x = x y = y e1 = e1 e2 = e2 p = p
  Host = {h1, h2}
  Operator = {o1}
  Content = {x, y}
  Evidence = {e1, e2}
  Paths = {p}
  PathsOf <- SamePaths
  MaxRevision = 1
  MaxOthers = 1
  None = None
SYMMETRY Symmetry
INVARIANTS OneReviewer VerdictOnSubject
PROPERTY SubjectsAreJudgedOnce
CHECK_DEADLOCK FALSE
