SPECIFICATION InvocationSpec
CONSTANTS
  Run = {r1, r2}
  Worktree = {w1}
  Session = {s1}
  Digest = {d1}
  Process = {p1, p2}
  Invoker = {p1}
  None = None
SYMMETRY Symmetry
PROPERTIES NewTaskTakesUpNothing 
CHECK_DEADLOCK FALSE
