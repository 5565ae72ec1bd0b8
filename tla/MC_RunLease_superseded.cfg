SPECIFICATION Spec
CONSTANTS
  c1 = c1
  c2 = c2
  c3 = c3
  p1 = p1
  p2 = p2
  h1 = h1
  h2 = h2
  Command = {c1, c2}
  Resume = {}
  Process = {p1, p2}
  Holder = {h1}
  PidOf <- TwoProcesses
  HolderOf <- OneHolder
  MaxToken = 3
  NoRow = NoRow
PROPERTIES SupersededRejected
CHECK_DEADLOCK FALSE
