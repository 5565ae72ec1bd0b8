SPECIFICATION FairSpec
CONSTANTS
  c1 = c1
  c2 = c2
  c3 = c3
  p1 = p1
  p2 = p2
  h1 = h1
  h2 = h2
  Command = {c1, c2, c3}
  Resume = {c3}
  Process = {p1, p2}
  Holder = {h1, h2}
  PidOf <- Shared
  HolderOf <- TwoSessions
  MaxToken = 3
  NoRow = NoRow
INVARIANTS LeaseIsInUse OneFinalizer
PROPERTIES LeaseComesFree
CHECK_DEADLOCK FALSE
