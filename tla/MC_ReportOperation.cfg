SPECIFICATION Spec
CONSTANTS
  c1 = c1
  c2 = c2
  x = x
  y = y
  Command = {c1, c2}
  Steps = 2
  Needs <- TheNeeds
  Report <- TheReports
  Content = {"A", "B"}
  Start = "A"
  None = None
  MaxAttempts = 2
  MaxRevision = 1
  MaxEdits = 1
  MaxFaults = 1
SYMMETRY Symmetry
INVARIANTS ReportTypeOK PassedIsProven WorkFollowsPlan
PROPERTIES OneAnswer FinishedAgrees PassedStays
CHECK_DEADLOCK FALSE
