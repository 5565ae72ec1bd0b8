SPECIFICATION Spec
CONSTANTS
  r1 = r1
  s1 = s1
  s2 = s2
  d1 = d1
  d2 = d2
  Run = {r1}
  Workspace = {w1}
  Session = {s1, s2}
  Delivery = {d1, d2}
  RunOf <- TheRun
  SessionOf <- TheirSessions
  Admitted <- TheAdmitted
  MaxEpoch = 3
  MaxRevision = 2
  None = None
INVARIANTS
  OneDeliveryPerSnapshot  UnrecordedIsPending
  ApplyExclusiveUntilRecovery
CHECK_DEADLOCK FALSE
