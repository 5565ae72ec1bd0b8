SPECIFICATION Spec
CONSTANTS
  h1 = h1
  h2 = h2
  Host = {h1, h2}
  Steps = 2
  Width = 2
  MaxAttempts = 3
  MaxRevision = 2
  MaxFaults = 1
SYMMETRY Symmetry
INVARIANTS ClaimsTypeOK OneWriter PassedIsDelivered
PROPERTIES PatchOnItsBase PassedStays
CHECK_DEADLOCK FALSE
