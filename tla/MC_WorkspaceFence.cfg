SPECIFICATION FenceSpec
CONSTANTS
  Run = {r1, r2}
  Workspace = {w1, w2}
  Session = {s1, s2}
  MaxEpoch = 3
  None = None
SYMMETRY Symmetry
INVARIANT OnlyNewestPasses
PROPERTIES TokenNeverReissued
CHECK_DEADLOCK FALSE
