SPECIFICATION Spec
CONSTANTS
  Run = {r1, r2}
  Worktree = {w1}
  Session = {s1, s2}
  Digest = {d1}
  Process = {p1, p2}
  None = None
SYMMETRY Symmetry
INVARIANTS
  LeaseHolderMutable MutableRunHoldsLease OneOwnedRunPerSession
  HeirIsSuccessor
PROPERTIES
  LeaseIsMutex OwnershipNeverTransfers
CHECK_DEADLOCK FALSE
