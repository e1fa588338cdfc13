SPECIFICATION Spec
CONSTANTS
  Recorders = {r1, r2}
  Refunders = {f1}
  Replayers = {p1, p2}
  Concurrent = TRUE
  LostReplies = TRUE
  DbFaults = TRUE
  Crashes = TRUE
SYMMETRY IdSymmetry
INVARIANTS
  ClosedIsReported
  ChargeQueuedOnce
CHECK_DEADLOCK FALSE
