SPECIFICATION FairSpec
CONSTANTS
  Recorders = {r1, r2}
  Refunders = {f1}
  Replayers = {p1}
  Concurrent = TRUE
  LostReplies = TRUE
  DbFaults = FALSE
  Crashes = FALSE
INVARIANTS
  ReportedOrQueued
PROPERTIES
  OutboxDrains
CHECK_DEADLOCK FALSE
