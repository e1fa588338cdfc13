SPECIFICATION Spec
CONSTANTS
  Orders = {o1, o2}
  Confirmations = {c1, c2, c3}
  NumPolicies = 1
  Concurrent = FALSE
  LostReplies = FALSE
  DbFaults = FALSE
  Crashes = FALSE
PROPERTIES
  KeepsPromise
CHECK_DEADLOCK FALSE
