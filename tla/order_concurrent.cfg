SPECIFICATION Spec
CONSTANTS
  Orders = {o1}
  Confirmations = {c1, c2, c3}
  NumPolicies = 2
  Concurrent = TRUE
  LostReplies = TRUE
  DbFaults = TRUE
  Crashes = TRUE
INVARIANTS
  PaymentsAreDebited
  QuotaIsPaidFor
  FulfilledIsPaidFor
PROPERTIES
  PaymentNeverUndone
CHECK_DEADLOCK FALSE
