SPECIFICATION Spec
CONSTANTS
  Workers = {w1, w2}
  NumVariants = 1
  SelectedVariant = 1
  ResultRole = "model_shot"
  OtherRoles <- MCOtherRoles
  InitialProduct <- MCProduct
  NoAsset = NoAsset
  LostReplies = TRUE
  DbFaults = FALSE
  Crashes = FALSE
  Concurrent = TRUE
  ProgressResults = FALSE
SYMMETRY WorkerSymmetry
INVARIANTS
  MeteredAfterDelivery
  RecordIsBacked
  QuarantineHolds
  SelectionIsArchived
CHECK_DEADLOCK FALSE
