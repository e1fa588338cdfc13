SPECIFICATION Spec
CONSTANTS
  Workers = {w1, w2}
  NumVariants = 2
  SelectedVariant = 2
  ResultRole = "model_shot"
  OtherRoles <- MCOtherRoles
  InitialProduct <- MCProduct
  NoAsset = NoAsset
  LostReplies = FALSE
  DbFaults = TRUE
  Crashes = TRUE
  Concurrent = FALSE
  ProgressResults = TRUE
INVARIANTS
  OneAssetPerVariant
  ArchivedOnce
PROPERTIES
  ProgressKeepsTerminal
CHECK_DEADLOCK FALSE
