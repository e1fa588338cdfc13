SPECIFICATION FairSpec
CONSTANTS
  Workers = {w1}
  NumVariants = 2
  SelectedVariant = 2
  ResultRole = "model_shot"
  OtherRoles <- MCOtherRoles
  InitialProduct <- MCProduct
  NoAsset = NoAsset
  LostReplies = FALSE
  DbFaults = FALSE
  Crashes = FALSE
  Concurrent = TRUE
  ProgressResults = FALSE
INVARIANTS
  OfferedIsMetered
  ProductInSync
  NeverMeteredAndReleased
PROPERTIES
  JobGetsOver
CHECK_DEADLOCK FALSE
