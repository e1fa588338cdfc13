SPECIFICATION Spec
CONSTANTS
  Workers = {w1, w2}
  SourceForms <- MCSourceForms
  SourceEdits <- MCSourceEdits
  Orders <- MCOrders
  Readings <- MCReadings
  Overlapping = {"createJob"}
  Failing = {"find", "insert", "manifest"}
  MaxSources = 2
  MaxJobs = 2
  MaxDeliveries = 2
  LostReplies = TRUE
INVARIANTS
  NamedIsBacked
  WaitingIsRunning
PROPERTIES
  KeepsPreparation
SYMMETRY RequestSymmetry
CHECK_DEADLOCK FALSE
