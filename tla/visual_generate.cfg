SPECIFICATION Spec
CONSTANTS
  Workers = {w1}
  Callers = {c1, c2}
  ClientKeys = {k1}
  Files = {f1}
  OldPictures = {p0}
  ClientStatuses = {"completed", "draft"}
  ClientResults = {{}}
  MaxVersions = 2
  MaxFanout = 2
  Overlapping = {"createVersion", "callback", "select"}
  Failing = {"saveSession", "saveCallback", "storeAsset"}
  LostReplies = FALSE
INVARIANTS
  RunsOnReservation
  WrittenBackIsRelated
PROPERTIES
  CallbacksOnlyAdd
SYMMETRY GenerationSymmetry
CHECK_DEADLOCK FALSE
