SPECIFICATION Spec
CONSTANTS
  Workers = {w1}
  Relations = {r1, r2}
  Assets = {a1, a2}
  Roles = {"hero", "model_shot"}
  Listings = {l1, l2}
  Exports = {e1}
  Operations <- AllOperations
  Concurrent = FALSE
  Failing <- MCReportingSteps
  LostReplies = TRUE
INVARIANTS
  OneAdopted
  ListingReadyIffAdopted
  OnePrimary
  ExportIsBacked
  MeteredIsStored
  SuccessIsBilled
PROPERTIES
  AdoptedIsKept
SYMMETRY IdSymmetry
