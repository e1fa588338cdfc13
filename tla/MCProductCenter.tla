-------------------------- MODULE MCProductCenter --------------------------
(* ProductCenter with the values of its structured constants for TLC.      *)
EXTENDS ProductCenter, TLC

(* The steps that answer for their database errors; the others go on as if *)
(* nothing had happened.                                                   *)
MCReportingSteps ==
  {"fetchRelation", "clearPrimary", "saveRelation", "checkAssets", "checkAdopted",
   "insert", "deleteListing", "saveExport", "checkStatus", "saveProduct"}

IdSymmetry ==
  Permutations(Workers) \cup Permutations(Relations) \cup Permutations(Assets)
    \cup Permutations(Listings) \cup Permutations(Exports)
=============================================================================
