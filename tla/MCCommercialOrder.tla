------------------------- MODULE MCCommercialOrder -------------------------
(* CommercialOrder with the symmetry of its identities for TLC.            *)
EXTENDS CommercialOrder, TLC

IdSymmetry == Permutations(Orders) \cup Permutations(Confirmations)
=============================================================================
