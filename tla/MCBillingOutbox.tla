-------------------------- MODULE MCBillingOutbox --------------------------
(* BillingOutbox with the symmetry of its identities for TLC.              *)
EXTENDS BillingOutbox, TLC

IdSymmetry == Permutations(Recorders) \cup Permutations(Refunders)
                \cup Permutations(Replayers)
=============================================================================
