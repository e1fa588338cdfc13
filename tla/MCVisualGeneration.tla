------------------------- MODULE MCVisualGeneration -------------------------
(* VisualGeneration with the values of its structured constants for TLC.   *)
EXTENDS VisualGeneration, TLC

GenerationSymmetry == Permutations(Workers) \cup Permutations(Callers)
                        \cup Permutations(Files)
=============================================================================
