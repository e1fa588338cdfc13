---------------------------- MODULE MCImageJob ----------------------------
(* ImageJob with the values of its structured constants for TLC.           *)
EXTENDS ImageJob, TLC

(* A product that lacks only a model shot. *)
MCOtherRoles == {"hero"}

MCProduct == [status |-> "draft", assetStatus |-> "partial",
              listingStatus |-> "ready", exportStatus |-> "pending"]

WorkerSymmetry == Permutations(Workers)
=============================================================================
