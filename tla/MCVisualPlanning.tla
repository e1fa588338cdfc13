--------------------------- MODULE MCVisualPlanning ---------------------------
(* VisualPlanning with the values of its structured constants for TLC.     *)
EXTENDS VisualPlanning

MCSourceForms ==
  {[kind |-> "product_asset", role |-> "sku", usable |-> TRUE],
   [kind |-> "product_asset", role |-> "reference", usable |-> TRUE]}

MCSourceEdits == {}

Read(track, dimension, readiness) ==
  [track |-> track, dimension |-> dimension, source |-> 0, readiness |-> readiness]

(* Two facts that compete for one slot; the other track has its fallback.  *)
MCAnswers ==
  {{Read("reference", "background", "needs_review"),
    Read("reference", "background", "ready")}}

MCChoices == [decision : {"keep", "drop"}, slotted : {TRUE}]

(* No answers, or one on the slot of the facts and one on the other track. *)
MCAnswerSets ==
  {{}, {[slot |-> <<"reference", "background">>, decision |-> "drop"],
        [slot |-> <<"sku", "product">>, decision |-> "drop"]}}
===============================================================================
