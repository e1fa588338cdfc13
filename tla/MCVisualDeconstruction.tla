------------------------ MODULE MCVisualDeconstruction ------------------------
(* VisualDeconstruction with the values of its structured constants for TLC. *)
EXTENDS VisualDeconstruction, TLC

MCSourceForms ==
  {[kind |-> "product_asset", role |-> "sku", usable |-> TRUE],
   [kind |-> "url", role |-> "none", usable |-> TRUE]}

MCSourceEdits == {<<"ready", "ready">>}

(* A full answer, and text with one element that names no source.          *)
MCReadings ==
  {[slots |-> {<<"sku", "product">>, <<"reference", "background">>}, named |-> TRUE,
    sure |-> TRUE, text |-> FALSE],
   [slots |-> {<<"sku", "product">>}, named |-> FALSE, sure |-> FALSE, text |-> TRUE]}

(* With a key of the client's the job is about one picture, without about  *)
(* the two.                                                                *)
MCOrders == {[client |-> "k1", single |-> TRUE], [client |-> "none", single |-> FALSE]}

RequestSymmetry == Permutations(Workers)
===============================================================================
