--------------------------- MODULE RuntimeStatus ---------------------------
(***************************************************************************)
(* How the visual workflow reads the status words of the platform runtime. *)
(* Three functions of internal/modules/visualworkflow translate them, each *)
(* its own way: one for deconstruction jobs, one for the answer to a newly *)
(* created generation job, one for the callbacks of a generation job.      *)
(***************************************************************************)

RuntimeStatuses == {"queued", "processing", "completed", "failed", "canceled"}

(* The words a runtime job may report, and two the code does not know.     *)
RuntimeWords ==
  {"", "queued", "pending", "processing", "running", "started", "completed",
   "succeeded", "success", "failed", "error", "canceled", "cancelled", "other"}

(* "invalid" is the error of the code; "" the word it was not given. *)
NormalizeVisualDeconstructionRuntimeStatus(word, allowEmpty) ==
  CASE word = ""                                      -> IF allowEmpty THEN "" ELSE "invalid"
    [] word \in {"queued", "pending"}                 -> "queued"
    [] word \in {"processing", "running", "started"}  -> "processing"
    [] word \in {"completed", "succeeded", "success"} -> "completed"
    [] word \in {"failed", "error"}                   -> "failed"
    [] word \in {"canceled", "cancelled"}             -> "canceled"
    [] OTHER                                          -> "invalid"

(* The error of the normalization is dropped: an unknown word is "".       *)
MapVisualDeconstructionRuntimeStatus(word) ==
  LET status == NormalizeVisualDeconstructionRuntimeStatus(word, TRUE)
  IN  IF status = "invalid" THEN "" ELSE status

MapGenerationRuntimeStatus(word) ==
  CASE word = "queued"                     -> "queued"
    [] word \in {"completed", "succeeded"} -> "completed"
    [] word \in {"failed", "canceled"}     -> word
    [] OTHER                               -> "processing"

NormalizeGenerationRuntimeCallbackStatus(word) ==
  CASE word = "queued"                      -> "queued"
    [] word \in {"processing", "running"}   -> "processing"
    [] word \in {"completed", "succeeded"}  -> "completed"
    [] word = "failed"                      -> "failed"
    [] word \in {"canceled", "cancelled"}   -> "canceled"
    [] OTHER                                -> ""

=============================================================================
