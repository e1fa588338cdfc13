----------------------------- MODULE RemoteCall -----------------------------
(***************************************************************************)
(* A call of the platform over HTTP (internal/platform/client.go), as its  *)
(* callers see it.  The client tries once: a refusal, a timeout and a      *)
(* broken connection are all an error, and the caller cannot tell them     *)
(* apart.                                                                  *)
(***************************************************************************)

CONSTANT
  LostReplies   \* may a call take effect although its caller sees an error?

ASSUME LostRepliesAssumption == LostReplies \in BOOLEAN

(* The outcomes of a call that would turn "before" into "after".           *)
Call(before, after) ==
  {[ok |-> TRUE, state |-> after], [ok |-> FALSE, state |-> before]}
    \cup (IF LostReplies THEN {[ok |-> FALSE, state |-> after]} ELSE {})

=============================================================================
