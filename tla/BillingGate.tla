---------------------------- MODULE BillingGate ----------------------------
(***************************************************************************)
(* The product-side billing gate (internal/billinggate/service.go) and the *)
(* part of the platform it drives: one charge session, one resource        *)
(* reservation and one metering finalization per billed source (an image   *)
(* job, a listing version, an export task).                                *)
(*                                                                         *)
(* The gate keeps no state of its own; every call is a remote call on the  *)
(* charge the platform keeps.  Each call is therefore an operator from the *)
(* charge before it to the set of outcomes it may have, and the modules of *)
(* the services that use the gate decide what they do with each outcome.   *)
(***************************************************************************)
EXTENDS RemoteCall

SessionStatuses == {"none", "created", "reserved", "settled", "released"}

ReservationStatuses == {"none", "held", "committed", "released"}

Charge == [session     : SessionStatuses,
           reservation : ReservationStatuses,
           metered     : BOOLEAN]

NoCharge == [session |-> "none", reservation |-> "none", metered |-> FALSE]

-----------------------------------------------------------------------------
(* Begin: a charge session, then a reservation that refers to it.  When    *)
(* the second call fails Begin returns and leaves the session "created".   *)

CreateChargeSession(c) == Call(c, [c EXCEPT !.session = "created"])

ReserveResources(c) == Call(c, [c EXCEPT !.reservation = "held"])

(* MarkReserved, and the last call of Commit and of Release: the session   *)
(* takes the status it is given, whatever its status was.                  *)

UpdateChargeSession(c, status) == Call(c, [c EXCEPT !.session = status])

(* The first call of Commit.  The finalization is keyed fin_<source>, so a *)
(* second one changes nothing; it consumes the reservation it names if     *)
(* that is still held.                                                     *)

FinalizeMetering(c) ==
  Call(c, [c EXCEPT !.metered = TRUE,
                    !.reservation = IF @ = "held" THEN "committed" ELSE @])

(* The first call of Release; its error is discarded by the gate.          *)

ReleaseReservation(c) ==
  Call(c, [c EXCEPT !.reservation = IF @ = "held" THEN "released" ELSE @])

=============================================================================
