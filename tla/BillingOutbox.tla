---------------------------- MODULE BillingOutbox ----------------------------
(***************************************************************************)
(* Reporting charges and refunds to the platform's channel ledger:         *)
(* internal/modules/billing/service.go with the charge records and the     *)
(* event outbox of internal/repository/commercial_repository.go.           *)
(*                                                                         *)
(* RecordCharge stores the record of a billing event and reports the       *)
(* charge; RefundCharge marks the record refunded and reports the refund.  *)
(* A report that fails is put into the outbox, and ReplayOutbox, called    *)
(* from outside, tries it again.  All three read the whole record, call    *)
(* the platform, and write the whole record back.                          *)
(*                                                                         *)
(* Records of different events share nothing, so the module has one event: *)
(* every recorder is a (repeated) RecordCharge of it.                      *)
(***************************************************************************)
EXTENDS FiniteSets, RemoteCall

CONSTANTS
  Recorders,   \* RecordCharge requests, all with the same event id
  Refunders,   \* RefundCharge requests, each with its own refund event id
  Replayers,   \* ReplayOutbox requests that may run at the same time
  Concurrent,  \* may a request start while another is in progress?
  DbFaults,    \* may a database call fail?
  Crashes      \* may a request be cut off between two steps?

Requests == Recorders \cup Refunders

ASSUME BillingOutboxAssumption ==
  /\ Recorders \cap Refunders = {}
  /\ {"charge", "none"} \cap Requests = {}
  /\ {Concurrent, DbFaults, Crashes} \subseteq BOOLEAN

VARIABLES
  record,    \* the BillingChargeRecord of the event
  reported,  \* what the platform's channel ledger has booked
  outbox,    \* the CommercialEventOutbox row of each request, if it has one
  request,   \* the RecordCharge and RefundCharge requests
  replay     \* the ReplayOutbox requests

vars == <<record, reported, outbox, request, replay>>

-----------------------------------------------------------------------------

(* The ledger books a message once: charges by event id, refunds by refund *)
(* event id.                                                               *)
Message(q) == IF q \in Recorders THEN "charge" ELSE q
Messages   == {"charge"} \cup Refunders

ChannelStatuses == {"skipped", "pending", "failed", "succeeded"}

Record   == [status : {"settled", "refunded"}, channel : ChannelStatuses]
NoRecord == [status |-> "absent", channel |-> "absent"]

OutboxStatuses == {"absent", "pending", "processing", "failed", "succeeded"}

Request == [pc   : {"new", "create", "saveRefunded", "report", "saveReported",
                    "saveUnreported", "enqueue", "done"},
            copy : Record \cup {NoRecord}]

(* "entry" is the outbox row in work, named by the request that wrote it.  *)
Replay == [pc    : {"idle", "next", "read", "report", "saveReported", "close",
                    "fail"},
           todo  : SUBSET Requests,
           entry : Requests \cup {"none"},
           copy  : Record \cup {NoRecord}]

Init ==
  /\ record = NoRecord
  /\ reported = {}
  /\ outbox = [q \in Requests |-> "absent"]
  /\ request = [q \in Requests |-> [pc |-> "new", copy |-> NoRecord]]
  /\ replay = [p \in Replayers |-> [pc |-> "idle", todo |-> {}, entry |-> "none",
                                     copy |-> NoRecord]]

DbResults == IF DbFaults THEN BOOLEAN ELSE {TRUE}

MayStart ==
  \/ Concurrent
  \/ /\ \A q \in Requests : request[q].pc \in {"new", "done"}
     /\ \A p \in Replayers : replay[p].pc = "idle"

-----------------------------------------------------------------------------
(* Mistakes the handlers could make, each in the place of one decision     *)
(* below.  The specification uses none of them.                            *)

(* the event id has no unique index *)
InsertsAgain == TRUE

(* a refund does not ask whether there is a charge *)
RefundsUnrecorded == TRUE

(* an outbox row is closed whatever the platform said *)
ClosesUnreported(ok) == "saveReported"

(* a failed report is noted on the record only *)
ForgetsOutbox(ok) == "done"

(* rows whose replay failed are not listed again *)
ListsPendingOnly == {q \in Requests : outbox[q] = "pending"}

(* the record is written from the charge again, without the refund *)
ReportedAnew(copy) == [copy EXCEPT !.channel = "succeeded", !.status = "settled"]

-----------------------------------------------------------------------------
(* RecordCharge and RefundCharge *)

At(q, step)   == request[q].pc = step
GoTo(q, step) == request' = [request EXCEPT ![q].pc = step]

StartRecord(q) ==
  /\ q \in Recorders
  /\ At(q, "new")
  /\ MayStart
  /\ GoTo(q, IF record = NoRecord THEN "create" ELSE "done")
  /\ UNCHANGED <<record, reported, outbox, replay>>

(* The event id is unique: the insert of a second record is refused.  Only *)
(* a charge that comes with channel data is reported.                      *)
CanInsert == record = NoRecord

CreateRecord(q) ==
  /\ At(q, "create")
  /\ \/ /\ CanInsert
        /\ \/ /\ record' = [status |-> "settled", channel |-> "pending"]
              /\ request' = [request EXCEPT ![q] = [pc |-> "report", copy |-> record']]
           \/ /\ record' = [status |-> "settled", channel |-> "skipped"]
              /\ request' = [request EXCEPT ![q] = [pc |-> "done", copy |-> record']]
     \/ /\ DbFaults \/ ~ CanInsert
        /\ GoTo(q, "done")
        /\ UNCHANGED record
  /\ UNCHANGED <<reported, outbox, replay>>

(* A refund of an event that has no record is refused. *)
Refundable == record # NoRecord

StartRefund(q) ==
  /\ q \in Refunders
  /\ At(q, "new")
  /\ MayStart
  /\ Refundable
  /\ request' = [request EXCEPT
       ![q] = [pc |-> "saveRefunded", copy |-> [record EXCEPT !.status = "refunded"]]]
  /\ UNCHANGED <<record, reported, outbox, replay>>

SaveRefunded(q) ==
  /\ At(q, "saveRefunded")
  /\ \E ok \in DbResults :
       /\ record' = IF ok THEN request[q].copy ELSE record
       /\ GoTo(q, IF ok THEN "report" ELSE "done")
  /\ UNCHANGED <<reported, outbox, replay>>

(* syncChannelCharge, syncChannelRefund *)
AfterReportStep(ok) == IF ok THEN "saveReported" ELSE "saveUnreported"

Report(q) ==
  /\ At(q, "report")
  /\ \E r \in Call(reported, reported \cup {Message(q)}) :
       /\ reported' = r.state
       /\ GoTo(q, AfterReportStep(r.ok))
  /\ UNCHANGED <<record, outbox, replay>>

(* The record as it is saved once the platform has booked the message.     *)
ReportedRecord(copy) == [copy EXCEPT !.channel = "succeeded"]

(* A save that fails counts as a report that failed. *)
SaveReported(q) ==
  LET copy == ReportedRecord(request[q].copy)
  IN  /\ At(q, "saveReported")
      /\ \E ok \in DbResults :
           /\ record' = IF ok THEN copy ELSE record
           /\ request' = [request EXCEPT
                ![q] = [pc |-> IF ok THEN "done" ELSE "saveUnreported", copy |-> copy]]
      /\ UNCHANGED <<reported, outbox, replay>>

SaveUnreported(q) ==
  LET copy == [request[q].copy EXCEPT !.channel = "failed"]
  IN  /\ At(q, "saveUnreported")
      /\ \E ok \in DbResults : record' = IF ok THEN copy ELSE record
      /\ request' = [request EXCEPT ![q] = [pc |-> "enqueue", copy |-> copy]]
      /\ UNCHANGED <<reported, outbox, replay>>

(* An outbox row that cannot be stored is logged and forgotten. *)
EnqueueOutbox(q) ==
  /\ At(q, "enqueue")
  /\ \E ok \in DbResults :
       outbox' = IF ok THEN [outbox EXCEPT ![q] = "pending"] ELSE outbox
  /\ GoTo(q, "done")
  /\ UNCHANGED <<record, reported, replay>>

-----------------------------------------------------------------------------
(* ReplayOutbox *)

In(p, step)     == replay[p].pc = step
Proceed(p, step) == replay' = [replay EXCEPT ![p].pc = step]

(* The row in work is dealt with. *)
NextEntry(p) ==
  replay' = [replay EXCEPT ![p].pc = "next", ![p].todo = @ \ {replay[p].entry}]

(* SaveEntry, UpdateOutboxEvent: the status of the row in work. *)
SaveEntry(p, status) ==
  \E ok \in DbResults :
    outbox' = IF ok THEN [outbox EXCEPT ![replay[p].entry] = status] ELSE outbox

Replayable == {q \in Requests : outbox[q] \in {"pending", "failed"}}

(* The rows are listed once.  The limit, and the minute a failed row has   *)
(* to wait, leave any of them out.                                         *)
ListReplayable(p) ==
  /\ In(p, "idle")
  /\ MayStart
  /\ \E some \in SUBSET Replayable :
       /\ some # {}
       /\ replay' = [replay EXCEPT ![p].pc = "next", ![p].todo = some]
  /\ UNCHANGED <<record, reported, outbox, request>>

(* replayOutboxEvent: the row is "processing" while it is in work. *)
TakeEntry(p) ==
  /\ In(p, "next")
  /\ \E q \in replay[p].todo :
       \/ /\ outbox' = [outbox EXCEPT ![q] = "processing"]
          /\ replay' = [replay EXCEPT ![p].pc = "read", ![p].entry = q]
       \/ /\ DbFaults
          /\ replay' = [replay EXCEPT ![p].todo = @ \ {q}]
          /\ UNCHANGED outbox
  /\ UNCHANGED <<record, reported, request>>

EndReplay(p) ==
  /\ In(p, "next")
  /\ replay[p].todo = {}
  /\ Proceed(p, "idle")
  /\ UNCHANGED <<record, reported, outbox, request>>

ReadRecord(p) ==
  /\ In(p, "read")
  /\ \E ok \in DbResults :
       replay' = [replay EXCEPT ![p].pc   = IF ok THEN "report" ELSE "fail",
                                ![p].copy = IF ok THEN record ELSE @]
  /\ UNCHANGED <<record, reported, outbox, request>>

AfterReplayStep(ok) == IF ok THEN "saveReported" ELSE "fail"

ReportAgain(p) ==
  /\ In(p, "report")
  /\ \E r \in Call(reported, reported \cup {Message(replay[p].entry)}) :
       /\ reported' = r.state
       /\ Proceed(p, AfterReplayStep(r.ok))
  /\ UNCHANGED <<record, outbox, request>>

SaveReplayed(p) ==
  /\ In(p, "saveReported")
  /\ \E ok \in DbResults :
       /\ record' = IF ok THEN ReportedRecord(replay[p].copy) ELSE record
       /\ Proceed(p, IF ok THEN "close" ELSE "fail")
  /\ UNCHANGED <<reported, outbox, request>>

CloseEntry(p) ==
  /\ In(p, "close")
  /\ SaveEntry(p, "succeeded")
  /\ NextEntry(p)
  /\ UNCHANGED <<record, reported, request>>

(* failOutbox *)
FailEntry(p) ==
  /\ In(p, "fail")
  /\ SaveEntry(p, "failed")
  /\ NextEntry(p)
  /\ UNCHANGED <<record, reported, request>>

-----------------------------------------------------------------------------
(* The service restarts: requests end where they are. *)

CutRequest(q) ==
  /\ Crashes
  /\ request[q].pc \notin {"new", "done"}
  /\ GoTo(q, "done")
  /\ UNCHANGED <<record, reported, outbox, replay>>

CutReplay(p) ==
  /\ Crashes
  /\ ~ In(p, "idle")
  /\ replay' = [replay EXCEPT ![p].pc = "idle", ![p].todo = {}]
  /\ UNCHANGED <<record, reported, outbox, request>>

Begin(q) == StartRecord(q) \/ StartRefund(q)

Continue(q) ==
  \/ CreateRecord(q) \/ SaveRefunded(q) \/ Report(q) \/ SaveReported(q)
  \/ SaveUnreported(q) \/ EnqueueOutbox(q)

ReplayStep(p) ==
  \/ ListReplayable(p) \/ TakeEntry(p) \/ EndReplay(p) \/ ReadRecord(p)
  \/ ReportAgain(p) \/ SaveReplayed(p) \/ CloseEntry(p) \/ FailEntry(p)

Next ==
  \/ \E q \in Requests : Begin(q) \/ Continue(q) \/ CutRequest(q)
  \/ \E p \in Replayers : ReplayStep(p) \/ CutReplay(p)

Spec == Init /\ [][Next]_vars

(* The replay endpoint keeps being called, the listing, ordered by time,   *)
(* comes to every row, and the platform does not refuse a message for ever. *)
FairSpec ==
  /\ Spec
  /\ \A p \in Replayers :
       /\ WF_vars(ReplayStep(p))
       /\ \A q \in Requests :
            /\ SF_vars(ListReplayable(p) /\ q \in replay'[p].todo)
            /\ SF_vars(/\ replay[p].entry = q
                       /\ ReportAgain(p)
                       /\ Message(q) \in reported')

-----------------------------------------------------------------------------
(* Every variable has its type.                                            *)
TypeOK ==
  /\ record \in Record \cup {NoRecord}
  /\ reported \subseteq Messages
  /\ outbox \in [Requests -> OutboxStatuses]
  /\ request \in [Requests -> Request]
  /\ replay \in [Replayers -> Replay]

(* An outbox row is closed only when the platform has booked its message.  *)
ClosedIsReported ==
  \A q \in Requests : outbox[q] = "succeeded" => Message(q) \in reported

(* Repeated and overlapping RecordCharge calls of one event report it, and *)
(* queue it for a later report, at most once.                              *)
ChargeQueuedOnce ==
  \A q, r \in Recorders :
    outbox[q] # "absent" /\ outbox[r] # "absent" => q = r

InWork(q) ==
  \E p \in Replayers : ~ In(p, "idle") /\ ~ In(p, "next") /\ replay[p].entry = q

(* No report is lost: when the request that owed it is over, the platform  *)
(* has booked it, or it is in the outbox and will be listed, or a replay   *)
(* has it in work.                                                         *)
ReportedOrQueued ==
  \A q \in Requests :
    At(q, "done") /\ request[q].copy.channel \in {"pending", "failed", "succeeded"} =>
      Message(q) \in reported \/ q \in Replayable \/ InWork(q)

(* What was put into the outbox reaches the platform.                      *)
OutboxDrains ==
  \A q \in Requests : q \in Replayable ~> Message(q) \in reported

(* A refund that was stored stays stored.                                  *)
RefundIsKept ==
  [][record.status = "refunded" => record'.status = "refunded"]_vars

=============================================================================
