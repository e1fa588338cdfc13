------------------------ MODULE BillingOutbox_proofs ------------------------
(***************************************************************************)
(* What holds of BillingOutbox for any number of requests and of           *)
(* overlapping replays.                                                    *)
(***************************************************************************)
EXTENDS BillingOutbox, TLAPS

Owing == {"saveRefunded", "report", "saveReported", "saveUnreported", "enqueue"}

Working(p) == replay[p].pc \notin {"idle", "next"}

(* A request works on a real copy, and so does everything it leaves in the *)
(* outbox; what it says is reported has been booked.                       *)
RequestInv(q) ==
  /\ request[q].pc \in Owing => request[q].copy \in Record
  /\ request[q].pc \in {"new", "create"} => request[q].copy = NoRecord
  /\ request[q].copy # NoRecord => record \in Record
  /\ outbox[q] # "absent" => request[q].copy # NoRecord
  /\ outbox[q] = "succeeded" => Message(q) \in reported
  /\ request[q].pc = "saveReported" => Message(q) \in reported

(* A replay works on rows of the outbox only, and closes none that is not  *)
(* booked.                                                                 *)
ReplayInv(p) ==
  /\ \A q \in replay[p].todo : outbox[q] # "absent"
  /\ Working(p) => /\ replay[p].entry \in Requests
                   /\ outbox[replay[p].entry] # "absent"
  /\ replay[p].pc \in {"report", "saveReported"} => replay[p].copy \in Record
  /\ replay[p].pc \in {"saveReported", "close"} => Message(replay[p].entry) \in reported

(* Only one recorder has stored the record. *)
OneCreator ==
  \A q, r \in Recorders :
    request[q].copy # NoRecord /\ request[r].copy # NoRecord => q = r

IInv ==
  /\ TypeOK
  /\ \A q \in Requests : RequestInv(q)
  /\ \A p \in Replayers : ReplayInv(p)
  /\ OneCreator

(* What every step keeps. *)
Grows ==
  /\ reported \subseteq reported'
  /\ record \in Record => record' \in Record
  /\ \A q \in Requests : outbox[q] # "absent" => outbox'[q] # "absent"

-----------------------------------------------------------------------------

(* What a caller knows of a remote call. *)
LEMMA CallOutcomes ==
  ASSUME NEW before, NEW after, NEW r \in Call(before, after)
  PROVE  /\ r.ok \in BOOLEAN
         /\ r.state = before \/ r.state = after
         /\ r.ok => r.state = after
<1>1. CASE r = [ok |-> TRUE, state |-> after]
  BY <1>1
<1>2. CASE r = [ok |-> FALSE, state |-> before]
  BY <1>2
<1>3. CASE r = [ok |-> FALSE, state |-> after]
  BY <1>3
<1> QED
  BY <1>1, <1>2, <1>3 DEF Call

LEMMA MessageType == \A q \in Requests : Message(q) \in Messages
BY DEF Message, Messages, Requests

(* A request that does not move keeps what it knows; a replay may change   *)
(* the status of its outbox row, and close it once it is booked.           *)
LEMMA RequestFrame ==
  ASSUME Grows, NEW q \in Requests, RequestInv(q), request'[q] = request[q],
         outbox'[q] # "absent" => outbox[q] # "absent",
         outbox'[q] = "succeeded" =>
           outbox[q] = "succeeded" \/ Message(q) \in reported'
  PROVE  RequestInv(q)'
<1>1. Message(q)' = Message(q)
  BY DEF Message
<1>2. /\ RequestInv(q)!1' /\ RequestInv(q)!2' /\ RequestInv(q)!3'
      /\ RequestInv(q)!4'
  BY DEF RequestInv, Grows
<1> QED
  BY <1>1, <1>2 DEF RequestInv, Grows

(* So does a replay that does not move. *)
LEMMA ReplayFrame ==
  ASSUME TypeOK, Grows, NEW p \in Replayers, ReplayInv(p), replay'[p] = replay[p]
  PROVE  ReplayInv(p)'
<1>1. replay[p].todo \subseteq Requests
  BY DEF TypeOK, Replay
<1>2. \A q \in replay'[p].todo : outbox'[q] # "absent"
  BY <1>1 DEF ReplayInv, Grows
<1>3. Working(p)' = Working(p)
  BY DEF Working
<1> QED
  BY <1>2, <1>3 DEF ReplayInv, Grows, Message

(* A step of one request. *)
LEMMA OneRequestMoves ==
  ASSUME IInv, Grows, TypeOK', NEW q \in Requests, RequestInv(q)', OneCreator',
         \A r \in Requests : r # q => request'[r] = request[r] /\ outbox'[r] = outbox[r],
         UNCHANGED replay
  PROVE  IInv'
<1>1. ASSUME NEW r \in Requests, r # q PROVE RequestInv(r)'
  BY <1>1, RequestFrame DEF IInv
<1>2. \A p \in Replayers : ReplayInv(p)'
  BY ReplayFrame DEF IInv
<1> QED
  BY <1>1, <1>2 DEF IInv

(* A step of one replay, which may change the row it has in work. *)
LEMMA OneReplayMoves ==
  ASSUME IInv, Grows, TypeOK', NEW p \in Replayers, ReplayInv(p)',
         \A o \in Replayers : o # p => replay'[o] = replay[o],
         UNCHANGED request,
         \A q \in Requests :
           /\ outbox'[q] # "absent" => outbox[q] # "absent"
           /\ outbox'[q] = "succeeded" =>
                outbox[q] = "succeeded" \/ Message(q) \in reported'
  PROVE  IInv'
<1>1. \A q \in Requests : RequestInv(q)'
  BY RequestFrame DEF IInv
<1>2. ASSUME NEW o \in Replayers, o # p PROVE ReplayInv(o)'
  BY <1>2, ReplayFrame DEF IInv
<1>3. OneCreator'
  BY DEF IInv, OneCreator
<1> QED
  BY <1>1, <1>2, <1>3 DEF IInv

(* Unless a request stores the record, the one that did stays the only one. *)
LEMMA CreatorFrame ==
  ASSUME OneCreator,
         \A q \in Recorders :
           request'[q].copy # NoRecord => request[q].copy # NoRecord
  PROVE  OneCreator'
BY DEF OneCreator

-----------------------------------------------------------------------------

LEMMA InitHolds == Init => IInv
<1> SUFFICES ASSUME Init PROVE IInv
  OBVIOUS
<1>1. TypeOK
  BY DEF Init, TypeOK, Request, Replay, OutboxStatuses
<1>2. ASSUME NEW q \in Requests PROVE RequestInv(q)
  BY DEF Init, RequestInv, Owing
<1>3. ASSUME NEW p \in Replayers PROVE ReplayInv(p)
  BY DEF Init, ReplayInv, Working
<1>4. OneCreator
  BY DEF Init, OneCreator, Requests
<1> QED
  BY <1>1, <1>2, <1>3, <1>4 DEF IInv

-----------------------------------------------------------------------------
(* The steps of a request.  Its new state is named "next" in the proofs.   *)

(* A step that touches nothing but the request. *)
LEMMA OnlyRequestMoves ==
  ASSUME IInv, NEW q \in Requests, NEW next \in Request,
         UNCHANGED <<record, reported, outbox, replay>>,
         request' = [request EXCEPT ![q] = next], RequestInv(q)',
         next.copy # NoRecord => request[q].copy # NoRecord \/ q \notin Recorders
  PROVE  IInv' /\ Grows
<1>1. Grows
  BY DEF Grows
<1>2. TypeOK'
  BY DEF IInv, TypeOK
<1>3. \A r \in Requests : r # q => request'[r] = request[r] /\ outbox'[r] = outbox[r]
  BY DEF IInv, TypeOK
<1>4. request'[q] = next
  BY DEF IInv, TypeOK
<1>5. OneCreator'
  <2>1. \A r \in Recorders : r \in Requests
    BY DEF Requests
  <2> QED
    BY <1>3, <1>4, <2>1, CreatorFrame DEF IInv
<1> QED
  BY <1>1, <1>2, <1>3, <1>5, OneRequestMoves

LEMMA StartRecordKeeps ==
  ASSUME IInv, NEW q \in Requests, StartRecord(q)
  PROVE  IInv' /\ Grows
<1>1. PICK step \in {"create", "done"} : GoTo(q, step)
  BY DEF StartRecord
<1> DEFINE next == [request[q] EXCEPT !.pc = step]
<1>2. /\ request[q] \in Request /\ RequestInv(q) /\ request[q].pc = "new"
      /\ UNCHANGED <<record, reported, outbox>>
  BY DEF IInv, TypeOK, StartRecord, At
<1>3. next \in Request /\ next.pc = step /\ next.copy = request[q].copy
  BY <1>2 DEF Request
<1>4. request' = [request EXCEPT ![q] = next] /\ request'[q] = next
  BY <1>1, <1>2 DEF GoTo, IInv, TypeOK
<1> HIDE DEF next
<1>5. RequestInv(q)'
  BY <1>2, <1>3, <1>4 DEF RequestInv, Owing
<1> QED
  BY <1>3, <1>4, <1>5, OnlyRequestMoves DEF StartRecord

LEMMA CreateRecordKeeps ==
  ASSUME IInv, NEW q \in Requests, CreateRecord(q)
  PROVE  IInv' /\ Grows
<1>1. /\ request[q] \in Request /\ RequestInv(q) /\ request[q].pc = "create"
      /\ UNCHANGED <<reported, outbox, replay>>
  BY DEF IInv, TypeOK, CreateRecord, At
<1>2. CASE UNCHANGED record /\ GoTo(q, "done")
  <2> DEFINE next == [request[q] EXCEPT !.pc = "done"]
  <2>1. next \in Request /\ next.pc = "done" /\ next.copy = request[q].copy
    BY <1>1 DEF Request
  <2>2. request' = [request EXCEPT ![q] = next] /\ request'[q] = next
    BY <1>1, <1>2 DEF GoTo, IInv, TypeOK
  <2> HIDE DEF next
  <2>3. RequestInv(q)'
    BY <1>1, <1>2, <2>1, <2>2 DEF RequestInv, Owing
  <2> QED
    BY <1>1, <1>2, <2>1, <2>2, <2>3, OnlyRequestMoves
<1>3. ASSUME NEW step \in {"report", "done"}, CanInsert, record' \in Record,
             request' = [request EXCEPT ![q] = [pc |-> step, copy |-> record']]
      PROVE  IInv' /\ Grows
  <2>1. Grows
    BY <1>1, <1>3 DEF Grows
  <2>2. TypeOK'
    <3>1. [pc |-> step, copy |-> record'] \in Request
      BY <1>3 DEF Request
    <3> QED
      BY <1>1, <1>3, <3>1 DEF IInv, TypeOK
  <2>3. /\ request'[q].pc = step /\ request'[q].copy = record'
        /\ \A r \in Requests : r # q => request'[r] = request[r]
    BY <1>3 DEF IInv, TypeOK
  <2>4. record' # NoRecord
    BY <1>3 DEF Record, NoRecord
  <2>5. RequestInv(q)'
    BY <1>1, <1>3, <2>3, <2>4 DEF RequestInv, Owing, CanInsert
  <2>6. \A r \in Requests : request[r].copy = NoRecord
    BY <1>3 DEF IInv, RequestInv, CanInsert, Record, NoRecord
  <2>7. OneCreator'
    BY <2>3, <2>6 DEF OneCreator, Requests
  <2> QED
    BY <1>1, <2>1, <2>2, <2>3, <2>5, <2>7, OneRequestMoves
<1>4. [status |-> "settled", channel |-> "pending"] \in Record
      /\ [status |-> "settled", channel |-> "skipped"] \in Record
  BY DEF Record, ChannelStatuses
<1> QED
  BY <1>2, <1>3, <1>4 DEF CreateRecord

LEMMA StartRefundKeeps ==
  ASSUME IInv, NEW q \in Requests, StartRefund(q)
  PROVE  IInv' /\ Grows
<1> DEFINE next == [pc |-> "saveRefunded", copy |-> [record EXCEPT !.status = "refunded"]]
<1>1. /\ RequestInv(q) /\ request[q].pc = "new" /\ q \in Refunders
      /\ record \in Record
      /\ UNCHANGED <<record, reported, outbox, replay>>
  BY DEF IInv, TypeOK, StartRefund, At, Refundable
<1>2. q \notin Recorders
  BY <1>1, BillingOutboxAssumption
<1>3. next \in Request /\ next.pc = "saveRefunded" /\ next.copy \in Record
  BY <1>1 DEF Request, Record
<1>4. request' = [request EXCEPT ![q] = next] /\ request'[q] = next
  BY DEF StartRefund, Refundable, IInv, TypeOK
<1> HIDE DEF next
<1>5. next.copy # NoRecord
  BY <1>3 DEF Record, NoRecord
<1>6. RequestInv(q)'
  BY <1>1, <1>3, <1>4, <1>5 DEF RequestInv, Owing
<1> QED
  BY <1>1, <1>2, <1>3, <1>4, <1>6, OnlyRequestMoves

(* Steps that save a copy of the record, call the platform or enqueue.     *)
LEMMA OwingRequestMoves ==
  ASSUME IInv, NEW q \in Requests, request[q].pc \in Owing,
         NEW next \in Request, next.copy \in Record,
         next.pc \in Owing \cup {"done"},
         request' = [request EXCEPT ![q] = next],
         record' \in Record,
         \/ UNCHANGED reported
         \/ reported' = reported \cup {Message(q)},
         \/ UNCHANGED outbox
         \/ outbox' = [outbox EXCEPT ![q] = "pending"],
         next.pc = "saveReported" => Message(q) \in reported',
         UNCHANGED replay
  PROVE  IInv' /\ Grows
<1>1. RequestInv(q) /\ outbox \in [Requests -> OutboxStatuses]
  BY DEF IInv, TypeOK
<1>2. Grows
  BY <1>1 DEF Grows, OutboxStatuses
<1>3. TypeOK'
  BY <1>1, MessageType DEF IInv, TypeOK, OutboxStatuses
<1>4. /\ request'[q] = next
      /\ \A r \in Requests : r # q => request'[r] = request[r] /\ outbox'[r] = outbox[r]
      /\ outbox'[q] \in {outbox[q], "pending"}
  BY <1>1 DEF IInv, TypeOK
<1>5. request[q].copy # NoRecord /\ next.copy # NoRecord
  BY <1>1 DEF RequestInv, Record, NoRecord
<1>6. RequestInv(q)'
  <2>1. Message(q)' = Message(q)
    BY DEF Message
  <2>2. next.pc \notin {"new", "create"}
    BY DEF Owing
  <2> QED
    BY <1>1, <1>2, <1>4, <1>5, <2>1, <2>2 DEF RequestInv, Grows
<1>7. OneCreator'
  <2>1. \A r \in Recorders : r \in Requests
    BY DEF Requests
  <2> QED
    BY <1>4, <1>5, <2>1, CreatorFrame DEF IInv
<1> QED
  BY <1>2, <1>3, <1>4, <1>6, <1>7, OneRequestMoves

(* What a request that is not over yet has.                                *)
LEMMA OwingHas ==
  ASSUME IInv, NEW q \in Requests, request[q].pc \in Owing
  PROVE  request[q] \in Request /\ request[q].copy \in Record /\ record \in Record
<1>1. RequestInv(q) /\ request[q] \in Request
  BY DEF IInv, TypeOK
<1> QED
  BY <1>1 DEF RequestInv, Record, NoRecord

(* A step that changes the program counter of such a request.              *)
LEMMA OwingGoTo ==
  ASSUME IInv, NEW q \in Requests, request[q].pc \in Owing,
         NEW step \in Owing \cup {"done"}, GoTo(q, step)
  PROVE  \E next \in Request : /\ request' = [request EXCEPT ![q] = next]
                               /\ next.pc = step
                               /\ next.copy \in Record
<1>1. [request[q] EXCEPT !.pc = step] \in Request
  BY OwingHas DEF Request, Owing
<1> QED
  BY <1>1, OwingHas DEF GoTo, Request

LEMMA SaveRefundedKeeps ==
  ASSUME IInv, NEW q \in Requests, SaveRefunded(q)
  PROVE  IInv' /\ Grows
<1>1. request[q].pc \in Owing /\ UNCHANGED <<reported, outbox, replay>>
  BY DEF SaveRefunded, At, Owing
<1>2. PICK step \in {"report", "done"} : GoTo(q, step)
  BY DEF SaveRefunded
<1>3. record' \in Record
  BY <1>1, OwingHas DEF SaveRefunded
<1>4. PICK next \in Request : /\ request' = [request EXCEPT ![q] = next]
                              /\ next.pc = step /\ next.copy \in Record
  BY <1>1, <1>2, OwingGoTo DEF Owing
<1>5. next.pc \in Owing \cup {"done"} /\ next.pc # "saveReported"
  BY <1>2, <1>4 DEF Owing
<1> QED
  BY <1>1, <1>3, <1>4, <1>5, OwingRequestMoves

LEMMA ReportKeeps ==
  ASSUME IInv, NEW q \in Requests, Report(q)
  PROVE  IInv' /\ Grows
<1>1. request[q].pc \in Owing /\ UNCHANGED <<record, outbox, replay>>
  BY DEF Report, At, Owing
<1>2. PICK r \in Call(reported, reported \cup {Message(q)}) :
        reported' = r.state /\ GoTo(q, AfterReportStep(r.ok))
  BY DEF Report
<1>3. /\ reported' = reported \/ reported' = reported \cup {Message(q)}
      /\ r.ok => Message(q) \in reported'
      /\ r.ok \in BOOLEAN
  <2>1. /\ r.ok \in BOOLEAN
        /\ r.state = reported \/ r.state = reported \cup {Message(q)}
        /\ r.ok => r.state = reported \cup {Message(q)}
    BY <1>2, CallOutcomes
  <2> QED
    BY <1>2, <2>1
<1>4. /\ AfterReportStep(r.ok) \in Owing
      /\ AfterReportStep(r.ok) = "saveReported" => r.ok
  BY <1>3 DEF AfterReportStep, Owing
<1>5. PICK next \in Request : /\ request' = [request EXCEPT ![q] = next]
                              /\ next.pc = AfterReportStep(r.ok)
                              /\ next.copy \in Record
  BY <1>1, <1>2, <1>4, OwingGoTo
<1>6. record' \in Record
  BY <1>1, OwingHas
<1> QED
  BY <1>1, <1>3, <1>4, <1>5, <1>6, OwingRequestMoves

LEMMA SaveReportedKeeps ==
  ASSUME IInv, NEW q \in Requests, SaveReported(q)
  PROVE  IInv' /\ Grows
<1> DEFINE copy == ReportedRecord(request[q].copy)
<1>1. request[q].pc \in Owing /\ UNCHANGED <<reported, outbox, replay>>
  BY DEF SaveReported, At, Owing
<1>2. copy \in Record
  BY <1>1, OwingHas DEF ReportedRecord, Record, ChannelStatuses
<1>3. PICK step \in {"done", "saveUnreported"} :
        request' = [request EXCEPT ![q] = [pc |-> step, copy |-> copy]]
  BY DEF SaveReported
<1>4. record' = copy \/ record' = record
  BY DEF SaveReported
<1> HIDE DEF copy
<1>5. [pc |-> step, copy |-> copy] \in Request
  BY <1>2 DEF Request
<1>6. record' \in Record
  BY <1>1, <1>2, <1>4, OwingHas
<1> QED
  BY <1>1, <1>2, <1>3, <1>5, <1>6, OwingRequestMoves DEF Owing

LEMMA SaveUnreportedKeeps ==
  ASSUME IInv, NEW q \in Requests, SaveUnreported(q)
  PROVE  IInv' /\ Grows
<1> DEFINE copy == [request[q].copy EXCEPT !.channel = "failed"]
<1>1. request[q].pc \in Owing /\ UNCHANGED <<reported, outbox, replay>>
  BY DEF SaveUnreported, At, Owing
<1>2. copy \in Record
  BY <1>1, OwingHas DEF Record, ChannelStatuses
<1>3. request' = [request EXCEPT ![q] = [pc |-> "enqueue", copy |-> copy]]
  BY DEF SaveUnreported
<1>4. record' = copy \/ record' = record
  BY DEF SaveUnreported
<1> HIDE DEF copy
<1>5. [pc |-> "enqueue", copy |-> copy] \in Request
  BY <1>2 DEF Request
<1>6. record' \in Record
  BY <1>1, <1>2, <1>4, OwingHas
<1> QED
  BY <1>1, <1>2, <1>3, <1>5, <1>6, OwingRequestMoves DEF Owing

LEMMA EnqueueOutboxKeeps ==
  ASSUME IInv, NEW q \in Requests, EnqueueOutbox(q)
  PROVE  IInv' /\ Grows
<1>1. /\ request[q].pc \in Owing /\ UNCHANGED <<record, reported, replay>>
      /\ GoTo(q, "done")
      /\ UNCHANGED outbox \/ outbox' = [outbox EXCEPT ![q] = "pending"]
  BY DEF EnqueueOutbox, At, Owing
<1>2. PICK next \in Request : /\ request' = [request EXCEPT ![q] = next]
                              /\ next.pc = "done" /\ next.copy \in Record
  BY <1>1, OwingGoTo
<1>3. record' \in Record
  BY <1>1, OwingHas
<1> QED
  BY <1>1, <1>2, <1>3, OwingRequestMoves

LEMMA CutRequestKeeps ==
  ASSUME IInv, NEW q \in Requests, CutRequest(q)
  PROVE  IInv' /\ Grows
<1> DEFINE next == [request[q] EXCEPT !.pc = "done"]
<1>1. /\ request[q] \in Request /\ RequestInv(q)
      /\ UNCHANGED <<record, reported, outbox, replay>> /\ GoTo(q, "done")
  BY DEF IInv, TypeOK, CutRequest
<1>2. next \in Request /\ next.pc = "done" /\ next.copy = request[q].copy
  BY <1>1 DEF Request
<1>3. request' = [request EXCEPT ![q] = next] /\ request'[q] = next
  BY <1>1 DEF GoTo, IInv, TypeOK
<1> HIDE DEF next
<1>4. RequestInv(q)'
  BY <1>1, <1>2, <1>3 DEF RequestInv, Owing
<1> QED
  BY <1>1, <1>2, <1>3, <1>4, OnlyRequestMoves

-----------------------------------------------------------------------------
(* The steps of a replay.                                                  *)

(* A step that changes the replay and perhaps what the ledger has booked.  *)
LEMMA OnlyReplayMoves ==
  ASSUME IInv, NEW p \in Replayers, NEW next \in Replay,
         replay' = [replay EXCEPT ![p] = next], ReplayInv(p)',
         UNCHANGED <<record, outbox, request>>,
         \/ UNCHANGED reported
         \/ \E q \in Requests : reported' = reported \cup {Message(q)}
  PROVE  IInv' /\ Grows
<1>1. Grows
  BY DEF Grows
<1>2. TypeOK'
  BY MessageType DEF IInv, TypeOK
<1>3. \A o \in Replayers : o # p => replay'[o] = replay[o]
  BY DEF IInv, TypeOK
<1> QED
  BY <1>1, <1>2, <1>3, OneReplayMoves

LEMMA ListReplayableKeeps ==
  ASSUME IInv, NEW p \in Replayers, ListReplayable(p)
  PROVE  IInv' /\ Grows
<1>1. PICK some \in SUBSET Replayable :
        replay' = [replay EXCEPT ![p].pc = "next", ![p].todo = some]
  BY DEF ListReplayable
<1> DEFINE next == [replay[p] EXCEPT !.pc = "next", !.todo = some]
<1>2. replay[p] \in Replay
  BY DEF IInv, TypeOK
<1>3. some \subseteq Requests /\ \A q \in some : outbox[q] # "absent"
  BY DEF Replayable
<1>4. next \in Replay /\ next.pc = "next" /\ next.todo = some
  BY <1>2, <1>3 DEF Replay
<1>5. replay' = [replay EXCEPT ![p] = next] /\ replay'[p] = next
  BY <1>1 DEF IInv, TypeOK
<1> HIDE DEF next
<1>6. ReplayInv(p)'
  BY <1>3, <1>4, <1>5 DEF ReplayInv, Working, ListReplayable
<1> QED
  BY <1>4, <1>5, <1>6, OnlyReplayMoves DEF ListReplayable

LEMMA EndReplayKeeps ==
  ASSUME IInv, NEW p \in Replayers, EndReplay(p)
  PROVE  IInv' /\ Grows
<1> DEFINE next == [replay[p] EXCEPT !.pc = "idle"]
<1>1. replay[p] \in Replay /\ ReplayInv(p)
  BY DEF IInv, TypeOK
<1>2. next \in Replay /\ next.pc = "idle" /\ next.todo = replay[p].todo
  BY <1>1 DEF Replay
<1>3. replay' = [replay EXCEPT ![p] = next] /\ replay'[p] = next
  BY DEF EndReplay, Proceed, IInv, TypeOK
<1> HIDE DEF next
<1>4. ReplayInv(p)'
  BY <1>1, <1>2, <1>3 DEF ReplayInv, Working, EndReplay
<1> QED
  BY <1>2, <1>3, <1>4, OnlyReplayMoves DEF EndReplay

LEMMA CutReplayKeeps ==
  ASSUME IInv, NEW p \in Replayers, CutReplay(p)
  PROVE  IInv' /\ Grows
<1> DEFINE next == [replay[p] EXCEPT !.pc = "idle", !.todo = {}]
<1>1. replay[p] \in Replay
  BY DEF IInv, TypeOK
<1>2. next \in Replay /\ next.pc = "idle" /\ next.todo = {}
  BY <1>1 DEF Replay
<1>3. replay' = [replay EXCEPT ![p] = next] /\ replay'[p] = next
  BY DEF CutReplay, IInv, TypeOK
<1> HIDE DEF next
<1>4. ReplayInv(p)'
  BY <1>2, <1>3 DEF ReplayInv, Working
<1> QED
  BY <1>2, <1>3, <1>4, OnlyReplayMoves DEF CutReplay

(* A row in work was queued by a request, which stored the record first.   *)
LEMMA WorkHasRecord ==
  ASSUME IInv, NEW p \in Replayers, Working(p)
  PROVE  record \in Record
<1>1. replay[p].entry \in Requests /\ outbox[replay[p].entry] # "absent"
  BY DEF IInv, ReplayInv
<1>2. request[replay[p].entry].copy # NoRecord
  BY <1>1 DEF IInv, RequestInv
<1> QED
  BY <1>1, <1>2 DEF IInv, RequestInv

LEMMA ReadRecordKeeps ==
  ASSUME IInv, NEW p \in Replayers, ReadRecord(p)
  PROVE  IInv' /\ Grows
<1>1. /\ replay[p] \in Replay /\ ReplayInv(p) /\ replay[p].pc = "read"
      /\ UNCHANGED <<record, reported, outbox, request>>
  BY DEF IInv, TypeOK, ReadRecord, In
<1>2. record \in Record
  BY <1>1, WorkHasRecord DEF Working
<1>3. PICK ok \in BOOLEAN :
        replay' = [replay EXCEPT ![p].pc   = IF ok THEN "report" ELSE "fail",
                                 ![p].copy = IF ok THEN record ELSE @]
  BY DEF ReadRecord, DbResults
<1> DEFINE next == [replay[p] EXCEPT !.pc   = IF ok THEN "report" ELSE "fail",
                                     !.copy = IF ok THEN record ELSE @]
<1>4. /\ next \in Replay /\ next.pc \in {"report", "fail"}
      /\ next.pc = "report" => next.copy = record
      /\ next.todo = replay[p].todo /\ next.entry = replay[p].entry
  BY <1>1, <1>2 DEF Replay
<1>5. replay' = [replay EXCEPT ![p] = next] /\ replay'[p] = next
  BY <1>3 DEF IInv, TypeOK
<1> HIDE DEF next
<1>6. ReplayInv(p)'
  BY <1>1, <1>2, <1>4, <1>5 DEF ReplayInv, Working
<1> QED
  BY <1>1, <1>4, <1>5, <1>6, OnlyReplayMoves

LEMMA ReportAgainKeeps ==
  ASSUME IInv, NEW p \in Replayers, ReportAgain(p)
  PROVE  IInv' /\ Grows
<1> DEFINE entry == replay[p].entry
<1>1. /\ replay[p] \in Replay /\ ReplayInv(p) /\ replay[p].pc = "report"
      /\ UNCHANGED <<record, outbox, request>>
  BY DEF IInv, TypeOK, ReportAgain, In
<1>2. entry \in Requests
  BY <1>1 DEF ReplayInv, Working
<1>3. PICK r \in Call(reported, reported \cup {Message(entry)}) :
        reported' = r.state /\ Proceed(p, AfterReplayStep(r.ok))
  BY DEF ReportAgain
<1>4. /\ reported' = reported \/ reported' = reported \cup {Message(entry)}
      /\ r.ok => Message(entry) \in reported'
      /\ r.ok \in BOOLEAN
  <2>1. /\ r.ok \in BOOLEAN
        /\ r.state = reported \/ r.state = reported \cup {Message(entry)}
        /\ r.ok => r.state = reported \cup {Message(entry)}
    BY <1>3, CallOutcomes
  <2> QED
    BY <1>3, <2>1
<1> DEFINE next == [replay[p] EXCEPT !.pc = AfterReplayStep(r.ok)]
<1>5. /\ next \in Replay /\ next.pc \in {"saveReported", "fail"}
      /\ next.pc = "saveReported" => r.ok
      /\ next.todo = replay[p].todo /\ next.entry = entry
      /\ next.copy = replay[p].copy
  BY <1>1, <1>4 DEF Replay, AfterReplayStep
<1>6. replay' = [replay EXCEPT ![p] = next] /\ replay'[p] = next
  BY <1>3 DEF Proceed, IInv, TypeOK
<1> HIDE DEF next
<1>7. ReplayInv(p)'
  BY <1>1, <1>4, <1>5, <1>6 DEF ReplayInv, Working, Message
<1> QED
  BY <1>1, <1>2, <1>4, <1>5, <1>6, <1>7, OnlyReplayMoves

LEMMA SaveReplayedKeeps ==
  ASSUME IInv, NEW p \in Replayers, SaveReplayed(p)
  PROVE  IInv' /\ Grows
<1>1. /\ replay[p] \in Replay /\ ReplayInv(p) /\ replay[p].pc = "saveReported"
      /\ UNCHANGED <<reported, outbox, request>>
  BY DEF IInv, TypeOK, SaveReplayed, In
<1>2. record' \in Record
  <2>1. ReportedRecord(replay[p].copy) \in Record
    BY <1>1 DEF ReplayInv, ReportedRecord, Record, ChannelStatuses
  <2>2. record \in Record
    BY <1>1, WorkHasRecord DEF Working
  <2> QED
    BY <2>1, <2>2 DEF SaveReplayed
<1>3. PICK step \in {"close", "fail"} : Proceed(p, step)
  BY DEF SaveReplayed
<1> DEFINE next == [replay[p] EXCEPT !.pc = step]
<1>4. /\ next \in Replay /\ next.pc = step
      /\ next.todo = replay[p].todo /\ next.entry = replay[p].entry
  BY <1>1 DEF Replay
<1>5. /\ replay' = [replay EXCEPT ![p] = next] /\ replay'[p] = next
      /\ \A o \in Replayers : o # p => replay'[o] = replay[o]
  BY <1>3 DEF Proceed, IInv, TypeOK
<1> HIDE DEF next
<1>6. Grows
  BY <1>1, <1>2 DEF Grows
<1>7. TypeOK'
  BY <1>1, <1>2, <1>4, <1>5 DEF IInv, TypeOK
<1>8. ReplayInv(p)'
  BY <1>1, <1>4, <1>5 DEF ReplayInv, Working, Message
<1> QED
  BY <1>1, <1>5, <1>6, <1>7, <1>8, OneReplayMoves

LEMMA TakeEntryKeeps ==
  ASSUME IInv, NEW p \in Replayers, TakeEntry(p)
  PROVE  IInv' /\ Grows
<1>1. /\ replay[p] \in Replay /\ ReplayInv(p) /\ replay[p].pc = "next"
      /\ outbox \in [Requests -> OutboxStatuses]
      /\ UNCHANGED <<record, reported, request>>
  BY DEF IInv, TypeOK, TakeEntry, In
<1>2. PICK q \in replay[p].todo :
        \/ /\ outbox' = [outbox EXCEPT ![q] = "processing"]
           /\ replay' = [replay EXCEPT ![p].pc = "read", ![p].entry = q]
        \/ /\ replay' = [replay EXCEPT ![p].todo = @ \ {q}]
           /\ UNCHANGED outbox
  BY DEF TakeEntry
<1>3. q \in Requests /\ outbox[q] # "absent"
  BY <1>1, <1>2 DEF Replay, ReplayInv
<1>4. CASE UNCHANGED outbox /\ replay' = [replay EXCEPT ![p].todo = @ \ {q}]
  <2> DEFINE next == [replay[p] EXCEPT !.todo = @ \ {q}]
  <2>1. next \in Replay /\ next.pc = "next" /\ next.todo = replay[p].todo \ {q}
    BY <1>1 DEF Replay
  <2>2. replay' = [replay EXCEPT ![p] = next] /\ replay'[p] = next
    BY <1>4 DEF IInv, TypeOK
  <2> HIDE DEF next
  <2>3. ReplayInv(p)'
    BY <1>1, <1>4, <2>1, <2>2 DEF ReplayInv, Working
  <2> QED
    BY <1>1, <1>4, <2>1, <2>2, <2>3, OnlyReplayMoves
<1>5. CASE /\ outbox' = [outbox EXCEPT ![q] = "processing"]
           /\ replay' = [replay EXCEPT ![p].pc = "read", ![p].entry = q]
  <2> DEFINE next == [replay[p] EXCEPT !.pc = "read", !.entry = q]
  <2>1. /\ next \in Replay /\ next.pc = "read" /\ next.entry = q
        /\ next.todo = replay[p].todo
    BY <1>1, <1>3 DEF Replay
  <2>2. /\ replay' = [replay EXCEPT ![p] = next] /\ replay'[p] = next
        /\ \A o \in Replayers : o # p => replay'[o] = replay[o]
    BY <1>5 DEF IInv, TypeOK
  <2> HIDE DEF next
  <2>3. \A r \in Requests :
          /\ outbox[r] # "absent" <=> outbox'[r] # "absent"
          /\ outbox'[r] = "succeeded" => outbox[r] = "succeeded"
    BY <1>1, <1>3, <1>5
  <2>4. Grows
    BY <1>1, <2>3 DEF Grows
  <2>5. TypeOK'
    BY <1>1, <1>5, <2>1, <2>2 DEF IInv, TypeOK, OutboxStatuses
  <2>6. ReplayInv(p)'
    <3>1. replay[p].todo \subseteq Requests
      BY <1>1 DEF Replay
    <3> QED
      BY <1>1, <1>3, <2>1, <2>2, <2>3, <3>1 DEF ReplayInv, Working
  <2> QED
    BY <1>1, <2>2, <2>3, <2>4, <2>5, <2>6, OneReplayMoves
<1> QED
  BY <1>2, <1>4, <1>5

(* The last step of a row: its status is saved, or not, and it is left.    *)
LEMMA EntryDealtWith ==
  ASSUME IInv, NEW p \in Replayers, Working(p), NEW status \in {"succeeded", "failed"},
         status = "succeeded" => Message(replay[p].entry) \in reported,
         SaveEntry(p, status), NextEntry(p), UNCHANGED <<record, reported, request>>
  PROVE  IInv' /\ Grows
<1> DEFINE entry == replay[p].entry
           next  == [replay[p] EXCEPT !.pc = "next", !.todo = @ \ {entry}]
<1>1. /\ replay[p] \in Replay /\ ReplayInv(p)
      /\ outbox \in [Requests -> OutboxStatuses]
  BY DEF IInv, TypeOK
<1>2. entry \in Requests /\ outbox[entry] # "absent"
  BY <1>1 DEF ReplayInv
<1>3. outbox' = outbox \/ outbox' = [outbox EXCEPT ![entry] = status]
  BY DEF SaveEntry
<1>4. /\ next \in Replay /\ next.pc = "next"
      /\ next.todo \subseteq replay[p].todo
  BY <1>1 DEF Replay
<1>5. /\ replay' = [replay EXCEPT ![p] = next] /\ replay'[p] = next
      /\ \A o \in Replayers : o # p => replay'[o] = replay[o]
  BY DEF NextEntry, IInv, TypeOK
<1> HIDE DEF next, entry
<1>6. \A q \in Requests : outbox[q] # "absent" <=> outbox'[q] # "absent"
  BY <1>1, <1>2, <1>3
<1>7. \A q \in Requests :
        outbox'[q] = "succeeded" => outbox[q] = "succeeded" \/ Message(q) \in reported'
  BY <1>1, <1>2, <1>3 DEF entry
<1>8. Grows
  BY <1>6 DEF Grows
<1>9. TypeOK'
  BY <1>1, <1>2, <1>3, <1>4, <1>5 DEF IInv, TypeOK, OutboxStatuses
<1>10. ReplayInv(p)'
  <2>1. replay[p].todo \subseteq Requests
    BY <1>1 DEF Replay
  <2> QED
    BY <1>1, <1>4, <1>5, <1>6, <2>1 DEF ReplayInv, Working
<1> QED
  BY <1>5, <1>6, <1>7, <1>8, <1>9, <1>10, OneReplayMoves

LEMMA CloseEntryKeeps ==
  ASSUME IInv, NEW p \in Replayers, CloseEntry(p)
  PROVE  IInv' /\ Grows
<1>1. Working(p) /\ Message(replay[p].entry) \in reported
  BY DEF CloseEntry, In, Working, IInv, ReplayInv
<1> QED
  BY <1>1, EntryDealtWith DEF CloseEntry

LEMMA FailEntryKeeps ==
  ASSUME IInv, NEW p \in Replayers, FailEntry(p)
  PROVE  IInv' /\ Grows
<1>1. Working(p)
  BY DEF FailEntry, In, Working
<1> QED
  BY <1>1, EntryDealtWith DEF FailEntry

-----------------------------------------------------------------------------

LEMMA NextHolds == IInv /\ [Next]_vars => IInv' /\ Grows
<1> SUFFICES ASSUME IInv, [Next]_vars PROVE IInv' /\ Grows
  OBVIOUS
<1>1. ASSUME NEW q \in Requests, Begin(q) PROVE IInv' /\ Grows
  BY <1>1, StartRecordKeeps, StartRefundKeeps DEF Begin
<1>2. ASSUME NEW q \in Requests, Continue(q) PROVE IInv' /\ Grows
  BY <1>2, CreateRecordKeeps, SaveRefundedKeeps, ReportKeeps, SaveReportedKeeps,
     SaveUnreportedKeeps, EnqueueOutboxKeeps DEF Continue
<1>3. ASSUME NEW q \in Requests, CutRequest(q) PROVE IInv' /\ Grows
  BY <1>3, CutRequestKeeps
<1>4. ASSUME NEW p \in Replayers, ReplayStep(p) PROVE IInv' /\ Grows
  BY <1>4, ListReplayableKeeps, TakeEntryKeeps, EndReplayKeeps, ReadRecordKeeps,
     ReportAgainKeeps, SaveReplayedKeeps, CloseEntryKeeps, FailEntryKeeps
  DEF ReplayStep
<1>5. ASSUME NEW p \in Replayers, CutReplay(p) PROVE IInv' /\ Grows
  BY <1>5, CutReplayKeeps
<1>6. CASE UNCHANGED vars
  <2>1. Grows
    BY <1>6 DEF vars, Grows
  <2>2. TypeOK' /\ OneCreator'
    BY <1>6 DEF vars, IInv, TypeOK, OneCreator
  <2>3. \A q \in Requests : RequestInv(q)'
    BY <1>6, <2>1, RequestFrame DEF vars, IInv
  <2>4. \A p \in Replayers : ReplayInv(p)'
    BY <1>6, <2>1, ReplayFrame DEF vars, IInv
  <2> QED
    BY <2>1, <2>2, <2>3, <2>4 DEF IInv
<1> QED
  BY <1>1, <1>2, <1>3, <1>4, <1>5, <1>6 DEF Next

LEMMA Invariance == Spec => []IInv
<1>1. IInv /\ [Next]_vars => IInv'
  BY NextHolds
<1> QED
  BY <1>1, InitHolds, PTL DEF Spec

(* Every variable keeps its type.                                          *)
THEOREM OutboxTypeCorrect == Spec => []TypeOK
<1>1. IInv => TypeOK
  BY DEF IInv
<1> QED
  BY <1>1, Invariance, PTL

(* However replays overlap, fail and are cut off: a closed row is booked.  *)
THEOREM ClosedRowsAreReported == Spec => []ClosedIsReported
<1>1. IInv => ClosedIsReported
  BY DEF IInv, RequestInv, ClosedIsReported
<1> QED
  BY <1>1, Invariance, PTL

(* However often the charge is recorded, one request at most queues it.    *)
THEOREM OneChargeIsQueued == Spec => []ChargeQueuedOnce
<1>1. IInv => ChargeQueuedOnce
  <2> SUFFICES ASSUME IInv, NEW q \in Recorders, NEW r \in Recorders,
                      outbox[q] # "absent", outbox[r] # "absent"
               PROVE  q = r
    BY DEF ChargeQueuedOnce
  <2>1. q \in Requests /\ r \in Requests
    BY DEF Requests
  <2>2. request[q].copy # NoRecord /\ request[r].copy # NoRecord
    BY <2>1 DEF IInv, RequestInv
  <2> QED
    BY <2>2 DEF IInv, OneCreator
<1> QED
  BY <1>1, Invariance, PTL

-----------------------------------------------------------------------------
(* Nothing is lost as long as the database answers and no request is cut   *)
(* off: what a request owed when it ended has been booked, will be listed  *)
(* or is in work, and every step keeps it in one of these places.          *)

Owed(q) == At(q, "done")
           /\ request[q].copy.channel \in {"pending", "failed", "succeeded"}

Reached(q) == Message(q) \in reported \/ q \in Replayable \/ InWork(q)

(* While requests move, no row leaves the outbox.                          *)
LEMMA RequestsKeepReached ==
  ASSUME IInv, NEW q \in Requests, Reached(q), reported \subseteq reported',
         UNCHANGED replay,
         \/ UNCHANGED outbox
         \/ \E r \in Requests : outbox' = [outbox EXCEPT ![r] = "pending"]
  PROVE  Reached(q)'
<1>1. Message(q)' = Message(q)
  BY DEF Message
<1>2. CASE Message(q) \in reported
  BY <1>1, <1>2 DEF Reached
<1>3. CASE q \in Replayable
  <2>1. outbox'[q] \in {"pending", "failed"}
    BY <1>3 DEF Replayable, IInv, TypeOK
  <2> QED
    BY <2>1 DEF Reached, Replayable
<1>4. CASE InWork(q)
  BY <1>4 DEF Reached, InWork, In
<1> QED
  BY <1>2, <1>3, <1>4 DEF Reached

LEMMA ReplaysKeepReached ==
  ASSUME DbFaults = FALSE, IInv, NEW p \in Replayers, ReplayStep(p),
         NEW q \in Requests, Reached(q), reported \subseteq reported'
  PROVE  Reached(q)'
<1>1. /\ Message(q)' = Message(q) /\ outbox \in [Requests -> OutboxStatuses]
      /\ replay \in [Replayers -> Replay] /\ ReplayInv(p)
      /\ DbResults = {TRUE}
  BY DEF Message, IInv, TypeOK, DbResults
<1>2. CASE Message(q) \in reported
  BY <1>1, <1>2 DEF Reached
<1>3. CASE TakeEntry(p)
  <2>1. PICK r \in replay[p].todo :
          /\ outbox' = [outbox EXCEPT ![r] = "processing"]
          /\ replay' = [replay EXCEPT ![p].pc = "read", ![p].entry = r]
    BY <1>3 DEF TakeEntry
  <2>2. CASE r = q
    <3>1. replay'[p].pc = "read" /\ replay'[p].entry = q
      BY <1>1, <2>1, <2>2 DEF Replay
    <3> QED
      BY <3>1 DEF Reached, InWork, In
  <2>3. CASE r # q /\ q \in Replayable
    BY <1>1, <2>1, <2>3 DEF Reached, Replayable
  <2>4. CASE InWork(q)
    <3>1. PICK o \in Replayers :
            ~ In(o, "idle") /\ ~ In(o, "next") /\ replay[o].entry = q
      BY <2>4 DEF InWork
    <3>2. o # p
      BY <1>3, <3>1 DEF TakeEntry, In
    <3>3. replay'[o] = replay[o]
      BY <1>1, <2>1, <3>2
    <3> QED
      BY <3>1, <3>3 DEF Reached, InWork, In
  <2> QED
    BY <1>2, <2>2, <2>3, <2>4 DEF Reached
<1>4. CASE CloseEntry(p) \/ FailEntry(p)
  <2>1. PICK status \in {"succeeded", "failed"} :
          /\ outbox' = [outbox EXCEPT ![replay[p].entry] = status]
          /\ status = "succeeded" => CloseEntry(p)
    BY <1>1, <1>4 DEF CloseEntry, FailEntry, SaveEntry
  <2>2. \A o \in Replayers : o # p => replay'[o] = replay[o]
    BY <1>1, <1>4 DEF CloseEntry, FailEntry, NextEntry
  <2>3. CASE replay[p].entry = q
    <3>1. CASE status = "failed"
      BY <1>1, <2>1, <2>3, <3>1 DEF Reached, Replayable
    <3>2. CASE status = "succeeded"
      BY <1>1, <1>2, <2>1, <2>3, <3>2 DEF CloseEntry, In, ReplayInv
    <3> QED
      BY <3>1, <3>2
  <2>4. CASE replay[p].entry # q /\ q \in Replayable
    BY <1>1, <2>1, <2>4 DEF Reached, Replayable
  <2>5. CASE replay[p].entry # q /\ InWork(q)
    <3>1. PICK o \in Replayers :
            ~ In(o, "idle") /\ ~ In(o, "next") /\ replay[o].entry = q
      BY <2>5 DEF InWork
    <3>2. replay'[o] = replay[o]
      BY <2>2, <2>5, <3>1
    <3> QED
      BY <3>1, <3>2 DEF Reached, InWork, In
  <2> QED
    BY <1>2, <2>3, <2>4, <2>5 DEF Reached
<1>5. CASE UNCHANGED outbox /\ ~ In(p, "next") /\ ~ CloseEntry(p) /\ ~ FailEntry(p)
  <2>1. \A o \in Replayers : o # p => replay'[o] = replay[o]
    BY <1>1, <1>5 DEF ReplayStep, ListReplayable, EndReplay, ReadRecord, ReportAgain,
       SaveReplayed, Proceed, TakeEntry
  <2>2. ~ In(p, "idle") =>
          replay'[p].entry = replay[p].entry /\ replay'[p].pc \notin {"idle", "next"}
    <3>1. CASE ReadRecord(p)
      BY <1>1, <3>1 DEF ReadRecord, Replay
    <3>2. CASE ReportAgain(p)
      BY <1>1, <3>2 DEF ReportAgain, Proceed, Replay, AfterReplayStep
    <3>3. CASE SaveReplayed(p)
      BY <1>1, <3>3 DEF SaveReplayed, Proceed, Replay
    <3> QED
      BY <1>5, <3>1, <3>2, <3>3 DEF ReplayStep, ListReplayable, EndReplay, TakeEntry
  <2>3. CASE InWork(q)
    <3>1. PICK o \in Replayers :
            ~ In(o, "idle") /\ ~ In(o, "next") /\ replay[o].entry = q
      BY <2>3 DEF InWork
    <3>2. CASE o = p
      BY <2>2, <3>1, <3>2 DEF Reached, InWork, In
    <3>3. CASE o # p
      BY <2>1, <3>1, <3>3 DEF Reached, InWork, In
    <3> QED
      BY <3>2, <3>3
  <2>4. CASE q \in Replayable
    BY <1>5, <2>4 DEF Reached, Replayable
  <2> QED
    BY <1>2, <2>3, <2>4 DEF Reached
<1>6. CASE EndReplay(p)
  <2>1. UNCHANGED outbox /\ In(p, "next")
        /\ \A o \in Replayers : o # p => replay'[o] = replay[o]
    BY <1>1, <1>6 DEF EndReplay, Proceed
  <2>2. CASE InWork(q)
    <3>1. PICK o \in Replayers :
            ~ In(o, "idle") /\ ~ In(o, "next") /\ replay[o].entry = q
      BY <2>2 DEF InWork
    <3>2. replay'[o] = replay[o]
      BY <2>1, <3>1
    <3> QED
      BY <3>1, <3>2 DEF Reached, InWork, In
  <2>3. CASE q \in Replayable
    BY <2>1, <2>3 DEF Reached, Replayable
  <2> QED
    BY <1>2, <2>2, <2>3 DEF Reached
<1>7. /\ ListReplayable(p) => UNCHANGED outbox /\ ~ In(p, "next")
      /\ ReadRecord(p) => UNCHANGED outbox /\ ~ In(p, "next")
      /\ ReportAgain(p) => UNCHANGED outbox /\ ~ In(p, "next")
      /\ SaveReplayed(p) => UNCHANGED outbox /\ ~ In(p, "next")
  BY DEF ListReplayable, ReadRecord, ReportAgain, SaveReplayed, In
<1> QED
  BY <1>3, <1>4, <1>5, <1>6, <1>7 DEF ReplayStep

(* A request that ends owing a report has just booked or queued it.        *)
LEMMA EndsReached ==
  ASSUME DbFaults = FALSE, IInv, NEW q \in Requests, Begin(q) \/ Continue(q), Owed(q)'
  PROVE  Reached(q)'
<1>1. /\ DbResults = {TRUE} /\ request \in [Requests -> Request]
      /\ outbox \in [Requests -> OutboxStatuses] /\ RequestInv(q)
      /\ request'[q].pc = "done" /\ Message(q)' = Message(q)
  BY DEF DbResults, IInv, TypeOK, Owed, At, Message
<1>2. CASE StartRecord(q)
  BY <1>1, <1>2 DEF StartRecord, GoTo, At, Owed, RequestInv, NoRecord, Request
<1>3. CASE CreateRecord(q)
  <2>1. CASE GoTo(q, "done")
    BY <1>1, <1>3, <2>1 DEF CreateRecord, GoTo, At, Owed, RequestInv, NoRecord, Request
  <2>2. CASE ~ GoTo(q, "done")
    BY <1>1, <1>3, <2>2 DEF CreateRecord, Owed
  <2> QED
    BY <2>1, <2>2
<1>4. CASE SaveReported(q)
  BY <1>1, <1>4 DEF SaveReported, At, RequestInv, Reached
<1>5. CASE EnqueueOutbox(q)
  BY <1>1, <1>5 DEF EnqueueOutbox, Reached, Replayable
<1>6. ~ (StartRefund(q) \/ SaveRefunded(q) \/ Report(q) \/ SaveUnreported(q))
  BY <1>1 DEF StartRefund, Refundable, SaveRefunded, Report, SaveUnreported, GoTo, Request,
     AfterReportStep
<1> QED
  BY <1>2, <1>3, <1>4, <1>5, <1>6 DEF Begin, Continue

LEMMA OwedStaysReached ==
  ASSUME DbFaults = FALSE, Crashes = FALSE, IInv, [Next]_vars, Grows,
         \A q \in Requests : Owed(q) => Reached(q)
  PROVE  \A q \in Requests : (Owed(q) => Reached(q))'
<1> SUFFICES ASSUME NEW q \in Requests, Owed(q)' PROVE Reached(q)'
  OBVIOUS
<1>1. reported \subseteq reported'
  BY DEF Grows
<1>2. ASSUME NEW r \in Requests, Begin(r) \/ Continue(r) PROVE Reached(q)'
  <2>1. CASE r = q
    BY <1>2, <2>1, EndsReached
  <2>2. CASE r # q
    <3>1. /\ request'[q] = request[q] /\ UNCHANGED replay
          /\ \/ UNCHANGED outbox
             \/ \E s \in Requests : outbox' = [outbox EXCEPT ![s] = "pending"]
      <4>1. CASE Begin(r)
        BY <2>2, <4>1 DEF Begin, StartRecord, StartRefund, Refundable, GoTo, IInv, TypeOK
      <4>2. CASE EnqueueOutbox(r)
        BY <2>2, <4>2 DEF EnqueueOutbox, GoTo, IInv, TypeOK
      <4>3. CASE CreateRecord(r)
        BY <2>2, <4>3 DEF CreateRecord, GoTo, IInv, TypeOK
      <4>4. CASE SaveRefunded(r) \/ Report(r)
        BY <2>2, <4>4 DEF SaveRefunded, Report, GoTo, IInv, TypeOK
      <4>5. CASE SaveReported(r) \/ SaveUnreported(r)
        BY <2>2, <4>5 DEF SaveReported, SaveUnreported, IInv, TypeOK
      <4> QED
        BY <1>2, <4>1, <4>2, <4>3, <4>4, <4>5 DEF Continue
    <3>2. Owed(q)
      BY <3>1 DEF Owed, At
    <3> QED
      BY <1>1, <3>1, <3>2, RequestsKeepReached
  <2> QED
    BY <2>1, <2>2
<1>3. ASSUME NEW p \in Replayers, ReplayStep(p) PROVE Reached(q)'
  <2>1. Owed(q)
    BY <1>3 DEF Owed, At, ReplayStep, ListReplayable, TakeEntry, EndReplay, ReadRecord,
       ReportAgain, SaveReplayed, CloseEntry, FailEntry
  <2> QED
    BY <1>1, <1>3, <2>1, ReplaysKeepReached
<1>4. CASE UNCHANGED vars
  BY <1>1, <1>4, RequestsKeepReached DEF vars, Owed, At
<1>5. (\E r \in Requests : CutRequest(r)) \/ (\E p \in Replayers : CutReplay(p)) => FALSE
  BY DEF CutRequest, CutReplay
<1> QED
  BY <1>2, <1>3, <1>4, <1>5 DEF Next

(* Every report that was owed is booked, queued or in work, for any number *)
(* of overlapping requests, refused calls and lost replies.                *)
THEOREM NoReportIsLost ==
  ASSUME DbFaults = FALSE, Crashes = FALSE
  PROVE  Spec => []ReportedOrQueued
<1> DEFINE Kept == \A q \in Requests : Owed(q) => Reached(q)
<1>1. Init => Kept
  BY DEF Init, Owed, At
<1>2. IInv /\ Kept /\ [Next]_vars => Kept'
  BY NextHolds, OwedStaysReached
<1>3. Kept => ReportedOrQueued
  BY DEF Owed, Reached, ReportedOrQueued
<1> HIDE DEF Kept
<1> QED
  BY <1>1, <1>2, <1>3, Invariance, PTL DEF Spec

-----------------------------------------------------------------------------
(* Refunds.  With one request at a time, whoever is at work on the record  *)
(* has read it as it is.                                                   *)

InProgress(q) == request[q].pc \notin {"new", "done"}

Playing(p) == replay[p].pc # "idle"

OneAtATime ==
  /\ \A q, r \in Requests : InProgress(q) /\ InProgress(r) => q = r
  /\ \A p, o \in Replayers : Playing(p) /\ Playing(o) => p = o
  /\ \A q \in Requests, p \in Replayers : ~ (InProgress(q) /\ Playing(p))

RefundInv ==
  /\ OneAtATime
  /\ record.status = "refunded" =>
       /\ \A q \in Requests : request[q].pc \in Owing => request[q].copy.status = "refunded"
       /\ \A p \in Replayers : replay[p].pc \in {"report", "saveReported"} =>
            replay[p].copy.status = "refunded"

RefundKept == record.status = "refunded" => record'.status = "refunded"

(* A step of a request.                                                    *)
LEMMA RefundRequest ==
  ASSUME Concurrent = FALSE, IInv, RefundInv, NEW q \in Requests,
         Begin(q) \/ Continue(q) \/ CutRequest(q)
  PROVE  RefundInv' /\ RefundKept
<1> DEFINE r == request'[q]
<1>1. /\ request \in [Requests -> Request] /\ request[q] \in Request
      /\ record \in Record \cup {NoRecord}
  BY DEF IInv, TypeOK
<1>2. UNCHANGED replay
  BY DEF Begin, Continue, StartRecord, StartRefund, CreateRecord, SaveRefunded, Report,
         SaveReported, SaveUnreported, EnqueueOutbox, CutRequest
<1>3. \A u \in Requests \ {q} : request'[u] = request[u]
  BY <1>1 DEF Begin, Continue, StartRecord, StartRefund, CreateRecord, SaveRefunded, Report,
              SaveReported, SaveUnreported, EnqueueOutbox, CutRequest, GoTo
<1>5. /\ \A u \in Requests \ {q} : ~ InProgress(u)
      /\ \A p \in Replayers : ~ Playing(p)
  <2>1. CASE InProgress(q) BY <2>1 DEF RefundInv, OneAtATime
  <2>2. CASE MayStart BY <2>2 DEF MayStart, InProgress, Playing
  <2>3. ~ InProgress(q) => MayStart
    BY DEF Begin, Continue, StartRecord, StartRefund, CreateRecord, SaveRefunded, Report,
           SaveReported, SaveUnreported, EnqueueOutbox, CutRequest, At, InProgress
  <2> QED BY <2>1, <2>2, <2>3
<1>6. OneAtATime' BY <1>2, <1>3, <1>5 DEF OneAtATime, InProgress, Playing
<1>7. /\ record'.status = "refunded" /\ r.pc \in Owing => r.copy.status = "refunded"
      /\ RefundKept
  <2>1. CASE StartRecord(q) BY <1>1, <2>1 DEF StartRecord, GoTo, Owing, RefundKept
  <2>2. CASE StartRefund(q)
    <3>1. record \in Record BY <1>1, <2>2 DEF StartRefund, Refundable
    <3>2. r.copy.status = "refunded" BY <1>1, <2>2, <3>1 DEF StartRefund, Record
    <3> QED BY <2>2, <3>2 DEF StartRefund, RefundKept
  <2>3. CASE CreateRecord(q)
    <3>1. CASE CanInsert /\ record'.status = "settled"
      BY <3>1 DEF CanInsert, NoRecord, RefundKept
    <3>2. CASE GoTo(q, "done") /\ UNCHANGED record
      BY <1>1, <3>2 DEF GoTo, Owing, RefundKept
    <3> QED BY <2>3, <3>1, <3>2 DEF CreateRecord
  <2>4. CASE Report(q) \/ EnqueueOutbox(q) \/ CutRequest(q)
    BY <1>1, <2>4 DEF Report, EnqueueOutbox, CutRequest, AfterReportStep, GoTo, At, Owing,
                      RefundInv, RefundKept, Request
  <2>5. CASE SaveRefunded(q)
    BY <1>1, <2>5 DEF SaveRefunded, GoTo, At, Owing, RefundInv, RefundKept, Request
  <2>6. CASE SaveReported(q) \/ SaveUnreported(q)
    <3>1. request[q].pc \in Owing BY <2>6 DEF SaveReported, SaveUnreported, At, Owing
    <3>2. request[q].copy \in Record BY <3>1 DEF IInv, RequestInv
    <3>3. r.copy.status = request[q].copy.status
      BY <1>1, <2>6, <3>2 DEF SaveReported, SaveUnreported, ReportedRecord, Record, Request
    <3>4. record' \in {record, r.copy}
      BY <1>1, <2>6 DEF SaveReported, SaveUnreported, Request
    <3> QED BY <3>1, <3>3, <3>4 DEF RefundInv, RefundKept
  <2> QED BY <2>1, <2>2, <2>3, <2>4, <2>5, <2>6 DEF Begin, Continue
<1>8. \A u \in Requests \ {q} : request'[u].pc \notin Owing
  BY <1>3, <1>5 DEF InProgress, Owing
<1>9. \A p \in Replayers : replay'[p].pc \notin {"report", "saveReported"}
  BY <1>2, <1>5 DEF Playing
<1> QED BY <1>6, <1>7, <1>8, <1>9 DEF RefundInv

(* A step of a replay, which writes what it has read.                      *)
LEMMA RefundReplay ==
  ASSUME Concurrent = FALSE, IInv, RefundInv, NEW p \in Replayers,
         ReplayStep(p) \/ CutReplay(p)
  PROVE  RefundInv' /\ RefundKept
<1> DEFINE r == replay'[p]
<1>1. replay \in [Replayers -> Replay] /\ replay[p] \in Replay BY DEF IInv, TypeOK
<1>2. UNCHANGED request
  BY DEF ReplayStep, ListReplayable, TakeEntry, EndReplay, ReadRecord, ReportAgain,
         SaveReplayed, CloseEntry, FailEntry, CutReplay
<1>3. \A o \in Replayers \ {p} : replay'[o] = replay[o]
  BY <1>1 DEF ReplayStep, ListReplayable, TakeEntry, EndReplay, ReadRecord, ReportAgain,
              SaveReplayed, CloseEntry, FailEntry, CutReplay, Proceed, NextEntry
<1>4. /\ \A q \in Requests : ~ InProgress(q)
      /\ \A o \in Replayers \ {p} : ~ Playing(o)
  <2>1. CASE Playing(p) BY <2>1 DEF RefundInv, OneAtATime
  <2>2. CASE MayStart BY <2>2 DEF MayStart, InProgress, Playing
  <2>3. ~ Playing(p) => MayStart
    BY DEF ReplayStep, ListReplayable, TakeEntry, EndReplay, ReadRecord, ReportAgain,
           SaveReplayed, CloseEntry, FailEntry, CutReplay, In, Playing
  <2> QED BY <2>1, <2>2, <2>3
<1>5. OneAtATime' BY <1>2, <1>3, <1>4 DEF OneAtATime, InProgress, Playing
<1>6. /\ record'.status = "refunded" /\ r.pc \in {"report", "saveReported"}
           => r.copy.status = "refunded"
      /\ RefundKept
  <2>1. CASE ListReplayable(p) \/ TakeEntry(p) \/ EndReplay(p) \/ CloseEntry(p)
             \/ FailEntry(p) \/ CutReplay(p)
    <3>1. UNCHANGED record
      BY <2>1 DEF ListReplayable, TakeEntry, EndReplay, CloseEntry, FailEntry, CutReplay
    <3>2. r.pc \notin {"report", "saveReported"}
      <4>1. CASE ListReplayable(p) BY <1>1, <4>1 DEF ListReplayable
      <4>2. CASE TakeEntry(p) BY <1>1, <4>2 DEF TakeEntry, In, Replay
      <4>3. CASE EndReplay(p) \/ CutReplay(p) BY <1>1, <4>3 DEF EndReplay, CutReplay, Proceed, Replay
      <4>4. CASE CloseEntry(p) \/ FailEntry(p)
        BY <1>1, <4>4 DEF CloseEntry, FailEntry, NextEntry, Replay
      <4> QED BY <2>1, <4>1, <4>2, <4>3, <4>4
    <3> QED BY <3>1, <3>2 DEF RefundKept
  <2>2. CASE ReadRecord(p) BY <1>1, <2>2 DEF ReadRecord, RefundKept, Replay
  <2>3. CASE ReportAgain(p)
    BY <1>1, <2>3 DEF ReportAgain, AfterReplayStep, Proceed, In, RefundInv, RefundKept, Replay
  <2>4. CASE SaveReplayed(p)
    <3>1. replay[p].pc = "saveReported" BY <2>4 DEF SaveReplayed, In
    <3>2. replay[p].copy \in Record BY <3>1 DEF IInv, ReplayInv
    <3>3. ReportedRecord(replay[p].copy).status = replay[p].copy.status
      BY <3>2 DEF ReportedRecord, Record
    <3>4. r.pc \in {"close", "fail"} BY <1>1, <2>4 DEF SaveReplayed, Proceed
    <3> QED BY <2>4, <3>1, <3>3, <3>4 DEF SaveReplayed, RefundInv, RefundKept
  <2> QED BY <2>1, <2>2, <2>3, <2>4 DEF ReplayStep
<1>7. \A q \in Requests : request'[q].pc \notin Owing BY <1>2, <1>4 DEF InProgress, Owing
<1>8. \A o \in Replayers \ {p} : replay'[o].pc \notin {"report", "saveReported"}
  BY <1>3, <1>4 DEF Playing
<1> QED BY <1>5, <1>6, <1>7, <1>8 DEF RefundInv

(* While no request and no replay overlaps another, a refund that was      *)
(* stored stays stored: whoever writes the record back has read it after   *)
(* the refund, whatever fails, is lost or is cut off.                      *)
THEOREM RefundsStay ==
  ASSUME Concurrent = FALSE PROVE Spec => RefundIsKept
<1>1. Init => RefundInv
  BY DEF Init, RefundInv, OneAtATime, InProgress, Playing, Owing
<1>2. IInv /\ RefundInv /\ [Next]_vars => RefundInv' /\ [RefundKept]_vars
  <2> SUFFICES ASSUME IInv, RefundInv, [Next]_vars PROVE RefundInv' /\ [RefundKept]_vars
    OBVIOUS
  <2>1. CASE UNCHANGED vars
    BY <2>1 DEF vars, RefundInv, OneAtATime, InProgress, Playing
  <2>2. CASE Next BY <2>2, RefundRequest, RefundReplay DEF Next
  <2> QED BY <2>1, <2>2
<1> QED BY <1>1, <1>2, Invariance, PTL DEF Spec, RefundIsKept, RefundKept

=============================================================================
