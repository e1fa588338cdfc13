----------------------- MODULE VisualGeneration_proofs -----------------------
(***************************************************************************)
(* What TLAPS proves of VisualGeneration, for any overlapping requests and *)
(* callbacks, any pictures, and whatever fails.                            *)
(***************************************************************************)
EXTENDS VisualGeneration, FiniteSetTheorems, SequenceTheorems, TLAPS

(* The versions whose writeback, if any, is one of these pictures.  Not    *)
(* only the row has such versions: the copies that requests and callbacks  *)
(* will write over it have, too.                                           *)
Row(pictures) == {v \in Version : v.writeback = "none" \/ v.writeback \in pictures}

Steps == {"idle", "begin", "createRuntime", "save", "next"}

Requests(pictures) ==
  {r \in [pc : Steps, read : Seq(Row(pictures)), new : Row(pictures), left : Nat] :
     r.pc = "next" => r.left > 0}

Callbacks(pictures) == [pc : {"idle", "save"}, write : Seq(Row(pictures))]

Related == DOMAIN relation \cap asset

CopiesTyped ==
  /\ version \in Seq(Row(Related))
  /\ request \in [Workers -> Requests(Related)]
  /\ callback \in [Callers -> Callbacks(Related)]

RuntimeTyped == DOMAIN runtime \subseteq Keys /\ runtime \in [DOMAIN runtime -> RuntimeJob]

ChargeTyped == charge \in Seq(Charge) /\ Len(charge) <= MaxVersions

RelationTyped ==
  /\ asset \subseteq Pictures
  /\ DOMAIN relation \subseteq Pictures
  /\ \A p \in DOMAIN relation : relation[p] \in BOOLEAN
  /\ \A p, q \in DOMAIN relation : relation[p] /\ relation[q] => p = q

RowInv == CopiesTyped /\ RuntimeTyped /\ ChargeTyped /\ RelationTyped

-----------------------------------------------------------------------------

LEMMA MoreRows ==
  ASSUME NEW P, NEW Q, P \subseteq Q
  PROVE  /\ Row(P) \subseteq Row(Q)
         /\ Seq(Row(P)) \subseteq Seq(Row(Q))
         /\ Requests(P) \subseteq Requests(Q)
         /\ Callbacks(P) \subseteq Callbacks(Q)
<1>1. Row(P) \subseteq Row(Q) BY DEF Row
<1> HIDE DEF Row
<1>2. Seq(Row(P)) \subseteq Seq(Row(Q)) BY <1>1
<1> QED BY <1>1, <1>2 DEF Requests, Callbacks

LEMMA NewVersionTyped ==
  ASSUME NEW id \in Ids, NEW key \in ClientKeys \cup {"none"}, NEW results \in SUBSET Pictures,
         NEW P
  PROVE  NewVersion(id, key, results) \in Row(P)
BY DEF NewVersion, Version, VersionStatuses, Row

LEMMA IdleTyped == ASSUME NEW P PROVE Idle \in Requests(P) /\ Quiet \in Callbacks(P)
<1>1. 1 \in Ids BY VisualGenerationAssumption DEF Ids
<1>2. NewVersion(1, "none", {}) \in Row(P) BY <1>1, NewVersionTyped
<1>3. << >> \in Seq(Row(P)) BY EmptySeq
<1> QED BY <1>2, <1>3 DEF Idle, Quiet, Requests, Callbacks, Steps

LEMMA CallOutcome ==
  ASSUME NEW before, NEW after, NEW r \in Call(before, after)
  PROVE  /\ r.ok \in BOOLEAN
         /\ r.state \in {before, after}
         /\ r.ok => r.state = after
         /\ ~ LostReplies /\ ~ r.ok => r.state = before
<1>1. \/ r = [ok |-> TRUE, state |-> after]
      \/ r = [ok |-> FALSE, state |-> before]
      \/ LostReplies /\ r = [ok |-> FALSE, state |-> after]
  BY LostRepliesAssumption, Zenon DEF Call
<1>2. CASE r = [ok |-> TRUE, state |-> after] BY <1>2
<1>3. CASE r = [ok |-> FALSE, state |-> before] BY <1>3
<1>4. CASE LostReplies /\ r = [ok |-> FALSE, state |-> after]
  <2>1. r.ok = FALSE /\ r.state = after BY <1>4
  <2> QED BY <1>4, <2>1, Zenon
<1> QED BY <1>1, <1>2, <1>3, <1>4, Zenon

(* A charge begun with success has a reservation.                          *)
LEMMA BeginOutcome ==
  ASSUME NEW c \in Charge, NEW r \in Begin(c)
  PROVE  r.ok \in BOOLEAN /\ r.state \in Charge /\ (r.ok => r.state.reservation = "held")
<1>1. PICK created \in CreateChargeSession(c) :
        r \in IF created.ok THEN ReserveResources(created.state) ELSE {created}
  BY Zenon DEF Begin
<1>2. created.ok \in BOOLEAN /\ created.state \in {c, [c EXCEPT !.session = "created"]}
  BY CallOutcome DEF CreateChargeSession
<1>3. [c EXCEPT !.session = "created"] \in Charge BY DEF Charge, SessionStatuses
<1>4. created.state \in Charge BY <1>2, <1>3
<1>5. CASE ~ created.ok BY <1>1, <1>2, <1>4, <1>5
<1>6. CASE created.ok
  <2> DEFINE s == created.state
             held == [s EXCEPT !.reservation = "held"]
  <2>1. held \in Charge /\ held.reservation = "held"
    BY <1>4 DEF Charge, ReservationStatuses
  <2>2. r \in Call(s, held) BY <1>1, <1>6 DEF ReserveResources
  <2> HIDE DEF held, s
  <2>3. r.ok \in BOOLEAN /\ r.state \in {s, held} /\ (r.ok => r.state = held)
    BY <2>2, CallOutcome
  <2> QED BY <1>4, <2>1, <2>3 DEF s
<1> QED BY <1>2, <1>5, <1>6

LEMMA ReleaseOutcome ==
  ASSUME NEW c \in Charge, NEW r \in Release(c) PROVE r.state \in Charge
<1>1. PICK released \in ReleaseReservation(c) : r \in UpdateChargeSession(released.state, "released")
  BY DEF Release
<1>2. [c EXCEPT !.reservation = IF @ = "held" THEN "released" ELSE @] \in Charge
  BY DEF Charge, ReservationStatuses
<1>3. released.state \in Charge BY <1>2, CallOutcome DEF ReleaseReservation
<1>4. [released.state EXCEPT !.session = "released"] \in Charge
  BY <1>3 DEF Charge, SessionStatuses
<1> QED BY <1>1, <1>3, <1>4, CallOutcome DEF UpdateChargeSession

-----------------------------------------------------------------------------
(* What one request or callback changes.                                   *)

LEMMA RequestReplaced ==
  ASSUME RowInv, NEW w \in Workers, NEW r \in Requests(Related),
         request' = [request EXCEPT ![w] = r], UNCHANGED <<version, asset, relation, callback>>
  PROVE  CopiesTyped' /\ RelationTyped'
BY DEF RowInv, CopiesTyped, RelationTyped, Related

LEMMA CallbackReplaced ==
  ASSUME RowInv, NEW c \in Callers, NEW s \in Callbacks(Related),
         callback' = [callback EXCEPT ![c] = s], UNCHANGED <<version, relation, request>>,
         asset \subseteq asset', asset' \subseteq Pictures
  PROVE  CopiesTyped' /\ RelationTyped'
<1>1. Related \subseteq Related' BY DEF Related
<1>2. /\ Seq(Row(Related)) \subseteq Seq(Row(Related'))
      /\ Requests(Related) \subseteq Requests(Related')
      /\ Callbacks(Related) \subseteq Callbacks(Related')
  BY <1>1, MoreRows
<1>3. CopiesTyped'
  BY <1>2 DEF RowInv, CopiesTyped
<1> QED BY <1>3 DEF RowInv, RelationTyped

LEMMA VersionReplaced ==
  ASSUME RowInv, NEW i \in DOMAIN version, NEW v \in Row(Related)
  PROVE  [version EXCEPT ![i] = v] \in Seq(Row(Related))
<1>1. version \in Seq(Row(Related)) BY DEF RowInv, CopiesTyped
<1>2. i \in 1 .. Len(version) BY <1>1
<1> HIDE DEF Row
<1> QED BY <1>1, <1>2, ExceptSeq

LEMMA VersionTyped ==
  ASSUME RowInv, NEW i \in DOMAIN version PROVE version[i] \in Row(Related)
<1>1. version \in Seq(Row(Related)) BY DEF RowInv, CopiesTyped
<1> HIDE DEF Row
<1> QED BY <1>1

LEMMA ManifestOrNone == PlatformRuntimeInputManifest \subseteq BOOLEAN
BY DEF PlatformRuntimeInputManifest, PlatformRuntimeInputManifestFromPromptPlan, PromptRuns,
       PromptPlans

LEMMA PreparedTyped ==
  ASSUME RowInv, NEW w \in Workers, NEW key \in ClientKeys \cup {"none"},
         NEW results \in SUBSET Pictures, NEW left \in Nat,
         PrepareGenerationRuntimeVersion(w, key, results, left)
  PROVE  /\ ChargeTyped'
         /\ \E r \in Requests(Related) :
              request' = [request EXCEPT ![w] = r]
<1>1. BuildId \in Ids
  BY VisualGenerationAssumption
     DEF PrepareGenerationRuntimeVersion, BuildId, Ids, RowInv, ChargeTyped
<1>2. NoCharge \in Charge BY DEF NoCharge, Charge, SessionStatuses, ReservationStatuses
<1>3. ChargeTyped'
  BY <1>2, AppendProperties, VisualGenerationAssumption
     DEF PrepareGenerationRuntimeVersion, RowInv, ChargeTyped, BuildId
<1>4. PICK capable \in BOOLEAN, executable \in BOOLEAN : request' = [request EXCEPT ![w] =
         [pc |-> IF capable /\ executable THEN "begin" ELSE "save", read |-> version,
          new |-> NewVersion(BuildId, key, results), left |-> left]]
  BY ManifestOrNone DEF PrepareGenerationRuntimeVersion, GenerationRuntimeCapabilityReady
<1>5. NewVersion(BuildId, key, results) \in Row(Related) BY <1>1, NewVersionTyped
<1>6. [pc |-> IF capable /\ executable THEN "begin" ELSE "save", read |-> version,
       new |-> NewVersion(BuildId, key, results), left |-> left] \in Requests(Related)
  BY <1>5 DEF Requests, Steps, RowInv, CopiesTyped
<1> QED BY <1>3, <1>4, <1>6

(* A callback gets under way with a column it will write.                  *)
LEMMA WillWriteTyped ==
  ASSUME RowInv, NEW c \in Callers, NEW i \in DOMAIN version, NEW v \in Row(Related),
         WillWrite(c, i, v)
  PROVE  \E s \in Callbacks(Related) : callback' = [callback EXCEPT ![c] = s]
<1>1. [version EXCEPT ![i] = v] \in Seq(Row(Related)) BY VersionReplaced
<1>2. [pc |-> "save", write |-> [version EXCEPT ![i] = v]] \in Callbacks(Related)
  BY <1>1 DEF Callbacks
<1> QED BY <1>2 DEF WillWrite

-----------------------------------------------------------------------------
(* The steps of a request.                                                 *)

LEMMA KeysTyped ==
  ASSUME NEW v, v \in Version
  PROVE  GenerationRuntimeIdempotencyKey(v) \in Keys
BY DEF GenerationRuntimeIdempotencyKey, Keys, Version

LEMMA RuntimeCreated ==
  ASSUME RuntimeTyped, NEW key \in Keys, NEW owner \in Ids
  PROVE  LET after == CreateRuntimeJob(key, owner)
         IN  /\ DOMAIN after = DOMAIN runtime \cup {key}
             /\ after \in [DOMAIN after -> RuntimeJob]
             /\ \A k \in DOMAIN after :
                  IF k \in DOMAIN runtime THEN after[k] = runtime[k] ELSE after[k].owner = owner
<1> DEFINE new == [owner |-> owner, status |-> "queued", files |-> {}]
<1>1. new \in RuntimeJob BY DEF RuntimeJob, RuntimeStatuses
<1>2. CASE key \in DOMAIN runtime BY <1>2 DEF CreateRuntimeJob, RuntimeTyped
<1>3. CASE key \notin DOMAIN runtime
  <2> DEFINE after == CreateRuntimeJob(key, owner)
  <2>1. after = [k \in DOMAIN runtime \cup {key} |-> IF k \in DOMAIN runtime THEN runtime[k] ELSE new]
    BY <1>3 DEF CreateRuntimeJob
  <2>2. new.owner = owner OBVIOUS
  <2> HIDE DEF new, after
  <2> QED BY <1>1, <2>1, <2>2 DEF RuntimeTyped, after
<1> QED BY <1>2, <1>3

LEMMA NamedTyped ==
  ASSUME NEW P, NEW v \in Row(P), NEW key \in Keys, NEW status \in RuntimeStatuses
  PROVE  Named(v, key, status) \in Row(P)
<1>1. MapGenerationRuntimeStatus(status) \in VersionStatuses
  BY DEF MapGenerationRuntimeStatus, RuntimeStatuses, VersionStatuses
<1> HIDE DEF MapGenerationRuntimeStatus, VersionStatuses
<1> QED BY <1>1 DEF Named, Row, Version

LEMMA CreatedTyped ==
  ASSUME RowInv, NEW w \in Workers, CreatePlatformGenerationRuntimeJob(w)
  PROVE  /\ RuntimeTyped' /\ ChargeTyped'
         /\ \E r \in Requests(Related) : request' = [request EXCEPT ![w] = r]
<1> DEFINE new   == request[w].new
           key   == GenerationRuntimeIdempotencyKey(new)
           after == CreateRuntimeJob(key, new.id)
<1>1. request[w] \in Requests(Related) BY DEF RowInv, CopiesTyped
<1>2. new \in Row(Related) BY <1>1 DEF Requests
<1>3. new \in Version /\ new.id \in Ids BY <1>2 DEF Row, Version
<1>4. key \in Keys BY <1>3, KeysTyped
<1>5. PICK call \in Call(runtime, after) :
        /\ runtime' = call.state
        /\ IF call.ok
           THEN /\ request' = [request EXCEPT ![w].pc = "save",
                                 ![w].new = Named(new, key, call.state[key].status)]
                /\ UNCHANGED charge
           ELSE /\ request' = [request EXCEPT ![w].pc = "save"]
                /\ \E done \in Release(charge[new.id]) :
                     charge' = [charge EXCEPT ![new.id] = done.state]
  BY Zenon DEF CreatePlatformGenerationRuntimeJob
<1> HIDE DEF new, key
<1>6. /\ DOMAIN after = DOMAIN runtime \cup {key}
      /\ after \in [DOMAIN after -> RuntimeJob]
  BY <1>3, <1>4, RuntimeCreated DEF RowInv
<1> HIDE DEF after
<1>7. call.ok \in BOOLEAN /\ call.state \in {runtime, after} /\ (call.ok => call.state = after)
  BY CallOutcome
<1>8. RuntimeTyped' BY <1>4, <1>5, <1>6, <1>7 DEF RuntimeTyped, RowInv
<1>9. CASE call.ok
  <2>1. after[key].status \in RuntimeStatuses BY <1>6 DEF RuntimeJob
  <2> DEFINE n == Named(new, key, after[key].status)
             r == [request[w] EXCEPT !.pc = "save", !.new = n]
  <2>2. n \in Row(Related) BY <1>2, <1>4, <2>1, NamedTyped
  <2>3. request' = [request EXCEPT ![w].pc = "save", ![w].new = n] BY <1>5, <1>7, <1>9
  <2> HIDE DEF n
  <2>4. r \in Requests(Related) BY <1>1, <2>2 DEF Requests, Steps
  <2>5. request' = [request EXCEPT ![w] = r] BY <1>1, <2>3 DEF Requests, RowInv, CopiesTyped
  <2>6. ChargeTyped' BY <1>5, <1>9 DEF ChargeTyped, RowInv
  <2> QED BY <1>8, <2>4, <2>5, <2>6
<1>10. CASE ~ call.ok
  <2> DEFINE r == [request[w] EXCEPT !.pc = "save"]
  <2>1. r \in Requests(Related) BY <1>1 DEF Requests, Steps
  <2>2. request' = [request EXCEPT ![w] = r] BY <1>5, <1>10 DEF RowInv, CopiesTyped
  <2>3. PICK done \in Release(charge[new.id]) : charge' = [charge EXCEPT ![new.id] = done.state]
    BY <1>5, <1>10
  <2>4. ChargeTyped'
    <3>1. CASE new.id \in 1 .. Len(charge)
      <4>1. charge[new.id] \in Charge BY <3>1 DEF RowInv, ChargeTyped
      <4>2. done.state \in Charge BY <4>1, ReleaseOutcome
      <4> QED BY <2>3, <3>1, <4>2, ExceptSeq DEF RowInv, ChargeTyped
    <3>2. CASE new.id \notin 1 .. Len(charge)
      <4>1. charge' = charge BY <2>3, <3>2 DEF RowInv, ChargeTyped
      <4> QED BY <4>1 DEF RowInv, ChargeTyped
    <3> QED BY <3>1, <3>2
  <2> QED BY <1>8, <2>1, <2>2, <2>4
<1> QED BY <1>7, <1>9, <1>10

LEMMA BegunTyped ==
  ASSUME RowInv, NEW w \in Workers, BeginVisualRuntimeChargeSession(w)
  PROVE  ChargeTyped' /\ \E r \in Requests(Related) : request' = [request EXCEPT ![w] = r]
<1> DEFINE id == request[w].new.id
<1>1. PICK begun \in Begin(charge[id]) :
        /\ charge' = [charge EXCEPT ![id] = begun.state]
        /\ request' = [request EXCEPT ![w].pc =
                         IF ChargeHolds(begun.ok) THEN "createRuntime" ELSE "save"]
  BY Zenon DEF BeginVisualRuntimeChargeSession
<1>2. request[w] \in Requests(Related) BY DEF RowInv, CopiesTyped
<1> DEFINE r == [request[w] EXCEPT !.pc = IF ChargeHolds(begun.ok) THEN "createRuntime" ELSE "save"]
<1>3. r \in Requests(Related) BY <1>2 DEF Requests, Steps
<1>4. request' = [request EXCEPT ![w] = r] BY <1>1 DEF RowInv, CopiesTyped
<1> HIDE DEF id
<1>5. CASE id \in 1 .. Len(charge)
  <2>1. charge[id] \in Charge BY <1>5 DEF RowInv, ChargeTyped
  <2>2. begun.state \in Charge BY <2>1, BeginOutcome
  <2>3. ChargeTyped' BY <1>1, <1>5, <2>2, ExceptSeq DEF RowInv, ChargeTyped
  <2> HIDE DEF r
  <2> QED BY <1>3, <1>4, <2>3
<1>6. CASE id \notin 1 .. Len(charge)
  <2>1. charge' = charge BY <1>1, <1>6 DEF RowInv, ChargeTyped
  <2> QED BY <1>3, <1>4, <2>1 DEF RowInv, ChargeTyped
<1> QED BY <1>5, <1>6

LEMMA SavedTyped ==
  ASSUME RowInv, NEW w \in Workers, SaveSession(w)
  PROVE  CopiesTyped'
<1>1. PICK ok \in DbResults("saveSession") :
        /\ version' = IF ok THEN Append(request[w].read, request[w].new) ELSE version
        /\ request' = [request EXCEPT ![w] =
             IF ok /\ @.left > 0 THEN [Idle EXCEPT !.pc = "next", !.left = request[w].left]
                                 ELSE Idle]
  BY Zenon DEF SaveSession
<1>2. request[w] \in Requests(Related) BY DEF RowInv, CopiesTyped
<1>3. version' \in Seq(Row(Related))
  <2>1. request[w].read \in Seq(Row(Related)) /\ request[w].new \in Row(Related)
    BY <1>2 DEF Requests
  <2>2. Append(request[w].read, request[w].new) \in Seq(Row(Related))
    BY <2>1, AppendProperties
  <2> QED BY <1>1, <2>2 DEF RowInv, CopiesTyped
<1> DEFINE r == IF ok /\ request[w].left > 0
                THEN [Idle EXCEPT !.pc = "next", !.left = request[w].left] ELSE Idle
<1>4. r \in Requests(Related)
  <2>1. Idle \in Requests(Related) BY IdleTyped
  <2>2. request[w].left \in Nat BY <1>2 DEF Requests
  <2>3. request[w].left > 0
          => [Idle EXCEPT !.pc = "next", !.left = request[w].left] \in Requests(Related)
    BY <2>1, <2>2 DEF Requests, Steps
  <2> QED BY <2>1, <2>3
<1>5. request' = [request EXCEPT ![w] = r] BY <1>1 DEF RowInv, CopiesTyped
<1> HIDE DEF r
<1>6. Related' = Related BY DEF SaveSession, Related
<1> QED BY <1>3, <1>4, <1>5, <1>6 DEF RowInv, CopiesTyped, SaveSession

-----------------------------------------------------------------------------
(* The steps of the platform and of the callbacks.                         *)

LEMMA RanTyped == ASSUME RowInv, RunRuntimeJob PROVE RuntimeTyped'
<1>1. PICK k \in DOMAIN runtime, status \in RuntimeStatuses, files \in SUBSET Files :
        runtime' = [runtime EXCEPT ![k].status = status, ![k].files = files]
  BY DEF RunRuntimeJob, RuntimeStatuses
<1> DEFINE r == [runtime[k] EXCEPT !.status = status, !.files = files]
<1>2. runtime[k] \in RuntimeJob BY DEF RowInv, RuntimeTyped
<1>3. r \in RuntimeJob BY <1>2 DEF RuntimeJob
<1>4. runtime' = [runtime EXCEPT ![k] = r] BY <1>1 DEF RowInv, RuntimeTyped
<1> HIDE DEF r
<1> QED BY <1>3, <1>4 DEF RowInv, RuntimeTyped

LEMMA UpdatedTyped ==
  ASSUME RowInv, NEW c \in Callers, InternalUpdateGenerationRuntime(c)
  PROVE  \E s \in Callbacks(Related) : callback' = [callback EXCEPT ![c] = s]
<1>1. PICK k \in DOMAIN runtime, word \in RuntimeWords :
        \E i \in FindGenerationVersionByCallbackID(k) :
          LET v      == version[i]
              status == NormalizeGenerationRuntimeCallbackStatus(word)
              kept   == status = "processing" /\ (v.status = "completed" \/ v.results # {})
          IN  /\ word \in {"queued", "processing", runtime[k].status}
              /\ WillWrite(c, i, MergeGenerationMetadata(
                   [v EXCEPT !.job = k, !.status = IF kept THEN v.status ELSE status]))
  BY Zenon DEF InternalUpdateGenerationRuntime
<1>2. PICK i \in FindGenerationVersionByCallbackID(k) :
          LET v      == version[i]
              status == NormalizeGenerationRuntimeCallbackStatus(word)
              kept   == status = "processing" /\ (v.status = "completed" \/ v.results # {})
          IN  /\ word \in {"queued", "processing", runtime[k].status}
              /\ WillWrite(c, i, MergeGenerationMetadata(
                   [v EXCEPT !.job = k, !.status = IF kept THEN v.status ELSE status]))
  BY <1>1
<1> DEFINE v      == version[i]
           status == NormalizeGenerationRuntimeCallbackStatus(word)
           stored == IF status = "processing" /\ (v.status = "completed" \/ v.results # {})
                     THEN v.status ELSE status
           new    == MergeGenerationMetadata([v EXCEPT !.job = k, !.status = stored])
<1>3. i \in DOMAIN version /\ v \in Row(Related)
  BY VersionTyped DEF FindGenerationVersionByCallbackID
<1>4. word \in RuntimeStatuses
  BY <1>2 DEF RuntimeStatuses, RowInv, RuntimeTyped, RuntimeJob
<1>5. status \in VersionStatuses
  BY <1>4 DEF NormalizeGenerationRuntimeCallbackStatus, RuntimeStatuses, VersionStatuses
<1>6. WillWrite(c, i, new) BY <1>2
<1> HIDE DEF status
<1>7. stored \in VersionStatuses BY <1>3, <1>5 DEF Row, Version
<1>8. k \in Keys BY DEF RowInv, RuntimeTyped
<1> HIDE DEF stored, v
<1>9. new \in Row(Related) BY <1>3, <1>7, <1>8 DEF MergeGenerationMetadata, Row, Version
<1> QED BY <1>3, <1>6, <1>9, WillWriteTyped

LEMMA ResultsTyped ==
  ASSUME RowInv, NEW c \in Callers, InternalRecordGenerationResults(c)
  PROVE  /\ asset \subseteq asset' /\ asset' \subseteq Pictures
         /\ \E s \in Callbacks(Related) : callback' = [callback EXCEPT ![c] = s]
<1>1. PICK k \in DOMAIN runtime :
        \E i \in FindGenerationVersionByCallbackID(k), sent \in SUBSET runtime[k].files :
          LET status == IF runtime[k].status = "completed" /\ sent # runtime[k].files
                        THEN "processing" ELSE runtime[k].status
          IN  /\ asset' = asset \cup sent
              /\ \/ \E picked \in sent \cup {"none"} :
                      WillWrite(c, i, Recorded(version[i], status, sent, picked))
                 \/ UNCHANGED callback
  BY Zenon DEF InternalRecordGenerationResults, FindOrCreateGenerationResultAsset
<1>2. PICK i \in FindGenerationVersionByCallbackID(k), sent \in SUBSET runtime[k].files :
        /\ asset' = asset \cup sent
        /\ \/ \E status \in RuntimeStatuses, picked \in sent \cup {"none"} :
                WillWrite(c, i, Recorded(version[i], status, sent, picked))
           \/ UNCHANGED callback
  <2>1. runtime[k].status \in RuntimeStatuses /\ "processing" \in RuntimeStatuses
    BY DEF RowInv, RuntimeTyped, RuntimeJob, RuntimeStatuses
  <2> QED BY <1>1, <2>1
<1>3. sent \subseteq Files BY DEF RowInv, RuntimeTyped, RuntimeJob
<1>4. asset' \subseteq Pictures BY <1>2, <1>3 DEF RowInv, RelationTyped, Pictures
<1>5. CASE UNCHANGED callback
  <2>1. callback[c] \in Callbacks(Related) BY DEF RowInv, CopiesTyped
  <2>2. callback' = [callback EXCEPT ![c] = callback[c]] BY <1>5 DEF RowInv, CopiesTyped
  <2> QED BY <1>2, <1>4, <2>1, <2>2
<1>6. ASSUME NEW status \in RuntimeStatuses, NEW picked \in sent \cup {"none"},
             WillWrite(c, i, Recorded(version[i], status, sent, picked))
      PROVE  \E s \in Callbacks(Related) : callback' = [callback EXCEPT ![c] = s]
  <2>1. i \in DOMAIN version /\ version[i] \in Row(Related)
    BY VersionTyped DEF FindGenerationVersionByCallbackID
  <2>2. status \in VersionStatuses BY DEF RuntimeStatuses, VersionStatuses
  <2>3. picked \in Pictures \cup {"none"} /\ sent \subseteq Pictures BY <1>3 DEF Pictures
  <2>4. Recorded(version[i], status, sent, picked) \in Row(Related)
    BY <2>1, <2>2, <2>3 DEF Recorded, MergeGenerationMetadata, Row, Version
  <2> QED BY <1>6, <2>1, <2>4, WillWriteTyped
<1> QED BY <1>2, <1>4, <1>5, <1>6

LEMMA CallbackSavedTyped ==
  ASSUME RowInv, NEW c \in Callers, SaveGenerationVersions(c)
  PROVE  CopiesTyped'
<1>1. callback[c] \in Callbacks(Related) /\ Quiet \in Callbacks(Related)
  BY IdleTyped DEF RowInv, CopiesTyped
<1>2. version' \in Seq(Row(Related))
  BY <1>1 DEF SaveGenerationVersions, Callbacks, RowInv, CopiesTyped
<1>3. callback' \in [Callers -> Callbacks(Related)]
  BY <1>1 DEF SaveGenerationVersions, RowInv, CopiesTyped
<1>4. Related' = Related /\ request' = request BY DEF SaveGenerationVersions, Related
<1> HIDE DEF Related
<1> QED BY <1>2, <1>3, <1>4 DEF RowInv, CopiesTyped

-----------------------------------------------------------------------------
(* The client's operations.                                                *)

LEMMA ColumnReplaced ==
  ASSUME RowInv, version' \in Seq(Row(Related')), Related \subseteq Related',
         UNCHANGED <<request, callback>>
  PROVE  CopiesTyped'
<1>1. /\ Requests(Related) \subseteq Requests(Related')
      /\ Callbacks(Related) \subseteq Callbacks(Related')
  BY MoreRows
<1> QED BY <1>1 DEF RowInv, CopiesTyped

LEMMA EditedTyped ==
  ASSUME RowInv, NEW i \in DOMAIN version, NEW v \in Row(Related), Edited(i, v),
         UNCHANGED <<asset, relation>>
  PROVE  CopiesTyped'
<1>1. [version EXCEPT ![i] = v] \in Seq(Row(Related)) BY VersionReplaced
<1>2. Related' = Related BY DEF Related
<1>3. version' \in Seq(Row(Related')) BY <1>1, <1>2 DEF Edited
<1> QED BY <1>2, <1>3, ColumnReplaced DEF Edited

LEMMA ClientTyped ==
  ASSUME RowInv,
         UpdateGenerationVersion \/ SelectGenerationVersion \/ UpdateSession
           \/ SaveGenerationVersionAsTemplate
  PROVE  CopiesTyped'
<1>1. CASE UpdateGenerationVersion
  <2>1. PICK i \in DOMAIN version, selected \in Pictures \cup {"none"}, metadata \in BOOLEAN :
          \E status \in ClientStatuses \cup {version[i].status},
             results \in ClientResults \cup {version[i].results} :
            LET v == [version[i] EXCEPT !.status = status, !.results = results,
                                        !.selected = selected]
            IN  Edited(i, IF metadata THEN [v EXCEPT !.key = "none", !.writeback = "none"]
                          ELSE v)
    BY <1>1 DEF UpdateGenerationVersion
  <2>6. PICK status \in ClientStatuses \cup {version[i].status},
             results \in ClientResults \cup {version[i].results} :
          LET v == [version[i] EXCEPT !.status = status, !.results = results,
                                      !.selected = selected]
          IN  Edited(i, IF metadata THEN [v EXCEPT !.key = "none", !.writeback = "none"]
                        ELSE v)
    BY <2>1
  <2> DEFINE v == [version[i] EXCEPT !.status = status, !.results = results,
                                     !.selected = selected]
             n == [v EXCEPT !.key = "none", !.writeback = "none"]
  <2>2. version[i] \in Row(Related) BY VersionTyped
  <2>3. v \in Row(Related) BY <2>2, VisualGenerationAssumption DEF Row, Version
  <2>4. n \in Row(Related) BY <2>3 DEF Row, Version
  <2>5. Edited(i, v) \/ Edited(i, n) BY <2>6
  <2> HIDE DEF v, n
  <2> QED BY <1>1, <2>3, <2>4, <2>5, EditedTyped DEF UpdateGenerationVersion
<1>2. CASE SelectGenerationVersion
  <2>1. PICK i \in DOMAIN version : \E picture \in version[i].results \cup {"none"} :
          Edited(i, [version[i] EXCEPT !.selected = picture])
    BY <1>2 DEF SelectGenerationVersion
  <2>2. PICK picture \in version[i].results \cup {"none"} :
          Edited(i, [version[i] EXCEPT !.selected = picture])
    BY <2>1
  <2>3. version[i] \in Row(Related) BY VersionTyped
  <2>4. [version[i] EXCEPT !.selected = picture] \in Row(Related) BY <2>3 DEF Row, Version
  <2> QED BY <1>2, <2>2, <2>4, EditedTyped DEF SelectGenerationVersion
<1>3. CASE UpdateSession
  <2>1. version' = [i \in DOMAIN version |-> [version[i] EXCEPT !.job = NoKey]]
        /\ UNCHANGED <<asset, relation, request, callback>>
    BY <1>3 DEF UpdateSession
  <2>2. \A i \in DOMAIN version : [version[i] EXCEPT !.job = NoKey] \in Row(Related)
    BY VersionTyped DEF Row, Version
  <2>3. version \in Seq(Row(Related)) BY DEF RowInv, CopiesTyped
  <2>4. DOMAIN version = 1 .. Len(version) /\ Len(version) \in Nat
    BY <2>3, LenProperties
  <2>5. version' \in Seq(Row(Related))
    BY <2>1, <2>2, <2>4
  <2>6. Related' = Related BY <2>1 DEF Related
  <2> QED BY <2>1, <2>5, <2>6, ColumnReplaced
<1>4. CASE SaveGenerationVersionAsTemplate
  <2>1. PICK i \in DOMAIN version : Edited(i, MergeGenerationMetadata(version[i]))
    BY <1>4 DEF SaveGenerationVersionAsTemplate
  <2>2. version[i] \in Row(Related) BY VersionTyped
  <2>3. MergeGenerationMetadata(version[i]) \in Row(Related)
    BY <2>2 DEF MergeGenerationMetadata, Row, Version
  <2> QED BY <1>4, <2>1, <2>3, EditedTyped DEF SaveGenerationVersionAsTemplate
<1> QED BY <1>1, <1>2, <1>3, <1>4

(* The picture that is written back becomes one of the product's in the    *)
(* same step.                                                              *)
LEMMA WrittenBackTyped ==
  ASSUME RowInv, WritebackSelectedGenerationAsset
  PROVE  CopiesTyped' /\ RelationTyped'
<1>1. PICK i \in DOMAIN version, isPrimary \in BOOLEAN :
        \E picture \in version[i].results \cap asset :
          LET related == [p \in DOMAIN relation \cup {picture} |->
                            IF p = picture THEN isPrimary ELSE relation[p]]
          IN  /\ relation' = IF isPrimary THEN ClearPrimaryProductAssets(related, picture)
                             ELSE related
              /\ Edited(i, [version[i] EXCEPT !.writeback = picture, !.selected = picture])
  BY Zenon DEF WritebackSelectedGenerationAsset
<1>2. PICK picture \in version[i].results \cap asset :
          LET related == [p \in DOMAIN relation \cup {picture} |->
                            IF p = picture THEN isPrimary ELSE relation[p]]
          IN  /\ relation' = IF isPrimary THEN ClearPrimaryProductAssets(related, picture)
                             ELSE related
              /\ Edited(i, [version[i] EXCEPT !.writeback = picture, !.selected = picture])
  BY <1>1
<1> DEFINE related == [p \in DOMAIN relation \cup {picture} |->
                         IF p = picture THEN isPrimary ELSE relation[p]]
           v == [version[i] EXCEPT !.writeback = picture, !.selected = picture]
<1>3. UNCHANGED asset /\ picture \in Pictures
  BY DEF WritebackSelectedGenerationAsset, RowInv, RelationTyped
<1>4. /\ DOMAIN relation' = DOMAIN relation \cup {picture}
      /\ \A p \in DOMAIN relation' :
           relation'[p] = IF isPrimary THEN related[p] /\ p = picture ELSE related[p]
  BY <1>2 DEF ClearPrimaryProductAssets
<1>5. \A p \in DOMAIN relation' : related[p] \in BOOLEAN /\ (p = picture => related[p] = isPrimary)
                                   /\ (p # picture => p \in DOMAIN relation /\ related[p] = relation[p])
  BY <1>4 DEF RowInv, RelationTyped
<1> HIDE DEF related
<1>6. RelationTyped'
  <2>1. \A p \in DOMAIN relation' : relation'[p] \in BOOLEAN BY <1>4, <1>5
  <2>2. ASSUME NEW p \in DOMAIN relation', NEW q \in DOMAIN relation', relation'[p], relation'[q]
        PROVE  p = q
    <3>1. CASE isPrimary BY <1>4, <2>2, <3>1
    <3>2. CASE ~ isPrimary
      <4>1. related[p] /\ related[q] BY <1>4, <2>2, <3>2
      <4>2. p # picture /\ q # picture BY <1>5, <3>2, <4>1
      <4>3. /\ p \in DOMAIN relation /\ relation[p]
            /\ q \in DOMAIN relation /\ relation[q]
        BY <1>5, <4>1, <4>2
      <4> QED BY <4>3 DEF RowInv, RelationTyped
    <3> QED BY <3>1, <3>2
  <2> QED BY <1>3, <1>4, <2>1, <2>2 DEF RowInv, RelationTyped
<1>7. Related \subseteq Related' /\ picture \in Related' BY <1>3, <1>4 DEF Related
<1>8. v \in Row(Related')
  <2>1. version[i] \in Row(Related) BY VersionTyped
  <2> QED BY <1>3, <1>7, <2>1 DEF Row, Version
<1>9. version' \in Seq(Row(Related'))
  <2>1. version \in Seq(Row(Related')) BY <1>7, MoreRows DEF RowInv, CopiesTyped
  <2>2. i \in 1 .. Len(version) BY <2>1
  <2>3. version' = [version EXCEPT ![i] = v] BY <1>2 DEF Edited
  <2> HIDE DEF v
  <2> QED BY <1>8, <2>1, <2>2, <2>3, ExceptSeq
<1>10. CopiesTyped' BY <1>2, <1>7, <1>9, ColumnReplaced DEF Edited
<1> QED BY <1>6, <1>10

-----------------------------------------------------------------------------

LEMMA RowInit == Init => RowInv
<1> SUFFICES ASSUME Init PROVE RowInv OBVIOUS
<1>1. version \in Seq(Row(Related)) BY EmptySeq DEF Init
<1>2. Idle \in Requests(Related) /\ Quiet \in Callbacks(Related) BY IdleTyped
<1>3. CopiesTyped BY <1>1, <1>2 DEF Init, CopiesTyped
<1>4. RuntimeTyped BY DEF Init, RuntimeTyped
<1>5. ChargeTyped
  <2>1. charge = << >> BY DEF Init
  <2>2. << >> \in Seq(Charge) /\ Len(<< >>) = 0 BY EmptySeq
  <2> QED BY <2>1, <2>2, VisualGenerationAssumption DEF ChargeTyped
<1>6. RelationTyped
  <2>1. PICK primary \in OldPictures : relation = [p \in OldPictures |-> p = primary] BY DEF Init
  <2> QED BY <2>1 DEF Init, RelationTyped, Pictures
<1> QED BY <1>3, <1>4, <1>5, <1>6 DEF RowInv

(* What a step leaves alone keeps its type.                                *)
LEMMA RuntimeKept == ASSUME RowInv, UNCHANGED runtime PROVE RuntimeTyped'
BY DEF RowInv, RuntimeTyped

LEMMA ChargeKept == ASSUME RowInv, UNCHANGED charge PROVE ChargeTyped'
BY DEF RowInv, ChargeTyped

LEMMA RelationKept == ASSUME RowInv, UNCHANGED <<asset, relation>> PROVE RelationTyped'
BY DEF RowInv, RelationTyped

LEMMA CopiesKept ==
  ASSUME RowInv, UNCHANGED <<version, asset, relation, request, callback>> PROVE CopiesTyped'
BY DEF RowInv, CopiesTyped, Related

LEMMA RequestStep ==
  ASSUME RowInv, NEW w \in Workers,
         \/ CreateGenerationVersion(w)
         \/ CreateGenerationFanout(w)
         \/ BeginVisualRuntimeChargeSession(w)
         \/ CreatePlatformGenerationRuntimeJob(w)
         \/ SaveSession(w)
         \/ NextOfFanout(w)
  PROVE  RowInv'
<1>1. CASE CreateGenerationVersion(w)
  <2>1. PICK key \in ClientKeys \cup {"none"}, results \in ClientResults :
          PrepareGenerationRuntimeVersion(w, key, results, 0)
    BY <1>1 DEF CreateGenerationVersion
  <2>2. results \in SUBSET Pictures BY VisualGenerationAssumption
  <2>3. ChargeTyped' /\ \E r \in Requests(Related) : request' = [request EXCEPT ![w] = r]
    BY <2>1, <2>2, PreparedTyped
  <2> QED BY <1>1, <2>3, RequestReplaced, RuntimeKept DEF CreateGenerationVersion, RowInv
<1>2. CASE CreateGenerationFanout(w)
  <2>1. PICK total \in 1 .. MaxFanout : PrepareGenerationRuntimeVersion(w, "none", {}, total - 1)
    BY <1>2 DEF CreateGenerationFanout
  <2>2. total - 1 \in Nat BY VisualGenerationAssumption
  <2>3. ChargeTyped' /\ \E r \in Requests(Related) : request' = [request EXCEPT ![w] = r]
    BY <2>1, <2>2, PreparedTyped
  <2> QED BY <1>2, <2>3, RequestReplaced, RuntimeKept DEF CreateGenerationFanout, RowInv
<1>3. CASE BeginVisualRuntimeChargeSession(w)
  <2>1. ChargeTyped' /\ \E r \in Requests(Related) : request' = [request EXCEPT ![w] = r]
    BY <1>3, BegunTyped
  <2> QED BY <1>3, <2>1, RequestReplaced, RuntimeKept DEF BeginVisualRuntimeChargeSession, RowInv
<1>4. CASE CreatePlatformGenerationRuntimeJob(w)
  <2>1. /\ RuntimeTyped' /\ ChargeTyped'
        /\ \E r \in Requests(Related) : request' = [request EXCEPT ![w] = r]
    BY <1>4, CreatedTyped
  <2>2. UNCHANGED <<version, asset, relation, callback>>
    BY <1>4, Zenon DEF CreatePlatformGenerationRuntimeJob
  <2> QED BY <2>1, <2>2, RequestReplaced DEF RowInv
<1>5. CASE SaveSession(w)
  <2>1. UNCHANGED <<asset, relation, runtime, charge>> BY <1>5 DEF SaveSession
  <2> QED BY <1>5, <2>1, SavedTyped, RuntimeKept, ChargeKept, RelationKept DEF RowInv
<1>6. CASE NextOfFanout(w)
  <2>1. UNCHANGED <<version, asset, relation, runtime, callback>> BY <1>6 DEF NextOfFanout
  <2>2. request[w] \in Requests(Related) BY DEF RowInv, CopiesTyped
  <2>3. request[w].left - 1 \in Nat BY <1>6, <2>2 DEF NextOfFanout, At, Requests
  <2>4. CASE PrepareGenerationRuntimeVersion(w, "none", {}, request[w].left - 1)
    <3>1. ChargeTyped' /\ \E r \in Requests(Related) : request' = [request EXCEPT ![w] = r]
      BY <2>3, <2>4, PreparedTyped
    <3> QED BY <2>1, <3>1, RequestReplaced, RuntimeKept DEF RowInv
  <2>5. CASE request' = [request EXCEPT ![w] = Idle] /\ UNCHANGED charge
    <3>1. Idle \in Requests(Related) BY IdleTyped
    <3> QED BY <2>1, <2>5, <3>1, RequestReplaced, RuntimeKept, ChargeKept DEF RowInv
  <2> QED BY <1>6, <2>4, <2>5 DEF NextOfFanout
<1> QED BY <1>1, <1>2, <1>3, <1>4, <1>5, <1>6

LEMMA CallbackStep ==
  ASSUME RowInv, NEW c \in Callers,
         \/ InternalUpdateGenerationRuntime(c)
         \/ InternalRecordGenerationResults(c)
         \/ SaveGenerationVersions(c)
  PROVE  RowInv'
<1>1. CASE InternalUpdateGenerationRuntime(c)
  <2>1. UNCHANGED <<version, asset, relation, runtime, charge, request>>
    BY <1>1, Zenon DEF InternalUpdateGenerationRuntime
  <2>2. asset \subseteq asset' /\ asset' \subseteq Pictures BY <2>1 DEF RowInv, RelationTyped
  <2>3. \E s \in Callbacks(Related) : callback' = [callback EXCEPT ![c] = s]
    BY <1>1, UpdatedTyped
  <2> QED BY <2>1, <2>2, <2>3, CallbackReplaced, RuntimeKept, ChargeKept DEF RowInv
<1>2. CASE InternalRecordGenerationResults(c)
  <2>1. UNCHANGED <<version, relation, runtime, charge, request>>
    BY <1>2, Zenon DEF InternalRecordGenerationResults
  <2>2. /\ asset \subseteq asset' /\ asset' \subseteq Pictures
        /\ \E s \in Callbacks(Related) : callback' = [callback EXCEPT ![c] = s]
    BY <1>2, ResultsTyped
  <2> QED BY <2>1, <2>2, CallbackReplaced, RuntimeKept, ChargeKept DEF RowInv
<1>3. CASE SaveGenerationVersions(c)
  <2>1. UNCHANGED <<asset, relation, runtime, charge>> BY <1>3 DEF SaveGenerationVersions
  <2> QED BY <1>3, <2>1, CallbackSavedTyped, RuntimeKept, ChargeKept, RelationKept DEF RowInv
<1> QED BY <1>1, <1>2, <1>3

LEMMA RowStep == RowInv /\ [Next]_generationVars => RowInv'
<1> SUFFICES ASSUME RowInv, [Next]_generationVars PROVE RowInv' OBVIOUS
<1>1. ASSUME NEW w \in Workers,
             \/ CreateGenerationVersion(w)
             \/ CreateGenerationFanout(w)
             \/ BeginVisualRuntimeChargeSession(w)
             \/ CreatePlatformGenerationRuntimeJob(w)
             \/ SaveSession(w)
             \/ NextOfFanout(w)
      PROVE  RowInv'
  BY <1>1, RequestStep
<1>2. CASE RunRuntimeJob
  <2>1. UNCHANGED <<version, asset, relation, charge, request, callback>>
    BY <1>2, Zenon DEF RunRuntimeJob
  <2> QED BY <1>2, <2>1, RanTyped, CopiesKept, ChargeKept, RelationKept DEF RowInv
<1>3. ASSUME NEW c \in Callers,
             \/ InternalUpdateGenerationRuntime(c)
             \/ InternalRecordGenerationResults(c)
             \/ SaveGenerationVersions(c)
      PROVE  RowInv'
  BY <1>3, CallbackStep
<1>4. CASE \/ UpdateGenerationVersion \/ SelectGenerationVersion \/ UpdateSession
           \/ SaveGenerationVersionAsTemplate
  <2>1. UNCHANGED <<asset, relation, runtime, charge>>
    BY <1>4, Zenon DEF UpdateGenerationVersion, SelectGenerationVersion, UpdateSession,
                SaveGenerationVersionAsTemplate, Edited
  <2> QED BY <1>4, <2>1, ClientTyped, RuntimeKept, ChargeKept, RelationKept DEF RowInv
<1>5. CASE WritebackSelectedGenerationAsset
  <2>1. UNCHANGED <<runtime, charge>>
    BY <1>5, Zenon DEF WritebackSelectedGenerationAsset, Edited
  <2> QED BY <1>5, <2>1, WrittenBackTyped, RuntimeKept, ChargeKept DEF RowInv
<1>6. CASE UNCHANGED generationVars
  BY <1>6, CopiesKept, RuntimeKept, ChargeKept, RelationKept DEF RowInv, generationVars
<1> QED BY <1>1, <1>2, <1>3, <1>4, <1>5, <1>6 DEF Next

(* The row, and every copy of it that a request or a callback will write   *)
(* over it, holds typed versions whose writebacks are stored pictures of   *)
(* the product.                                                            *)
THEOREM ColumnsAreSound == Spec => []RowInv
BY RowInit, RowStep, PTL DEF Spec

(* The rows have their types, whatever overlaps and fails.                 *)
THEOREM GenerationTypeCorrect == Spec => []TypeOK
<1>1. RowInv => TypeOK
  <2> SUFFICES ASSUME RowInv PROVE TypeOK OBVIOUS
  <2>1. version \in Seq(Version) BY DEF RowInv, CopiesTyped, Row
  <2> QED BY <2>1 DEF RowInv, RuntimeTyped, ChargeTyped, RelationTyped, TypeOK
<1> QED BY <1>1, ColumnsAreSound, PTL

(* What a version says it wrote back is a stored picture of the product,   *)
(* which has one primary picture at most: WritebackSelectedGenerationAsset *)
(* and every handler that writes the column back.                          *)
THEOREM WritebacksAreKept == Spec => []WrittenBackIsRelated
<1>1. RowInv => WrittenBackIsRelated
  <2> SUFFICES ASSUME RowInv PROVE WrittenBackIsRelated OBVIOUS
  <2>1. \A i \in DOMAIN version : version[i] \in Row(Related) BY VersionTyped
  <2>2. \A i \in DOMAIN version :
          version[i].writeback # "none" => version[i].writeback \in Related
    BY <2>1 DEF Row
  <2> QED BY <2>2 DEF Related, RowInv, RelationTyped, WrittenBackIsRelated
<1> QED BY <1>1, ColumnsAreSound, PTL

-----------------------------------------------------------------------------
(* Runtime jobs and reservations.                                          *)

(* The request has a charge of its own that no runtime job is owned by.    *)
Charging(w) == request[w].pc \in {"begin", "createRuntime"}

OwnedIsHeld ==
  \A k \in DOMAIN runtime :
    /\ runtime[k].owner \in 1 .. Len(charge)
    /\ charge[runtime[k].owner].reservation = "held"

ChargingAlone ==
  \A w \in Workers : Charging(w) =>
    /\ request[w].new.id \in 1 .. Len(charge)
    /\ \A k \in DOMAIN runtime : runtime[k].owner # request[w].new.id
    /\ \A u \in Workers \ {w} : Charging(u) => request[u].new.id # request[w].new.id
    /\ request[w].pc = "createRuntime" => charge[request[w].new.id].reservation = "held"

ReserveInv == OwnedIsHeld /\ ChargingAlone

(* A request that is not charging cannot be in the way of the others.      *)
LEMMA ReserveKept ==
  ASSUME RowInv, ReserveInv, UNCHANGED charge,
         DOMAIN runtime' = DOMAIN runtime,
         \A k \in DOMAIN runtime : runtime'[k].owner = runtime[k].owner,
         \A u \in Workers : request'[u] = request[u] \/ ~ Charging(u)'
  PROVE  ReserveInv'
<1>1. OwnedIsHeld' BY DEF ReserveInv, OwnedIsHeld
<1>2. \A u \in Workers : Charging(u)' => request'[u] = request[u] /\ Charging(u) BY DEF Charging
<1>3. ChargingAlone' BY <1>2 DEF ReserveInv, ChargingAlone
<1> QED BY <1>1, <1>3 DEF ReserveInv

LEMMA PreparedHeld ==
  ASSUME RowInv, ReserveInv, NEW w \in Workers, NEW key, NEW results, NEW left,
         PrepareGenerationRuntimeVersion(w, key, results, left), UNCHANGED runtime
  PROVE  ReserveInv'
<1>1. PICK capable \in BOOLEAN, executable \in BOOLEAN : request' = [request EXCEPT ![w] =
         [pc |-> IF capable /\ executable THEN "begin" ELSE "save", read |-> version,
          new |-> NewVersion(BuildId, key, results), left |-> left]]
  BY ManifestOrNone DEF PrepareGenerationRuntimeVersion, GenerationRuntimeCapabilityReady
<1> DEFINE n == Len(charge)
<1>2. charge \in Seq(Charge) /\ n \in Nat BY DEF RowInv, ChargeTyped
<1>3. charge' = Append(charge, NoCharge) BY DEF PrepareGenerationRuntimeVersion
<1>4. Len(charge') = n + 1 /\ \A i \in 1 .. n : charge'[i] = charge[i] BY <1>2, <1>3
<1>5. OwnedIsHeld' BY <1>2, <1>4 DEF ReserveInv, OwnedIsHeld
<1>6. request \in [Workers -> Requests(Related)] BY DEF RowInv, CopiesTyped
<1>7. /\ \A u \in Workers \ {w} : request'[u] = request[u]
      /\ request'[w].pc # "createRuntime"
      /\ request'[w].new.id = n + 1
  BY <1>1, <1>6 DEF NewVersion, BuildId
<1> HIDE DEF n
<1>8. ASSUME NEW u \in Workers \ {w}, Charging(u)'
      PROVE  /\ Charging(u) /\ request'[u].new.id \in 1 .. n
             /\ \A k \in DOMAIN runtime : runtime[k].owner # request'[u].new.id
             /\ request'[u].pc = "createRuntime" => charge'[request'[u].new.id].reservation = "held"
  BY <1>4, <1>7, <1>8 DEF ReserveInv, ChargingAlone, Charging, n
<1>9. \A k \in DOMAIN runtime : runtime[k].owner \in 1 .. n BY DEF ReserveInv, OwnedIsHeld, n
<1>10. ASSUME NEW u \in Workers, Charging(u)'
       PROVE  /\ request'[u].new.id \in 1 .. Len(charge')
              /\ \A k \in DOMAIN runtime' : runtime'[k].owner # request'[u].new.id
              /\ \A x \in Workers \ {u} : Charging(x)' => request'[x].new.id # request'[u].new.id
              /\ request'[u].pc = "createRuntime" => charge'[request'[u].new.id].reservation = "held"
  <2>1. CASE u = w
    <3>1. \A k \in DOMAIN runtime : runtime[k].owner # n + 1 BY <1>2, <1>9 DEF n
    <3>2. \A x \in Workers \ {w} : Charging(x)' => request'[x].new.id # n + 1
      BY <1>2, <1>8 DEF n
    <3> QED BY <1>2, <1>4, <1>7, <2>1, <3>1, <3>2 DEF n
  <2>2. CASE u # w
    <3>1. \A x \in Workers \ {u, w} : Charging(x)' => request'[x].new.id # request'[u].new.id
      BY <1>7, <1>8, <1>10, <2>2 DEF ReserveInv, ChargingAlone
    <3>2. request'[w].new.id # request'[u].new.id BY <1>2, <1>7, <1>8, <1>10, <2>2 DEF n
    <3>3. request'[u].new.id \in 1 .. Len(charge') BY <1>2, <1>4, <1>8, <1>10, <2>2 DEF n
    <3> QED BY <1>8, <1>10, <2>2, <3>1, <3>2, <3>3
  <2> QED BY <2>1, <2>2
<1> QED BY <1>5, <1>10 DEF ReserveInv, ChargingAlone

(* Only the charge of the request itself changes.                          *)
LEMMA OtherCharges ==
  ASSUME RowInv, ReserveInv, NEW w \in Workers, Charging(w), NEW c, c \in Charge,
         charge' = [charge EXCEPT ![request[w].new.id] = c],
         UNCHANGED runtime,
         \A u \in Workers \ {w} : request'[u] = request[u],
         Charging(w)' => request'[w].new.id = request[w].new.id /\ c.reservation = "held"
  PROVE  ReserveInv'
<1> DEFINE id == request[w].new.id
<1>1. id \in 1 .. Len(charge) /\ charge \in Seq(Charge)
  BY DEF ReserveInv, ChargingAlone, RowInv, ChargeTyped
<1>2. /\ Len(charge') = Len(charge) /\ charge'[id] = c
      /\ \A i \in 1 .. Len(charge) : i # id => charge'[i] = charge[i]
  BY <1>1
<1>3. \A k \in DOMAIN runtime : runtime[k].owner # id BY DEF ReserveInv, ChargingAlone
<1>4. OwnedIsHeld' BY <1>2, <1>3 DEF ReserveInv, OwnedIsHeld
<1>5. \A u \in Workers \ {w} : Charging(u)' => Charging(u) /\ request'[u].new.id # id
  BY DEF ReserveInv, ChargingAlone, Charging
<1>6. ASSUME NEW u \in Workers, Charging(u)'
      PROVE  /\ request'[u].new.id \in 1 .. Len(charge')
             /\ \A k \in DOMAIN runtime' : runtime'[k].owner # request'[u].new.id
             /\ \A x \in Workers \ {u} : Charging(x)' => request'[x].new.id # request'[u].new.id
             /\ request'[u].pc = "createRuntime" => charge'[request'[u].new.id].reservation = "held"
  <2>1. CASE u = w BY <1>1, <1>2, <1>3, <1>5, <1>6, <2>1
  <2>2. CASE u # w
    <3>1. request'[u].new.id \in 1 .. Len(charge) /\ request'[u].new.id # id
      BY <1>5, <1>6, <2>2 DEF ReserveInv, ChargingAlone
    <3>2. \A x \in Workers \ {u, w} : Charging(x)' => request'[x].new.id # request'[u].new.id
      BY <1>5, <1>6, <2>2 DEF ReserveInv, ChargingAlone
    <3>3. Charging(w)' => request'[w].new.id # request'[u].new.id BY <3>1
    <3> QED BY <1>2, <1>5, <1>6, <2>2, <3>1, <3>2, <3>3 DEF ReserveInv, ChargingAlone
  <2> QED BY <2>1, <2>2
<1> QED BY <1>4, <1>6 DEF ReserveInv, ChargingAlone

LEMMA BegunHeld ==
  ASSUME RowInv, ReserveInv, NEW w \in Workers, BeginVisualRuntimeChargeSession(w)
  PROVE  ReserveInv'
<1>1. PICK begun \in Begin(charge[request[w].new.id]) :
        /\ charge' = [charge EXCEPT ![request[w].new.id] = begun.state]
        /\ request' = [request EXCEPT ![w].pc =
                         IF ChargeHolds(begun.ok) THEN "createRuntime" ELSE "save"]
  BY Zenon DEF BeginVisualRuntimeChargeSession
<1>2. Charging(w) BY DEF BeginVisualRuntimeChargeSession, At, Charging
<1>3. request \in [Workers -> Requests(Related)] BY DEF RowInv, CopiesTyped
<1>4. charge[request[w].new.id] \in Charge
  BY <1>2 DEF ReserveInv, ChargingAlone, RowInv, ChargeTyped
<1>5. begun.ok \in BOOLEAN /\ begun.state \in Charge
      /\ (begun.ok => begun.state.reservation = "held")
  BY <1>4, BeginOutcome
<1>6. \A u \in Workers \ {w} : request'[u] = request[u] BY <1>1, <1>3
<1>7. request'[w].new = request[w].new
      /\ request'[w].pc = IF begun.ok THEN "createRuntime" ELSE "save"
  BY <1>1, <1>3 DEF Requests, ChargeHolds
<1>8. Charging(w)' => request'[w].new.id = request[w].new.id /\ begun.state.reservation = "held"
  BY <1>5, <1>7 DEF Charging
<1>9. UNCHANGED runtime BY DEF BeginVisualRuntimeChargeSession
<1> QED BY <1>1, <1>2, <1>5, <1>6, <1>8, <1>9, OtherCharges

(* The platform has a job of its own for the version, or an older one with *)
(* the client's key.  A refusal leaves none that could miss the charge.    *)
LEMMA CreatedHeld ==
  ASSUME ~ LostReplies, RowInv, ReserveInv, NEW w \in Workers,
         CreatePlatformGenerationRuntimeJob(w)
  PROVE  ReserveInv'
<1> DEFINE new   == request[w].new
           key   == GenerationRuntimeIdempotencyKey(new)
           after == CreateRuntimeJob(key, new.id)
<1>1. At(w, "createRuntime") BY Zenon DEF CreatePlatformGenerationRuntimeJob
<1>2. PICK call \in Call(runtime, after) :
        /\ runtime' = call.state
        /\ IF call.ok
           THEN /\ request' = [request EXCEPT ![w].pc = "save",
                                 ![w].new = Named(new, key, call.state[key].status)]
                /\ UNCHANGED charge
           ELSE /\ request' = [request EXCEPT ![w].pc = "save"]
                /\ \E done \in Release(charge[new.id]) :
                     charge' = [charge EXCEPT ![new.id] = done.state]
  BY Zenon DEF CreatePlatformGenerationRuntimeJob
<1>3. request \in [Workers -> Requests(Related)] BY DEF RowInv, CopiesTyped
<1>4. new \in Version /\ new.id \in Ids BY <1>3 DEF Requests, Row, Version
<1>5. key \in Keys BY <1>4, KeysTyped
<1>6. Charging(w) BY <1>1 DEF At, Charging
<1>7. new.id \in 1 .. Len(charge) /\ charge[new.id].reservation = "held"
  BY <1>1, <1>6 DEF ReserveInv, ChargingAlone, At
<1> HIDE DEF key
<1>8. /\ DOMAIN after = DOMAIN runtime \cup {key}
      /\ \A k \in DOMAIN after :
           IF k \in DOMAIN runtime THEN after[k] = runtime[k] ELSE after[k].owner = new.id
  BY <1>4, <1>5, RuntimeCreated DEF RowInv
<1> HIDE DEF after
<1>9. /\ call.ok \in BOOLEAN
      /\ call.ok => call.state = after
      /\ ~ call.ok => call.state = runtime
  BY CallOutcome
<1>10. CASE call.ok
  <2>1. runtime' = after /\ UNCHANGED charge BY <1>2, <1>9, <1>10
  <2>2. OwnedIsHeld' BY <1>7, <1>8, <2>1 DEF ReserveInv, OwnedIsHeld
  <2>3. /\ \A u \in Workers \ {w} : request'[u] = request[u]
        /\ request'[w].pc = "save"
    BY <1>2, <1>3, <1>10 DEF Requests
  <2>4. \A u \in Workers : Charging(u)' => u # w /\ Charging(u) BY <2>3 DEF Charging
  <2>5. \A u \in Workers \ {w} : Charging(u) => request[u].new.id # new.id
    BY <1>6 DEF ReserveInv, ChargingAlone
  <2>6. ASSUME NEW u \in Workers, Charging(u)'
        PROVE  \A k \in DOMAIN runtime' : runtime'[k].owner # request'[u].new.id
    BY <1>8, <2>1, <2>3, <2>4, <2>5, <2>6 DEF ReserveInv, ChargingAlone
  <2> HIDE DEF new
  <2>7. ChargingAlone' BY <2>1, <2>3, <2>4, <2>6 DEF ReserveInv, ChargingAlone
  <2> QED BY <2>2, <2>7 DEF ReserveInv
<1>11. CASE ~ call.ok
  <2>1. PICK done \in Release(charge[new.id]) : charge' = [charge EXCEPT ![new.id] = done.state]
    BY <1>2, <1>11
  <2>2. charge[new.id] \in Charge BY <1>7 DEF RowInv, ChargeTyped
  <2>3. done.state \in Charge BY <2>2, ReleaseOutcome
  <2>4. UNCHANGED runtime BY <1>2, <1>9, <1>11
  <2>5. /\ \A u \in Workers \ {w} : request'[u] = request[u]
        /\ request'[w].pc = "save"
    BY <1>2, <1>3, <1>11 DEF Requests
  <2>6. ~ Charging(w)' BY <2>5 DEF Charging
  <2> QED BY <1>6, <2>1, <2>3, <2>4, <2>5, <2>6, OtherCharges
<1> QED BY <1>9, <1>10, <1>11

LEMMA ReserveInit == Init => ReserveInv
BY DEF Init, ReserveInv, OwnedIsHeld, ChargingAlone, Charging, Idle

LEMMA ReserveStep ==
  ASSUME ~ LostReplies
  PROVE  RowInv /\ ReserveInv /\ [Next]_generationVars => ReserveInv'
<1> SUFFICES ASSUME RowInv, ReserveInv, [Next]_generationVars PROVE ReserveInv' OBVIOUS
<1>1. ASSUME NEW w \in Workers, CreateGenerationVersion(w) PROVE ReserveInv'
  BY <1>1, PreparedHeld DEF CreateGenerationVersion
<1>2. ASSUME NEW w \in Workers, CreateGenerationFanout(w) PROVE ReserveInv'
  BY <1>2, PreparedHeld DEF CreateGenerationFanout
<1>3. ASSUME NEW w \in Workers, BeginVisualRuntimeChargeSession(w) PROVE ReserveInv'
  BY <1>3, BegunHeld
<1>4. ASSUME NEW w \in Workers, CreatePlatformGenerationRuntimeJob(w) PROVE ReserveInv'
  BY <1>4, CreatedHeld
<1>5. ASSUME NEW w \in Workers, SaveSession(w) PROVE ReserveInv'
  <2>1. UNCHANGED <<runtime, charge>> BY <1>5 DEF SaveSession
  <2>2. PICK ok \in BOOLEAN : request' = [request EXCEPT ![w] =
          IF ok THEN [Idle EXCEPT !.pc = "next", !.left = request[w].left] ELSE Idle]
    BY <1>5 DEF SaveSession
  <2>3. request \in [Workers -> Requests(Related)] BY DEF RowInv, CopiesTyped
  <2>4. \A u \in Workers : request'[u] = request[u] \/ ~ Charging(u)'
    BY <2>2, <2>3 DEF Charging, Idle
  <2> QED BY <2>1, <2>4, ReserveKept
<1>6. ASSUME NEW w \in Workers, NextOfFanout(w) PROVE ReserveInv'
  <2>1. UNCHANGED runtime BY <1>6 DEF NextOfFanout
  <2>2. CASE request' = [request EXCEPT ![w] = Idle] /\ UNCHANGED charge
    <3>1. request \in [Workers -> Requests(Related)] BY DEF RowInv, CopiesTyped
    <3>2. \A u \in Workers : request'[u] = request[u] \/ ~ Charging(u)'
      BY <2>2, <3>1 DEF Charging, Idle
    <3> QED BY <2>1, <2>2, <3>2, ReserveKept
  <2> QED BY <1>6, <2>1, <2>2, PreparedHeld DEF NextOfFanout
<1>7. CASE RunRuntimeJob
  <2>1. UNCHANGED <<charge, request>> BY <1>7, Zenon DEF RunRuntimeJob
  <2>2. PICK k \in DOMAIN runtime, status \in RuntimeStatuses, files \in SUBSET Files :
          runtime' = [runtime EXCEPT ![k].status = status, ![k].files = files]
    BY <1>7 DEF RunRuntimeJob, RuntimeStatuses
  <2>3. /\ DOMAIN runtime' = DOMAIN runtime
        /\ \A j \in DOMAIN runtime : runtime'[j].owner = runtime[j].owner
    BY <2>2 DEF RowInv, RuntimeTyped, RuntimeJob
  <2> QED BY <2>1, <2>3, ReserveKept
<1>8. ASSUME UNCHANGED <<runtime, charge, request>> PROVE ReserveInv'
  BY <1>8, ReserveKept
<1>9. ASSUME NEW c \in Callers,
             \/ InternalUpdateGenerationRuntime(c)
             \/ InternalRecordGenerationResults(c)
             \/ SaveGenerationVersions(c)
      PROVE  UNCHANGED <<runtime, charge, request>>
  BY <1>9, Zenon DEF InternalUpdateGenerationRuntime, InternalRecordGenerationResults,
                     SaveGenerationVersions
<1>10. ASSUME \/ UpdateGenerationVersion \/ SelectGenerationVersion \/ UpdateSession
              \/ SaveGenerationVersionAsTemplate \/ WritebackSelectedGenerationAsset
       PROVE  UNCHANGED <<runtime, charge, request>>
  BY <1>10, Zenon DEF UpdateGenerationVersion, SelectGenerationVersion, UpdateSession,
                      SaveGenerationVersionAsTemplate, WritebackSelectedGenerationAsset, Edited
<1>11. CASE UNCHANGED generationVars BY <1>8, <1>11 DEF generationVars
<1> QED BY <1>1, <1>2, <1>3, <1>4, <1>5, <1>6, <1>7, <1>8, <1>9, <1>10, <1>11 DEF Next

(* Nothing is generated for free: CreatePlatformGenerationRuntimeJob asks  *)
(* the platform only on a reservation, and releases it only when the       *)
(* platform refused.                                                       *)
THEOREM JobsAreReserved ==
  ASSUME ~ LostReplies PROVE Spec => []RunsOnReservation
<1>1. RowInv /\ ReserveInv /\ [Next]_generationVars => ReserveInv' BY ReserveStep
<1>2. ReserveInv => RunsOnReservation BY DEF ReserveInv, OwnedIsHeld, RunsOnReservation
<1> QED BY <1>1, <1>2, ReserveInit, ColumnsAreSound, PTL DEF Spec

-----------------------------------------------------------------------------
(* What callbacks add.  A callback writes the column it read, and what is  *)
(* done meanwhile may be lost; pictures are not, while one request at a    *)
(* time asks for versions.                                                 *)

(* The pictures made for a version.                                        *)
Made(jobs, id) == UNION {jobs[k].files : k \in {j \in DOMAIN jobs : jobs[j].owner = id}}

(* The version of the new column has the pictures of the old one, and what *)
(* it has besides was made for it.                                         *)
Gains(old, new, jobs) ==
  /\ old.results \subseteq new.results
  /\ new.results \ old.results \subseteq Made(jobs, old.id)

Grows(old, new, jobs) ==
  \A i \in DOMAIN old, j \in DOMAIN new :
    old[i].id = new[j].id => Gains(old[i], new[j], jobs)

Distinct(column) ==
  \A i, j \in DOMAIN column : column[i].id = column[j].id => i = j

Below(column, id) == \A i \in DOMAIN column : column[i].id < id

(* The same versions in the same places, with the same pictures.           *)
Alike(old, new) ==
  /\ DOMAIN new = DOMAIN old
  /\ \A i \in DOMAIN old : new[i].id = old[i].id /\ new[i].results = old[i].results

(* The same versions in the same places, some with more pictures.          *)
Extended(old, new, jobs) ==
  /\ DOMAIN new = DOMAIN old
  /\ \A i \in DOMAIN old : new[i].id = old[i].id /\ Gains(old[i], new[i], jobs)

(* The platform forgets no job, and no picture it made.                    *)
MoreJobs(jobs, later) ==
  \A k \in DOMAIN jobs :
    /\ k \in DOMAIN later
    /\ later[k].owner = jobs[k].owner
    /\ jobs[k].files \subseteq later[k].files

FilesOfCompleted(jobs) ==
  \A k \in DOMAIN jobs : jobs[k].status # "completed" => jobs[k].files = {}

Adding(w) == request[w].pc \in {"begin", "createRuntime", "save"}

(* The ids that the column and its copies do not have yet begin here.      *)
FreshId(w) == IF Adding(w) THEN request[w].new.id ELSE Len(charge) + 1

Columns(w) == {version, request[w].read} \cup {callback[c].write : c \in Callers}

(* What a request has read is behind the column, and the column is behind  *)
(* what a callback will write, as far as they have versions in common.     *)
GrowInv(w) ==
  /\ \A c, d \in Callers : callback[c].pc = "save" /\ callback[d].pc = "save" => c = d
  /\ \A c \in Callers : callback[c].pc = "idle" => callback[c].write = << >>
  /\ IF Adding(w) THEN request[w].new.id <= Len(charge) ELSE request[w].read = << >>
  /\ \A column \in Columns(w) : Distinct(column) /\ Below(column, FreshId(w))
  /\ Grows(request[w].read, version, runtime)
  /\ \A c \in Callers :
       /\ Grows(version, callback[c].write, runtime)
       /\ Grows(request[w].read, callback[c].write, runtime)
  /\ FilesOfCompleted(runtime)

LEMMA MadeLater ==
  ASSUME NEW jobs, NEW later, MoreJobs(jobs, later), NEW id
  PROVE  Made(jobs, id) \subseteq Made(later, id)
BY DEF MoreJobs, Made

LEMMA GrowsLater ==
  ASSUME NEW jobs, NEW later, MoreJobs(jobs, later), NEW old, NEW new, Grows(old, new, jobs)
  PROVE  Grows(old, new, later)
BY MadeLater DEF Grows, Gains

LEMMA GrowsAlike ==
  ASSUME NEW jobs, NEW old, NEW new, NEW column, Alike(new, column)
  PROVE  /\ Grows(old, new, jobs) => Grows(old, column, jobs)
         /\ Grows(new, old, jobs) => Grows(column, old, jobs)
         /\ Distinct(new) => Distinct(column)
         /\ \A id : Below(new, id) => Below(column, id)
BY DEF Grows, Gains, Alike, Distinct, Below

LEMMA GrowsExtended ==
  ASSUME NEW jobs, NEW old, NEW new, NEW column, Extended(new, column, jobs),
         Grows(old, new, jobs)
  PROVE  Grows(old, column, jobs)
<1> SUFFICES ASSUME NEW i \in DOMAIN old, NEW j \in DOMAIN column, old[i].id = column[j].id
             PROVE  Gains(old[i], column[j], jobs)
  BY DEF Grows
<1>1. j \in DOMAIN new /\ old[i].id = new[j].id BY DEF Extended
<1>2. Gains(old[i], new[j], jobs) BY <1>1 DEF Grows
<1>3. Gains(new[j], column[j], jobs) BY <1>1 DEF Extended
<1> QED BY <1>1, <1>2, <1>3 DEF Gains

LEMMA ExtendedColumn ==
  ASSUME NEW jobs, NEW new, NEW column, Extended(new, column, jobs), Distinct(new)
  PROVE  /\ Grows(new, column, jobs)
         /\ Distinct(column)
         /\ \A id : Below(new, id) => Below(column, id)
<1>1. Grows(new, new, jobs) BY DEF Distinct, Grows, Gains
<1>2. Grows(new, column, jobs) BY <1>1, GrowsExtended
<1> QED BY <1>2 DEF Extended, Distinct, Below

LEMMA EmptyColumn ==
  /\ Distinct(<< >>)
  /\ \A id : Below(<< >>, id)
  /\ \A column, jobs : Grows(<< >>, column, jobs) /\ Grows(column, << >>, jobs)
BY DEF Distinct, Below, Grows

LEMMA BelowMore ==
  ASSUME NEW column \in Seq(Version), NEW m \in Nat, NEW n \in Nat, m <= n, Below(column, m)
  PROVE  Below(column, n)
<1>1. \A i \in DOMAIN column : column[i].id \in Nat
  <2>1. \A i \in DOMAIN column : column[i] \in Version OBVIOUS
  <2> QED BY <2>1, VisualGenerationAssumption DEF Version, Ids
<1> QED BY <1>1 DEF Below

LEMMA ColumnTyped ==
  ASSUME RowInv, NEW w \in Workers, NEW column \in Columns(w) PROVE column \in Seq(Version)
<1>1. Seq(Row(Related)) \subseteq Seq(Version)
  <2>1. Row(Related) \subseteq Version BY DEF Row
  <2> HIDE DEF Row
  <2> QED BY <2>1
<1> HIDE DEF Row
<1>2. request[w] \in Requests(Related) BY DEF RowInv, CopiesTyped
<1>3. \A c \in Callers : callback[c] \in Callbacks(Related) BY DEF RowInv, CopiesTyped
<1> QED BY <1>1, <1>2, <1>3 DEF Columns, RowInv, CopiesTyped, Requests, Callbacks

LEMMA FreshTyped ==
  ASSUME RowInv, NEW w \in Workers
  PROVE  FreshId(w) \in Nat /\ request[w].new.id \in Nat /\ Len(charge) \in Nat
<1>1. request[w] \in Requests(Related) BY DEF RowInv, CopiesTyped
<1>2. request[w].new \in Version BY <1>1 DEF Requests, Row
<1>3. request[w].new.id \in Nat BY <1>2, VisualGenerationAssumption DEF Version, Ids
<1>4. Len(charge) \in Nat BY DEF RowInv, ChargeTyped
<1> QED BY <1>3, <1>4 DEF FreshId

(* The column keeps its versions and pictures, and the request goes on     *)
(* with what it read, or forgets it.                                       *)
LEMMA GrowKept ==
  ASSUME RowInv, RowInv', NEW w \in Workers, GrowInv(w), UNCHANGED callback,
         Alike(version, version'), MoreJobs(runtime, runtime'), FilesOfCompleted(runtime'),
         request'[w].read = request[w].read \/ request'[w].read = << >>,
         IF Adding(w)' THEN request'[w].new.id <= Len(charge') ELSE request'[w].read = << >>,
         FreshId(w) <= FreshId(w)'
  PROVE  GrowInv(w)'
<1> DEFINE old == request[w].read
           read == request'[w].read
<1>1. FreshId(w) \in Nat /\ FreshId(w)' \in Nat
  <2>1. request'[w] \in Requests(Related') BY DEF RowInv, CopiesTyped
  <2>2. request'[w].new \in Version BY <2>1 DEF Requests, Row
  <2>3. request'[w].new.id \in Nat BY <2>2, VisualGenerationAssumption DEF Version, Ids
  <2>4. Len(charge') \in Nat BY DEF RowInv, ChargeTyped
  <2> QED BY <2>3, <2>4, FreshTyped DEF FreshId
<1>2. \A column \in Columns(w)' : Distinct(column) /\ Below(column, FreshId(w)')
  <2>1. \A column \in Columns(w) : Distinct(column) /\ Below(column, FreshId(w)')
    BY <1>1, ColumnTyped, BelowMore DEF GrowInv
  <2>2. Distinct(version') /\ Below(version', FreshId(w)')
    BY <2>1, GrowsAlike DEF Columns
  <2>3. Distinct(read) /\ Below(read, FreshId(w)') BY <2>1, EmptyColumn DEF Columns
  <2> QED BY <2>1, <2>2, <2>3 DEF Columns
<1>3. Grows(read, version', runtime')
  <2>1. CASE read = old
    <3>1. Grows(old, version', runtime) BY GrowsAlike DEF GrowInv
    <3> QED BY <2>1, <3>1, GrowsLater
  <2> QED BY <2>1, EmptyColumn
<1>4. ASSUME NEW c \in Callers
      PROVE  /\ Grows(version', callback'[c].write, runtime')
             /\ Grows(read, callback'[c].write, runtime')
  <2>1. Grows(version, callback[c].write, runtime) /\ Grows(old, callback[c].write, runtime)
    BY DEF GrowInv
  <2>2. Grows(version', callback[c].write, runtime) BY <2>1, GrowsAlike
  <2>3. Grows(read, callback[c].write, runtime) BY <2>1, EmptyColumn
  <2> QED BY <2>2, <2>3, GrowsLater
<1> QED BY <1>2, <1>3, <1>4 DEF GrowInv

(* What holds of the steps that keep the column, its copies and the        *)
(* platform's jobs.                                                        *)
LEMMA AlikeSelf == ASSUME NEW column PROVE Alike(column, column)
BY DEF Alike

LEMMA MoreJobsSelf == ASSUME NEW jobs PROVE MoreJobs(jobs, jobs)
BY DEF MoreJobs

LEMMA GrowEdited ==
  ASSUME RowInv, RowInv', NEW w \in Workers, GrowInv(w),
         Alike(version, version'), UNCHANGED <<runtime, charge, request, callback>>
  PROVE  GrowInv(w)'
<1>1. FreshId(w)' = FreshId(w) /\ Adding(w)' = Adding(w) BY DEF FreshId, Adding
<1>2. FreshId(w) <= FreshId(w)' BY <1>1, FreshTyped
<1> QED BY <1>1, <1>2, GrowKept, MoreJobsSelf DEF GrowInv

-----------------------------------------------------------------------------
(* The steps of the request.  There is but one: Workers = {w}.             *)

LEMMA GrowPrepared ==
  ASSUME RowInv, NEW w \in Workers, NEW key, NEW results, NEW left,
         GrowInv(w), ~ Adding(w), PrepareGenerationRuntimeVersion(w, key, results, left),
         UNCHANGED <<version, runtime, callback>>
  PROVE  GrowInv(w)'
<1>1. PICK capable \in BOOLEAN, executable \in BOOLEAN : request' = [request EXCEPT ![w] =
         [pc |-> IF capable /\ executable THEN "begin" ELSE "save", read |-> version,
          new |-> NewVersion(BuildId, key, results), left |-> left]]
  BY ManifestOrNone DEF PrepareGenerationRuntimeVersion, GenerationRuntimeCapabilityReady
<1>2. Len(charge') = Len(charge) + 1 /\ Len(charge) \in Nat
  BY AppendProperties DEF PrepareGenerationRuntimeVersion, RowInv, ChargeTyped
<1>3. /\ request'[w].read = version
      /\ request'[w].new.id = Len(charge) + 1
      /\ Adding(w)'
  BY <1>1 DEF NewVersion, BuildId, Adding, RowInv, CopiesTyped
<1>4. FreshId(w)' = FreshId(w) BY <1>3 DEF FreshId
<1>5. Columns(w)' \subseteq Columns(w) BY <1>3 DEF Columns
<1>6. Grows(version, version, runtime) BY DEF GrowInv, Columns, Distinct, Grows, Gains
<1> QED BY <1>2, <1>3, <1>4, <1>5, <1>6 DEF GrowInv

LEMMA GrowBegun ==
  ASSUME RowInv, RowInv', NEW w \in Workers, GrowInv(w), BeginVisualRuntimeChargeSession(w)
  PROVE  GrowInv(w)'
<1>1. PICK begun \in Begin(charge[request[w].new.id]) :
        /\ charge' = [charge EXCEPT ![request[w].new.id] = begun.state]
        /\ request' = [request EXCEPT ![w].pc =
                         IF ChargeHolds(begun.ok) THEN "createRuntime" ELSE "save"]
  BY Zenon DEF BeginVisualRuntimeChargeSession
<1>2. request[w] \in Requests(Related) /\ request \in [Workers -> Requests(Related)]
  BY DEF RowInv, CopiesTyped
<1>3. Adding(w) BY DEF BeginVisualRuntimeChargeSession, At, Adding
<1>4. Len(charge') = Len(charge) BY <1>1 DEF RowInv, ChargeTyped
<1>5. /\ request'[w].read = request[w].read
      /\ request'[w].new = request[w].new
      /\ Adding(w)'
  BY <1>1, <1>2 DEF Requests, Adding
<1>6. FreshId(w) <= FreshId(w)' BY <1>3, <1>5, FreshTyped DEF FreshId
<1>7. UNCHANGED <<version, runtime, callback>> BY DEF BeginVisualRuntimeChargeSession
<1> QED BY <1>3, <1>4, <1>5, <1>6, <1>7, GrowKept, AlikeSelf, MoreJobsSelf DEF GrowInv

LEMMA GrowCreated ==
  ASSUME RowInv, RowInv', NEW w \in Workers, GrowInv(w), CreatePlatformGenerationRuntimeJob(w)
  PROVE  GrowInv(w)'
<1> DEFINE new   == request[w].new
           key   == GenerationRuntimeIdempotencyKey(new)
           after == CreateRuntimeJob(key, new.id)
<1>1. PICK call \in Call(runtime, after) :
        /\ runtime' = call.state
        /\ IF call.ok
           THEN /\ request' = [request EXCEPT ![w].pc = "save",
                                 ![w].new = Named(new, key, call.state[key].status)]
                /\ UNCHANGED charge
           ELSE /\ request' = [request EXCEPT ![w].pc = "save"]
                /\ \E done \in Release(charge[new.id]) :
                     charge' = [charge EXCEPT ![new.id] = done.state]
  BY Zenon DEF CreatePlatformGenerationRuntimeJob
<1>2. request[w] \in Requests(Related) /\ request \in [Workers -> Requests(Related)]
  BY DEF RowInv, CopiesTyped
<1>3. new \in Version /\ new.id \in Ids BY <1>2 DEF Requests, Row, Version
<1>4. Adding(w) /\ UNCHANGED <<version, callback>>
  BY DEF CreatePlatformGenerationRuntimeJob, At, Adding
<1>5. MoreJobs(runtime, runtime') /\ FilesOfCompleted(runtime')
  <2>1. MoreJobs(runtime, after) /\ FilesOfCompleted(after)
    <3>1. CASE key \in DOMAIN runtime
      BY <3>1, MoreJobsSelf DEF CreateRuntimeJob, GrowInv
    <3>2. CASE key \notin DOMAIN runtime
      <4> HIDE DEF key, new
      <4> QED BY <3>2 DEF CreateRuntimeJob, GrowInv, MoreJobs, FilesOfCompleted, new
    <3> QED BY <3>1, <3>2
  <2> HIDE DEF after
  <2>2. runtime' \in {runtime, after} BY <1>1, CallOutcome
  <2> QED BY <2>1, <2>2, MoreJobsSelf DEF GrowInv
<1>6. Len(charge') = Len(charge)
  <2> HIDE DEF key, new, after
  <2> QED BY <1>1 DEF RowInv, ChargeTyped
<1>7. /\ request'[w].read = request[w].read
      /\ request'[w].new.id = request[w].new.id
      /\ Adding(w)'
  <2>1. \A status : Named(new, key, status).id = new.id BY <1>3 DEF Named, Version
  <2> HIDE DEF key, after
  <2>2. CASE call.ok BY <1>1, <1>2, <2>1, <2>2 DEF Requests, Adding
  <2>3. CASE ~ call.ok BY <1>1, <1>2, <2>3 DEF Requests, Adding
  <2> QED BY <2>2, <2>3
<1>8. FreshId(w) <= FreshId(w)' BY <1>4, <1>7, FreshTyped DEF FreshId
<1> QED BY <1>4, <1>5, <1>6, <1>7, <1>8, GrowKept, AlikeSelf DEF GrowInv

(* A request that ends without a write, or goes on with the next version.  *)
LEMMA GrowEnded ==
  ASSUME RowInv, RowInv', NEW w \in Workers, GrowInv(w),
         ~ Adding(w)', request'[w].read = << >>, UNCHANGED <<version, runtime, charge, callback>>
  PROVE  GrowInv(w)'
<1>1. FreshId(w) <= FreshId(w)' BY FreshTyped DEF FreshId, GrowInv
<1> QED BY <1>1, GrowKept, AlikeSelf, MoreJobsSelf DEF GrowInv

(* The version that is added is in no other copy of the column.            *)
LEMMA GrowSaved ==
  ASSUME RowInv, RowInv', NEW w \in Workers, GrowInv(w), SaveSession(w)
  PROVE  GrowInv(w)'
<1>1. PICK ok \in BOOLEAN :
        /\ version' = IF ok THEN Append(request[w].read, request[w].new) ELSE version
        /\ request' = [request EXCEPT ![w] =
             IF ok /\ @.left > 0 THEN [Idle EXCEPT !.pc = "next", !.left = request[w].left]
                                 ELSE Idle]
  BY Zenon DEF SaveSession, DbResults
<1>2. request[w] \in Requests(Related) /\ request \in [Workers -> Requests(Related)]
  BY DEF RowInv, CopiesTyped
<1>3. Adding(w) /\ UNCHANGED <<runtime, charge, callback>> BY DEF SaveSession, At, Adding
<1>4. ~ Adding(w)' /\ request'[w].read = << >> BY <1>1, <1>2 DEF Idle, Adding
<1>5. CASE ~ ok BY <1>1, <1>3, <1>4, <1>5, GrowEnded
<1>6. CASE ok
  <2> DEFINE read == request[w].read
             new  == request[w].new
             n    == Len(read)
  <2>1. read \in Seq(Version) /\ n \in Nat BY ColumnTyped DEF Columns
  <2>2. new \in Version BY <1>2 DEF Requests, Row
  <2>3. version' = Append(read, new) BY <1>1, <1>6
  <2>4. /\ DOMAIN version' = 1 .. n + 1 /\ DOMAIN read = 1 .. n
        /\ version'[n + 1] = new
        /\ \A i \in 1 .. n : version'[i] = read[i]
    BY <2>1, <2>2, <2>3, AppendProperties
  <2> HIDE DEF n
  <2>5. /\ Distinct(read) /\ Below(read, new.id)
        /\ new.id \in Nat /\ new.id <= Len(charge) /\ Len(charge) \in Nat
    BY <1>3, FreshTyped DEF GrowInv, Columns, FreshId
  <2>6. FreshId(w)' = Len(charge) + 1 BY <1>3, <1>4 DEF FreshId
  <2>7. ASSUME NEW column \in Columns(w) PROVE Distinct(column) /\ Below(column, FreshId(w)')
    <3>1. Distinct(column) /\ Below(column, new.id) BY <1>3 DEF GrowInv, FreshId
    <3> QED BY <2>5, <2>6, <3>1, ColumnTyped, BelowMore
  <2>8. Distinct(version')
    <3>1. \A i \in 1 .. n : version'[i].id # new.id BY <2>4, <2>5 DEF Below
    <3>2. \A i \in 1 .. n + 1 : i = n + 1 \/ i \in 1 .. n BY <2>1
    <3> QED BY <2>4, <2>5, <3>1, <3>2 DEF Distinct
  <2>9. Below(version', FreshId(w)')
    <3>1. Below(read, FreshId(w)') BY <2>7 DEF Columns
    <3>2. \A i \in 1 .. n + 1 : i = n + 1 \/ i \in 1 .. n BY <2>1
    <3> QED BY <2>4, <2>5, <2>6, <3>1, <3>2 DEF Below
  <2>10. ASSUME NEW c \in Callers PROVE Grows(version', callback[c].write, runtime)
    <3>1. /\ Grows(read, callback[c].write, runtime)
          /\ Below(callback[c].write, new.id)
      BY <1>3 DEF GrowInv, Columns, FreshId
    <3>2. \A i \in 1 .. n + 1 : i = n + 1 \/ i \in 1 .. n BY <2>1
    <3> QED BY <2>4, <2>5, <3>1, <3>2 DEF Grows, Below
  <2>11. \A column \in Columns(w)' : Distinct(column) /\ Below(column, FreshId(w)')
    BY <1>3, <1>4, <2>7, <2>8, <2>9, EmptyColumn DEF Columns
  <2> QED BY <1>3, <1>4, <2>10, <2>11, EmptyColumn DEF GrowInv
<1> QED BY <1>5, <1>6

-----------------------------------------------------------------------------
(* The platform and its callbacks.                                         *)

LEMMA GrowRan ==
  ASSUME RowInv, RowInv', NEW w \in Workers, GrowInv(w), RunRuntimeJob
  PROVE  GrowInv(w)'
<1>1. PICK k \in DOMAIN runtime, status \in RuntimeStatuses, files \in SUBSET Files :
        /\ runtime' = [runtime EXCEPT ![k].status = status, ![k].files = files]
        /\ runtime[k].status # "completed"
        /\ status # "completed" => files = {}
  BY DEF RunRuntimeJob, RuntimeStatuses
<1>2. runtime[k].files = {} BY <1>1 DEF GrowInv, FilesOfCompleted
<1>3. /\ DOMAIN runtime' = DOMAIN runtime
      /\ \A j \in DOMAIN runtime : j # k => runtime'[j] = runtime[j]
      /\ runtime'[k].owner = runtime[k].owner
      /\ runtime'[k].status = status /\ runtime'[k].files = files
  BY <1>1 DEF RowInv, RuntimeTyped, RuntimeJob
<1>4. MoreJobs(runtime, runtime') BY <1>2, <1>3 DEF MoreJobs
<1>5. FilesOfCompleted(runtime') BY <1>1, <1>3 DEF FilesOfCompleted, GrowInv
<1>6. UNCHANGED <<version, charge, request, callback>> BY Zenon DEF RunRuntimeJob
<1>7. FreshId(w)' = FreshId(w) /\ Adding(w)' = Adding(w) BY <1>6 DEF FreshId, Adding
<1>8. FreshId(w) <= FreshId(w)' BY <1>7, FreshTyped
<1> QED BY <1>4, <1>5, <1>6, <1>7, <1>8, GrowKept, AlikeSelf DEF GrowInv

(* The callback will write the column it finds, with more pictures.        *)
LEMMA GrowCalled ==
  ASSUME RowInv, RowInv', NEW w \in Workers, GrowInv(w), NEW c \in Callers, ~ Locked,
         NEW i \in DOMAIN version, NEW v, WillWrite(c, i, v),
         v.id = version[i].id, Gains(version[i], v, runtime),
         UNCHANGED <<version, runtime, charge, request>>
  PROVE  GrowInv(w)'
<1> DEFINE column == [version EXCEPT ![i] = v]
<1>1. Extended(version, column, runtime)
  BY DEF Extended, Gains
<1>2. callback' = [callback EXCEPT ![c] = [pc |-> "save", write |-> column]] BY DEF WillWrite
<1> HIDE DEF column
<1>3. callback \in [Callers -> Callbacks(Related)] BY DEF RowInv, CopiesTyped
<1>4. /\ callback'[c].pc = "save" /\ callback'[c].write = column
      /\ \A d \in Callers \ {c} :
           callback'[d] = callback[d] /\ callback[d].pc = "idle" /\ callback[d].write = << >>
  BY <1>2, <1>3 DEF Locked, GrowInv
<1>5. FreshId(w)' = FreshId(w) /\ Adding(w)' = Adding(w) BY DEF FreshId, Adding
<1>6. /\ Distinct(version) /\ Below(version, FreshId(w))
      /\ Distinct(request[w].read) /\ Below(request[w].read, FreshId(w))
      /\ Grows(request[w].read, version, runtime)
  BY DEF GrowInv, Columns
<1>7. /\ Grows(version, column, runtime) /\ Grows(request[w].read, column, runtime)
      /\ Distinct(column) /\ Below(column, FreshId(w))
  BY <1>1, <1>6, ExtendedColumn, GrowsExtended
<1>8. \A col \in Columns(w)' : Distinct(col) /\ Below(col, FreshId(w)')
  BY <1>4, <1>5, <1>6, <1>7, EmptyColumn DEF Columns
<1>9. \A d \in Callers :
        /\ Grows(version', callback'[d].write, runtime')
        /\ Grows(request'[w].read, callback'[d].write, runtime')
  BY <1>4, <1>7, EmptyColumn
<1>10. \A d, e \in Callers : callback'[d].pc = "save" /\ callback'[e].pc = "save" => d = e
  BY <1>4
<1>11. \A d \in Callers : callback'[d].pc = "idle" => callback'[d].write = << >> BY <1>4
<1> QED BY <1>5, <1>6, <1>8, <1>9, <1>10, <1>11 DEF GrowInv

LEMMA GrowUpdated ==
  ASSUME RowInv, RowInv', NEW w \in Workers, GrowInv(w), NEW c \in Callers,
         InternalUpdateGenerationRuntime(c)
  PROVE  GrowInv(w)'
<1>1. PICK k \in DOMAIN runtime, i \in DOMAIN version : \E status :
        WillWrite(c, i, MergeGenerationMetadata([version[i] EXCEPT !.job = k, !.status = status]))
  BY DEF InternalUpdateGenerationRuntime, FindGenerationVersionByCallbackID
<1>6. PICK status :
        WillWrite(c, i, MergeGenerationMetadata([version[i] EXCEPT !.job = k, !.status = status]))
  BY <1>1
<1> DEFINE v == MergeGenerationMetadata([version[i] EXCEPT !.job = k, !.status = status])
<1>2. version[i] \in Version BY VersionTyped DEF Row
<1>3. v.id = version[i].id /\ v.results = version[i].results
  BY <1>2 DEF MergeGenerationMetadata, Version
<1>4. ~ Locked /\ UNCHANGED <<version, runtime, charge, request>>
  BY Zenon DEF InternalUpdateGenerationRuntime, MayCall
<1>5. Gains(version[i], v, runtime) BY <1>3 DEF Gains
<1> HIDE DEF v
<1> QED BY <1>3, <1>4, <1>5, <1>6, GrowCalled DEF v

LEMMA GrowRecorded ==
  ASSUME RowInv, RowInv', NEW w \in Workers, GrowInv(w), NEW c \in Callers,
         InternalRecordGenerationResults(c)
  PROVE  GrowInv(w)'
<1>1. ~ Locked /\ UNCHANGED <<version, runtime, charge, request>>
  BY Zenon DEF InternalRecordGenerationResults, MayCall
<1>2. CASE UNCHANGED callback BY <1>1, <1>2, GrowEdited, AlikeSelf
<1>3. ASSUME NEW k \in DOMAIN runtime, NEW i \in FindGenerationVersionByCallbackID(k),
             NEW sent \in SUBSET runtime[k].files, NEW status, NEW picked,
             WillWrite(c, i, Recorded(version[i], status, sent, picked))
      PROVE  GrowInv(w)'
  <2> DEFINE v == Recorded(version[i], status, sent, picked)
  <2>1. i \in DOMAIN version /\ version[i].id = runtime[k].owner
    BY DEF FindGenerationVersionByCallbackID
  <2>2. version[i] \in Version BY <2>1, VersionTyped DEF Row
  <2>3. v.id = version[i].id /\ v.results = version[i].results \cup sent
    BY <2>2 DEF Recorded, MergeGenerationMetadata, Version
  <2>4. Gains(version[i], v, runtime) BY <2>1, <2>3 DEF Gains, Made
  <2> HIDE DEF v
  <2> QED BY <1>1, <1>3, <2>1, <2>3, <2>4, GrowCalled DEF v
<1>4. \/ UNCHANGED callback
      \/ \E k \in DOMAIN runtime : \E i \in FindGenerationVersionByCallbackID(k),
            sent \in SUBSET runtime[k].files, status \in RuntimeStatuses, picked \in Pictures \cup {"none"} :
           WillWrite(c, i, Recorded(version[i], status, sent, picked))
  <2>1. PICK k \in DOMAIN runtime :
          \E i \in FindGenerationVersionByCallbackID(k), sent \in SUBSET runtime[k].files :
            LET status == IF runtime[k].status = "completed" /\ sent # runtime[k].files
                          THEN "processing" ELSE runtime[k].status
            IN  \/ \E picked \in sent \cup {"none"} :
                     WillWrite(c, i, Recorded(version[i], status, sent, picked))
                \/ UNCHANGED callback
    BY Zenon DEF InternalRecordGenerationResults
  <2>2. runtime[k].status \in RuntimeStatuses /\ "processing" \in RuntimeStatuses
        /\ runtime[k].files \subseteq Pictures
    BY DEF RowInv, RuntimeTyped, RuntimeJob, RuntimeStatuses, Pictures
  <2> QED BY <2>1, <2>2
<1> QED BY <1>2, <1>3, <1>4

(* No other callback waits, so that what is written is ahead of all.       *)
LEMMA GrowWritten ==
  ASSUME RowInv, RowInv', NEW w \in Workers, GrowInv(w), NEW c \in Callers,
         SaveGenerationVersions(c)
  PROVE  GrowInv(w)'
<1> DEFINE write == callback[c].write
<1>1. /\ callback[c].pc = "save" /\ callback' = [callback EXCEPT ![c] = Quiet]
      /\ version' = write \/ version' = version
      /\ UNCHANGED <<runtime, charge, request>>
  BY Zenon DEF SaveGenerationVersions
<1>2. callback \in [Callers -> Callbacks(Related)] BY DEF RowInv, CopiesTyped
<1>3. \A d \in Callers \ {c} : callback[d].pc = "idle" /\ callback[d].write = << >>
  BY <1>1, <1>2 DEF GrowInv, Callbacks
<1>4. \A d \in Callers : callback'[d].pc = "idle" /\ callback'[d].write = << >>
  BY <1>1, <1>2, <1>3 DEF Quiet
<1>5. FreshId(w)' = FreshId(w) /\ Adding(w)' = Adding(w) BY <1>1 DEF FreshId, Adding
<1> HIDE DEF write
<1>6. \A column \in {version, write, request[w].read, << >>} :
        Distinct(column) /\ Below(column, FreshId(w))
  BY EmptyColumn DEF GrowInv, Columns, write
<1>7. \A column \in Columns(w)' : Distinct(column) /\ Below(column, FreshId(w)')
  BY <1>1, <1>4, <1>5, <1>6 DEF Columns
<1>8. Grows(request[w].read, version', runtime) BY <1>1 DEF GrowInv, write
<1>9. \A d \in Callers :
        /\ Grows(version', callback'[d].write, runtime')
        /\ Grows(request'[w].read, callback'[d].write, runtime')
  BY <1>4, EmptyColumn
<1>10. \A d, e \in Callers : callback'[d].pc = "save" /\ callback'[e].pc = "save" => d = e
  BY <1>4
<1> QED BY <1>1, <1>4, <1>5, <1>7, <1>8, <1>9, <1>10 DEF GrowInv

-----------------------------------------------------------------------------
(* The client's own operations: all but an update leave the pictures.      *)

LEMMA EditedAlike ==
  ASSUME RowInv, NEW i \in DOMAIN version, NEW v, Edited(i, v),
         v.id = version[i].id, v.results = version[i].results
  PROVE  Alike(version, version') /\ UNCHANGED <<runtime, charge, request, callback>>
BY DEF Edited, Alike

LEMMA GrowClient ==
  ASSUME RowInv, RowInv', NEW w \in Workers, GrowInv(w),
         \/ SelectGenerationVersion \/ UpdateSession
         \/ SaveGenerationVersionAsTemplate \/ WritebackSelectedGenerationAsset
  PROVE  GrowInv(w)'
<1>1. \A i \in DOMAIN version : version[i] \in Version BY VersionTyped DEF Row
<1>2. CASE SelectGenerationVersion
  <2>1. PICK i \in DOMAIN version : \E picture : Edited(i, [version[i] EXCEPT !.selected = picture])
    BY <1>2 DEF SelectGenerationVersion
  <2>2. PICK picture : Edited(i, [version[i] EXCEPT !.selected = picture]) BY <2>1
  <2> DEFINE v == [version[i] EXCEPT !.selected = picture]
  <2>3. v.id = version[i].id /\ v.results = version[i].results BY <1>1 DEF Version
  <2> HIDE DEF v
  <2> QED BY <2>2, <2>3, EditedAlike, GrowEdited DEF v
<1>3. CASE UpdateSession
  <2>1. version' = [i \in DOMAIN version |-> [version[i] EXCEPT !.job = NoKey]]
    BY <1>3 DEF UpdateSession
  <2>2. Alike(version, version') BY <1>1, <2>1 DEF Alike, Version
  <2> QED BY <1>3, <2>2, GrowEdited DEF UpdateSession
<1>4. CASE SaveGenerationVersionAsTemplate
  <2>1. PICK i \in DOMAIN version : Edited(i, MergeGenerationMetadata(version[i]))
    BY <1>4 DEF SaveGenerationVersionAsTemplate
  <2> DEFINE v == MergeGenerationMetadata(version[i])
  <2>2. v.id = version[i].id /\ v.results = version[i].results
    BY <1>1 DEF MergeGenerationMetadata, Version
  <2> HIDE DEF v
  <2> QED BY <2>1, <2>2, EditedAlike, GrowEdited DEF v
<1>5. CASE WritebackSelectedGenerationAsset
  <2>1. PICK i \in DOMAIN version :
          \E picture : Edited(i, [version[i] EXCEPT !.writeback = picture, !.selected = picture])
    BY <1>5 DEF WritebackSelectedGenerationAsset
  <2>2. PICK picture :
          Edited(i, [version[i] EXCEPT !.writeback = picture, !.selected = picture])
    BY <2>1
  <2> DEFINE v == [version[i] EXCEPT !.writeback = picture, !.selected = picture]
  <2>3. v.id = version[i].id /\ v.results = version[i].results BY <1>1 DEF Version
  <2> HIDE DEF v
  <2> QED BY <2>2, <2>3, EditedAlike, GrowEdited DEF v
<1> QED BY <1>2, <1>3, <1>4, <1>5

(* An update may take pictures away, but only while nothing is in          *)
(* progress.                                                               *)
LEMMA GrowReplaced ==
  ASSUME RowInv, RowInv', "updateVersion" \notin Overlapping, NEW w \in Workers, GrowInv(w),
         UpdateGenerationVersion
  PROVE  GrowInv(w)'
<1>1. At(w, "idle") /\ \A c \in Callers : callback[c].pc = "idle"
  BY DEF UpdateGenerationVersion, MayStart
<1>2. ~ Adding(w) /\ request[w].read = << >> BY <1>1 DEF At, Adding, GrowInv
<1>3. \A c \in Callers : callback[c].write = << >> BY <1>1 DEF GrowInv
<1>4. PICK i \in DOMAIN version : \E v :
        Edited(i, v) /\ v.id = version[i].id
  <2>1. \A i \in DOMAIN version : version[i] \in Version BY VersionTyped DEF Row
  <2>2. PICK i \in DOMAIN version :
          \E selected, status, results :
             LET v == [version[i] EXCEPT !.status = status, !.results = results,
                                         !.selected = selected]
             IN  \/ Edited(i, v)
                 \/ Edited(i, [v EXCEPT !.key = "none", !.writeback = "none"])
    BY DEF UpdateGenerationVersion
  <2>3. PICK selected, status, results :
             LET v == [version[i] EXCEPT !.status = status, !.results = results,
                                         !.selected = selected]
             IN  \/ Edited(i, v)
                 \/ Edited(i, [v EXCEPT !.key = "none", !.writeback = "none"])
    BY <2>2
  <2> DEFINE v == [version[i] EXCEPT !.status = status, !.results = results,
                                     !.selected = selected]
             n == [v EXCEPT !.key = "none", !.writeback = "none"]
  <2>4. v.id = version[i].id /\ n.id = version[i].id BY <2>1 DEF Version
  <2>5. Edited(i, v) \/ Edited(i, n) BY <2>3
  <2> HIDE DEF v, n
  <2> QED BY <2>4, <2>5
<1>5. PICK v : Edited(i, v) /\ v.id = version[i].id BY <1>4
<1>6. /\ DOMAIN version' = DOMAIN version
      /\ \A j \in DOMAIN version : version'[j].id = version[j].id
      /\ UNCHANGED <<runtime, charge, request, callback>>
  BY <1>5 DEF Edited
<1>7. FreshId(w)' = FreshId(w) /\ Adding(w)' = Adding(w) BY <1>6 DEF FreshId, Adding
<1>8. Distinct(version') /\ Below(version', FreshId(w))
  BY <1>6 DEF GrowInv, Columns, Distinct, Below
<1> QED BY <1>2, <1>3, <1>6, <1>7, <1>8, EmptyColumn DEF GrowInv, Columns

LEMMA GrowInit == ASSUME NEW w \in Workers PROVE Init => GrowInv(w)
<1> SUFFICES ASSUME Init PROVE GrowInv(w) OBVIOUS
<1>1. /\ version = << >> /\ request[w] = Idle /\ charge = << >> /\ DOMAIN runtime = {}
      /\ \A c \in Callers : callback[c] = Quiet
  BY DEF Init
<1>2. ~ Adding(w) /\ request[w].read = << >> BY <1>1 DEF Adding, Idle
<1>3. \A c \in Callers : callback[c].pc = "idle" /\ callback[c].write = << >>
  BY <1>1 DEF Quiet
<1>4. FilesOfCompleted(runtime) BY <1>1 DEF FilesOfCompleted
<1> QED BY <1>1, <1>2, <1>3, <1>4, EmptyColumn DEF GrowInv, Columns

LEMMA GrowNext ==
  ASSUME "updateVersion" \notin Overlapping, NEW w, Workers = {w}
  PROVE  RowInv /\ RowInv' /\ GrowInv(w) /\ [Next]_generationVars => GrowInv(w)'
<1> SUFFICES ASSUME RowInv, RowInv', GrowInv(w), [Next]_generationVars PROVE GrowInv(w)'
  OBVIOUS
<1>1. CASE CreateGenerationVersion(w)
  <2>1. ~ Adding(w) BY <1>1 DEF CreateGenerationVersion, At, Adding
  <2> QED BY <1>1, <2>1, GrowPrepared DEF CreateGenerationVersion
<1>2. CASE CreateGenerationFanout(w)
  <2>1. ~ Adding(w) BY <1>2 DEF CreateGenerationFanout, At, Adding
  <2> QED BY <1>2, <2>1, GrowPrepared DEF CreateGenerationFanout
<1>3. CASE BeginVisualRuntimeChargeSession(w) BY <1>3, GrowBegun
<1>4. CASE CreatePlatformGenerationRuntimeJob(w) BY <1>4, GrowCreated
<1>5. CASE SaveSession(w) BY <1>5, GrowSaved
<1>6. CASE NextOfFanout(w)
  <2>1. ~ Adding(w) BY <1>6 DEF NextOfFanout, At, Adding
  <2>2. UNCHANGED <<version, runtime, callback>> BY <1>6 DEF NextOfFanout
  <2>3. CASE request' = [request EXCEPT ![w] = Idle] /\ UNCHANGED charge
    <3>1. request'[w] = Idle BY <2>3 DEF RowInv, CopiesTyped
    <3>2. ~ Adding(w)' /\ request'[w].read = << >> BY <3>1 DEF Idle, Adding
    <3> QED BY <2>2, <2>3, <3>2, GrowEnded
  <2> QED BY <1>6, <2>1, <2>2, <2>3, GrowPrepared DEF NextOfFanout
<1>7. CASE RunRuntimeJob BY <1>7, GrowRan
<1>8. ASSUME NEW c \in Callers,
             \/ InternalUpdateGenerationRuntime(c)
             \/ InternalRecordGenerationResults(c)
             \/ SaveGenerationVersions(c)
      PROVE  GrowInv(w)'
  BY <1>8, GrowUpdated, GrowRecorded, GrowWritten
<1>9. CASE UpdateGenerationVersion BY <1>9, GrowReplaced
<1>10. CASE \/ SelectGenerationVersion \/ UpdateSession
            \/ SaveGenerationVersionAsTemplate \/ WritebackSelectedGenerationAsset
  BY <1>10, GrowClient
<1>11. CASE UNCHANGED generationVars
  BY <1>11, GrowEdited, AlikeSelf DEF generationVars
<1> QED BY <1>1, <1>2, <1>3, <1>4, <1>5, <1>6, <1>7, <1>8, <1>9, <1>10, <1>11 DEF Next

(* SaveGenerationVersions takes no picture from a version and brings none  *)
(* that was not made for it, although the column may have been written     *)
(* since the callback read it: by a request for versions, a selection, a   *)
(* writeback or any save that keeps the pictures.  Only a client's own     *)
(* update of a version must not come in between.                           *)
THEOREM CallbacksAdd ==
  ASSUME IsFiniteSet(Workers), "updateVersion" \notin Overlapping
  PROVE  Spec => CallbacksOnlyAdd
<1> DEFINE Added == Cardinality(Workers) = 1 => \A c \in Callers : SaveGenerationVersions(c) =>
                      \A i \in DOMAIN version, j \in DOMAIN version' :
                        version[i].id = version'[j].id =>
                          /\ version[i].results \subseteq version'[j].results
                          /\ \A f \in version'[j].results \ version[i].results :
                               \E k \in DOMAIN runtime :
                                 runtime[k].owner = version[i].id /\ f \in runtime[k].files
<1>1. CASE Cardinality(Workers) = 1
  <2>1. PICK w : Workers = {w} BY <1>1, FS_Singleton
  <2>2. GrowInv(w) => Added
    <3> SUFFICES ASSUME GrowInv(w), NEW c \in Callers, SaveGenerationVersions(c),
                        NEW i \in DOMAIN version, NEW j \in DOMAIN version',
                        version[i].id = version'[j].id
                 PROVE  Gains(version[i], version'[j], runtime)
      BY DEF Gains, Made
    <3>1. CASE version' = callback[c].write BY <3>1 DEF GrowInv, Grows
    <3>2. CASE version' = version BY <3>2 DEF GrowInv, Columns, Distinct, Gains
    <3> QED BY <3>1, <3>2 DEF SaveGenerationVersions
  <2>3. Init => GrowInv(w) BY <2>1, GrowInit
  <2>4. RowInv /\ RowInv' /\ GrowInv(w) /\ [Next]_generationVars => GrowInv(w)'
    BY <2>1, GrowNext
  <2> QED BY <2>2, <2>3, <2>4, ColumnsAreSound, PTL DEF Spec, CallbacksOnlyAdd
<1>2. CASE Cardinality(Workers) # 1
  <2>1. Added BY <1>2
  <2> QED BY <2>1, PTL DEF Spec, CallbacksOnlyAdd
<1> QED BY <1>1, <1>2

=============================================================================
