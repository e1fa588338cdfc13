-------------------------- MODULE ImageJob_proofs --------------------------
(***************************************************************************)
(* What TLAPS proves of ImageJob, for every number of concurrent requests  *)
(* and of images, with lost replies, failing writes, crashes and early     *)
(* results as the constants allow them.                                    *)
(***************************************************************************)
EXTENDS ImageJob, TLAPS

ResultsLoop  == {"findAsset", "createAsset", "findRelation", "addRelation",
                 "syncProduct"}
HasAsset     == {"findRelation", "addRelation", "syncProduct"}
Committing   == {"finalize", "settle", "recordCharge"}
ResultsSteps == ResultsLoop \cup Committing \cup {"saveResults", "quarantine"}

(* A request in progress works on a row that exists, and has an asset in   *)
(* hand where it archives one; the creator's later steps follow its insert.*)
Fit(wk) ==
  /\ wk \in Worker
  /\ wk.pc # "idle" => wk.item \in JobRow
  /\ wk.pc \in HasAsset => wk.asset \in Assets

Shape ==
  /\ row = NoRow => creator \in {"createSession", "reserve", "insert", "done"}
  /\ \A w \in Workers : Fit(worker[w])

TypeInv == TypeOK /\ Shape

-----------------------------------------------------------------------------
(* Outcomes of the calls on the platform.                                  *)

LEMMA CallOutcome ==
  ASSUME NEW before, NEW after, NEW r \in Call(before, after)
  PROVE  /\ r.ok \in BOOLEAN
         /\ r.state \in {before, after}
         /\ r.ok => r.state = after
<1>1. \/ r = [ok |-> TRUE, state |-> after]
      \/ r = [ok |-> FALSE, state |-> before]
      \/ r = [ok |-> FALSE, state |-> after]
  BY LostRepliesAssumption, Zenon DEF Call
<1>2. CASE r = [ok |-> TRUE, state |-> after] BY <1>2
<1>3. CASE r = [ok |-> FALSE, state |-> before] BY <1>3
<1>4. CASE r = [ok |-> FALSE, state |-> after] BY <1>4
<1> QED BY <1>1, <1>2, <1>3, <1>4, Zenon

LEMMA ChargeOutcomes ==
  ASSUME NEW c \in Charge
  PROVE  /\ \A r \in CreateChargeSession(c) : r.ok \in BOOLEAN /\ r.state \in Charge
         /\ \A r \in ReserveResources(c) : r.ok \in BOOLEAN /\ r.state \in Charge
         /\ \A s \in SessionStatuses : \A r \in UpdateChargeSession(c, s) :
              r.ok \in BOOLEAN /\ r.state \in Charge
         /\ \A r \in FinalizeMetering(c) : r.ok \in BOOLEAN /\ r.state \in Charge
         /\ \A r \in ReleaseReservation(c) : r.ok \in BOOLEAN /\ r.state \in Charge
<1>1. /\ [c EXCEPT !.session = "created"] \in Charge
      /\ [c EXCEPT !.reservation = "held"] \in Charge
      /\ \A s \in SessionStatuses : [c EXCEPT !.session = s] \in Charge
  BY DEF Charge, SessionStatuses, ReservationStatuses
<1>2. [c EXCEPT !.metered = TRUE,
                !.reservation = IF @ = "held" THEN "committed" ELSE @] \in Charge
  BY DEF Charge, ReservationStatuses
<1>3. [c EXCEPT !.reservation = IF @ = "held" THEN "released" ELSE @] \in Charge
  BY DEF Charge, ReservationStatuses
<1> QED
  BY <1>1, <1>2, <1>3, CallOutcome
     DEF CreateChargeSession, ReserveResources, UpdateChargeSession,
         FinalizeMetering, ReleaseReservation

(* A product keeps its shape when its statuses are derived anew.           *)
LEMMA SyncedType ==
  ASSUME NEW p \in Product, NEW roles PROVE SyncedWith(p, roles) \in Product
BY DEF SyncedWith, MainStatusOf, AssetStatusOf, Product, MainStatuses,
       AssetStatuses, ListingStatuses, ExportStatuses

-----------------------------------------------------------------------------
(* What the requests write to the row and to their own state.              *)

LEMMA RowTypes ==
  /\ QueuedRow \in JobRow
  /\ CreateFailedRow \in JobRow
  /\ NoRow \notin JobRow
  /\ \A item \in JobRow : QuarantinedRow(item) \in JobRow
  /\ \A item \in JobRow : [item EXCEPT !.bound = TRUE] \in JobRow
BY DEF QueuedRow, CreateFailedRow, NoRow, QuarantinedRow, JobRow, Statuses,
       Terminal, Stages

(* One worker changes into another state that fits, or starts, goes on to  *)
(* a step that needs no asset, or returns.                                 *)
LEMMA WorkerReplaced ==
  ASSUME worker \in [Workers -> Worker], \A v \in Workers : Fit(worker[v]),
         NEW w \in Workers, NEW wk, Fit(wk),
         worker' = [worker EXCEPT ![w] = wk]
  PROVE  worker' \in [Workers -> Worker] /\ \A v \in Workers : Fit(worker'[v])
<1>1. wk \in Worker BY DEF Fit
<1>2. worker' \in [Workers -> Worker] BY <1>1
<1>3. ASSUME NEW v \in Workers PROVE worker'[v] = IF v = w THEN wk ELSE worker[v]
  OBVIOUS
<1> QED BY <1>2, <1>3

LEMMA IdleFits == Fit(IdleWorker)
BY ImageJobAssumption
   DEF IdleWorker, Fit, Worker, WorkerSteps, NoRow, Variants, HasAsset

LEMMA StepFits ==
  ASSUME NEW wk, Fit(wk), wk.pc # "idle", NEW step \in WorkerSteps \ HasAsset
  PROVE  Fit([wk EXCEPT !.pc = step])
BY DEF Worker, Fit

LEMMA StartFits ==
  ASSUME NEW kind \in {"cancel", "runtime", "results"}, NEW item \in JobRow,
         NEW step \in WorkerSteps \ HasAsset
  PROVE  Fit([IdleWorker EXCEPT !.pc = step, !.kind = kind, !.item = item])
BY IdleFits DEF Fit, Worker, IdleWorker

LEMMA AfterVariantFits ==
  ASSUME NEW wk \in Worker, wk.item \in JobRow
  PROVE  /\ Fit(AfterVariant(wk))
         /\ AfterVariant(wk).pc \in {"findAsset", "saveResults"}
         /\ AfterVariant(wk).item = wk.item
<1> DEFINE done == [wk EXCEPT !.asset = NoAsset, !.primary = FALSE,
                              !.picked = IF wk.variant = SelectedVariant
                                         THEN wk.asset ELSE @]
           last == [done EXCEPT !.pc = "saveResults", !.variant = 1]
           more == [done EXCEPT !.pc = "findAsset", !.variant = @ + 1]
<1>1. done \in Worker /\ done.item = wk.item /\ done.variant = wk.variant
  BY DEF Worker
<1>2. AfterVariant(wk) = IF wk.variant = NumVariants THEN last ELSE more
  BY DEF AfterVariant
<1> HIDE DEF done
<1>3. last \in Worker /\ last.pc = "saveResults" /\ last.item = done.item
  <2>1. 1 \in Variants BY ImageJobAssumption DEF Variants
  <2> QED BY <1>1, <2>1 DEF Worker, WorkerSteps
<1>4. wk.variant # NumVariants
      => more \in Worker /\ more.pc = "findAsset" /\ more.item = done.item
  <2>1. wk.variant # NumVariants => done.variant + 1 \in Variants
    BY <1>1, ImageJobAssumption DEF Variants, Worker
  <2> QED BY <1>1, <2>1 DEF Worker, WorkerSteps
<1> QED
  <2> HIDE DEF last, more
  <2> QED BY <1>1, <1>2, <1>3, <1>4 DEF Fit, HasAsset

-----------------------------------------------------------------------------
(* Type correctness.                                                       *)

LEMMA TypeInit == Init => TypeInv
<1> SUFFICES ASSUME Init PROVE TypeInv OBVIOUS
<1>1. \A w \in Workers : Fit(worker[w]) /\ worker[w] \in Worker
  BY IdleFits DEF Init, Fit
<1>2. worker \in [Workers -> Worker] BY <1>1 DEF Init
<1>3. charge \in Charge
  BY DEF Init, NoCharge, Charge, SessionStatuses, ReservationStatuses
<1>4. /\ row = NoRow /\ assets = {} /\ relations = {} /\ product \in Product
      /\ billed \in BOOLEAN /\ runtime \in RuntimeStatuses
      /\ creator \in CreatorSteps /\ creator = "createSession"
  BY ImageJobAssumption DEF Init, RuntimeStatuses, CreatorSteps
<1> QED BY <1>1, <1>2, <1>3, <1>4 DEF TypeInv, TypeOK, Shape

(* CreateImageJob leaves the requests in progress alone.                   *)
LEMMA TypeCreator == TypeInv /\ CreatorStep => TypeInv'
<1> SUFFICES ASSUME TypeInv, CreatorStep PROVE TypeInv' OBVIOUS
<1> USE DEF TypeInv, TypeOK, Shape, stored
<1>r. \A s : s \in {"created", "reserved", "released"} => s \in SessionStatuses
  BY DEF SessionStatuses
<1>1. CASE CreateSession
  BY <1>1, ChargeOutcomes DEF CreateSession, CreatorSteps
<1>2. CASE Reserve
  BY <1>2, ChargeOutcomes DEF Reserve, CreatorSteps
<1>3. CASE InsertJob
  BY <1>3, RowTypes DEF InsertJob, CreatorSteps
<1>4. CASE Dispatch
  <2>1. PICK r \in Call(runtime, "running") :
          /\ runtime' = r.state
          /\ creator' = IF r.ok THEN "markReserved" ELSE "undoReservation"
    BY <1>4 DEF Dispatch
  <2>2. runtime' \in {runtime, "running"} BY <2>1, CallOutcome
  <2> QED BY <1>4, <2>1, <2>2 DEF Dispatch, CreatorSteps, RuntimeStatuses
<1>5. CASE BindCharge
  BY <1>5, <1>r, ChargeOutcomes DEF BindCharge, CreatorSteps
<1>6. CASE BindRuntime
  BY <1>6, RowTypes DEF BindRuntime, CreatorSteps
<1>7. CASE UndoReservation
  BY <1>7, ChargeOutcomes DEF UndoReservation, CreatorSteps
<1>8. CASE UndoSession
  BY <1>8, <1>r, ChargeOutcomes DEF UndoSession, CreatorSteps
<1>9. CASE SaveCreateFailed
  BY <1>9, RowTypes DEF SaveCreateFailed, CreatorSteps
<1> QED BY <1>1, <1>2, <1>3, <1>4, <1>5, <1>6, <1>7, <1>8, <1>9 DEF CreatorStep

LEMMA TypeBegin ==
  ASSUME TypeInv, NEW w \in Workers, Begin(w) PROVE TypeInv'
<1> USE DEF TypeInv, TypeOK, Shape, stored
<1>1. ASSUME NEW kind \in {"cancel", "runtime", "results"},
             NEW step \in WorkerSteps \ HasAsset, NEW item \in JobRow,
             Start(w, kind, step, item)
      PROVE  worker' \in [Workers -> Worker] /\ \A v \in Workers : Fit(worker'[v])
  BY <1>1, StartFits, WorkerReplaced DEF Start
<1>2. RowExists => row \in JobRow
  BY DEF RowExists
<1>3. CASE StartCancel(w)
  <2>1. [row EXCEPT !.status = "canceled", !.stage = "canceled"] \in JobRow
    BY <1>2, <1>3 DEF StartCancel, JobRow, Statuses, Stages, Terminal
  <2>2. (IF row.bound THEN "cancelRuntime" ELSE "save") \in WorkerSteps \ HasAsset
    BY DEF WorkerSteps, HasAsset
  <2> QED BY <1>1, <1>3, <2>1, <2>2 DEF StartCancel
<1>4. CASE StartRuntimeUpdate(w)
  <2>1. PICK incoming \in RuntimeMessages :
          \E stage \in {row.stage, StatusAfter(incoming)} :
            Start(w, "runtime",
                  IF ReleasesCharge(StatusAfter(incoming))
                    THEN "releaseReservation" ELSE "save",
                  [row EXCEPT !.status = StatusAfter(incoming), !.stage = stage])
    BY <1>4 DEF StartRuntimeUpdate
  <2>2. row \in JobRow BY <1>2, <1>4 DEF StartRuntimeUpdate
  <2>3. StatusAfter(incoming) \in Statuses /\ StatusAfter(incoming) \in Stages
    BY <2>1, <2>2
       DEF RuntimeMessages, RuntimeStatuses, StatusAfter, Statuses, Stages, Terminal,
           JobRow
  <2>4. \A stage \in {row.stage, StatusAfter(incoming)} :
          [row EXCEPT !.status = StatusAfter(incoming), !.stage = stage] \in JobRow
    BY <2>2, <2>3 DEF JobRow
  <2>5. (IF ReleasesCharge(StatusAfter(incoming)) THEN "releaseReservation" ELSE "save")
          \in WorkerSteps \ HasAsset
    BY DEF WorkerSteps, HasAsset
  <2> QED BY <1>1, <1>4, <2>1, <2>4, <2>5 DEF StartRuntimeUpdate
<1>5. CASE StartResults(w)
  <2>1. PICK status \in ResultsMessages :
          Start(w, "results", FirstResultsStep(status),
                [row EXCEPT !.status = status, !.stage = ResultStage(status)])
    BY <1>5 DEF StartResults
  <2>2. row \in JobRow BY <1>2, <1>5 DEF StartResults
  <2>3. status \in Statuses /\ ResultStage(status) \in Stages
    BY <2>1 DEF ResultsMessages, ResultStage, Statuses, Stages, Terminal
  <2>4. [row EXCEPT !.status = status, !.stage = ResultStage(status)] \in JobRow
    BY <2>2, <2>3 DEF JobRow
  <2>5. FirstResultsStep(status) \in WorkerSteps \ HasAsset
    BY DEF FirstResultsStep, WorkerSteps, HasAsset
  <2> QED BY <1>1, <1>5, <2>1, <2>4, <2>5 DEF StartResults
<1> QED BY <1>3, <1>4, <1>5 DEF Begin

(* Going on to a step that needs no asset in hand, and returning.          *)
LEMMA MovesFit ==
  ASSUME worker \in [Workers -> Worker], \A v \in Workers : Fit(worker[v]),
         NEW w \in Workers, worker[w].pc # "idle"
  PROVE  /\ \A step \in WorkerSteps \ HasAsset :
              GoTo(w, step) =>
                worker' \in [Workers -> Worker] /\ \A v \in Workers : Fit(worker'[v])
         /\ Return(w) =>
              worker' \in [Workers -> Worker] /\ \A v \in Workers : Fit(worker'[v])
<1>1. ASSUME NEW step \in WorkerSteps \ HasAsset, GoTo(w, step)
      PROVE  worker' \in [Workers -> Worker] /\ \A v \in Workers : Fit(worker'[v])
  <2>1. Fit([worker[w] EXCEPT !.pc = step]) BY StepFits
  <2> QED BY <1>1, <2>1, WorkerReplaced DEF GoTo
<1>2. ASSUME Return(w)
      PROVE  worker' \in [Workers -> Worker] /\ \A v \in Workers : Fit(worker'[v])
  BY <1>2, IdleFits, WorkerReplaced DEF Return
<1> QED BY <1>1, <1>2

LEMMA TypeContinue ==
  ASSUME TypeInv, NEW w \in Workers, Continue(w) PROVE TypeInv'
<1> USE DEF TypeInv, TypeOK, Shape, stored
<1> DEFINE wk == worker[w]
<1>a. Fit(wk) /\ wk.pc # "idle" => wk.item \in JobRow
  BY DEF Fit
<1>m. ASSUME wk.pc # "idle"
      PROVE  /\ \A step \in WorkerSteps \ HasAsset : GoTo(w, step) =>
                  worker' \in [Workers -> Worker] /\ \A v \in Workers : Fit(worker'[v])
             /\ Return(w) =>
                  worker' \in [Workers -> Worker] /\ \A v \in Workers : Fit(worker'[v])
  BY <1>m, MovesFit
<1>s. {"save", "releaseSession", "createAsset", "syncProduct", "settle", "quarantine",
       "recordCharge", "finalize", "releaseReservation"} \subseteq WorkerSteps
  BY DEF WorkerSteps
<1>t. {"released", "settled"} \subseteq SessionStatuses
  BY DEF SessionStatuses
<1>1. CASE Save(w)
  <2>1. row' \in {row, wk.item} /\ wk.item \in JobRow
    BY <1>1, <1>a DEF Save, At
  <2>2. Return(w) BY <1>1 DEF Save
  <2> QED BY <1>1, <2>1, <2>2, <1>m, RowTypes DEF Save, At
<1>2. CASE ReleaseStep1(w)
  BY <1>2, <1>m, <1>s, ChargeOutcomes DEF ReleaseStep1, At, HasAsset
<1>3. CASE ReleaseStep2(w)
  BY <1>3, <1>m, <1>s, <1>t, ChargeOutcomes DEF ReleaseStep2, At, HasAsset
<1>4. CASE CancelRuntimeJob(w)
  <2>1. PICK r \in Call(runtime, IF runtime = "running" THEN "canceled" ELSE runtime) :
          runtime' = r.state
    BY <1>4 DEF CancelRuntimeJob
  <2>2. runtime' \in {runtime, "canceled"} BY <2>1, CallOutcome
  <2> QED
    BY <1>4, <2>2, <1>m, <1>s
       DEF CancelRuntimeJob, At, HasAsset, RuntimeStatuses, Terminal
<1>5. CASE FindAsset(w)
  <2>1. CASE AssetsOf(wk.variant) = {}
    BY <1>5, <2>1, <1>m, <1>s DEF FindAsset, At, HasAsset
  <2>2. CASE AssetsOf(wk.variant) # {}
    <3>1. PICK a \in AssetsOf(wk.variant) :
            worker' = [worker EXCEPT ![w] = [wk EXCEPT !.pc = "findRelation",
                                                       !.asset = a]]
      BY <1>5, <2>2 DEF FindAsset
    <3>2. a \in Assets BY <3>1 DEF AssetsOf
    <3>3. Fit([wk EXCEPT !.pc = "findRelation", !.asset = a])
      BY <3>2, <1>a, <1>5 DEF Fit, Worker, WorkerSteps, FindAsset, At
    <3> QED BY <1>5, <3>1, <3>3, WorkerReplaced DEF FindAsset
  <2> QED BY <2>1, <2>2
<1>6. CASE CreateAsset(w)
  <2> DEFINE new == [variant |-> wk.variant, by |-> w]
  <2>1. new \in Assets BY <1>a DEF Fit, Worker, Assets
  <2>2. CASE /\ assets' = assets \cup {new}
             /\ worker' = [worker EXCEPT ![w] = [wk EXCEPT !.pc = "findRelation",
                                                           !.asset = new]]
    <3>1. Fit([wk EXCEPT !.pc = "findRelation", !.asset = new])
      <4> HIDE DEF new
      <4> QED BY <2>1, <1>a, <1>6 DEF Fit, Worker, WorkerSteps, CreateAsset, At
    <3> QED BY <1>6, <2>1, <2>2, <3>1, WorkerReplaced DEF CreateAsset
  <2>3. CASE Return(w) /\ UNCHANGED assets
    BY <1>6, <2>3, <1>m DEF CreateAsset, At
  <2> QED BY <1>6, <2>2, <2>3 DEF CreateAsset
<1>7. CASE FindRelation(w)
  <2>1. CASE worker' = [worker EXCEPT ![w] = AfterVariant(wk)]
    <3>1. Fit(AfterVariant(wk))
      BY <1>a, <1>7, AfterVariantFits DEF FindRelation, At, Fit
    <3> QED BY <1>7, <2>1, <3>1, WorkerReplaced DEF FindRelation
  <2>2. CASE worker' = [worker EXCEPT ![w] =
               [wk EXCEPT !.pc = "addRelation",
                          !.primary = /\ wk.variant = SelectedVariant
                                      /\ \A r \in relations : ~ r.primary]]
    <3> DEFINE first == /\ wk.variant = SelectedVariant
                        /\ \A r \in relations : ~ r.primary
    <3>1. first \in BOOLEAN OBVIOUS
    <3> HIDE DEF first
    <3>2. Fit([wk EXCEPT !.pc = "addRelation", !.primary = first])
      BY <3>1, <1>a, <1>7 DEF Fit, Worker, WorkerSteps, FindRelation, At, HasAsset
    <3>3. worker' = [worker EXCEPT ![w] =
                       [wk EXCEPT !.pc = "addRelation", !.primary = first]]
      BY <2>2 DEF first
    <3> QED BY <1>7, <3>2, <3>3, WorkerReplaced DEF FindRelation
  <2> QED BY <1>7, <2>1, <2>2 DEF FindRelation
<1>8. CASE AddRelation(w)
  <2>1. CASE /\ relations' = relations \cup {[asset |-> wk.asset, by |-> w,
                                              primary |-> wk.primary]}
             /\ GoTo(w, "syncProduct")
    <3>1. [asset |-> wk.asset, by |-> w, primary |-> wk.primary] \in Relations
      BY <1>a, <1>8 DEF AddRelation, At, Fit, Worker, HasAsset, Relations
    <3>2. Fit([wk EXCEPT !.pc = "syncProduct"])
      BY <1>a, <1>8, <1>s DEF AddRelation, At, Fit, Worker, HasAsset
    <3> QED BY <1>8, <2>1, <3>1, <3>2, WorkerReplaced DEF AddRelation, GoTo
  <2>2. CASE Return(w) /\ UNCHANGED relations
    BY <1>8, <2>2, <1>m DEF AddRelation, At
  <2> QED BY <1>8, <2>1, <2>2 DEF AddRelation
<1>9. CASE SyncProduct(w)
  <2>1. CASE /\ product' = SyncedWith(product, ProductRoles)
             /\ worker' = [worker EXCEPT ![w] = AfterVariant(wk)]
    <3>1. Fit(AfterVariant(wk))
      BY <1>a, <1>9, AfterVariantFits DEF SyncProduct, At, Fit
    <3> QED BY <1>9, <2>1, <3>1, WorkerReplaced, SyncedType DEF SyncProduct
  <2>2. CASE Return(w) /\ UNCHANGED product
    BY <1>9, <2>2, <1>m DEF SyncProduct, At
  <2> QED BY <1>9, <2>1, <2>2 DEF SyncProduct
<1>10. CASE SaveResults(w)
  <2> DEFINE saved == IF wk.picked = NoAsset THEN wk.item
                      ELSE [wk.item EXCEPT !.selected = wk.picked]
             next  == [wk EXCEPT !.pc = AfterSaveStep(wk.item.status),
                                 !.item = saved, !.picked = NoAsset]
  <2>1. saved \in JobRow
    BY <1>a, <1>10 DEF SaveResults, At, Fit, Worker, JobRow
  <2>2. CASE row' = saved /\ worker' = [worker EXCEPT ![w] = next]
    <3>1. AfterSaveStep(wk.item.status) \in WorkerSteps \ HasAsset
      BY DEF AfterSaveStep, WorkerSteps, HasAsset
    <3>2. Fit(next)
      <4> HIDE DEF saved
      <4> QED BY <2>1, <3>1, <1>a DEF Fit, Worker
    <3>3. saved # NoRow BY <2>1, RowTypes
    <3> HIDE DEF next, saved
    <3>4. worker' \in [Workers -> Worker] /\ \A v \in Workers : Fit(worker'[v])
      BY <2>2, <3>2, WorkerReplaced
    <3>5. UNCHANGED <<assets, relations, product, charge, billed, runtime, creator>>
      BY <1>10 DEF SaveResults
    <3> QED BY <2>1, <2>2, <3>3, <3>4, <3>5
  <2>3. CASE Return(w) /\ UNCHANGED row
    BY <1>10, <2>3, <1>m DEF SaveResults, At
  <2> QED BY <1>10, <2>2, <2>3 DEF SaveResults
<1>11. CASE Finalize(w)
  BY <1>11, <1>m, <1>s, ChargeOutcomes DEF Finalize, At, HasAsset, AfterFinalizeStep
<1>12. CASE Settle(w)
  BY <1>12, <1>m, <1>s, <1>t, ChargeOutcomes DEF Settle, At, HasAsset
<1>13. CASE RecordCharge(w)
  BY <1>13, <1>m DEF RecordCharge, At, DbResults
<1>14. CASE Quarantine(w)
  BY <1>14, <1>a, <1>m, RowTypes DEF Quarantine, At
<1> QED
  BY <1>1, <1>2, <1>3, <1>4, <1>5, <1>6, <1>7, <1>8, <1>9, <1>10, <1>11, <1>12,
     <1>13, <1>14 DEF Continue

LEMMA TypeNext == TypeInv /\ [Next]_vars => TypeInv'
<1> SUFFICES ASSUME TypeInv, [Next]_vars PROVE TypeInv' OBVIOUS
<1>1. CASE CreatorStep BY <1>1, TypeCreator
<1>2. CASE RuntimeEnds
  BY <1>2 DEF RuntimeEnds, Verdicts, TypeInv, TypeOK, Shape, stored, RuntimeStatuses,
              Terminal
<1>3. CASE CutCreate
  BY <1>3 DEF CutCreate, TypeInv, TypeOK, Shape, stored, CreatorSteps
<1>4. ASSUME NEW w \in Workers, Begin(w) PROVE TypeInv' BY <1>4, TypeBegin
<1>5. ASSUME NEW w \in Workers, Continue(w) PROVE TypeInv' BY <1>5, TypeContinue
<1>6. ASSUME NEW w \in Workers, Cut(w) PROVE TypeInv'
  BY <1>6, MovesFit DEF Cut, At, TypeInv, TypeOK, Shape, stored
<1>7. CASE UNCHANGED vars
  BY <1>7 DEF vars, TypeInv, TypeOK, Shape
<1> QED BY <1>1, <1>2, <1>3, <1>4, <1>5, <1>6, <1>7 DEF Next

LEMMA TypeInvHolds == Spec => []TypeInv
BY TypeInit, TypeNext, PTL DEF Spec

(* Every variable keeps its type, whatever the requests interleave: the    *)
(* loop over the images stays within them, and a handler that archives,    *)
(* saves or quarantines has a row and an asset to do it with.              *)
THEOREM TypeCorrect == Spec => []TypeOK
BY TypeInvHolds, PTL DEF TypeInv

-----------------------------------------------------------------------------
(* Metering follows delivery.  A results callback that commits has passed  *)
(* through its loop, and relations are never removed, so what it archived  *)
(* is still there whatever the other requests did meanwhile.               *)

Delivered == \A v \in Variants : VariantArchived(v)

Delivering(wk) ==
  /\ wk.pc \in ResultsLoop =>
       \A v \in Variants : v < wk.variant => VariantArchived(v)
  /\ wk.pc \in HasAsset => wk.asset.variant = wk.variant
  /\ wk.pc = "syncProduct" => IsArchived(wk.asset)
  /\ wk.pc = "saveResults" /\ wk.item.status = "completed" => Delivered
  /\ wk.pc \in Committing => Delivered
  /\ wk.pc \in {"settle", "recordCharge"} => charge.metered

DeliveryInv ==
  /\ charge.metered => Delivered
  /\ billed => charge.metered
  /\ \A w \in Workers : Delivering(worker[w])

(* A failed settlement stays closed: no request holds a copy of the row    *)
(* that says "metering_failed" and still offers an image, and the results  *)
(* callback, which selects images, never holds one that says it at all.    *)
Closed(item) ==
  item.stage = "metering_failed" => item.status = "failed" /\ item.selected = NoAsset

QuarantineInv ==
  /\ Closed(row)
  /\ \A w \in Workers :
       /\ Closed(worker[w].item)
       /\ worker[w].pc \in ResultsSteps => worker[w].item.stage # "metering_failed"

(* A selected image is archived, in the row and in every copy of it that a *)
(* request may still write back.                                           *)
Archived(asset) == asset # NoAsset => IsArchived(asset)

SelectionInv ==
  /\ Archived(row.selected)
  /\ \A w \in Workers :
       /\ Archived(worker[w].item.selected)
       /\ Archived(worker[w].picked)
       /\ worker[w].pc = "syncProduct" => IsArchived(worker[w].asset)

LEMMA ChargeMetered ==
  ASSUME NEW c \in Charge
  PROVE  /\ \A r \in CreateChargeSession(c) : r.state.metered = c.metered
         /\ \A r \in ReserveResources(c) : r.state.metered = c.metered
         /\ \A s : \A r \in UpdateChargeSession(c, s) : r.state.metered = c.metered
         /\ \A r \in ReleaseReservation(c) : r.state.metered = c.metered
         /\ \A r \in FinalizeMetering(c) :
              (c.metered \/ r.ok) => r.state.metered
<1>1. /\ [c EXCEPT !.session = "created"].metered = c.metered
      /\ [c EXCEPT !.reservation = "held"].metered = c.metered
      /\ \A s : [c EXCEPT !.session = s].metered = c.metered
  BY DEF Charge
<1>2. [c EXCEPT !.metered = TRUE,
                !.reservation = IF @ = "held" THEN "committed" ELSE @].metered
  BY DEF Charge
<1>3. [c EXCEPT !.reservation = IF @ = "held" THEN "released" ELSE @].metered
        = c.metered
  BY DEF Charge
<1>4. \A d, r : d.metered = c.metered /\ r \in Call(c, d) => r.state.metered = c.metered
  BY CallOutcome
<1>5. \A d, r : d.metered /\ r \in Call(c, d) /\ (c.metered \/ r.ok) => r.state.metered
  BY CallOutcome
<1>6. \A r \in CreateChargeSession(c) : r.state.metered = c.metered
  BY <1>1, <1>4 DEF CreateChargeSession
<1>7. \A r \in ReserveResources(c) : r.state.metered = c.metered
  BY <1>1, <1>4 DEF ReserveResources
<1>8. \A s : \A r \in UpdateChargeSession(c, s) : r.state.metered = c.metered
  BY <1>1, <1>4 DEF UpdateChargeSession
<1>9. \A r \in ReleaseReservation(c) : r.state.metered = c.metered
  BY <1>3, <1>4 DEF ReleaseReservation
<1>10. \A r \in FinalizeMetering(c) : (c.metered \/ r.ok) => r.state.metered
  BY <1>2, <1>5 DEF FinalizeMetering
<1> QED BY <1>6, <1>7, <1>8, <1>9, <1>10

(* What was archived stays archived, what was metered stays metered.       *)
Onward == relations \subseteq relations' /\ (charge.metered => charge'.metered)

LEMMA DeliveringStable ==
  ASSUME Onward
  PROVE  /\ Delivered => Delivered'
         /\ \A v \in Variants : VariantArchived(v) => VariantArchived(v)'
         /\ \A a \in Assets : IsArchived(a) => IsArchived(a)'
<1>1. \A v \in Variants : VariantArchived(v) => VariantArchived(v)'
  BY DEF Onward, VariantArchived
<1>2. \A a \in Assets : IsArchived(a) => IsArchived(a)'
  BY DEF Onward, IsArchived
<1> QED BY <1>1, <1>2 DEF Delivered

(* The frame of a step: it is enough to look at the one request that moved.*)
LEMMA DeliveryFrame ==
  ASSUME TypeInv, DeliveryInv, Onward,
         charge'.metered => charge.metered \/ Delivered,
         billed' => billed \/ charge.metered,
         NEW w \in Workers, NEW wk,
         worker' = [worker EXCEPT ![w] = wk],
         /\ wk.pc \in ResultsLoop =>
              \A v \in Variants : v < wk.variant => VariantArchived(v)'
         /\ wk.pc \in HasAsset => wk.asset.variant = wk.variant
         /\ wk.pc = "syncProduct" => IsArchived(wk.asset)'
         /\ wk.pc = "saveResults" /\ wk.item.status = "completed" => Delivered'
         /\ wk.pc \in Committing => Delivered'
         /\ wk.pc \in {"settle", "recordCharge"} => charge'.metered
  PROVE  DeliveryInv'
<1>1. (charge.metered => Delivered)' /\ (billed => charge.metered)'
  BY DeliveringStable DEF DeliveryInv, Onward
<1>2. ASSUME NEW v \in Workers PROVE Delivering(worker[v])'
  <2>1. worker'[v] = IF v = w THEN wk ELSE worker[v]
    BY DEF TypeInv, TypeOK
  <2>2. CASE v = w BY <2>1, <2>2 DEF Delivering
  <2>3. CASE v # w
    <3>1. Delivering(worker[v]) /\ worker'[v] = worker[v] /\ Fit(worker[v])
      BY <2>1, <2>3 DEF DeliveryInv, TypeInv, Shape
    <3>2. worker[v].pc = "syncProduct" => worker[v].asset \in Assets
      BY <3>1 DEF Fit, HasAsset
    <3> QED BY <3>1, <3>2, DeliveringStable DEF Delivering, Onward
  <2> QED BY <2>2, <2>3
<1> QED BY <1>1, <1>2 DEF DeliveryInv

LEMMA DeliveryStutter ==
  ASSUME TypeInv, DeliveryInv, UNCHANGED <<relations, billed, worker>>,
         charge'.metered = charge.metered
  PROVE  DeliveryInv'
BY DEF DeliveryInv, Delivering, Delivered, VariantArchived, IsArchived

LEMMA DeliveryInit == Init => DeliveryInv
BY DEF Init, DeliveryInv, Delivering, NoCharge, IdleWorker, ResultsLoop, HasAsset,
       Committing

(* A request that is at a step outside the results callback's, or stops.   *)
LEMMA DeliveryMoves ==
  ASSUME TypeInv, DeliveryInv, Onward,
         charge'.metered => charge.metered \/ Delivered,
         billed' => billed \/ charge.metered,
         NEW w \in Workers
  PROVE  /\ \A step : GoTo(w, step) /\ step \notin ResultsSteps => DeliveryInv'
         /\ GoTo(w, "quarantine") => DeliveryInv'
         /\ Return(w) => DeliveryInv'
<1> USE DEF ResultsSteps, ResultsLoop, HasAsset, Committing
<1>1. \A step : [worker[w] EXCEPT !.pc = step].pc = step
  BY DEF TypeInv, TypeOK, Worker
<1>2. ASSUME NEW step, GoTo(w, step), step \notin ResultsSteps PROVE DeliveryInv'
  BY <1>1, <1>2, DeliveryFrame DEF GoTo
<1>3. ASSUME GoTo(w, "quarantine") PROVE DeliveryInv'
  BY <1>1, <1>3, DeliveryFrame DEF GoTo
<1>4. ASSUME Return(w) PROVE DeliveryInv'
  <2>1. IdleWorker.pc = "idle" BY DEF IdleWorker
  <2> QED BY <1>4, <2>1, DeliveryFrame DEF Return
<1> QED BY <1>2, <1>3, <1>4

(* The loop over the images: one more is archived, and after the last all  *)
(* are.                                                                    *)
LEMMA AfterVariantDelivers ==
  ASSUME NEW wk \in Worker, NEW archived,
         \A v \in Variants : v < wk.variant => v \in archived, wk.variant \in archived
  PROVE  /\ AfterVariant(wk).pc = "findAsset" =>
              \A v \in Variants : v < AfterVariant(wk).variant => v \in archived
         /\ AfterVariant(wk).pc = "saveResults" => \A v \in Variants : v \in archived
<1> DEFINE done == [wk EXCEPT !.asset = NoAsset, !.primary = FALSE,
                              !.picked = IF wk.variant = SelectedVariant
                                         THEN wk.asset ELSE @]
           last == [done EXCEPT !.pc = "saveResults", !.variant = 1]
           more == [done EXCEPT !.pc = "findAsset", !.variant = @ + 1]
<1>1. done \in Worker /\ done.variant = wk.variant
  BY DEF Worker
<1>2. AfterVariant(wk) = IF wk.variant = NumVariants THEN last ELSE more
  BY DEF AfterVariant
<1> HIDE DEF done
<1>3. last.pc = "saveResults" BY <1>1 DEF Worker
<1>4. more.pc = "findAsset" /\ more.variant = wk.variant + 1 BY <1>1 DEF Worker
<1>5. wk.variant \in Variants BY DEF Worker
<1>6. \A v \in Variants : v < wk.variant + 1 => v \in archived
  BY <1>5, ImageJobAssumption DEF Variants
<1>7. wk.variant = NumVariants => \A v \in Variants : v \in archived
  BY <1>5, ImageJobAssumption DEF Variants
<1> HIDE DEF last, more
<1> QED BY <1>2, <1>3, <1>4, <1>6, <1>7

LEMMA DeliveryCreator ==
  ASSUME TypeInv, DeliveryInv, CreatorStep PROVE DeliveryInv'
<1> USE DEF stored
<1>0. charge \in Charge BY DEF TypeInv, TypeOK
<1>1. CASE CreateSession
  BY <1>0, <1>1, ChargeMetered, DeliveryStutter DEF CreateSession
<1>2. CASE Reserve
  BY <1>0, <1>2, ChargeMetered, DeliveryStutter DEF Reserve
<1>3. CASE InsertJob BY <1>3, DeliveryStutter DEF InsertJob
<1>4. CASE Dispatch BY <1>4, DeliveryStutter DEF Dispatch
<1>5. CASE BindCharge
  BY <1>0, <1>5, ChargeMetered, DeliveryStutter DEF BindCharge
<1>6. CASE BindRuntime BY <1>6, DeliveryStutter DEF BindRuntime
<1>7. CASE UndoReservation
  BY <1>0, <1>7, ChargeMetered, DeliveryStutter DEF UndoReservation
<1>8. CASE UndoSession
  BY <1>0, <1>8, ChargeMetered, DeliveryStutter DEF UndoSession
<1>9. CASE SaveCreateFailed BY <1>9, DeliveryStutter DEF SaveCreateFailed
<1> QED BY <1>1, <1>2, <1>3, <1>4, <1>5, <1>6, <1>7, <1>8, <1>9 DEF CreatorStep

LEMMA DeliveryBegin ==
  ASSUME TypeInv, DeliveryInv, NEW w \in Workers, Begin(w) PROVE DeliveryInv'
<1> USE DEF stored
<1>1. Onward /\ UNCHANGED <<charge, billed>>
  BY DEF Begin, StartCancel, StartRuntimeUpdate, StartResults, Onward
<1>2. ASSUME NEW kind, NEW step, NEW item, Start(w, kind, step, item),
             \/ step \notin ResultsSteps
             \/ step = "findAsset"
             \/ step = "saveResults" /\ item.status # "completed"
      PROVE  DeliveryInv'
  <2> DEFINE wk == [IdleWorker EXCEPT !.pc = step, !.kind = kind, !.item = item]
  <2>1. wk.pc = step /\ wk.item = item /\ wk.variant = 1 /\ worker' = [worker EXCEPT ![w] = wk]
    BY <1>2 DEF Start, IdleWorker
  <2>2. \A v \in Variants : ~ (v < 1)
    BY ImageJobAssumption DEF Variants
  <2> HIDE DEF wk
  <2> QED
    BY <1>1, <1>2, <2>1, <2>2, DeliveryFrame
       DEF ResultsSteps, ResultsLoop, HasAsset, Committing
<1>3. CASE StartCancel(w)
  BY <1>2, <1>3 DEF StartCancel, ResultsSteps, ResultsLoop, Committing
<1>4. CASE StartRuntimeUpdate(w)
  BY <1>2, <1>4 DEF StartRuntimeUpdate, ResultsSteps, ResultsLoop, Committing
<1>5. CASE StartResults(w)
  <2>1. PICK status \in ResultsMessages :
          Start(w, "results", FirstResultsStep(status),
                [row EXCEPT !.status = status, !.stage = ResultStage(status)])
    BY <1>5 DEF StartResults
  <2>2. row \in JobRow BY <1>5 DEF StartResults, RowExists, TypeInv, TypeOK
  <2>3. [row EXCEPT !.status = status, !.stage = ResultStage(status)].status = status
    BY <2>2 DEF JobRow
  <2> QED BY <1>2, <2>1, <2>3 DEF FirstResultsStep
<1> QED BY <1>3, <1>4, <1>5 DEF Begin

LEMMA DeliveryContinue ==
  ASSUME TypeInv, DeliveryInv, NEW w \in Workers, Continue(w) PROVE DeliveryInv'
<1> USE DEF stored
<1>p. PICK wk : wk = worker[w] OBVIOUS
<1> USE <1>p
<1> DEFINE ArchivedNow == {v \in Variants : VariantArchived(v)'}
<1>0. charge \in Charge /\ Fit(wk) /\ wk \in Worker /\ Delivering(wk)
  BY DEF TypeInv, TypeOK, Shape, DeliveryInv
<1>k. ASSUME Onward, UNCHANGED <<charge, billed>>, NEW next,
             worker' = [worker EXCEPT ![w] = next],
             next.pc \in {"createAsset", "findRelation", "addRelation", "syncProduct"},
             next.variant = wk.variant, wk.pc \in ResultsLoop,
             next.pc \in HasAsset => next.asset.variant = wk.variant,
             next.pc = "syncProduct" => IsArchived(next.asset)'
      PROVE  DeliveryInv'
  <2>1. \A v \in Variants : v < next.variant => VariantArchived(v)'
    BY <1>k, <1>0, DeliveringStable DEF Delivering
  <2> QED BY <1>k, <2>1, DeliveryFrame DEF Committing
<1>l. ASSUME Onward, UNCHANGED <<charge, billed>>, wk.item \in JobRow,
             worker' = [worker EXCEPT ![w] = AfterVariant(wk)],
             wk.pc \in ResultsLoop, VariantArchived(wk.variant)'
      PROVE  DeliveryInv'
  <2>1. wk.variant \in ArchivedNow
    BY <1>l, <1>0 DEF Worker
  <2>2. \A v \in Variants : v < wk.variant => v \in ArchivedNow
    BY <1>l, <1>0, DeliveringStable DEF Delivering
  <2>3. /\ AfterVariant(wk).pc = "findAsset" =>
             \A v \in Variants : v < AfterVariant(wk).variant => v \in ArchivedNow
        /\ AfterVariant(wk).pc = "saveResults" => \A v \in Variants : v \in ArchivedNow
    <3> HIDE DEF ArchivedNow
    <3> QED BY <1>0, <2>1, <2>2, AfterVariantDelivers
  <2>4. AfterVariant(wk).pc \in {"findAsset", "saveResults"}
    BY <1>l, <1>0, AfterVariantFits
  <2> DEFINE next == AfterVariant(wk)
  <2>5. /\ next.pc = "findAsset" =>
             \A v \in Variants : v < next.variant => VariantArchived(v)'
        /\ next.pc = "saveResults" => Delivered'
    BY <2>3 DEF Delivered
  <2>6. worker' = [worker EXCEPT ![w] = next] /\ next.pc \in {"findAsset", "saveResults"}
    BY <1>l, <2>4
  <2> HIDE DEF next
  <2> QED
    BY <1>l, <2>4, <2>5, <2>6, DeliveryFrame DEF ResultsLoop, HasAsset, Committing
<1>1. CASE Save(w)
  BY <1>1, DeliveryMoves DEF Save, Onward
<1>2. CASE ReleaseStep1(w)
  BY <1>0, <1>2, ChargeMetered, DeliveryMoves
     DEF ReleaseStep1, Onward, ResultsSteps, ResultsLoop, Committing
<1>3. CASE ReleaseStep2(w)
  BY <1>0, <1>3, ChargeMetered, DeliveryMoves
     DEF ReleaseStep2, Onward, ResultsSteps, ResultsLoop, Committing
<1>4. CASE CancelRuntimeJob(w)
  BY <1>4, DeliveryMoves
     DEF CancelRuntimeJob, Onward, ResultsSteps, ResultsLoop, Committing
<1>5. CASE FindAsset(w)
  <2>1. Onward /\ UNCHANGED <<charge, billed>> BY <1>5 DEF FindAsset, Onward
  <2>2. wk.pc \in ResultsLoop BY <1>5 DEF FindAsset, At, ResultsLoop
  <2>3. CASE GoTo(w, "createAsset")
    <3> DEFINE next == [wk EXCEPT !.pc = "createAsset"]
    <3>1. next.pc = "createAsset" /\ next.variant = wk.variant BY <1>0 DEF Worker
    <3>2. worker' = [worker EXCEPT ![w] = next] BY <2>3 DEF GoTo
    <3> HIDE DEF next
    <3> QED BY <1>k, <2>1, <2>2, <3>1, <3>2 DEF HasAsset
  <2>4. ASSUME NEW a \in AssetsOf(wk.variant),
               worker' = [worker EXCEPT ![w] = [wk EXCEPT !.pc = "findRelation",
                                                          !.asset = a]]
        PROVE  DeliveryInv'
    <3> DEFINE next == [wk EXCEPT !.pc = "findRelation", !.asset = a]
    <3>1. next.pc = "findRelation" /\ next.variant = wk.variant /\ next.asset = a
      BY <1>0 DEF Worker
    <3>2. a.variant = wk.variant BY DEF AssetsOf
    <3>3. worker' = [worker EXCEPT ![w] = next] BY <2>4
    <3> HIDE DEF next
    <3> QED BY <1>k, <2>1, <2>2, <3>1, <3>2, <3>3
  <2> QED BY <1>5, <2>3, <2>4 DEF FindAsset
<1>6. CASE CreateAsset(w)
  <2>1. Onward /\ UNCHANGED <<charge, billed>> BY <1>6 DEF CreateAsset, Onward
  <2>2. wk.pc \in ResultsLoop BY <1>6 DEF CreateAsset, At, ResultsLoop
  <2> DEFINE new  == [variant |-> wk.variant, by |-> w]
             next == [wk EXCEPT !.pc = "findRelation", !.asset = new]
  <2>3. CASE worker' = [worker EXCEPT ![w] = next]
    <3>1. new.variant = wk.variant OBVIOUS
    <3> HIDE DEF new
    <3>2. next.pc = "findRelation" /\ next.variant = wk.variant /\ next.asset = new
      BY <1>0 DEF Worker
    <3> HIDE DEF next
    <3> QED BY <1>k, <2>1, <2>2, <2>3, <3>1, <3>2
  <2>4. CASE Return(w) BY <2>1, <2>4, DeliveryMoves
  <2> QED BY <1>6, <2>3, <2>4 DEF CreateAsset
<1>7. CASE FindRelation(w)
  <2>1. Onward /\ UNCHANGED <<charge, billed>> BY <1>7 DEF FindRelation, Onward
  <2>2. wk.pc = "findRelation" BY <1>7 DEF FindRelation, At
  <2>3. wk.item \in JobRow /\ wk.asset \in Assets /\ wk.asset.variant = wk.variant
    BY <1>0, <2>2 DEF Fit, HasAsset, Delivering
  <2>4. CASE IsArchived(wk.asset)
    <3>1. VariantArchived(wk.variant)'
      <4>1. IsArchived(wk.asset)' BY <2>1, <2>3, <2>4, DeliveringStable
      <4> QED BY <4>1, <2>3, <1>7 DEF IsArchived, VariantArchived, FindRelation
    <3> QED BY <1>7, <1>l, <2>1, <2>2, <2>3, <2>4, <3>1 DEF FindRelation, ResultsLoop
  <2>5. CASE ~ IsArchived(wk.asset)
    <3> DEFINE first == wk.variant = SelectedVariant /\ \A r \in relations : ~ r.primary
               next  == [wk EXCEPT !.pc = "addRelation", !.primary = first]
    <3>1. worker' = [worker EXCEPT ![w] = next] BY <1>7, <2>5 DEF FindRelation
    <3> HIDE DEF first
    <3>2. next.pc = "addRelation" /\ next.variant = wk.variant /\ next.asset = wk.asset
      BY <1>0 DEF Worker
    <3> HIDE DEF next
    <3> QED BY <1>k, <2>1, <2>2, <2>3, <3>1, <3>2 DEF ResultsLoop
  <2> QED BY <2>4, <2>5
<1>8. CASE AddRelation(w)
  <2>1. Onward /\ UNCHANGED <<charge, billed>> BY <1>8 DEF AddRelation, Onward
  <2>2. wk.pc = "addRelation" BY <1>8 DEF AddRelation, At
  <2>3. wk.asset.variant = wk.variant BY <1>0, <2>2 DEF HasAsset, Delivering
  <2>4. CASE /\ relations' = relations \cup {[asset |-> wk.asset, by |-> w,
                                              primary |-> wk.primary]}
             /\ GoTo(w, "syncProduct")
    <3> DEFINE next == [wk EXCEPT !.pc = "syncProduct"]
    <3>1. IsArchived(wk.asset)'
      <4> DEFINE rel == [asset |-> wk.asset, by |-> w, primary |-> wk.primary]
      <4>1. rel \in relations' /\ rel.asset = wk.asset BY <2>4
      <4> HIDE DEF rel
      <4> QED BY <4>1 DEF IsArchived
    <3>2. worker' = [worker EXCEPT ![w] = next] BY <2>4 DEF GoTo
    <3>3. next.pc = "syncProduct" /\ next.variant = wk.variant /\ next.asset = wk.asset
      BY <1>0 DEF Worker
    <3>4. IsArchived(next.asset)' BY <3>1, <3>3, <2>4 DEF IsArchived
    <3> HIDE DEF next
    <3> QED BY <1>k, <2>1, <2>2, <2>3, <3>2, <3>3, <3>4 DEF ResultsLoop
  <2>5. CASE Return(w) BY <2>1, <2>5, DeliveryMoves
  <2> QED BY <1>8, <2>4, <2>5 DEF AddRelation
<1>9. CASE SyncProduct(w)
  <2>1. Onward /\ UNCHANGED <<charge, billed>> BY <1>9 DEF SyncProduct, Onward
  <2>2. wk.pc = "syncProduct" BY <1>9 DEF SyncProduct, At
  <2>3. wk.item \in JobRow /\ wk.asset.variant = wk.variant /\ IsArchived(wk.asset)
    BY <1>0, <2>2 DEF Fit, HasAsset, Delivering
  <2>4. CASE worker' = [worker EXCEPT ![w] = AfterVariant(wk)]
    <3>1. VariantArchived(wk.variant)'
      BY <2>3, <1>9 DEF IsArchived, VariantArchived, SyncProduct
    <3> QED BY <1>l, <2>1, <2>2, <2>3, <2>4, <3>1 DEF ResultsLoop
  <2>5. CASE Return(w) BY <2>1, <2>5, DeliveryMoves
  <2> QED BY <1>9, <2>4, <2>5 DEF SyncProduct
<1>10. CASE SaveResults(w)
  <2>1. Onward /\ UNCHANGED <<charge, billed>> BY <1>10 DEF SaveResults, Onward
  <2> DEFINE saved == IF wk.picked = NoAsset THEN wk.item
                      ELSE [wk.item EXCEPT !.selected = wk.picked]
             next  == [wk EXCEPT !.pc = AfterSaveStep(wk.item.status),
                                 !.item = saved, !.picked = NoAsset]
  <2>2. CASE worker' = [worker EXCEPT ![w] = next]
    <3>1. next.pc = AfterSaveStep(wk.item.status)
      <4> HIDE DEF saved
      <4> QED BY <1>0 DEF Worker
    <3>2. next.pc = "finalize" => Delivered'
      BY <3>1, <1>0, <2>1, <1>10, DeliveringStable
         DEF AfterSaveStep, Delivering, SaveResults, At
    <3>3. next.pc \in {"finalize", "releaseReservation"}
      BY <3>1 DEF AfterSaveStep
    <3> HIDE DEF next
    <3> QED
      BY <2>1, <2>2, <3>2, <3>3, DeliveryFrame DEF ResultsLoop, HasAsset, Committing
  <2>3. CASE Return(w) BY <2>1, <2>3, DeliveryMoves
  <2> QED BY <1>10, <2>2, <2>3 DEF SaveResults
<1>c. ASSUME wk.pc \in Committing, NEW step \in {"settle", "recordCharge"},
             GoTo(w, step), UNCHANGED <<relations, billed>>, charge'.metered
      PROVE  DeliveryInv'
  <2> DEFINE next == [wk EXCEPT !.pc = step]
  <2>1. worker' = [worker EXCEPT ![w] = next] /\ next.pc = step
    BY <1>c, <1>0 DEF GoTo, Worker
  <2>2. Onward /\ Delivered /\ Delivered'
    BY <1>c, <1>0, DeliveringStable DEF Onward, Delivering
  <2> HIDE DEF next
  <2> QED BY <1>c, <2>1, <2>2, DeliveryFrame DEF ResultsLoop, HasAsset
<1>11. CASE Finalize(w)
  <2>1. PICK r \in FinalizeMetering(charge) :
          charge' = r.state /\ GoTo(w, AfterFinalizeStep(r.ok))
    BY <1>11 DEF Finalize
  <2>2. (charge.metered \/ r.ok) => charge'.metered
    BY <1>0, <2>1, ChargeMetered
  <2>3. wk.pc \in Committing /\ Delivered
    BY <1>0, <1>11 DEF Finalize, At, Committing, Delivering
  <2>4. CASE r.ok
    BY <1>11, <1>c, <2>1, <2>2, <2>3, <2>4 DEF Finalize, AfterFinalizeStep
  <2>5. CASE ~ r.ok
    <3>1. GoTo(w, "quarantine") BY <2>1, <2>5 DEF AfterFinalizeStep
    <3> QED BY <1>11, <2>2, <2>3, <3>1, DeliveryMoves DEF Finalize, Onward
  <2> QED BY <2>4, <2>5
<1>12. CASE Settle(w)
  <2>1. PICK r \in UpdateChargeSession(charge, "settled") :
          charge' = r.state /\ GoTo(w, IF r.ok THEN "recordCharge" ELSE "quarantine")
    BY <1>12 DEF Settle
  <2>2. wk.pc \in Committing /\ charge.metered /\ charge'.metered
    BY <1>0, <1>12, <2>1, ChargeMetered DEF Settle, At, Committing, Delivering
  <2>3. CASE r.ok
    BY <1>12, <1>c, <2>1, <2>2, <2>3 DEF Settle
  <2>4. CASE ~ r.ok
    BY <1>12, <2>1, <2>2, <2>4, DeliveryMoves DEF Settle, Onward
  <2> QED BY <2>3, <2>4
<1>13. CASE RecordCharge(w)
  <2>1. charge.metered /\ UNCHANGED <<relations, charge>> /\ Return(w)
    BY <1>0, <1>13 DEF RecordCharge, At, Delivering
  <2> QED BY <2>1, DeliveryMoves DEF Onward
<1>14. CASE Quarantine(w)
  BY <1>14, DeliveryMoves DEF Quarantine, Onward
<1> QED
  BY <1>1, <1>2, <1>3, <1>4, <1>5, <1>6, <1>7, <1>8, <1>9, <1>10, <1>11, <1>12,
     <1>13, <1>14 DEF Continue

LEMMA DeliveryNext == TypeInv /\ DeliveryInv /\ [Next]_vars => DeliveryInv'
<1> SUFFICES ASSUME TypeInv, DeliveryInv, [Next]_vars PROVE DeliveryInv' OBVIOUS
<1>1. CASE CreatorStep BY <1>1, DeliveryCreator
<1>2. CASE RuntimeEnds BY <1>2, DeliveryStutter DEF RuntimeEnds, stored
<1>3. CASE CutCreate BY <1>3, DeliveryStutter DEF CutCreate, stored
<1>4. ASSUME NEW w \in Workers, Begin(w) PROVE DeliveryInv' BY <1>4, DeliveryBegin
<1>5. ASSUME NEW w \in Workers, Continue(w) PROVE DeliveryInv'
  BY <1>5, DeliveryContinue
<1>6. ASSUME NEW w \in Workers, Cut(w) PROVE DeliveryInv'
  BY <1>6, DeliveryMoves DEF Cut, stored, Onward
<1>7. CASE UNCHANGED vars BY <1>7, DeliveryStutter DEF vars
<1> QED BY <1>1, <1>2, <1>3, <1>4, <1>5, <1>6, <1>7 DEF Next

LEMMA DeliveryHolds == Spec => []DeliveryInv
BY TypeInvHolds, DeliveryInit, DeliveryNext, PTL DEF Spec

(* Usage is metered only after every image of the result is an asset in    *)
(* the product's library: RecordJobResults finalizes the charge after its  *)
(* loop, and no repeated, late, failing or crashing request undoes that.   *)
THEOREM MeteringFollowsDelivery == Spec => []MeteredAfterDelivery
<1>1. DeliveryInv => MeteredAfterDelivery
  BY DEF DeliveryInv, Delivered, MeteredAfterDelivery
<1> QED BY <1>1, DeliveryHolds, PTL

(* A billing charge record exists only for metering that was finalized.    *)
THEOREM RecordsAreBacked == Spec => []RecordIsBacked
<1>1. DeliveryInv => RecordIsBacked
  BY DEF DeliveryInv, RecordIsBacked
<1> QED BY <1>1, DeliveryHolds, PTL

-----------------------------------------------------------------------------
(* The copies of the row that requests hold, and what they write back.     *)

CopiesInv == QuarantineInv /\ SelectionInv

GoodRow(item) == Closed(item) /\ Archived(item.selected)

GoodWorker(wk) ==
  /\ GoodRow(wk.item)
  /\ Archived(wk.picked)
  /\ wk.pc \in ResultsSteps => wk.item.stage # "metering_failed"
  /\ wk.pc = "syncProduct" => IsArchived(wk.asset)

LEMMA CopiesAre ==
  CopiesInv <=> GoodRow(row) /\ \A w \in Workers : GoodWorker(worker[w])
BY DEF CopiesInv, QuarantineInv, SelectionInv, GoodRow, GoodWorker

LEMMA GoodStable ==
  ASSUME relations \subseteq relations'
  PROVE  /\ \A a : Archived(a) => Archived(a)'
         /\ \A item : GoodRow(item) => GoodRow(item)'
         /\ \A wk : GoodWorker(wk) => GoodWorker(wk)'
BY DEF Archived, IsArchived, GoodRow, GoodWorker, Closed

LEMMA CopiesFrame ==
  ASSUME TypeInv, CopiesInv, relations \subseteq relations', GoodRow(row)',
         NEW w \in Workers, NEW wk, worker' = [worker EXCEPT ![w] = wk],
         GoodWorker(wk)'
  PROVE  CopiesInv'
<1>1. ASSUME NEW v \in Workers PROVE GoodWorker(worker[v])'
  <2>1. worker'[v] = IF v = w THEN wk ELSE worker[v]
    BY DEF TypeInv, TypeOK
  <2>2. GoodWorker(worker[v]) BY CopiesAre
  <2>3. CASE v = w BY <2>1, <2>3 DEF GoodWorker, GoodRow, Closed, Archived, IsArchived
  <2>4. CASE v # w
    <3>1. worker'[v] = worker[v] BY <2>1, <2>4
    <3> QED BY <2>2, <3>1
            DEF GoodWorker, GoodRow, Closed, Archived, IsArchived
  <2> QED BY <2>3, <2>4
<1> QED BY <1>1 DEF CopiesInv, QuarantineInv, SelectionInv, GoodRow, GoodWorker

LEMMA CopiesStutter ==
  ASSUME CopiesInv, UNCHANGED <<relations, worker>>, GoodRow(row)'
  PROVE  CopiesInv'
<1>1. \A w \in Workers : GoodWorker(worker[w])'
  BY CopiesAre DEF GoodWorker, GoodRow, Closed, Archived, IsArchived
<1> QED BY <1>1 DEF CopiesInv, QuarantineInv, SelectionInv, GoodRow, GoodWorker

LEMMA CopiesInit == Init => CopiesInv
BY DEF Init, CopiesInv, QuarantineInv, SelectionInv, Closed, Archived, IdleWorker,
       NoRow, ResultsSteps, ResultsLoop, Committing

LEMMA CopiesCreator ==
  ASSUME TypeInv, CopiesInv, CreatorStep PROVE CopiesInv'
<1> USE DEF stored
<1>0. GoodRow(row) BY CopiesAre
<1>1. ASSUME UNCHANGED <<row, relations, worker>> PROVE CopiesInv'
  BY <1>0, <1>1, GoodStable, CopiesStutter DEF GoodRow, Closed, Archived, IsArchived
<1>2. GoodRow(QueuedRow)' /\ GoodRow(CreateFailedRow)'
  BY DEF GoodRow, Closed, Archived, QueuedRow, CreateFailedRow
<1>3. \A item : item \in JobRow \cup {NoRow} =>
        LET b == [item EXCEPT !.bound = TRUE]
        IN  b.stage = item.stage /\ b.status = item.status /\ b.selected = item.selected
  BY DEF JobRow, NoRow
<1>4. CASE InsertJob
  BY <1>0, <1>2, <1>4, CopiesStutter
     DEF InsertJob, GoodRow, Closed, Archived, IsArchived
<1>5. CASE BindRuntime
  BY <1>0, <1>3, <1>5, CopiesStutter
     DEF BindRuntime, GoodRow, Closed, Archived, IsArchived, TypeInv, TypeOK
<1>6. CASE SaveCreateFailed
  BY <1>0, <1>2, <1>6, CopiesStutter
     DEF SaveCreateFailed, GoodRow, Closed, Archived, IsArchived
<1>7. CASE CreateSession \/ Reserve \/ Dispatch \/ BindCharge \/ UndoReservation
           \/ UndoSession
  BY <1>1, <1>7
     DEF CreateSession, Reserve, Dispatch, BindCharge, UndoReservation, UndoSession
<1> QED BY <1>4, <1>5, <1>6, <1>7 DEF CreatorStep

LEMMA CopiesBegin ==
  ASSUME TypeInv, CopiesInv, NEW w \in Workers, Begin(w) PROVE CopiesInv'
<1> USE DEF stored
<1>0. GoodRow(row) /\ GoodRow(row)' /\ relations \subseteq relations'
      /\ relations' = relations
  BY CopiesAre
     DEF Begin, StartCancel, StartRuntimeUpdate, StartResults, GoodRow, Closed,
         Archived, IsArchived
<1>1. row \in JobRow
  BY DEF Begin, StartCancel, StartRuntimeUpdate, StartResults, RowExists, TypeInv,
         TypeOK
<1>2. ASSUME NEW kind, NEW step, NEW item, Start(w, kind, step, item), Closed(item),
             item.selected = row.selected,
             step \in ResultsSteps => item.stage # "metering_failed",
             step # "syncProduct"
      PROVE  CopiesInv'
  <2> DEFINE wk == [IdleWorker EXCEPT !.pc = step, !.kind = kind, !.item = item]
  <2>1. /\ wk.pc = step /\ wk.item = item /\ wk.picked = NoAsset
        /\ worker' = [worker EXCEPT ![w] = wk]
    BY <1>2 DEF Start, IdleWorker
  <2> HIDE DEF wk
  <2>2. GoodWorker(wk)'
    BY <1>0, <1>2, <2>1 DEF GoodWorker, GoodRow, Closed, Archived, IsArchived
  <2> QED BY <1>0, <2>1, <2>2, CopiesFrame
<1>3. \A status, stage :
        LET item == [row EXCEPT !.status = status, !.stage = stage]
        IN  item.status = status /\ item.stage = stage /\ item.selected = row.selected
  BY <1>1 DEF JobRow
<1>4. CASE StartCancel(w)
  <2> DEFINE item == [row EXCEPT !.status = "canceled", !.stage = "canceled"]
             step == IF row.bound THEN "cancelRuntime" ELSE "save"
  <2>1. Start(w, "cancel", step, item) BY <1>4 DEF StartCancel
  <2>2. step \notin ResultsSteps /\ step # "syncProduct"
    BY DEF ResultsSteps, ResultsLoop, Committing
  <2>3. item.stage = "canceled" /\ item.selected = row.selected BY <1>1 DEF JobRow
  <2> HIDE DEF item, step
  <2> QED BY <1>2, <2>1, <2>2, <2>3 DEF Closed
<1>5. CASE StartRuntimeUpdate(w)
  <2>1. PICK incoming \in RuntimeMessages :
          /\ ~ IgnoresRuntimeUpdate(row.status, incoming)
          /\ \E stage \in {row.stage, StatusAfter(incoming)} :
               Start(w, "runtime",
                     IF ReleasesCharge(StatusAfter(incoming))
                       THEN "releaseReservation" ELSE "save",
                     [row EXCEPT !.status = StatusAfter(incoming), !.stage = stage])
    BY <1>5 DEF StartRuntimeUpdate
  <2>2. StatusAfter(incoming) # "metering_failed"
    BY <2>1, <1>1
       DEF StatusAfter, RuntimeMessages, JobRow, Statuses, Terminal
  <2>3. ASSUME NEW stage \in {row.stage, StatusAfter(incoming)}
        PROVE  Closed([row EXCEPT !.status = StatusAfter(incoming), !.stage = stage])
    <3>1. CASE stage = "metering_failed"
      <4>1. row.status = "failed" /\ row.selected = NoAsset
        BY <1>0, <2>2, <3>1 DEF GoodRow, Closed
      <4>2. StatusAfter(incoming) = "failed"
        BY <2>1, <4>1 DEF IgnoresRuntimeUpdate, Terminal, StatusAfter
      <4> QED BY <1>3, <4>1, <4>2 DEF Closed
    <3>2. CASE stage # "metering_failed" BY <1>3, <3>2 DEF Closed
    <3> QED BY <3>1, <3>2
  <2>4. (IF ReleasesCharge(StatusAfter(incoming)) THEN "releaseReservation" ELSE "save")
          \notin ResultsSteps
    BY DEF ResultsSteps, ResultsLoop, Committing
  <2>5. "syncProduct" \in ResultsSteps BY DEF ResultsSteps, ResultsLoop
  <2> DEFINE step == IF ReleasesCharge(StatusAfter(incoming))
                     THEN "releaseReservation" ELSE "save"
  <2>6. PICK stage \in {row.stage, StatusAfter(incoming)} :
          Start(w, "runtime", step,
                [row EXCEPT !.status = StatusAfter(incoming), !.stage = stage])
    BY <2>1
  <2> DEFINE item == [row EXCEPT !.status = StatusAfter(incoming), !.stage = stage]
  <2>7. Start(w, "runtime", step, item) /\ Closed(item) BY <2>3, <2>6
  <2>8. item.selected = row.selected BY <1>3
  <2> HIDE DEF item, step
  <2>9. step \notin ResultsSteps BY <2>4 DEF step
  <2> QED BY <1>2, <2>5, <2>7, <2>8, <2>9
<1>6. CASE StartResults(w)
  <2>1. PICK status \in ResultsMessages :
          Start(w, "results", FirstResultsStep(status),
                [row EXCEPT !.status = status, !.stage = ResultStage(status)])
    BY <1>6 DEF StartResults
  <2>2. ResultStage(status) # "metering_failed"
    BY <2>1 DEF ResultsMessages, ResultStage, Terminal
  <2>3. FirstResultsStep(status) # "syncProduct" BY DEF FirstResultsStep
  <2> QED BY <1>2, <1>3, <2>1, <2>2, <2>3 DEF Closed
<1> QED BY <1>4, <1>5, <1>6 DEF Begin

(* The image picked so far is archived by the time the loop goes on.       *)
LEMMA AfterVariantPicks ==
  ASSUME NEW wk \in Worker
  PROVE  AfterVariant(wk).picked \in {wk.picked, wk.asset}
<1> DEFINE done == [wk EXCEPT !.asset = NoAsset, !.primary = FALSE,
                              !.picked = IF wk.variant = SelectedVariant
                                         THEN wk.asset ELSE @]
           last == [done EXCEPT !.pc = "saveResults", !.variant = 1]
           more == [done EXCEPT !.pc = "findAsset", !.variant = @ + 1]
<1>1. done \in Worker /\ done.picked \in {wk.picked, wk.asset}
  BY DEF Worker
<1>2. AfterVariant(wk) = IF wk.variant = NumVariants THEN last ELSE more
  BY DEF AfterVariant
<1> HIDE DEF done
<1>3. last.picked = done.picked /\ more.picked = done.picked BY <1>1 DEF Worker
<1> HIDE DEF last, more
<1> QED BY <1>1, <1>2, <1>3

LEMMA CopiesContinue ==
  ASSUME TypeInv, CopiesInv, NEW w \in Workers, Continue(w) PROVE CopiesInv'
<1>p. PICK wk : wk = worker[w] OBVIOUS
<1> USE <1>p DEF stored
<1>0. /\ GoodRow(row) /\ GoodWorker(wk) /\ Fit(wk) /\ wk \in Worker
      /\ relations \subseteq relations'
  BY CopiesAre
     DEF Continue, Save, ReleaseStep1, ReleaseStep2, CancelRuntimeJob, FindAsset,
         CreateAsset, FindRelation, AddRelation, SyncProduct, SaveResults, Finalize,
         Settle, RecordCharge, Quarantine, TypeInv, TypeOK, Shape
<1>1. GoodRow(row)' \/ row' # row
  BY <1>0, GoodStable DEF GoodRow, Closed, Archived, IsArchived
<1>2. ASSUME GoodRow(row)', NEW next, worker' = [worker EXCEPT ![w] = next],
             next.item = wk.item, next.picked = wk.picked,
             next.pc \in ResultsSteps => wk.pc \in ResultsSteps,
             next.pc = "syncProduct" => IsArchived(next.asset)'
      PROVE  CopiesInv'
  <2>1. GoodWorker(next)'
    BY <1>0, <1>2, GoodStable
       DEF GoodWorker, GoodRow, Closed, Archived, IsArchived
  <2> QED BY <1>0, <1>2, <2>1, CopiesFrame
<1>3. ASSUME GoodRow(row)', Return(w) PROVE CopiesInv'
  <2>1. GoodWorker(IdleWorker)'
    BY DEF GoodWorker, GoodRow, Closed, Archived, IdleWorker, NoRow, ResultsSteps,
           ResultsLoop, Committing
  <2> QED BY <1>0, <1>3, <2>1, CopiesFrame DEF Return
<1>4. ASSUME GoodRow(row)', NEW step, GoTo(w, step), step # "syncProduct",
             step \in ResultsSteps => wk.pc \in ResultsSteps
      PROVE  CopiesInv'
  <2> DEFINE next == [wk EXCEPT !.pc = step]
  <2>1. /\ next.pc = step /\ next.item = wk.item /\ next.picked = wk.picked
        /\ worker' = [worker EXCEPT ![w] = next]
    BY <1>0, <1>4 DEF Worker, GoTo
  <2> HIDE DEF next
  <2> QED BY <1>2, <1>4, <2>1
<1>5. ASSUME GoodRow(row)', worker' = [worker EXCEPT ![w] = AfterVariant(wk)],
             wk.item \in JobRow, wk.pc \in ResultsSteps, IsArchived(wk.asset)
      PROVE  CopiesInv'
  <2> DEFINE next == AfterVariant(wk)
  <2>1. /\ next.pc \in {"findAsset", "saveResults"} /\ next.item = wk.item
        /\ next.picked \in {wk.picked, wk.asset}
    BY <1>0, <1>5, AfterVariantFits, AfterVariantPicks
  <2> HIDE DEF next
  <2>2. GoodWorker(next)
    BY <1>0, <1>5, <2>1 DEF GoodWorker, Archived
  <2>3. GoodWorker(next)' BY <1>0, <2>2, GoodStable
  <2> QED BY <1>0, <1>5, <2>3, CopiesFrame DEF next
<1>6. CASE Save(w)
  <2>1. row' \in {row, wk.item} BY <1>6 DEF Save
  <2>2. GoodRow(row)'
    <3>1. GoodRow(wk.item) BY <1>0 DEF GoodWorker
    <3> QED BY <1>0, <2>1, <3>1 DEF GoodRow, Closed, Archived, IsArchived
  <2> QED BY <1>3, <1>6, <2>2 DEF Save
<1>7. CASE ReleaseStep1(w)
  BY <1>1, <1>4, <1>7 DEF ReleaseStep1, ResultsSteps, ResultsLoop, Committing
<1>8. CASE ReleaseStep2(w)
  BY <1>1, <1>3, <1>4, <1>8 DEF ReleaseStep2, ResultsSteps, ResultsLoop, Committing
<1>9. CASE CancelRuntimeJob(w)
  BY <1>1, <1>4, <1>9 DEF CancelRuntimeJob, ResultsSteps, ResultsLoop, Committing
<1>10. CASE FindAsset(w)
  <2>1. GoodRow(row)' /\ wk.pc \in ResultsSteps
    BY <1>1, <1>10 DEF FindAsset, At, ResultsSteps, ResultsLoop
  <2>2. CASE GoTo(w, "createAsset") BY <1>4, <2>1, <2>2
  <2>3. ASSUME NEW a, worker' = [worker EXCEPT ![w] = [wk EXCEPT !.pc = "findRelation",
                                                                 !.asset = a]]
        PROVE  CopiesInv'
    <3> DEFINE next == [wk EXCEPT !.pc = "findRelation", !.asset = a]
    <3>1. next.pc = "findRelation" /\ next.item = wk.item /\ next.picked = wk.picked
      BY <1>0 DEF Worker
    <3>2. worker' = [worker EXCEPT ![w] = next] BY <2>3
    <3> HIDE DEF next
    <3> QED BY <1>2, <2>1, <3>1, <3>2
  <2> QED BY <1>10, <2>2, <2>3 DEF FindAsset
<1>11. CASE CreateAsset(w)
  <2>1. GoodRow(row)' /\ wk.pc \in ResultsSteps
    BY <1>1, <1>11 DEF CreateAsset, At, ResultsSteps, ResultsLoop
  <2> DEFINE new  == [variant |-> wk.variant, by |-> w]
             next == [wk EXCEPT !.pc = "findRelation", !.asset = new]
  <2>2. CASE worker' = [worker EXCEPT ![w] = next]
    <3> HIDE DEF new
    <3>1. next.pc = "findRelation" /\ next.item = wk.item /\ next.picked = wk.picked
      BY <1>0 DEF Worker
    <3> HIDE DEF next
    <3> QED BY <1>2, <2>1, <2>2, <3>1
  <2>3. CASE Return(w) BY <1>3, <2>1, <2>3
  <2> QED BY <1>11, <2>2, <2>3 DEF CreateAsset
<1>12. CASE FindRelation(w)
  <2>1. GoodRow(row)' /\ wk.pc \in ResultsSteps /\ wk.item \in JobRow
    BY <1>0, <1>1, <1>12 DEF FindRelation, At, ResultsSteps, ResultsLoop, Fit
  <2>2. CASE IsArchived(wk.asset) BY <1>5, <1>12, <2>1, <2>2 DEF FindRelation
  <2>3. CASE ~ IsArchived(wk.asset)
    <3> DEFINE first == wk.variant = SelectedVariant /\ \A r \in relations : ~ r.primary
               next  == [wk EXCEPT !.pc = "addRelation", !.primary = first]
    <3>1. worker' = [worker EXCEPT ![w] = next] BY <1>12, <2>3 DEF FindRelation
    <3> HIDE DEF first
    <3>2. next.pc = "addRelation" /\ next.item = wk.item /\ next.picked = wk.picked
      BY <1>0 DEF Worker
    <3> HIDE DEF next
    <3> QED BY <1>2, <2>1, <3>1, <3>2
  <2> QED BY <2>2, <2>3
<1>13. CASE AddRelation(w)
  <2>1. GoodRow(row)' /\ wk.pc \in ResultsSteps
    BY <1>1, <1>13 DEF AddRelation, At, ResultsSteps, ResultsLoop
  <2>2. CASE /\ relations' = relations \cup {[asset |-> wk.asset, by |-> w,
                                              primary |-> wk.primary]}
             /\ GoTo(w, "syncProduct")
    <3> DEFINE next == [wk EXCEPT !.pc = "syncProduct"]
               rel  == [asset |-> wk.asset, by |-> w, primary |-> wk.primary]
    <3>1. /\ next.pc = "syncProduct" /\ next.item = wk.item
          /\ next.picked = wk.picked /\ next.asset = wk.asset
      BY <1>0 DEF Worker
    <3>2. worker' = [worker EXCEPT ![w] = next] BY <2>2 DEF GoTo
    <3>3. rel \in relations' /\ rel.asset = wk.asset BY <2>2
    <3> HIDE DEF rel, next
    <3>4. IsArchived(next.asset)' BY <3>1, <3>3 DEF IsArchived
    <3> QED BY <1>2, <2>1, <3>1, <3>2, <3>4
  <2>3. CASE Return(w) BY <1>3, <2>1, <2>3
  <2> QED BY <1>13, <2>2, <2>3 DEF AddRelation
<1>14. CASE SyncProduct(w)
  <2>1. /\ GoodRow(row)' /\ wk.pc = "syncProduct" /\ wk.pc \in ResultsSteps
        /\ wk.item \in JobRow /\ IsArchived(wk.asset)
    BY <1>0, <1>1, <1>14
       DEF SyncProduct, At, ResultsSteps, ResultsLoop, Fit, GoodWorker
  <2>2. CASE worker' = [worker EXCEPT ![w] = AfterVariant(wk)] BY <1>5, <2>1, <2>2
  <2>3. CASE Return(w) BY <1>3, <2>1, <2>3
  <2> QED BY <1>14, <2>2, <2>3 DEF SyncProduct
<1>15. CASE SaveResults(w)
  <2> DEFINE saved == IF wk.picked = NoAsset THEN wk.item
                      ELSE [wk.item EXCEPT !.selected = wk.picked]
             next  == [wk EXCEPT !.pc = AfterSaveStep(wk.item.status),
                                 !.item = saved, !.picked = NoAsset]
  <2>1. wk.pc = "saveResults" /\ wk.pc \in ResultsSteps /\ relations' = relations
    BY <1>15 DEF SaveResults, At, ResultsSteps
  <2>2. /\ saved.stage = wk.item.stage
        /\ saved.selected \in {wk.item.selected, wk.picked}
    BY <1>0, <2>1 DEF Fit, JobRow
  <2>3. GoodRow(saved)' /\ saved.stage # "metering_failed"
    <3> HIDE DEF saved
    <3> QED
      BY <1>0, <2>1, <2>2 DEF GoodWorker, GoodRow, Closed, Archived, IsArchived
  <2>4. CASE row' = saved /\ worker' = [worker EXCEPT ![w] = next]
    <3>1. GoodRow(row)'
      <4> HIDE DEF saved
      <4> QED BY <2>3, <2>4 DEF GoodRow, Closed, Archived, IsArchived
    <3>2. /\ next.pc = AfterSaveStep(wk.item.status) /\ next.item = saved
          /\ next.picked = NoAsset
      <4> HIDE DEF saved
      <4> QED BY <1>0 DEF Worker
    <3> HIDE DEF next
    <3>3. next.pc # "syncProduct" BY <3>2 DEF AfterSaveStep
    <3>4. GoodWorker(next)'
      <4> HIDE DEF saved
      <4> QED
        BY <2>3, <3>2, <3>3 DEF GoodWorker, GoodRow, Closed, Archived, IsArchived
    <3> QED BY <1>0, <2>4, <3>1, <3>4, CopiesFrame
  <2>5. CASE Return(w) /\ UNCHANGED row BY <1>1, <1>3, <2>5
  <2> QED BY <1>15, <2>4, <2>5 DEF SaveResults
<1>16. CASE Finalize(w)
  BY <1>1, <1>4, <1>16
     DEF Finalize, At, AfterFinalizeStep, ResultsSteps, Committing
<1>17. CASE Settle(w)
  BY <1>1, <1>4, <1>17 DEF Settle, At, ResultsSteps, Committing
<1>18. CASE RecordCharge(w)
  BY <1>1, <1>3, <1>18 DEF RecordCharge
<1>19. CASE Quarantine(w)
  <2>1. row' \in {row, QuarantinedRow(wk.item)} /\ relations' = relations
    BY <1>19 DEF Quarantine
  <2>2. wk.item \in JobRow BY <1>0, <1>19 DEF Quarantine, At, Fit
  <2>3. /\ QuarantinedRow(wk.item).status = "failed"
        /\ QuarantinedRow(wk.item).selected = NoAsset
    BY <2>2 DEF QuarantinedRow, JobRow
  <2>4. GoodRow(row)'
    BY <1>0, <2>1, <2>3 DEF GoodRow, Closed, Archived, IsArchived
  <2> QED BY <1>3, <1>19, <2>4 DEF Quarantine
<1> QED
  BY <1>6, <1>7, <1>8, <1>9, <1>10, <1>11, <1>12, <1>13, <1>14, <1>15, <1>16,
     <1>17, <1>18, <1>19 DEF Continue

LEMMA CopiesNext == TypeInv /\ CopiesInv /\ [Next]_vars => CopiesInv'
<1> SUFFICES ASSUME TypeInv, CopiesInv, [Next]_vars PROVE CopiesInv' OBVIOUS
<1>0. GoodRow(row) BY CopiesAre
<1>1. CASE CreatorStep BY <1>1, CopiesCreator
<1>2. CASE RuntimeEnds \/ CutCreate \/ UNCHANGED vars
  BY <1>0, <1>2, CopiesStutter
     DEF RuntimeEnds, CutCreate, vars, stored, GoodRow, Closed, Archived, IsArchived
<1>3. ASSUME NEW w \in Workers, Begin(w) PROVE CopiesInv' BY <1>3, CopiesBegin
<1>4. ASSUME NEW w \in Workers, Continue(w) PROVE CopiesInv' BY <1>4, CopiesContinue
<1>5. ASSUME NEW w \in Workers, Cut(w) PROVE CopiesInv'
  <2>1. GoodWorker(IdleWorker)'
    BY DEF GoodWorker, GoodRow, Closed, Archived, IdleWorker, NoRow, ResultsSteps,
           ResultsLoop, Committing
  <2>2. GoodRow(row)' /\ relations \subseteq relations'
    BY <1>0, <1>5 DEF Cut, stored, GoodRow, Closed, Archived, IsArchived
  <2> QED BY <1>5, <2>1, <2>2, CopiesFrame DEF Cut, Return
<1> QED BY <1>1, <1>2, <1>3, <1>4, <1>5 DEF Next

LEMMA CopiesHold == Spec => []CopiesInv
BY TypeInvHolds, CopiesInit, CopiesNext, PTL DEF Spec

(* A job whose settlement failed stays failed and offers no image, as long *)
(* as its row says so: no request brings back a copy of the row in which   *)
(* it does.                                                                *)
THEOREM QuarantineIsKept == Spec => []QuarantineHolds
<1>1. CopiesInv => QuarantineHolds
  BY DEF CopiesInv, QuarantineInv, Closed, QuarantineHolds
<1> QED BY <1>1, CopiesHold, PTL

(* An image that a job offers is archived to the product, whichever        *)
(* request's copy of the row was written last.                             *)
THEOREM SelectionsAreArchived == Spec => []SelectionIsArchived
<1>1. CopiesInv => SelectionIsArchived
  BY DEF CopiesInv, SelectionInv, Archived, IsArchived, SelectionIsArchived
<1> QED BY <1>1, CopiesHold, PTL

-----------------------------------------------------------------------------
(* Metered or released, never both: while the platform's answers reach     *)
(* their callers and it sends results only with a verdict, the verdict,    *)
(* which never changes, decides which of the two a callback may do.        *)

DefiniteAnswers == LostReplies = FALSE /\ ProgressResults = FALSE

VerdictWorker(wk) ==
  /\ wk.pc \in ResultsLoop \cup {"saveResults"} =>
       runtime \in Terminal /\ wk.item.status = runtime
  /\ wk.pc \in Committing => runtime = "completed"
  /\ wk.pc = "releaseReservation" => runtime \in {"failed", "canceled"}

VerdictInv ==
  /\ runtime # "none" => creator \in {"markReserved", "bind", "done"}
  /\ charge.metered => runtime = "completed"
  /\ charge.reservation = "released" =>
       \/ runtime \in {"failed", "canceled"}
       \/ runtime = "none" /\ creator \in {"undoSession", "saveFailed", "done"}
  /\ \A w \in Workers : VerdictWorker(worker[w])

LEMMA ChargeEffects ==
  ASSUME NEW c \in Charge
  PROVE  /\ \A r \in CreateChargeSession(c) :
              r.state.metered = c.metered /\ r.state.reservation = c.reservation
         /\ \A r \in ReserveResources(c) :
              /\ r.state.metered = c.metered
              /\ r.state.reservation \in {c.reservation, "held"}
         /\ \A s : \A r \in UpdateChargeSession(c, s) :
              r.state.metered = c.metered /\ r.state.reservation = c.reservation
         /\ \A r \in FinalizeMetering(c) :
              r.state.reservation = "released" => c.reservation = "released"
         /\ \A r \in ReleaseReservation(c) : r.state.metered = c.metered
<1> DEFINE reserved == [c EXCEPT !.reservation = "held"]
           taken    == [c EXCEPT !.metered = TRUE,
                          !.reservation = IF @ = "held" THEN "committed" ELSE @]
<1>1. \A s : [c EXCEPT !.session = s].reservation = c.reservation
  BY DEF Charge
<1>2. reserved.reservation = "held" BY DEF Charge
<1>3. taken.reservation = "released" => c.reservation = "released" BY DEF Charge
<1> HIDE DEF reserved, taken
<1>c. \A d, r : r \in Call(c, d) => r.state = c \/ r.state = d
  BY CallOutcome
<1>4. \A r \in CreateChargeSession(c) : r.state.reservation = c.reservation
  BY <1>1, <1>c DEF CreateChargeSession
<1>5. \A r \in ReserveResources(c) : r.state.reservation \in {c.reservation, "held"}
  <2>1. \A r \in ReserveResources(c) : r.state = c \/ r.state = reserved
    BY <1>c DEF ReserveResources, reserved
  <2> QED BY <1>2, <2>1
<1>6. \A s : \A r \in UpdateChargeSession(c, s) : r.state.reservation = c.reservation
  BY <1>1, <1>c DEF UpdateChargeSession
<1>7. \A r \in FinalizeMetering(c) :
        r.state.reservation = "released" => c.reservation = "released"
  <2>1. \A r \in FinalizeMetering(c) : r.state = c \/ r.state = taken
    BY <1>c DEF FinalizeMetering, taken
  <2> QED BY <1>3, <2>1
<1> QED BY <1>4, <1>5, <1>6, <1>7, ChargeMetered

LEMMA VerdictFrame ==
  ASSUME TypeInv, VerdictInv, runtime' = runtime, creator' = creator,
         charge'.metered => charge.metered \/ runtime = "completed",
         charge'.reservation = "released" =>
           charge.reservation = "released" \/ runtime \in {"failed", "canceled"},
         NEW w \in Workers, NEW wk, worker' = [worker EXCEPT ![w] = wk],
         VerdictWorker(wk)
  PROVE  VerdictInv'
<1>1. ASSUME NEW v \in Workers PROVE VerdictWorker(worker[v])'
  <2>1. worker'[v] = IF v = w THEN wk ELSE worker[v] BY DEF TypeInv, TypeOK
  <2>2. VerdictWorker(worker[v]) BY DEF VerdictInv
  <2> QED BY <2>1, <2>2 DEF VerdictWorker
<1> QED BY <1>1 DEF VerdictInv

LEMMA VerdictInit == Init => VerdictInv
BY DEF Init, VerdictInv, VerdictWorker, NoCharge, IdleWorker, ResultsLoop, Committing,
       Terminal

(* While the runtime job runs nothing that needs a verdict is under way.   *)
LEMMA VerdictFalls ==
  ASSUME TypeInv, VerdictInv, UNCHANGED <<charge, creator>>,
         runtime = "running", runtime' \in Terminal,
         NEW w \in Workers, NEW wk, worker' = [worker EXCEPT ![w] = wk],
         wk.pc = worker[w].pc \/ wk.pc \in {"save", "idle"}
  PROVE  VerdictInv'
<1> DEFINE Waits(pc) == pc \notin ResultsLoop \cup {"saveResults"} \cup Committing
                        /\ pc # "releaseReservation"
<1>1. \A v \in Workers : Waits(worker[v].pc)
  BY DEF VerdictInv, VerdictWorker, Terminal
<1>2. ASSUME NEW v \in Workers PROVE Waits(worker'[v].pc)
  <2>1. worker'[v] = IF v = w THEN wk ELSE worker[v] BY DEF TypeInv, TypeOK
  <2>2. Waits("save") /\ Waits("idle") BY DEF ResultsLoop, Committing
  <2> HIDE DEF Waits
  <2> QED BY <1>1, <2>1, <2>2
<1>3. \A v \in Workers : VerdictWorker(worker[v])'
  BY <1>2 DEF VerdictWorker
<1>4. ~ charge.metered /\ charge.reservation # "released"
  BY DEF VerdictInv
<1> QED BY <1>3, <1>4 DEF VerdictInv

LEMMA VerdictCreator ==
  ASSUME DefiniteAnswers, TypeInv, VerdictInv, CreatorStep PROVE VerdictInv'
<1> USE DEF stored
<1>0. charge \in Charge BY DEF TypeInv, TypeOK
<1>1. ASSUME UNCHANGED worker, runtime' = runtime PROVE \A w \in Workers : VerdictWorker(worker[w])'
  BY <1>1 DEF VerdictInv, VerdictWorker
<1>2. CASE CreateSession
  <2>1. charge'.metered = charge.metered /\ charge'.reservation = charge.reservation
    BY <1>0, <1>2, ChargeEffects DEF CreateSession
  <2> QED BY <1>1, <1>2, <2>1 DEF CreateSession, VerdictInv
<1>3. CASE Reserve
  <2>1. /\ charge'.metered = charge.metered
        /\ charge'.reservation \in {charge.reservation, "held"}
    BY <1>0, <1>3, ChargeEffects DEF Reserve
  <2> QED BY <1>1, <1>3, <2>1 DEF Reserve, VerdictInv
<1>4. CASE InsertJob BY <1>1, <1>4 DEF InsertJob, VerdictInv
<1>5. CASE Dispatch
  <2>1. PICK r \in Call(runtime, "running") :
          /\ runtime' = r.state
          /\ creator' = IF r.ok THEN "markReserved" ELSE "undoReservation"
    BY <1>5 DEF Dispatch
  <2>2. r = [ok |-> TRUE, state |-> "running"] \/ r = [ok |-> FALSE, state |-> runtime]
    BY DEF Call, DefiniteAnswers
  <2>3. runtime = "none" /\ UNCHANGED <<charge, worker>>
    BY <1>5 DEF Dispatch, VerdictInv
  <2>4. ~ charge.metered /\ charge.reservation # "released"
    BY <2>3, <1>5 DEF VerdictInv, Dispatch
  <2>5. CASE r.ok
    <3>1. runtime' = "running" /\ creator' = "markReserved" BY <2>1, <2>2, <2>5
    <3>2. \A w \in Workers : VerdictWorker(worker[w])'
      BY <2>3, <3>1 DEF VerdictInv, VerdictWorker, Terminal
    <3> QED BY <2>3, <2>4, <3>1, <3>2 DEF VerdictInv
  <2>6. CASE ~ r.ok
    <3>1. runtime' = runtime /\ creator' = "undoReservation" BY <2>1, <2>2, <2>6
    <3> QED BY <1>1, <2>3, <2>4, <3>1 DEF VerdictInv
  <2> QED BY <2>5, <2>6
<1>6. CASE BindCharge
  <2>1. charge'.metered = charge.metered /\ charge'.reservation = charge.reservation
    BY <1>0, <1>6, ChargeEffects DEF BindCharge
  <2> QED BY <1>1, <1>6, <2>1 DEF BindCharge, VerdictInv
<1>7. CASE BindRuntime BY <1>1, <1>7 DEF BindRuntime, VerdictInv
<1>8. CASE UndoReservation
  <2>1. charge'.metered = charge.metered
    BY <1>0, <1>8, ChargeEffects DEF UndoReservation
  <2> QED BY <1>1, <1>8, <2>1 DEF UndoReservation, VerdictInv
<1>9. CASE UndoSession
  <2>1. charge'.metered = charge.metered /\ charge'.reservation = charge.reservation
    BY <1>0, <1>9, ChargeEffects DEF UndoSession
  <2> QED BY <1>1, <1>9, <2>1 DEF UndoSession, VerdictInv
<1>10. CASE SaveCreateFailed BY <1>1, <1>10 DEF SaveCreateFailed, VerdictInv
<1> QED
  BY <1>2, <1>3, <1>4, <1>5, <1>6, <1>7, <1>8, <1>9, <1>10 DEF CreatorStep

LEMMA VerdictBegin ==
  ASSUME DefiniteAnswers, TypeInv, VerdictInv, NEW w \in Workers, Begin(w)
  PROVE  VerdictInv'
<1> USE DEF stored
<1>1. UNCHANGED <<charge, runtime, creator>>
  BY DEF Begin, StartCancel, StartRuntimeUpdate, StartResults
<1>2. row \in JobRow
  BY DEF Begin, StartCancel, StartRuntimeUpdate, StartResults, RowExists, TypeInv,
         TypeOK
<1>3. ASSUME NEW kind, NEW step, NEW item, Start(w, kind, step, item),
             \/ step \in {"save", "cancelRuntime"}
             \/ step = "releaseReservation" /\ runtime = "failed"
             \/ /\ step \in {"findAsset", "saveResults"}
                /\ runtime \in Terminal /\ item.status = runtime
      PROVE  VerdictInv'
  <2> DEFINE wk == [IdleWorker EXCEPT !.pc = step, !.kind = kind, !.item = item]
  <2>1. wk.pc = step /\ wk.item = item /\ worker' = [worker EXCEPT ![w] = wk]
    BY <1>3 DEF Start, IdleWorker
  <2> HIDE DEF wk
  <2>2. VerdictWorker(wk)
    BY <1>3, <2>1 DEF VerdictWorker, ResultsLoop, Committing
  <2> QED BY <1>1, <2>1, <2>2, VerdictFrame
<1>4. CASE StartCancel(w) BY <1>3, <1>4 DEF StartCancel
<1>5. CASE StartRuntimeUpdate(w)
  <2>1. PICK incoming \in RuntimeMessages :
          /\ ~ IgnoresRuntimeUpdate(row.status, incoming)
          /\ \E stage \in {row.stage, StatusAfter(incoming)} :
               Start(w, "runtime",
                     IF ReleasesCharge(StatusAfter(incoming))
                       THEN "releaseReservation" ELSE "save",
                     [row EXCEPT !.status = StatusAfter(incoming), !.stage = stage])
    BY <1>5 DEF StartRuntimeUpdate
  <2>2. ReleasesCharge(StatusAfter(incoming)) => runtime = "failed"
    <3>1. CASE incoming = ""
      BY <2>1, <3>1 DEF IgnoresRuntimeUpdate, ReleasesCharge, StatusAfter, Terminal
    <3>2. CASE incoming # ""
      BY <2>1, <3>2 DEF RuntimeMessages, ReleasesCharge, StatusAfter, Terminal
    <3> QED BY <3>1, <3>2
  <2> QED BY <1>3, <2>1, <2>2
<1>6. CASE StartResults(w)
  <2>1. PICK status \in ResultsMessages :
          Start(w, "results", FirstResultsStep(status),
                [row EXCEPT !.status = status, !.stage = ResultStage(status)])
    BY <1>6 DEF StartResults
  <2>2. status = runtime /\ runtime \in Terminal
    BY <2>1 DEF ResultsMessages, DefiniteAnswers
  <2> DEFINE item == [row EXCEPT !.status = status, !.stage = ResultStage(status)]
  <2>3. item.status = runtime BY <1>2, <2>2 DEF JobRow
  <2>4. Start(w, "results", FirstResultsStep(status), item) BY <2>1
  <2> HIDE DEF item
  <2>5. FirstResultsStep(status) \in {"findAsset", "saveResults"}
    BY DEF FirstResultsStep
  <2> QED BY <1>3, <2>2, <2>3, <2>4, <2>5
<1> QED BY <1>4, <1>5, <1>6 DEF Begin

LEMMA VerdictContinue ==
  ASSUME DefiniteAnswers, TypeInv, VerdictInv, NEW w \in Workers, Continue(w)
  PROVE  VerdictInv'
<1>p. PICK wk : wk = worker[w] OBVIOUS
<1> USE <1>p DEF stored
<1>0. VerdictWorker(wk) /\ Fit(wk) /\ wk \in Worker /\ charge \in Charge
  BY DEF VerdictInv, TypeInv, TypeOK, Shape
<1> DEFINE Calm == /\ UNCHANGED <<runtime, creator>>
                   /\ charge'.metered => charge.metered \/ runtime = "completed"
                   /\ charge'.reservation = "released" =>
                        \/ charge.reservation = "released"
                        \/ runtime \in {"failed", "canceled"}
<1>1. ASSUME Calm, NEW next, worker' = [worker EXCEPT ![w] = next],
             next.item = wk.item, next.pc \in ResultsLoop \cup {"saveResults"},
             wk.pc \in ResultsLoop
      PROVE  VerdictInv'
  <2>1. VerdictWorker(next)
    BY <1>0, <1>1 DEF VerdictWorker, ResultsLoop, Committing
  <2> QED BY <1>1, <2>1, VerdictFrame
<1>2. ASSUME Calm, NEW step, GoTo(w, step),
             \/ step \in {"save", "releaseSession", "quarantine"}
             \/ step \in ResultsLoop /\ wk.pc \in ResultsLoop
             \/ step \in Committing /\ wk.pc \in Committing
      PROVE  VerdictInv'
  <2> DEFINE next == [wk EXCEPT !.pc = step]
  <2>1. next.pc = step /\ next.item = wk.item /\ worker' = [worker EXCEPT ![w] = next]
    BY <1>0, <1>2 DEF Worker, GoTo
  <2> HIDE DEF next
  <2>2. VerdictWorker(next)
    BY <1>0, <1>2, <2>1 DEF VerdictWorker, ResultsLoop, Committing
  <2> QED BY <1>2, <2>1, <2>2, VerdictFrame
<1>3. ASSUME Calm, Return(w) PROVE VerdictInv'
  <2>1. VerdictWorker(IdleWorker)
    BY DEF VerdictWorker, IdleWorker, ResultsLoop, Committing
  <2> QED BY <1>3, <2>1, VerdictFrame DEF Return
<1>4. CASE Save(w) BY <1>3, <1>4 DEF Save
<1>5. CASE ReleaseStep1(w)
  <2>1. charge'.metered = charge.metered /\ GoTo(w, "releaseSession")
    BY <1>0, <1>5, ChargeEffects DEF ReleaseStep1
  <2>2. runtime \in {"failed", "canceled"} /\ UNCHANGED <<runtime, creator>>
    BY <1>0, <1>5 DEF ReleaseStep1, At, VerdictWorker
  <2> QED BY <1>2, <2>1, <2>2
<1>6. CASE ReleaseStep2(w)
  <2>1. charge'.metered = charge.metered /\ charge'.reservation = charge.reservation
    BY <1>0, <1>6, ChargeEffects DEF ReleaseStep2
  <2> QED BY <1>2, <1>3, <1>6, <2>1 DEF ReleaseStep2
<1>7. CASE CancelRuntimeJob(w)
  <2>1. PICK r \in Call(runtime, IF runtime = "running" THEN "canceled" ELSE runtime) :
          runtime' = r.state
    BY <1>7 DEF CancelRuntimeJob
  <2>2. runtime' = runtime \/ (runtime = "running" /\ runtime' = "canceled")
    BY <2>1, CallOutcome
  <2>3. GoTo(w, "save") /\ UNCHANGED <<charge, creator>> BY <1>7 DEF CancelRuntimeJob
  <2>4. CASE runtime' = runtime BY <1>2, <2>3, <2>4
  <2>5. CASE runtime = "running" /\ runtime' = "canceled"
    <3> DEFINE next == [wk EXCEPT !.pc = "save"]
    <3>1. next.pc = "save" /\ worker' = [worker EXCEPT ![w] = next]
      BY <1>0, <2>3 DEF GoTo, Worker
    <3> HIDE DEF next
    <3> QED BY <2>3, <2>5, <3>1, VerdictFalls DEF Terminal
  <2> QED BY <2>2, <2>4, <2>5
<1>8. CASE FindAsset(w)
  <2>1. Calm /\ wk.pc \in ResultsLoop BY <1>8 DEF FindAsset, At, ResultsLoop
  <2>2. CASE GoTo(w, "createAsset") BY <1>2, <2>1, <2>2 DEF ResultsLoop
  <2>3. ASSUME NEW a, worker' = [worker EXCEPT ![w] = [wk EXCEPT !.pc = "findRelation",
                                                                 !.asset = a]]
        PROVE  VerdictInv'
    <3> DEFINE next == [wk EXCEPT !.pc = "findRelation", !.asset = a]
    <3>1. next.pc \in ResultsLoop /\ next.item = wk.item
      BY <1>0 DEF Worker, ResultsLoop
    <3>2. worker' = [worker EXCEPT ![w] = next] BY <2>3
    <3> HIDE DEF next, Calm
    <3> QED BY <1>1, <2>1, <3>1, <3>2
  <2> QED BY <1>8, <2>2, <2>3 DEF FindAsset
<1>9. CASE CreateAsset(w)
  <2>1. Calm /\ wk.pc \in ResultsLoop BY <1>9 DEF CreateAsset, At, ResultsLoop
  <2> DEFINE new  == [variant |-> wk.variant, by |-> w]
             next == [wk EXCEPT !.pc = "findRelation", !.asset = new]
  <2>2. CASE worker' = [worker EXCEPT ![w] = next]
    <3> HIDE DEF new
    <3>1. next.pc \in ResultsLoop /\ next.item = wk.item
      BY <1>0 DEF Worker, ResultsLoop
    <3> HIDE DEF next, Calm
    <3> QED BY <1>1, <2>1, <2>2, <3>1
  <2>3. CASE Return(w) BY <1>3, <2>1, <2>3
  <2> QED BY <1>9, <2>2, <2>3 DEF CreateAsset
<1>10. CASE FindRelation(w)
  <2>1. Calm /\ wk.pc \in ResultsLoop /\ wk.item \in JobRow
    BY <1>0, <1>10 DEF FindRelation, At, ResultsLoop, Fit
  <2>2. CASE worker' = [worker EXCEPT ![w] = AfterVariant(wk)]
    <3>1. /\ AfterVariant(wk).pc \in {"findAsset", "saveResults"}
          /\ AfterVariant(wk).item = wk.item
      BY <1>0, <2>1, AfterVariantFits
    <3> QED BY <1>1, <2>1, <2>2, <3>1 DEF ResultsLoop
  <2>3. CASE ~ IsArchived(wk.asset)
    <3> DEFINE first == wk.variant = SelectedVariant /\ \A r \in relations : ~ r.primary
               next  == [wk EXCEPT !.pc = "addRelation", !.primary = first]
    <3>1. worker' = [worker EXCEPT ![w] = next] BY <1>10, <2>3 DEF FindRelation
    <3> HIDE DEF first
    <3>2. next.pc \in ResultsLoop /\ next.item = wk.item
      BY <1>0 DEF Worker, ResultsLoop
    <3> HIDE DEF next, Calm
    <3> QED BY <1>1, <2>1, <3>1, <3>2
  <2> QED BY <1>10, <2>2, <2>3 DEF FindRelation
<1>11. CASE AddRelation(w)
  <2>1. Calm /\ wk.pc \in ResultsLoop BY <1>11 DEF AddRelation, At, ResultsLoop
  <2>2. CASE GoTo(w, "syncProduct") BY <1>2, <2>1, <2>2 DEF ResultsLoop
  <2>3. CASE Return(w) BY <1>3, <2>1, <2>3
  <2> QED BY <1>11, <2>2, <2>3 DEF AddRelation
<1>12. CASE SyncProduct(w)
  <2>1. Calm /\ wk.pc \in ResultsLoop /\ wk.item \in JobRow
    BY <1>0, <1>12 DEF SyncProduct, At, ResultsLoop, Fit
  <2>2. CASE worker' = [worker EXCEPT ![w] = AfterVariant(wk)]
    <3>1. /\ AfterVariant(wk).pc \in {"findAsset", "saveResults"}
          /\ AfterVariant(wk).item = wk.item
      BY <1>0, <2>1, AfterVariantFits
    <3> QED BY <1>1, <2>1, <2>2, <3>1 DEF ResultsLoop
  <2>3. CASE Return(w) BY <1>3, <2>1, <2>3
  <2> QED BY <1>12, <2>2, <2>3 DEF SyncProduct
<1>13. CASE SaveResults(w)
  <2>1. Calm /\ runtime \in Terminal /\ wk.item.status = runtime
    BY <1>0, <1>13 DEF SaveResults, At, VerdictWorker
  <2> DEFINE saved == IF wk.picked = NoAsset THEN wk.item
                      ELSE [wk.item EXCEPT !.selected = wk.picked]
             next  == [wk EXCEPT !.pc = AfterSaveStep(wk.item.status),
                                 !.item = saved, !.picked = NoAsset]
  <2>2. CASE worker' = [worker EXCEPT ![w] = next]
    <3>1. next.pc = AfterSaveStep(runtime)
      <4> HIDE DEF saved
      <4> QED BY <1>0, <2>1 DEF Worker
    <3> HIDE DEF next
    <3>2. VerdictWorker(next)
      BY <2>1, <3>1
         DEF VerdictWorker, AfterSaveStep, ResultsLoop, Committing, Terminal
    <3> QED BY <2>1, <2>2, <3>2, VerdictFrame
  <2>3. CASE Return(w) BY <1>3, <2>1, <2>3
  <2> QED BY <1>13, <2>2, <2>3 DEF SaveResults
<1>14. CASE Finalize(w)
  <2>1. PICK r \in FinalizeMetering(charge) :
          charge' = r.state /\ GoTo(w, AfterFinalizeStep(r.ok))
    BY <1>14 DEF Finalize
  <2>2. wk.pc \in Committing /\ runtime = "completed"
    BY <1>0, <1>14 DEF Finalize, At, Committing, VerdictWorker
  <2>3. Calm BY <1>0, <1>14, <2>1, <2>2, ChargeEffects DEF Finalize
  <2>4. AfterFinalizeStep(r.ok) \in {"settle", "quarantine"}
    BY DEF AfterFinalizeStep
  <2> QED BY <1>2, <2>1, <2>2, <2>3, <2>4 DEF Committing
<1>15. CASE Settle(w)
  <2>1. PICK r \in UpdateChargeSession(charge, "settled") :
          charge' = r.state /\ GoTo(w, IF r.ok THEN "recordCharge" ELSE "quarantine")
    BY <1>15 DEF Settle
  <2>2. wk.pc \in Committing BY <1>15 DEF Settle, At, Committing
  <2>3. Calm BY <1>0, <1>15, <2>1, ChargeEffects DEF Settle
  <2> QED BY <1>2, <2>1, <2>2, <2>3 DEF Committing
<1>16. CASE RecordCharge(w) BY <1>3, <1>16 DEF RecordCharge
<1>17. CASE Quarantine(w) BY <1>3, <1>17 DEF Quarantine
<1> QED
  BY <1>4, <1>5, <1>6, <1>7, <1>8, <1>9, <1>10, <1>11, <1>12, <1>13, <1>14, <1>15,
     <1>16, <1>17 DEF Continue

LEMMA VerdictNext ==
  ASSUME DefiniteAnswers PROVE TypeInv /\ VerdictInv /\ [Next]_vars => VerdictInv'
<1> SUFFICES ASSUME TypeInv, VerdictInv, [Next]_vars PROVE VerdictInv' OBVIOUS
<1>1. CASE CreatorStep BY <1>1, VerdictCreator
<1>2. CASE RuntimeEnds
  <2>1. charge' = charge /\ ~ charge.metered /\ charge.reservation # "released"
    BY <1>2 DEF RuntimeEnds, VerdictInv
  <2>2. \A w \in Workers : VerdictWorker(worker[w])'
    BY <1>2 DEF RuntimeEnds, VerdictInv, VerdictWorker, Terminal
  <2> QED BY <1>2, <2>1, <2>2 DEF RuntimeEnds, VerdictInv
<1>3. CASE CutCreate
  BY <1>3 DEF CutCreate, stored, VerdictInv, VerdictWorker
<1>4. ASSUME NEW w \in Workers, Begin(w) PROVE VerdictInv' BY <1>4, VerdictBegin
<1>5. ASSUME NEW w \in Workers, Continue(w) PROVE VerdictInv'
  BY <1>5, VerdictContinue
<1>6. ASSUME NEW w \in Workers, Cut(w) PROVE VerdictInv'
  <2>1. VerdictWorker(IdleWorker)
    BY DEF VerdictWorker, IdleWorker, ResultsLoop, Committing
  <2> QED BY <1>6, <2>1, VerdictFrame DEF Cut, Return, stored
<1>7. CASE UNCHANGED vars BY <1>7 DEF vars, VerdictInv, VerdictWorker
<1> QED BY <1>1, <1>2, <1>3, <1>4, <1>5, <1>6, <1>7 DEF Next

(* As long as no answer of the platform is lost and results come with a    *)
(* verdict, the reservation of a job whose usage was metered is never      *)
(* released as well, however many callbacks, cancellations and crashes     *)
(* overlap.                                                                *)
THEOREM MeteredOrReleased ==
  ASSUME DefiniteAnswers PROVE Spec => []NeverMeteredAndReleased
<1>1. VerdictInv => NeverMeteredAndReleased
  BY DEF VerdictInv, NeverMeteredAndReleased
<1>2. TypeInv /\ VerdictInv /\ [Next]_vars => VerdictInv' BY VerdictNext
<1> QED BY <1>1, <1>2, TypeInvHolds, VerdictInit, PTL DEF Spec

-----------------------------------------------------------------------------
(* One request at a time.  A request that starts finds all others at rest, *)
(* so none but the one at work changes what it read; CreateImageJob may    *)
(* still overlap it.                                                       *)

OneAtATime == \A v, w \in Workers : ~ At(v, "idle") /\ ~ At(w, "idle") => v = w

Working(w) == Begin(w) \/ Continue(w) \/ Cut(w)

LEMMA OthersRest ==
  ASSUME TypeInv, NEW w \in Workers, Working(w)
  PROVE  /\ \A v \in Workers \ {w} : worker'[v] = worker[v]
         /\ Begin(w) => MayStart
         /\ ~ Begin(w) => ~ At(w, "idle")
<1> DEFINE Only == \A v \in Workers \ {w} : worker'[v] = worker[v]
<1>0. worker \in [Workers -> Worker] BY DEF TypeInv, TypeOK
<1>1. ASSUME NEW next, worker' = [worker EXCEPT ![w] = next] PROVE Only
  BY <1>0, <1>1
<1>2. \A step : GoTo(w, step) => Only BY <1>1 DEF GoTo
<1>3. Return(w) => Only BY <1>1 DEF Return
<1>4. CASE Begin(w)
  BY <1>1, <1>4 DEF Begin, StartCancel, StartRuntimeUpdate, StartResults, Start
<1>5. CASE Cut(w) BY <1>3, <1>5 DEF Cut, Begin, StartCancel, StartRuntimeUpdate,
                                    StartResults, Start
<1>6. CASE Continue(w)
  <2>1. ~ At(w, "idle")
    BY <1>6 DEF Continue, Save, ReleaseStep1, ReleaseStep2, CancelRuntimeJob,
       FindAsset, CreateAsset, FindRelation, AddRelation, SyncProduct, SaveResults,
       Finalize, Settle, RecordCharge, Quarantine, At
  <2>2. ASSUME Save(w) \/ ReleaseStep1(w) \/ ReleaseStep2(w) \/ CancelRuntimeJob(w) PROVE Only
    BY <1>2, <1>3, <2>2 DEF Save, ReleaseStep1, ReleaseStep2, CancelRuntimeJob
  <2>3. ASSUME FindAsset(w) \/ CreateAsset(w) PROVE Only
    BY <1>1, <1>2, <1>3, <2>3 DEF FindAsset, CreateAsset
  <2>4. ASSUME FindRelation(w) \/ AddRelation(w) \/ SyncProduct(w) PROVE Only
    BY <1>1, <1>2, <1>3, <2>4 DEF FindRelation, AddRelation, SyncProduct
  <2>5. ASSUME SaveResults(w) PROVE Only BY <1>1, <1>3, <2>5 DEF SaveResults
  <2>6. ASSUME Finalize(w) \/ Settle(w) \/ RecordCharge(w) \/ Quarantine(w) PROVE Only
    BY <1>2, <1>3, <2>6 DEF Finalize, Settle, RecordCharge, Quarantine
  <2>7. Only
    BY <1>6, <2>2, <2>3, <2>4, <2>5, <2>6 DEF Continue
  <2>8. ~ Begin(w)
    BY <2>1 DEF Begin, StartCancel, StartRuntimeUpdate, StartResults, Start
  <2> QED BY <2>1, <2>7, <2>8
<1> QED BY <1>4, <1>5, <1>6 DEF Working

LEMMA Alone ==
  ASSUME Concurrent = FALSE, TypeInv, OneAtATime, NEW w \in Workers, Working(w)
  PROVE  /\ OneAtATime'
         /\ \A v \in Workers \ {w} : At(v, "idle") /\ worker'[v] = worker[v]
<1>1. \A v \in Workers \ {w} : At(v, "idle")
  <2>1. CASE Begin(w) BY <2>1, OthersRest DEF MayStart
  <2>2. CASE ~ Begin(w) BY <2>2, OthersRest DEF OneAtATime
  <2> QED BY <2>1, <2>2
<1>2. \A v \in Workers \ {w} : worker'[v] = worker[v] BY OthersRest
<1> QED BY <1>1, <1>2 DEF OneAtATime, At

LEMMA AloneInit == Init => OneAtATime
BY DEF Init, OneAtATime, At, IdleWorker

(* Where a request is after it went on, returned or started.              *)
LEMMA Arrives ==
  ASSUME TypeInv, NEW w \in Workers
  PROVE  /\ \A step : GoTo(w, step) =>
              /\ worker'[w] = [worker[w] EXCEPT !.pc = step]
              /\ worker'[w].pc = step
              /\ worker'[w].kind = worker[w].kind
              /\ worker'[w].item = worker[w].item
              /\ worker'[w].variant = worker[w].variant
              /\ worker'[w].asset = worker[w].asset
              /\ worker'[w].picked = worker[w].picked
         /\ Return(w) => worker'[w] = IdleWorker
         /\ \A kind, step, item : Start(w, kind, step, item) =>
              /\ worker'[w].pc = step
              /\ worker'[w].kind = kind
              /\ worker'[w].item = item
              /\ worker'[w].picked = NoAsset
<1>1. worker \in [Workers -> Worker] /\ worker[w] \in Worker BY DEF TypeInv, TypeOK
<1>2. ASSUME NEW step, GoTo(w, step)
      PROVE  /\ worker'[w] = [worker[w] EXCEPT !.pc = step]
             /\ worker'[w].pc = step
             /\ worker'[w].kind = worker[w].kind
             /\ worker'[w].item = worker[w].item
             /\ worker'[w].variant = worker[w].variant
             /\ worker'[w].asset = worker[w].asset
             /\ worker'[w].picked = worker[w].picked
  BY <1>1, <1>2 DEF GoTo, Worker
<1>3. Return(w) => worker'[w] = IdleWorker BY <1>1 DEF Return
<1>4. ASSUME NEW kind, NEW step, NEW item, Start(w, kind, step, item)
      PROVE  /\ worker'[w].pc = step
             /\ worker'[w].kind = kind
             /\ worker'[w].item = item
             /\ worker'[w].picked = NoAsset
  BY <1>1, <1>4 DEF Start, IdleWorker
<1> QED BY <1>2, <1>3, <1>4

-----------------------------------------------------------------------------
(* Redelivered results, one callback after the other: the lookup before    *)
(* each insert is still true when the insert comes.                        *)

Searching(wk) ==
  /\ wk.pc = "createAsset" => AssetsOf(wk.variant) = {}
  /\ wk.pc = "addRelation" =>
       /\ ~ IsArchived(wk.asset)
       /\ wk.primary => \A r \in relations : ~ r.primary

ArchiveInv ==
  /\ OneAtATime
  /\ OneAssetPerVariant
  /\ ArchivedOnce
  /\ \A w \in Workers : Searching(worker[w])

LEMMA ArchiveWorking ==
  ASSUME Concurrent = FALSE, TypeInv, ArchiveInv, NEW w \in Workers, Working(w)
  PROVE  ArchiveInv'
<1>p. PICK wk : wk = worker[w] OBVIOUS
<1>0. /\ wk \in Worker /\ Searching(wk) /\ worker \in [Workers -> Worker]
      /\ OneAssetPerVariant /\ ArchivedOnce
  BY <1>p DEF TypeInv, TypeOK, ArchiveInv
<1>1. /\ OneAtATime'
      /\ \A v \in Workers \ {w} : At(v, "idle") /\ worker'[v] = worker[v]
  BY Alone DEF ArchiveInv
<1>2. SUFFICES OneAssetPerVariant' /\ ArchivedOnce' /\ Searching(worker[w])'
  BY <1>1 DEF ArchiveInv, Searching, At
<1>3. ASSUME UNCHANGED <<assets, relations>>,
             worker'[w].pc \notin {"createAsset", "addRelation"}
      PROVE  OneAssetPerVariant' /\ ArchivedOnce' /\ Searching(worker[w])'
  BY <1>0, <1>3 DEF OneAssetPerVariant, ArchivedOnce, Searching
<1>4. IdleWorker.pc = "idle" BY DEF IdleWorker
<1>5. wk.item \in JobRow => AfterVariant(wk).pc \in {"findAsset", "saveResults"}
  BY <1>0, AfterVariantFits
<1>6. CASE Begin(w)
  <2>1. PICK kind, step, item :
          /\ Start(w, kind, step, item)
          /\ step \in {"cancelRuntime", "releaseReservation", "save", "findAsset",
                      "saveResults"}
    <3>1. CASE StartCancel(w) BY <3>1 DEF StartCancel
    <3>2. CASE StartRuntimeUpdate(w) BY <3>2 DEF StartRuntimeUpdate
    <3>3. CASE StartResults(w) BY <3>3 DEF StartResults, FirstResultsStep
    <3> QED BY <1>6, <3>1, <3>2, <3>3 DEF Begin
  <2>2. worker'[w].pc = step BY <2>1, Arrives
  <2> QED
    BY <1>3, <1>6, <2>1, <2>2
       DEF Begin, StartCancel, StartRuntimeUpdate, StartResults, stored
<1>7. CASE Cut(w) BY <1>3, <1>4, <1>7, Arrives DEF Cut, stored
<1>8. CASE \/ Save(w) \/ ReleaseStep1(w) \/ ReleaseStep2(w) \/ CancelRuntimeJob(w)
           \/ Finalize(w) \/ Settle(w) \/ RecordCharge(w) \/ Quarantine(w)
  <2>1. Return(w) \/ \E step : /\ GoTo(w, step)
                                /\ step \notin {"createAsset", "addRelation"}
    <3>1. CASE Save(w) \/ RecordCharge(w) \/ Quarantine(w)
      BY <3>1 DEF Save, RecordCharge, Quarantine
    <3>2. CASE ReleaseStep1(w) \/ ReleaseStep2(w) \/ CancelRuntimeJob(w)
      BY <3>2 DEF ReleaseStep1, ReleaseStep2, CancelRuntimeJob
    <3>3. CASE Finalize(w) \/ Settle(w)
      BY <3>3 DEF Finalize, Settle, AfterFinalizeStep
    <3> QED BY <1>8, <3>1, <3>2, <3>3
  <2>2. worker'[w].pc \notin {"createAsset", "addRelation"}
    BY <1>4, <2>1, Arrives
  <2> QED
    BY <1>3, <1>8, <2>2
       DEF Save, ReleaseStep1, ReleaseStep2, CancelRuntimeJob, Finalize, Settle,
           RecordCharge, Quarantine, stored
<1>9. CASE SaveResults(w)
  <2>1. Return(w) \/ worker'[w].pc = AfterSaveStep(wk.item.status)
    BY <1>0, <1>9, <1>p DEF SaveResults, Worker
  <2>2. worker'[w].pc \notin {"createAsset", "addRelation"}
    BY <1>4, <2>1, Arrives DEF AfterSaveStep
  <2> QED BY <1>3, <1>9, <2>2 DEF SaveResults
<1>10. CASE FindAsset(w)
  <2>1. UNCHANGED <<assets, relations>> BY <1>10 DEF FindAsset, stored
  <2>2. CASE AssetsOf(wk.variant) = {}
    <3>1. GoTo(w, "createAsset") BY <1>10, <1>p, <2>2 DEF FindAsset
    <3>2. worker'[w].pc = "createAsset" /\ worker'[w].variant = wk.variant
      BY <1>p, <3>1, Arrives
    <3>3. Searching(worker[w])' BY <2>1, <2>2, <3>2 DEF Searching, AssetsOf
    <3> QED BY <1>0, <2>1, <3>3 DEF OneAssetPerVariant, ArchivedOnce
  <2>3. CASE AssetsOf(wk.variant) # {}
    <3>1. PICK a : worker' = [worker EXCEPT ![w].pc = "findRelation", ![w].asset = a]
      BY <1>10, <1>p, <2>3 DEF FindAsset
    <3>2. worker'[w].pc = "findRelation" BY <1>0, <1>p, <3>1 DEF Worker
    <3> QED BY <1>3, <2>1, <3>2
  <2> QED BY <2>2, <2>3
<1>11. CASE CreateAsset(w)
  <2> DEFINE new == [variant |-> wk.variant, by |-> w]
  <2>1. AssetsOf(wk.variant) = {} /\ relations' = relations
    BY <1>0, <1>11, <1>p DEF CreateAsset, At, Searching
  <2>2. CASE /\ assets' = assets \cup {new}
             /\ worker' = [worker EXCEPT ![w].pc = "findRelation", ![w].asset = new]
    <3>1. OneAssetPerVariant'
      BY <1>0, <2>1, <2>2 DEF OneAssetPerVariant, AssetsOf
    <3> HIDE DEF new
    <3>2. worker'[w].pc = "findRelation" BY <1>0, <1>p, <2>2 DEF Worker
    <3> QED BY <1>0, <2>1, <3>1, <3>2 DEF ArchivedOnce, Searching
  <2>3. CASE Return(w) /\ UNCHANGED assets
    BY <1>3, <1>4, <2>1, <2>3, Arrives
  <2> QED BY <1>11, <1>p, <2>2, <2>3 DEF CreateAsset
<1>12. CASE FindRelation(w)
  <2>1. UNCHANGED <<assets, relations>> BY <1>12 DEF FindRelation, stored
  <2>2. CASE IsArchived(wk.asset)
    <3>1. worker'[w] = AfterVariant(wk) /\ wk.item \in JobRow
      BY <1>0, <1>12, <1>p, <2>2 DEF FindRelation, At, TypeInv, Shape, Fit
    <3> QED BY <1>3, <1>5, <2>1, <3>1
  <2>3. CASE ~ IsArchived(wk.asset)
    <3> DEFINE first == wk.variant = SelectedVariant /\ \A r \in relations : ~ r.primary
    <3>1. worker' = [worker EXCEPT ![w] = [wk EXCEPT !.pc = "addRelation",
                                                     !.primary = first]]
      BY <1>12, <1>p, <2>3 DEF FindRelation
    <3>2. first => \A r \in relations : ~ r.primary OBVIOUS
    <3> HIDE DEF first
    <3>3. /\ worker'[w].pc = "addRelation" /\ worker'[w].asset = wk.asset
          /\ worker'[w].primary = first
      BY <1>0, <3>1 DEF Worker
    <3>4. Searching(worker[w])' BY <2>1, <2>3, <3>2, <3>3 DEF Searching, IsArchived
    <3> QED BY <1>0, <2>1, <3>4 DEF OneAssetPerVariant, ArchivedOnce
  <2> QED BY <2>2, <2>3
<1>13. CASE AddRelation(w)
  <2> DEFINE new == [asset |-> wk.asset, by |-> w, primary |-> wk.primary]
  <2>1. /\ assets' = assets /\ ~ IsArchived(wk.asset)
        /\ wk.primary => \A r \in relations : ~ r.primary
    BY <1>0, <1>13, <1>p DEF AddRelation, At, Searching
  <2>2. CASE relations' = relations \cup {new} /\ GoTo(w, "syncProduct")
    <3>1. new.asset = wk.asset /\ new.primary = wk.primary OBVIOUS
    <3> HIDE DEF new
    <3>2. ArchivedOnce' BY <1>0, <2>1, <2>2, <3>1 DEF ArchivedOnce, IsArchived
    <3>3. worker'[w].pc = "syncProduct" BY <2>2, Arrives
    <3> QED BY <1>0, <2>1, <3>2, <3>3 DEF OneAssetPerVariant, Searching
  <2>3. CASE Return(w) /\ UNCHANGED relations
    BY <1>3, <1>4, <2>1, <2>3, Arrives
  <2> QED BY <1>13, <1>p, <2>2, <2>3 DEF AddRelation
<1>14. CASE SyncProduct(w)
  <2>1. wk.item \in JobRow BY <1>14, <1>p DEF SyncProduct, At, TypeInv, Shape, Fit
  <2>2. Return(w) \/ worker'[w] = AfterVariant(wk)
    BY <1>0, <1>14, <1>p DEF SyncProduct
  <2> QED BY <1>3, <1>4, <1>5, <1>14, <2>1, <2>2, Arrives DEF SyncProduct
<1> QED
  BY <1>6, <1>7, <1>8, <1>9, <1>10, <1>11, <1>12, <1>13, <1>14
     DEF Working, Continue

LEMMA ArchiveNext ==
  ASSUME Concurrent = FALSE PROVE TypeInv /\ ArchiveInv /\ [Next]_vars => ArchiveInv'
<1> SUFFICES ASSUME TypeInv, ArchiveInv, [Next]_vars PROVE ArchiveInv' OBVIOUS
<1> USE DEF ArchiveInv, OneAtATime, At, OneAssetPerVariant, ArchivedOnce, Searching,
            AssetsOf, IsArchived
<1>1. CASE CreatorStep
  BY <1>1 DEF CreatorStep, CreateSession, Reserve, InsertJob, Dispatch, BindCharge,
     BindRuntime, UndoReservation, UndoSession, SaveCreateFailed, stored
<1>2. CASE RuntimeEnds \/ CutCreate BY <1>2 DEF RuntimeEnds, CutCreate, stored
<1>3. ASSUME NEW w \in Workers, Working(w) PROVE ArchiveInv' BY <1>3, ArchiveWorking
<1>4. CASE UNCHANGED vars BY <1>4 DEF vars
<1> QED BY <1>1, <1>2, <1>3, <1>4 DEF Next, Working

LEMMA ArchiveHolds ==
  ASSUME Concurrent = FALSE PROVE Spec => []ArchiveInv
<1>1. Init => ArchiveInv
  BY DEF Init, ArchiveInv, OneAtATime, OneAssetPerVariant, ArchivedOnce, Searching, At,
         IdleWorker
<1>2. TypeInv /\ ArchiveInv /\ [Next]_vars => ArchiveInv' BY ArchiveNext
<1> QED BY <1>1, <1>2, TypeInvHolds, PTL DEF Spec

(* Results that are delivered again, one callback after the other, reuse   *)
(* the asset of each image, although a write may have failed or a restart  *)
(* cut the earlier delivery off anywhere.                                  *)
THEOREM RedeliveryReusesAssets ==
  ASSUME Concurrent = FALSE PROVE Spec => []OneAssetPerVariant
BY ArchiveHolds, PTL DEF ArchiveInv

(* Nor do they archive an asset to the product twice, or leave it with two *)
(* primary images.                                                         *)
THEOREM RedeliveryArchivesOnce ==
  ASSUME Concurrent = FALSE PROVE Spec => []ArchivedOnce
BY ArchiveHolds, PTL DEF ArchiveInv

-----------------------------------------------------------------------------
(* The product's statuses.  As long as writes succeed, an archived image   *)
(* that the product does not show yet is in the hands of the request that  *)
(* archived it.                                                            *)

InSync  == product = SyncedWith(product, OtherRoles \cup {ResultRole})
SyncInv == relations # {} => InSync \/ \E w \in Workers : At(w, "syncProduct")

(* Deriving the statuses a second time from the same roles changes nothing.*)
LEMMA SyncedTwice ==
  ASSUME NEW p \in Product, NEW roles
  PROVE  SyncedWith(SyncedWith(p, roles), roles) = SyncedWith(p, roles)
<1> DEFINE once == SyncedWith(p, roles)
<1>1. /\ once \in Product
      /\ once.assetStatus = AssetStatusOf(roles)
      /\ once.listingStatus = p.listingStatus
      /\ once.exportStatus = p.exportStatus
      /\ once.status = MainStatusOf([p EXCEPT !.assetStatus = AssetStatusOf(roles)])
  BY SyncedType DEF SyncedWith, MainStatusOf, Product
<1>2. MainStatusOf(once) = once.status
  BY <1>1 DEF MainStatusOf, Product
<1> HIDE DEF once
<1>3. [once EXCEPT !.assetStatus = AssetStatusOf(roles)] = once
  BY <1>1 DEF Product
<1>4. [once EXCEPT !.status = MainStatusOf(once)] = once
  BY <1>1, <1>2 DEF Product
<1>5. SyncedWith(once, roles) = once
  BY <1>3, <1>4 DEF SyncedWith
<1> QED BY <1>5 DEF once

LEMMA SyncWorking ==
  ASSUME DbFaults = FALSE, Crashes = FALSE, TypeInv, SyncInv,
         NEW w \in Workers, Working(w)
  PROVE  SyncInv'
<1>1. \A v \in Workers \ {w} : worker'[v] = worker[v] BY OthersRest
<1>2. ASSUME UNCHANGED <<relations, product>>, ~ At(w, "syncProduct")
      PROVE  SyncInv'
  BY <1>1, <1>2 DEF SyncInv, InSync, At
<1>3. CASE Begin(w)
  <2>1. At(w, "idle") /\ UNCHANGED <<relations, product>>
    BY <1>3 DEF Begin, StartCancel, StartRuntimeUpdate, StartResults, Start, stored
  <2> QED BY <1>2, <2>1 DEF At
<1>4. CASE \/ Save(w) \/ ReleaseStep1(w) \/ ReleaseStep2(w) \/ CancelRuntimeJob(w)
           \/ Finalize(w) \/ Settle(w) \/ RecordCharge(w) \/ Quarantine(w)
  BY <1>2, <1>4
     DEF Save, ReleaseStep1, ReleaseStep2, CancelRuntimeJob, Finalize, Settle,
         RecordCharge, Quarantine, At, stored
<1>5. CASE FindAsset(w) \/ CreateAsset(w) \/ FindRelation(w) \/ SaveResults(w)
  BY <1>2, <1>5 DEF FindAsset, CreateAsset, FindRelation, SaveResults, At, stored
<1>6. CASE AddRelation(w)
  <2>1. GoTo(w, "syncProduct") BY <1>6 DEF AddRelation
  <2>2. worker'[w].pc = "syncProduct" BY <2>1, Arrives
  <2> QED BY <2>2 DEF SyncInv, At
<1>7. CASE SyncProduct(w)
  <2>1. product' = SyncedWith(product, ProductRoles) /\ relations' = relations
    BY <1>7 DEF SyncProduct
  <2>2. product \in Product BY DEF TypeInv, TypeOK
  <2>3. CASE relations = {} BY <2>1, <2>3 DEF SyncInv
  <2>4. CASE relations # {}
    <3>1. ProductRoles = OtherRoles \cup {ResultRole} BY <2>4 DEF ProductRoles
    <3> QED BY <2>1, <2>2, <3>1, SyncedTwice DEF SyncInv, InSync
  <2> QED BY <2>3, <2>4
<1> QED BY <1>3, <1>4, <1>5, <1>6, <1>7 DEF Working, Continue, Cut

LEMMA SyncNext ==
  ASSUME DbFaults = FALSE, Crashes = FALSE
  PROVE  TypeInv /\ SyncInv /\ [Next]_vars => SyncInv'
<1> SUFFICES ASSUME TypeInv, SyncInv, [Next]_vars PROVE SyncInv' OBVIOUS
<1> USE DEF SyncInv, InSync, At
<1>1. CASE CreatorStep
  BY <1>1 DEF CreatorStep, CreateSession, Reserve, InsertJob, Dispatch, BindCharge,
     BindRuntime, UndoReservation, UndoSession, SaveCreateFailed, stored
<1>2. CASE RuntimeEnds \/ CutCreate BY <1>2 DEF RuntimeEnds, CutCreate, stored
<1>3. ASSUME NEW w \in Workers, Working(w) PROVE SyncInv' BY <1>3, SyncWorking
<1>4. CASE UNCHANGED vars BY <1>4 DEF vars
<1> QED BY <1>1, <1>2, <1>3, <1>4 DEF Next, Working

(* Unless a write fails or a restart comes between the relation and the    *)
(* product, a product says what its archived assets say once its requests  *)
(* are over, however many callbacks archived to it at the same time: each  *)
(* derives the statuses anew, and a second derivation changes nothing.     *)
THEOREM ProductFollowsAssets ==
  ASSUME DbFaults = FALSE, Crashes = FALSE PROVE Spec => []ProductInSync
<1>1. Init => SyncInv BY DEF Init, SyncInv
<1>2. TypeInv /\ SyncInv /\ [Next]_vars => SyncInv' BY SyncNext
<1>3. SyncInv => ProductInSync
  BY DEF SyncInv, InSync, ProductInSync, Quiet, At
<1> QED BY <1>1, <1>2, <1>3, TypeInvHolds, PTL DEF Spec

-----------------------------------------------------------------------------
(* Late progress.  The status callback decides by the row it reads whether *)
(* to apply itself, and saves a copy of that row: with one request at a    *)
(* time nothing ends the job in between but the callback itself.           *)

Reporting(wk) ==
  wk.kind = "runtime" =>
    /\ wk.pc \in {"releaseReservation", "releaseSession", "save"}
    /\ runtime # "none"
    /\ row.status \in Terminal => wk.item.status = row.status

(* What CreateImageJob still writes once the platform knows the job is no  *)
(* status: it does not take the dispatch for failed.                       *)
ReportInv ==
  /\ OneAtATime
  /\ runtime # "none" => creator \in {"markReserved", "bind", "done"}
  /\ \A w \in Workers : Reporting(worker[w])

(* A request remains of its kind until it returns.                         *)
LEMMA KindKept ==
  ASSUME TypeInv, NEW w \in Workers, Continue(w) \/ Cut(w)
  PROVE  worker'[w].kind \in {worker[w].kind, "none"}
<1>p. PICK wk : wk = worker[w] OBVIOUS
<1>0. wk \in Worker /\ worker \in [Workers -> Worker]
  BY <1>p DEF TypeInv, TypeOK
<1> DEFINE Kept == worker'[w].kind \in {wk.kind, "none"}
<1>1. ASSUME Return(w) PROVE Kept BY <1>1, Arrives DEF IdleWorker
<1>2. ASSUME NEW step, GoTo(w, step) PROVE Kept BY <1>2, <1>p, Arrives
<1>3. ASSUME worker' = [worker EXCEPT ![w] = AfterVariant(wk)] PROVE Kept
  <2>1. AfterVariant(wk).kind = wk.kind BY <1>0 DEF AfterVariant, Worker
  <2> QED BY <1>0, <1>3, <2>1
<1>4. ASSUME Save(w) \/ ReleaseStep1(w) \/ ReleaseStep2(w) \/ CancelRuntimeJob(w)
      PROVE  Kept
  BY <1>1, <1>2, <1>4 DEF Save, ReleaseStep1, ReleaseStep2, CancelRuntimeJob
<1>5. ASSUME Finalize(w) \/ Settle(w) \/ RecordCharge(w) \/ Quarantine(w) \/ Cut(w)
      PROVE  Kept
  BY <1>1, <1>2, <1>5 DEF Finalize, Settle, RecordCharge, Quarantine, Cut
<1>6. ASSUME FindAsset(w) PROVE Kept
  <2>1. CASE \E a : worker' = [worker EXCEPT ![w].pc = "findRelation", ![w].asset = a]
    BY <1>0, <1>p, <2>1 DEF Worker
  <2> QED BY <1>2, <1>6, <2>1 DEF FindAsset
<1>7. ASSUME CreateAsset(w) PROVE Kept
  <2>1. CASE \E a : worker' = [worker EXCEPT ![w].pc = "findRelation", ![w].asset = a]
    BY <1>0, <1>p, <2>1 DEF Worker
  <2> QED BY <1>1, <1>7, <2>1 DEF CreateAsset
<1>8. ASSUME FindRelation(w) PROVE Kept
  <2>1. CASE \E first : worker' = [worker EXCEPT ![w].pc = "addRelation",
                                                  ![w].primary = first]
    BY <1>0, <1>p, <2>1 DEF Worker
  <2> QED BY <1>3, <1>8, <1>p, <2>1 DEF FindRelation
<1>9. ASSUME AddRelation(w) \/ SyncProduct(w) PROVE Kept
  BY <1>1, <1>2, <1>3, <1>9, <1>p DEF AddRelation, SyncProduct
<1>10. ASSUME SaveResults(w) PROVE Kept
  <2> DEFINE saved == IF wk.picked = NoAsset THEN wk.item
                      ELSE [wk.item EXCEPT !.selected = wk.picked]
             next  == [wk EXCEPT !.pc = AfterSaveStep(wk.item.status),
                                 !.item = saved, !.picked = NoAsset]
  <2>1. Return(w) \/ worker' = [worker EXCEPT ![w] = next]
    BY <1>10, <1>p DEF SaveResults
  <2> HIDE DEF saved
  <2>2. next.kind = wk.kind BY <1>0 DEF Worker
  <2> HIDE DEF next
  <2> QED BY <1>0, <1>1, <2>1, <2>2
<1> QED
  BY <1>p, <1>4, <1>5, <1>6, <1>7, <1>8, <1>9, <1>10 DEF Continue

LEMMA ReportInit == Init => ReportInv
BY DEF Init, ReportInv, Reporting, OneAtATime, At, IdleWorker

LEMMA ReportCreator ==
  ASSUME LostReplies = FALSE, TypeInv, ReportInv, CreatorStep PROVE ReportInv'
<1>1. worker' = worker
  BY DEF CreatorStep, CreateSession, Reserve, InsertJob, Dispatch, BindCharge,
         BindRuntime, UndoReservation, UndoSession, SaveCreateFailed
<1>2. OneAtATime' BY <1>1 DEF ReportInv, OneAtATime, At
<1>3. CASE BindCharge \/ BindRuntime
  <2>1. runtime' = runtime /\ creator' \in {"bind", "done"}
    BY <1>3 DEF BindCharge, BindRuntime, stored
  <2>2. row'.status = row.status
    BY <1>3 DEF BindCharge, BindRuntime, stored, TypeInv, TypeOK, Shape, JobRow
  <2> QED BY <1>1, <1>2, <2>1, <2>2 DEF ReportInv, Reporting
<1>4. CASE Dispatch
  <2>1. PICK r \in Call(runtime, "running") :
          /\ runtime' = r.state
          /\ creator' = IF r.ok THEN "markReserved" ELSE "undoReservation"
    BY <1>4 DEF Dispatch
  <2>2. runtime = "none" BY <1>4 DEF Dispatch, ReportInv
  <2>3. r.ok \/ r.state = "none" BY <2>1, <2>2 DEF Call
  <2> QED BY <1>1, <1>2, <2>1, <2>2, <2>3 DEF ReportInv, Reporting
<1>5. ASSUME creator \notin {"markReserved", "bind", "done"}, runtime' = runtime
      PROVE  ReportInv'
  BY <1>1, <1>2, <1>5 DEF ReportInv, Reporting
<1>6. CASE \/ CreateSession \/ Reserve \/ InsertJob
           \/ UndoReservation \/ UndoSession \/ SaveCreateFailed
  BY <1>5, <1>6 DEF CreateSession, Reserve, InsertJob, UndoReservation, UndoSession,
                    SaveCreateFailed, stored
<1> QED BY <1>3, <1>4, <1>6 DEF CreatorStep

LEMMA ReportWorking ==
  ASSUME Concurrent = FALSE, TypeInv, ReportInv, NEW w \in Workers, Working(w)
  PROVE  ReportInv'
<1>p. PICK wk : wk = worker[w] OBVIOUS
<1>0. wk \in Worker /\ Reporting(wk) BY <1>p DEF TypeInv, TypeOK, ReportInv
<1>1. /\ OneAtATime'
      /\ \A v \in Workers \ {w} : At(v, "idle") /\ worker'[v] = worker[v]
  BY Alone DEF ReportInv
<1>2. ASSUME creator' = creator, runtime = "none" <=> runtime' = "none",
             Reporting(worker[w])'
      PROVE  ReportInv'
  BY <1>1, <1>2 DEF ReportInv, Reporting, At
<1>3. CASE StartCancel(w) \/ StartResults(w)
  <2>1. creator' = creator /\ runtime' = runtime
    BY <1>3 DEF StartCancel, StartResults
  <2>2. worker'[w].kind # "runtime"
    <3>1. CASE StartCancel(w)
      <4>1. PICK step, item : Start(w, "cancel", step, item) BY <3>1 DEF StartCancel
      <4> QED BY <4>1, Arrives
    <3>2. CASE StartResults(w)
      <4>1. PICK step, item : Start(w, "results", step, item) BY <3>2 DEF StartResults
      <4> QED BY <4>1, Arrives
    <3> QED BY <1>3, <3>1, <3>2
  <2> QED BY <1>2, <2>1, <2>2 DEF Reporting
<1>4. CASE StartRuntimeUpdate(w)
  <2>1. PICK incoming \in RuntimeMessages :
          /\ ~ IgnoresRuntimeUpdate(row.status, incoming)
          /\ \E stage \in {row.stage, StatusAfter(incoming)} :
               Start(w, "runtime",
                     IF ReleasesCharge(StatusAfter(incoming))
                       THEN "releaseReservation" ELSE "save",
                     [row EXCEPT !.status = StatusAfter(incoming), !.stage = stage])
    BY <1>4 DEF StartRuntimeUpdate
  <2>2. PICK stage \in {row.stage, StatusAfter(incoming)} :
          Start(w, "runtime",
                IF ReleasesCharge(StatusAfter(incoming))
                  THEN "releaseReservation" ELSE "save",
                [row EXCEPT !.status = StatusAfter(incoming), !.stage = stage])
    BY <2>1
  <2>3. UNCHANGED <<row, runtime, creator>> /\ row \in JobRow
    BY <1>4 DEF StartRuntimeUpdate, stored, RowExists, TypeInv, TypeOK
  <2>4. runtime # "none" BY <2>1 DEF RuntimeMessages
  <2>5. row.status \in Terminal => StatusAfter(incoming) = row.status
    BY <2>1 DEF IgnoresRuntimeUpdate, StatusAfter
  <2>6. /\ worker'[w].pc \in {"releaseReservation", "save"}
        /\ worker'[w].item.status = StatusAfter(incoming)
    <3> DEFINE item == [row EXCEPT !.status = StatusAfter(incoming), !.stage = stage]
               step == IF ReleasesCharge(StatusAfter(incoming))
                         THEN "releaseReservation" ELSE "save"
    <3>1. item.status = StatusAfter(incoming) BY <2>3 DEF JobRow
    <3>2. Start(w, "runtime", step, item) BY <2>2
    <3>3. step \in {"releaseReservation", "save"} OBVIOUS
    <3> HIDE DEF item, step
    <3> QED BY <3>1, <3>2, <3>3, Arrives
  <2> QED BY <1>2, <2>3, <2>4, <2>5, <2>6 DEF Reporting
<1>5. CASE Continue(w) \/ Cut(w)
  <2>1. worker'[w].kind \in {wk.kind, "none"} BY <1>5, <1>p, KindKept
  <2>2. creator' = creator /\ (runtime = "none" <=> runtime' = "none")
    <3>1. CASE CancelRuntimeJob(w)
      <4>1. PICK r \in Call(runtime, IF runtime = "running" THEN "canceled"
                                     ELSE runtime) : runtime' = r.state
        BY <3>1 DEF CancelRuntimeJob
      <4>2. runtime' \in {runtime, IF runtime = "running" THEN "canceled" ELSE runtime}
        BY <4>1, CallOutcome
      <4> QED BY <3>1, <4>2 DEF CancelRuntimeJob
    <3>2. CASE ~ CancelRuntimeJob(w)
      BY <1>5, <3>2
         DEF Continue, Cut, Save, ReleaseStep1, ReleaseStep2, FindAsset, CreateAsset,
             FindRelation, AddRelation, SyncProduct, SaveResults, Finalize, Settle,
             RecordCharge, Quarantine
    <3> QED BY <3>1, <3>2
  <2>3. CASE wk.kind # "runtime" BY <1>2, <2>1, <2>2, <2>3 DEF Reporting
  <2>4. CASE wk.kind = "runtime"
    <3>1. /\ wk.pc \in {"releaseReservation", "releaseSession", "save"}
          /\ runtime # "none"
          /\ row.status \in Terminal => wk.item.status = row.status
      BY <1>0, <2>4 DEF Reporting
    <3>2. CASE Return(w)
      <4>1. worker'[w].kind # "runtime" BY <3>2, Arrives DEF IdleWorker
      <4> QED BY <1>2, <2>2, <4>1 DEF Reporting
    <3>3. CASE ReleaseStep1(w) \/ ReleaseStep2(w)
      <4>1. row' = row BY <3>3 DEF ReleaseStep1, ReleaseStep2, stored
      <4>2. PICK step \in {"releaseSession", "save"} : GoTo(w, step)
        BY <3>3, <1>p, <2>4 DEF ReleaseStep1, ReleaseStep2
      <4>3. worker'[w].pc = step /\ worker'[w].item = wk.item
        BY <4>2, <1>p, Arrives
      <4> QED BY <1>2, <2>2, <3>1, <4>1, <4>3 DEF Reporting
    <3> QED
      BY <1>5, <1>p, <3>1, <3>2, <3>3
         DEF Continue, Cut, Save, CancelRuntimeJob, FindAsset, CreateAsset,
             FindRelation, AddRelation, SyncProduct, SaveResults, Finalize, Settle,
             RecordCharge, Quarantine, At
  <2> QED BY <2>3, <2>4
<1> QED BY <1>3, <1>4, <1>5 DEF Working, Begin

LEMMA ReportNext ==
  ASSUME Concurrent = FALSE, LostReplies = FALSE
  PROVE  TypeInv /\ ReportInv /\ [Next]_vars => ReportInv'
<1> SUFFICES ASSUME TypeInv, ReportInv, [Next]_vars PROVE ReportInv' OBVIOUS
<1>1. CASE CreatorStep BY <1>1, ReportCreator
<1>2. CASE RuntimeEnds
  BY <1>2 DEF RuntimeEnds, Verdicts, ReportInv, Reporting, OneAtATime, At, stored
<1>3. CASE CutCreate
  BY <1>3 DEF CutCreate, ReportInv, Reporting, OneAtATime, At, stored
<1>4. ASSUME NEW w \in Workers, Working(w) PROVE ReportInv' BY <1>4, ReportWorking
<1>5. CASE UNCHANGED vars BY <1>5 DEF vars, ReportInv, Reporting, OneAtATime, At
<1> QED BY <1>1, <1>2, <1>3, <1>4, <1>5 DEF Next, Working

(* A callback that is at work on a job that is over saves the status the   *)
(* row has.                                                                *)
LEMMA ReportStep ==
  ASSUME TypeInv, ReportInv, [Next]_vars, NEW w \in Workers,
         worker[w].kind = "runtime", row.status \in Terminal, worker'[w] # worker[w]
  PROVE  row'.status = row.status
<1>1. /\ worker[w].pc \in {"releaseReservation", "releaseSession", "save"}
      /\ worker[w].item.status = row.status
  BY DEF ReportInv, Reporting
<1>2. Working(w)
  <2>1. ~ UNCHANGED worker OBVIOUS
  <2>2. PICK v \in Workers : Working(v)
    BY <2>1
       DEF Next, vars, CreatorStep, CreateSession, Reserve, InsertJob, Dispatch,
           BindCharge, BindRuntime, UndoReservation, UndoSession, SaveCreateFailed,
           RuntimeEnds, CutCreate, Working
  <2> QED BY <2>2, OthersRest
<1>3. ~ Begin(w)
  BY <1>1 DEF Begin, StartCancel, StartRuntimeUpdate, StartResults, Start, At
<1>4. Save(w) \/ UNCHANGED row
  BY <1>1, <1>2, <1>3
     DEF Working, Continue, Cut, ReleaseStep1, ReleaseStep2, CancelRuntimeJob,
         FindAsset, CreateAsset, FindRelation, AddRelation, SyncProduct, SaveResults,
         Finalize, Settle, RecordCharge, Quarantine, At, stored
<1> QED BY <1>1, <1>4 DEF Save

(* With one request at a time and no lost reply, a status callback leaves  *)
(* the status of a job that is over as it is, whatever writes fail and     *)
(* wherever a restart cuts requests off.                                   *)
THEOREM LateProgressIsIgnored ==
  ASSUME Concurrent = FALSE, LostReplies = FALSE PROVE Spec => ProgressKeepsTerminal
<1> DEFINE Kept == \A w \in Workers :
                     /\ worker[w].kind = "runtime"
                     /\ row.status \in Terminal
                     /\ worker'[w] # worker[w]
                     => row'.status = row.status
<1>1. TypeInv /\ ReportInv /\ [Next]_vars => [Kept]_vars BY ReportStep
<1>2. TypeInv /\ ReportInv /\ [Next]_vars => ReportInv' BY ReportNext
<1> QED BY <1>1, <1>2, TypeInvHolds, ReportInit, PTL DEF Spec, ProgressKeepsTerminal

-----------------------------------------------------------------------------
(* What a job offers.  With one request at a time, and results only with a *)
(* verdict, an image is selected by a request that goes on to commit the   *)
(* charge and takes the image back if it cannot.                           *)

Metered(item) == item.selected # NoAsset => charge.metered

Offering(wk) ==
  /\ wk.pc \notin {"finalize", "quarantine"} => Metered(wk.item)
  /\ wk.pc \in ResultsLoop => wk.item.status = "completed"
  /\ wk.pc = "saveResults" => wk.picked = NoAsset \/ wk.item.status = "completed"
  /\ wk.pc \in {"settle", "recordCharge"} => charge.metered

OfferInv ==
  /\ OneAtATime
  /\ Metered(row) \/ \E w \in Workers : worker[w].pc \in {"finalize", "quarantine"}
  /\ \A w \in Workers : Offering(worker[w])

LEMMA OfferIdle == Offering(IdleWorker)
BY DEF Offering, Metered, IdleWorker, NoRow, ResultsLoop

(* The loop over the images keeps its copy of the row.                     *)
LEMMA LoopKeeps ==
  ASSUME TypeInv, NEW w \in Workers,
         FindAsset(w) \/ CreateAsset(w) \/ FindRelation(w) \/ AddRelation(w) \/ SyncProduct(w)
  PROVE  /\ worker[w].pc \in ResultsLoop /\ UNCHANGED <<row, charge>>
         /\ \/ worker'[w] = IdleWorker
            \/ /\ worker'[w].pc \in ResultsLoop \cup {"saveResults"}
               /\ worker'[w].item = worker[w].item
<1>p. PICK wk : wk = worker[w] OBVIOUS
<1>0. wk \in Worker /\ worker \in [Workers -> Worker] /\ Fit(wk)
  BY <1>p DEF TypeInv, TypeOK, Shape
<1>1. wk.pc \in ResultsLoop /\ UNCHANGED <<row, charge>>
  BY <1>p DEF FindAsset, CreateAsset, FindRelation, AddRelation, SyncProduct, At,
              ResultsLoop, stored
<1> DEFINE Kept == \/ worker'[w] = IdleWorker
                   \/ /\ worker'[w].pc \in ResultsLoop \cup {"saveResults"}
                      /\ worker'[w].item = wk.item
<1>2. ASSUME NEW step \in ResultsLoop, GoTo(w, step) PROVE Kept
  BY <1>2, <1>p, Arrives
<1>3. ASSUME Return(w) PROVE Kept BY <1>3, Arrives
<1>4. ASSUME worker' = [worker EXCEPT ![w] = AfterVariant(wk)] PROVE Kept
  <2>1. wk.item \in JobRow BY <1>0, <1>1 DEF Fit, ResultsLoop
  <2> QED BY <1>0, <1>4, <2>1, AfterVariantFits DEF ResultsLoop
<1>5. CASE FindAsset(w) \/ CreateAsset(w)
  <2>1. ASSUME NEW a, worker' = [worker EXCEPT ![w].pc = "findRelation", ![w].asset = a]
        PROVE  Kept
    BY <1>0, <1>p, <2>1 DEF Worker, ResultsLoop
  <2>2. "createAsset" \in ResultsLoop BY DEF ResultsLoop
  <2> QED BY <1>1, <1>2, <1>3, <1>5, <1>p, <2>1, <2>2 DEF FindAsset, CreateAsset
<1>6. CASE FindRelation(w)
  <2>1. ASSUME NEW first, worker' = [worker EXCEPT ![w].pc = "addRelation",
                                                   ![w].primary = first]
        PROVE  Kept
    BY <1>0, <1>p, <2>1 DEF Worker, ResultsLoop
  <2> QED BY <1>1, <1>4, <1>6, <1>p, <2>1 DEF FindRelation
<1>7. CASE AddRelation(w)
  <2>1. "syncProduct" \in ResultsLoop BY DEF ResultsLoop
  <2> QED BY <1>1, <1>2, <1>3, <1>7, <1>p, <2>1 DEF AddRelation
<1>8. CASE SyncProduct(w) BY <1>1, <1>3, <1>4, <1>8, <1>p DEF SyncProduct
<1> QED BY <1>5, <1>6, <1>7, <1>8

LEMMA OfferBegin ==
  ASSUME ProgressResults = FALSE, TypeInv, NEW w \in Workers, Begin(w), Metered(row)
  PROVE  /\ UNCHANGED <<row, charge>>
         /\ Offering(worker[w])'
<1>1. UNCHANGED <<row, charge>>
  BY DEF Begin, StartCancel, StartRuntimeUpdate, StartResults, stored
<1>2. row \in JobRow
  BY DEF Begin, StartCancel, StartRuntimeUpdate, StartResults, RowExists, TypeInv,
         TypeOK
<1>i. \A status, stage : LET item == [row EXCEPT !.status = status, !.stage = stage]
                       IN  item.status = status /\ item.selected = row.selected
  BY <1>2 DEF JobRow
<1>3. ASSUME NEW kind, NEW step, NEW item, Start(w, kind, step, item),
             item.selected = row.selected,
             \/ step \in {"cancelRuntime", "save", "releaseReservation", "saveResults"}
             \/ step = "findAsset" /\ item.status = "completed"
      PROVE  Offering(worker[w])'
  <2>1. /\ worker'[w].pc = step
        /\ worker'[w].item = item
        /\ worker'[w].picked = NoAsset
    BY <1>3, Arrives
  <2> QED BY <1>1, <1>3, <2>1 DEF Offering, Metered, ResultsLoop
<1>4. CASE StartCancel(w)
  <2> DEFINE step == IF row.bound THEN "cancelRuntime" ELSE "save"
             item == [row EXCEPT !.status = "canceled", !.stage = "canceled"]
  <2>1. Start(w, "cancel", step, item) BY <1>4 DEF StartCancel
  <2>2. item.selected = row.selected BY <1>i
  <2>3. step \in {"cancelRuntime", "save"} OBVIOUS
  <2> HIDE DEF step, item
  <2> QED BY <1>1, <1>3, <2>1, <2>2, <2>3
<1>5. CASE StartRuntimeUpdate(w)
  <2>1. PICK incoming, stage :
          Start(w, "runtime",
                IF ReleasesCharge(StatusAfter(incoming))
                  THEN "releaseReservation" ELSE "save",
                [row EXCEPT !.status = StatusAfter(incoming), !.stage = stage])
    BY <1>5 DEF StartRuntimeUpdate
  <2> DEFINE step == IF ReleasesCharge(StatusAfter(incoming))
                       THEN "releaseReservation" ELSE "save"
             item == [row EXCEPT !.status = StatusAfter(incoming), !.stage = stage]
  <2>2. Start(w, "runtime", step, item) BY <2>1
  <2>3. item.selected = row.selected BY <1>i
  <2>4. step \in {"releaseReservation", "save"} OBVIOUS
  <2> HIDE DEF step, item
  <2> QED BY <1>1, <1>3, <2>2, <2>3, <2>4
<1>6. CASE StartResults(w)
  <2>1. PICK status \in ResultsMessages :
          Start(w, "results", FirstResultsStep(status),
                [row EXCEPT !.status = status, !.stage = ResultStage(status)])
    BY <1>6 DEF StartResults
  <2> DEFINE item == [row EXCEPT !.status = status, !.stage = ResultStage(status)]
  <2>2. Start(w, "results", FirstResultsStep(status), item) BY <2>1
  <2>3. item.status = status /\ item.selected = row.selected BY <1>i
  <2> HIDE DEF item
  <2>4. status # "processing" BY <2>1 DEF ResultsMessages, Terminal
  <2>5. \/ FirstResultsStep(status) = "saveResults"
        \/ FirstResultsStep(status) = "findAsset" /\ status = "completed"
    BY <2>4 DEF FirstResultsStep
  <2> QED BY <1>1, <1>3, <2>2, <2>3, <2>5
<1> QED BY <1>1, <1>4, <1>5, <1>6 DEF Begin

LEMMA OfferWorking ==
  ASSUME Concurrent = FALSE, ProgressResults = FALSE, DbFaults = FALSE,
         Crashes = FALSE, TypeInv, OfferInv, NEW w \in Workers, Working(w)
  PROVE  OfferInv'
<1>p. PICK wk : wk = worker[w] OBVIOUS
<1>0. /\ wk \in Worker /\ worker \in [Workers -> Worker] /\ charge \in Charge
      /\ Offering(wk) /\ \A v \in Workers : Offering(worker[v])
  BY <1>p DEF TypeInv, TypeOK, OfferInv
<1>1. /\ OneAtATime'
      /\ \A v \in Workers \ {w} : At(v, "idle") /\ worker'[v] = worker[v]
  BY Alone DEF OfferInv
<1>2. wk.pc \notin {"finalize", "quarantine"} => Metered(row)
  BY <1>1, <1>p DEF OfferInv, At
<1>3. ASSUME charge.metered => charge'.metered,
             Metered(row)' \/ worker'[w].pc \in {"finalize", "quarantine"},
             Offering(worker[w])'
      PROVE  OfferInv'
  <2>1. ASSUME NEW v \in Workers \ {w} PROVE Offering(worker[v])'
    BY <1>0, <1>1, <1>3, <2>1 DEF Offering, Metered, ResultsLoop, At
  <2> QED BY <1>1, <1>3, <2>1 DEF OfferInv
<1>4. ASSUME charge.metered => charge'.metered, Metered(row)',
             worker'[w] = IdleWorker
      PROVE  OfferInv'
  <2>1. Offering(worker[w])'
    BY <1>4 DEF Offering, Metered, IdleWorker, NoRow, ResultsLoop
  <2> QED BY <1>3, <1>4, <2>1
<1>5. CASE Begin(w)
  <2>1. wk.pc = "idle"
    BY <1>5, <1>p DEF Begin, StartCancel, StartRuntimeUpdate, StartResults, Start, At
  <2>2. Metered(row) BY <1>2, <2>1
  <2> QED BY <1>3, <1>5, <2>2, OfferBegin DEF Metered
<1>6. CASE Save(w)
  <2>1. /\ wk.pc = "save" /\ row' = wk.item /\ charge' = charge
        /\ worker'[w] = IdleWorker
    BY <1>6, <1>p, Arrives DEF Save, At, DbResults
  <2> QED BY <1>0, <1>4, <2>1 DEF Offering, Metered
<1>7. CASE ReleaseStep1(w) \/ ReleaseStep2(w) \/ CancelRuntimeJob(w)
  <2>1. wk.pc \notin {"finalize", "quarantine"} /\ row' = row
    BY <1>7, <1>p DEF ReleaseStep1, ReleaseStep2, CancelRuntimeJob, At, stored
  <2>2. charge'.metered = charge.metered
    <3>1. CASE ReleaseStep1(w) BY <1>0, <3>1, ChargeMetered DEF ReleaseStep1
    <3>2. CASE ReleaseStep2(w) BY <1>0, <3>2, ChargeMetered DEF ReleaseStep2
    <3>3. CASE CancelRuntimeJob(w) BY <3>3 DEF CancelRuntimeJob
    <3> QED BY <1>7, <3>1, <3>2, <3>3
  <2>3. Metered(row)' BY <1>2, <2>1, <2>2 DEF Metered
  <2>4. Return(w) \/ \E step \in {"releaseSession", "save"} : GoTo(w, step)
    BY <1>7 DEF ReleaseStep1, ReleaseStep2, CancelRuntimeJob
  <2>5. CASE Return(w) BY <1>4, <2>2, <2>3, <2>5, Arrives
  <2>6. ASSUME NEW step \in {"releaseSession", "save"}, GoTo(w, step) PROVE OfferInv'
    <3>1. worker'[w].pc = step /\ worker'[w].item = wk.item
      BY <1>p, <2>6, Arrives
    <3>2. Offering(worker[w])'
      BY <1>0, <2>1, <2>2, <2>6, <3>1 DEF Offering, Metered, ResultsLoop
    <3> QED BY <1>3, <2>2, <2>3, <3>2
  <2> QED BY <2>4, <2>5, <2>6
<1>8. CASE \/ FindAsset(w) \/ CreateAsset(w) \/ FindRelation(w) \/ AddRelation(w)
           \/ SyncProduct(w)
  <2>1. /\ wk.pc \in ResultsLoop /\ UNCHANGED <<row, charge>>
        /\ \/ worker'[w] = IdleWorker
           \/ /\ worker'[w].pc \in ResultsLoop \cup {"saveResults"}
              /\ worker'[w].item = wk.item
    BY <1>8, <1>p, LoopKeeps
  <2>2. Metered(row)' BY <1>2, <2>1 DEF Metered, ResultsLoop
  <2>3. CASE worker'[w] = IdleWorker BY <1>4, <2>1, <2>2, <2>3
  <2>4. CASE worker'[w] # IdleWorker
    <3>1. Offering(worker[w])'
      BY <1>0, <2>1, <2>4 DEF Offering, Metered, ResultsLoop
    <3> QED BY <1>3, <2>1, <2>2, <3>1
  <2> QED BY <2>3, <2>4
<1>9. CASE SaveResults(w)
  <2> DEFINE saved == IF wk.picked = NoAsset THEN wk.item
                      ELSE [wk.item EXCEPT !.selected = wk.picked]
             next  == [wk EXCEPT !.pc = AfterSaveStep(wk.item.status),
                                 !.item = saved, !.picked = NoAsset]
  <2>1. wk.pc = "saveResults" /\ charge' = charge BY <1>9, <1>p DEF SaveResults, At
  <2>2. row' = saved /\ worker' = [worker EXCEPT ![w] = next]
    BY <1>9, <1>p DEF SaveResults
  <2>3. worker'[w] = next BY <1>0, <2>2
  <2>4. /\ next.pc = AfterSaveStep(wk.item.status)
        /\ next.item = saved
    <3> HIDE DEF saved
    <3> QED BY <1>0 DEF Worker
  <2> HIDE DEF next
  <2>5. CASE wk.item.status = "completed"
    <3>1. worker'[w].pc = "finalize" BY <2>3, <2>4, <2>5 DEF AfterSaveStep
    <3>2. Offering(worker[w])' BY <3>1 DEF Offering, ResultsLoop
    <3> QED BY <1>3, <2>1, <3>1, <3>2
  <2>6. CASE wk.item.status # "completed"
    <3>1. saved = wk.item /\ Metered(wk.item)
      BY <1>0, <2>1, <2>6 DEF Offering
    <3> HIDE DEF saved
    <3>2. worker'[w].pc = "releaseReservation" /\ worker'[w].item = wk.item
      BY <2>3, <2>4, <2>6, <3>1 DEF AfterSaveStep
    <3>3. Metered(row)' BY <2>1, <2>2, <3>1 DEF Metered
    <3>4. Offering(worker[w])'
      BY <2>1, <3>1, <3>2 DEF Offering, Metered, ResultsLoop
    <3> QED BY <1>3, <2>1, <3>3, <3>4
  <2> QED BY <2>5, <2>6
<1>10. CASE Finalize(w)
  <2>1. PICK r \in FinalizeMetering(charge) :
          charge' = r.state /\ GoTo(w, AfterFinalizeStep(r.ok))
    BY <1>10 DEF Finalize
  <2>2. charge.metered \/ r.ok => charge'.metered BY <1>0, <2>1, ChargeMetered
  <2>3. worker'[w].pc = AfterFinalizeStep(r.ok) BY <2>1, Arrives
  <2>4. CASE r.ok
    <3>1. worker'[w].pc = "settle" BY <2>3, <2>4 DEF AfterFinalizeStep
    <3>2. Offering(worker[w])' /\ Metered(row)'
      BY <2>2, <2>4, <3>1 DEF Offering, Metered, ResultsLoop
    <3> QED BY <1>3, <2>2, <3>2
  <2>5. CASE ~ r.ok
    <3>1. worker'[w].pc = "quarantine" BY <2>3, <2>5 DEF AfterFinalizeStep
    <3>2. Offering(worker[w])' BY <3>1 DEF Offering, ResultsLoop
    <3> QED BY <1>3, <2>2, <3>1, <3>2
  <2> QED BY <2>4, <2>5
<1>11. CASE Settle(w)
  <2>1. PICK r \in UpdateChargeSession(charge, "settled") :
          charge' = r.state /\ GoTo(w, IF r.ok THEN "recordCharge" ELSE "quarantine")
    BY <1>11 DEF Settle
  <2>2. charge'.metered
    BY <1>0, <1>11, <1>p, <2>1, ChargeMetered DEF Settle, At, Offering
  <2>3. worker'[w].pc \in {"recordCharge", "quarantine"} BY <2>1, Arrives
  <2>4. Offering(worker[w])' /\ Metered(row)'
    BY <2>2, <2>3 DEF Offering, Metered, ResultsLoop
  <2> QED BY <1>3, <2>2, <2>4
<1>12. CASE RecordCharge(w)
  <2>1. worker'[w] = IdleWorker /\ charge' = charge
    BY <1>12, Arrives DEF RecordCharge
  <2>2. charge.metered BY <1>0, <1>12, <1>p DEF RecordCharge, At, Offering
  <2> QED BY <1>4, <2>1, <2>2 DEF Metered
<1>13. CASE Quarantine(w)
  <2>1. worker'[w] = IdleWorker /\ charge' = charge /\ row' = QuarantinedRow(wk.item)
    BY <1>13, <1>p, Arrives DEF Quarantine, DbResults
  <2>2. wk.item \in JobRow
    BY <1>13, <1>p DEF Quarantine, At, TypeInv, Shape, Fit
  <2>3. QuarantinedRow(wk.item).selected = NoAsset
    BY <2>2 DEF QuarantinedRow, JobRow
  <2> QED BY <1>4, <2>1, <2>3 DEF Metered
<1> QED
  BY <1>5, <1>6, <1>7, <1>8, <1>9, <1>10, <1>11, <1>12, <1>13
     DEF Working, Continue, Cut

LEMMA OfferCreator ==
  ASSUME TypeInv, OfferInv, CreatorStep PROVE OfferInv'
<1>1. worker' = worker
  BY DEF CreatorStep, CreateSession, Reserve, InsertJob, Dispatch, BindCharge,
         BindRuntime, UndoReservation, UndoSession, SaveCreateFailed
<1>2. OneAtATime' BY <1>1 DEF OfferInv, OneAtATime, At
<1>3. row'.selected \in {row.selected, NoAsset}
  <2>1. QueuedRow.selected = NoAsset /\ CreateFailedRow.selected = NoAsset
    BY DEF QueuedRow, CreateFailedRow
  <2>2. [row EXCEPT !.bound = TRUE].selected = row.selected
    BY DEF TypeInv, TypeOK, JobRow, NoRow
  <2> QED
    BY <2>1, <2>2
       DEF CreatorStep, CreateSession, Reserve, InsertJob, Dispatch, BindCharge,
           BindRuntime, UndoReservation, UndoSession, SaveCreateFailed, stored
<1>4. charge'.metered = charge.metered
  <2>0. charge \in Charge BY DEF TypeInv, TypeOK
  <2>1. CASE CreateSession BY <2>0, <2>1, ChargeMetered DEF CreateSession
  <2>2. CASE Reserve BY <2>0, <2>2, ChargeMetered DEF Reserve
  <2>3. CASE BindCharge BY <2>0, <2>3, ChargeMetered DEF BindCharge
  <2>4. CASE UndoReservation BY <2>0, <2>4, ChargeMetered DEF UndoReservation
  <2>5. CASE UndoSession BY <2>0, <2>5, ChargeMetered DEF UndoSession
  <2>6. CASE InsertJob \/ Dispatch \/ BindRuntime \/ SaveCreateFailed
    BY <2>6 DEF InsertJob, Dispatch, BindRuntime, SaveCreateFailed
  <2> QED BY <2>1, <2>2, <2>3, <2>4, <2>5, <2>6 DEF CreatorStep
<1> QED BY <1>1, <1>2, <1>3, <1>4 DEF OfferInv, Offering, Metered

LEMMA OfferNext ==
  ASSUME Concurrent = FALSE, ProgressResults = FALSE, DbFaults = FALSE, Crashes = FALSE
  PROVE  TypeInv /\ OfferInv /\ [Next]_vars => OfferInv'
<1> SUFFICES ASSUME TypeInv, OfferInv, [Next]_vars PROVE OfferInv' OBVIOUS
<1>1. CASE CreatorStep BY <1>1, OfferCreator
<1>2. CASE RuntimeEnds
  BY <1>2 DEF RuntimeEnds, OfferInv, Offering, Metered, OneAtATime, At, stored
<1>3. CASE CutCreate BY <1>3 DEF CutCreate
<1>4. ASSUME NEW w \in Workers, Working(w) PROVE OfferInv' BY <1>4, OfferWorking
<1>5. CASE UNCHANGED vars
  BY <1>5 DEF vars, OfferInv, Offering, Metered, OneAtATime, At
<1> QED BY <1>1, <1>2, <1>3, <1>4, <1>5 DEF Next, Working

(* With one request at a time, no failing write and no restart, and        *)
(* results only with a verdict, a job that is at rest offers an image as   *)
(* its completed result only if its metering was finalized, although any   *)
(* reply of the platform may have been lost.                               *)
THEOREM OffersAreMetered ==
  ASSUME Concurrent = FALSE, ProgressResults = FALSE, DbFaults = FALSE, Crashes = FALSE
  PROVE  Spec => []OfferedIsMetered
<1>1. Init => OfferInv
  <2> SUFFICES ASSUME Init PROVE OfferInv OBVIOUS
  <2>1. \A w \in Workers : worker[w] = IdleWorker BY DEF Init
  <2>2. Metered(row) BY DEF Init, Metered, NoRow
  <2> QED BY <2>1, <2>2, AloneInit, OfferIdle DEF OfferInv
<1>2. TypeInv /\ OfferInv /\ [Next]_vars => OfferInv' BY OfferNext
<1>3. OfferInv => OfferedIsMetered
  BY DEF OfferInv, OfferedIsMetered, Metered, Quiet, At
<1> QED BY <1>1, <1>2, <1>3, TypeInvHolds, PTL DEF Spec

=============================================================================
