------------------------------ MODULE ImageJob ------------------------------
(***************************************************************************)
(* The life of one image job: internal/modules/imageruntime with the       *)
(* billing gate it calls and the platform runtime that calls it back.      *)
(*                                                                         *)
(* CreateImageJob opens a charge, stores the job row, asks the platform to *)
(* run the job and then binds the platform's job to the row.  From the     *)
(* moment the platform knows the job its callbacks may arrive, so they     *)
(* overlap the rest of CreateImageJob and one another, come late, come     *)
(* twice and come out of order.  The user may cancel at any time.          *)
(* An asset and a relation are known by the request that stored them.      *)
(*                                                                         *)
(* There is no lock and no transaction: a handler reads the whole row,     *)
(* makes remote calls, and writes the whole row back.  Each worker is one  *)
(* request in progress; "item" is the copy of the row it works on.         *)
(* Requests for different jobs share no row but the product's, so one job  *)
(* is modelled; the product is there as far as this job writes it.         *)
(***************************************************************************)
EXTENDS Naturals, FiniteSets, BillingGate, ProductStatus

CONSTANTS
  Workers,          \* requests that may be in progress at the same time
  NumVariants,      \* images the platform delivers with a completed result
  SelectedVariant,  \* the one the platform marks is_selected
  ResultRole,       \* asset role of this job's scene type
  OtherRoles,       \* roles of the assets the product has already
  InitialProduct,   \* the product row before the job
  NoAsset,          \* the empty selected_result_asset_id
  Concurrent,       \* may a request start while another is in progress?
  ProgressResults,  \* may a results callback carry status "processing"?
  DbFaults,         \* may a database write fail?
  Crashes           \* may a request be cut off between two steps?

Variants == 1 .. NumVariants
Assets   == [variant : Variants, by : Workers]

ASSUME ImageJobAssumption ==
  /\ NumVariants \in Nat \ {0}
  /\ SelectedVariant \in Variants
  /\ ResultRole \in AssetRoles
  /\ OtherRoles \subseteq AssetRoles
  /\ InitialProduct \in Product
  /\ NoAsset \notin Assets
  /\ {Concurrent, ProgressResults, DbFaults, Crashes} \subseteq BOOLEAN

VARIABLES
  row,        \* the row of ecommerce_image_jobs
  assets,     \* result assets stored for the job
  relations,  \* relations that archive result assets to the product
  product,    \* the product row
  charge,     \* the platform's charge of this job, see BillingGate
  billed,     \* does a BillingChargeRecord with event evt_<job> exist?
  runtime,    \* the platform's runtime job
  creator,    \* where the CreateImageJob request is
  worker      \* the callbacks and cancellations in progress

stored == <<row, assets, relations, product, billed>>
vars   == <<row, assets, relations, product, charge, billed, runtime, creator,
            worker>>

-----------------------------------------------------------------------------

Terminal   == {"completed", "failed", "canceled"}
Verdicts   == {"completed", "failed"}
Statuses   == {"queued", "processing"} \cup Terminal
Stages     == Statuses \cup {"provider_completed", "runtime_create_failed",
                             "metering_failed"}
RuntimeStatuses == {"none", "running"} \cup Terminal

JobRow == [status   : Statuses,
           stage    : Stages,
           selected : Assets \cup {NoAsset},
           bound    : BOOLEAN]

(* The row before CreateJob; no handler finds it. *)
NoRow == [status |-> "absent", stage |-> "absent", selected |-> NoAsset,
          bound |-> FALSE]

QueuedRow == [status |-> "queued", stage |-> "queued", selected |-> NoAsset,
              bound |-> FALSE]

CreateFailedRow ==
  [QueuedRow EXCEPT !.status = "failed", !.stage = "runtime_create_failed"]

Relations == [asset : Assets, by : Workers, primary : BOOLEAN]

CreatorSteps == {"createSession", "reserve", "insert", "dispatch",
                 "markReserved", "bind", "undoReservation", "undoSession",
                 "saveFailed", "done"}

WorkerSteps == {"idle", "cancelRuntime", "findAsset", "createAsset",
                "findRelation", "addRelation", "syncProduct", "save",
                "saveResults", "finalize", "settle", "recordCharge",
                "quarantine", "releaseReservation", "releaseSession"}

IdleWorker == [pc |-> "idle", kind |-> "none", item |-> NoRow, variant |-> 1,
               asset |-> NoAsset, primary |-> FALSE, picked |-> NoAsset]

Worker == [pc      : WorkerSteps,
           kind    : {"none", "cancel", "runtime", "results"},
           item    : JobRow \cup {NoRow},
           variant : Variants,
           asset   : Assets \cup {NoAsset},
           primary : BOOLEAN,
           picked  : Assets \cup {NoAsset}]

RowExists  == row # NoRow
DbResults  == IF DbFaults THEN BOOLEAN ELSE {TRUE}

Init ==
  /\ row = NoRow
  /\ assets = {}
  /\ relations = {}
  /\ product = InitialProduct
  /\ charge = NoCharge
  /\ billed = FALSE
  /\ runtime = "none"
  /\ creator = "createSession"
  /\ worker = [w \in Workers |-> IdleWorker]

-----------------------------------------------------------------------------
(* Mistakes the handlers could make, each in the place of one decision     *)
(* below.  The specification uses none of them; a property that survives   *)
(* the exchange would say nothing about the decision.                      *)

(* late and stale status callbacks are applied *)
AppliesEveryUpdate(current, incoming) == FALSE

(* every status that ends the job gives the reservation back *)
ReleasesOnEveryEnd(status) == status \in Terminal

(* the row is completed before the images are stored *)
SavesBeforeImages(status) == "saveResults"

(* the existing asset of a variant is not looked for *)
FindsNoAsset(variant) == {}

(* the existing relation is not looked for; an image counts as archived *)
NeverArchived(asset)  == FALSE
AlwaysArchived(asset) == TRUE

(* the loop over the images runs one too far *)
LoopsTooFar(state) ==
  IF state.variant > NumVariants
  THEN [state EXCEPT !.pc = "saveResults", !.variant = 1]
  ELSE [state EXCEPT !.pc = "findAsset", !.variant = @ + 1]

(* the product's status is derived from the new image alone *)
RolesOfThisJob == IF relations = {} THEN {} ELSE {ResultRole}

(* a failed finalization is taken for a finished one *)
IgnoresFinalizeError(ok) == "settle"

(* a failed commit is noted but the image stays selected *)
KeepsSelection(item) ==
  [item EXCEPT !.status = "failed", !.stage = "metering_failed"]

-----------------------------------------------------------------------------
(* CreateImageJob.  Its early validations change nothing and are left out. *)

CreateSession ==
  /\ creator = "createSession"
  /\ \E r \in CreateChargeSession(charge) :
       /\ charge' = r.state
       /\ creator' = IF r.ok THEN "reserve" ELSE "done"
  /\ UNCHANGED <<stored, runtime, worker>>

Reserve ==
  /\ creator = "reserve"
  /\ \E r \in ReserveResources(charge) :
       /\ charge' = r.state
       /\ creator' = IF r.ok THEN "insert" ELSE "done"
  /\ UNCHANGED <<stored, runtime, worker>>

(* CreateJob.  When the insert fails the charge is not released. *)
InsertJob ==
  /\ creator = "insert"
  /\ \E ok \in DbResults :
       /\ row' = IF ok THEN QueuedRow ELSE row
       /\ creator' = IF ok THEN "dispatch" ELSE "done"
  /\ UNCHANGED <<assets, relations, product, charge, billed, runtime, worker>>

Dispatch ==
  /\ creator = "dispatch"
  /\ \E r \in Call(runtime, "running") :
       /\ runtime' = r.state
       /\ creator' = IF r.ok THEN "markReserved" ELSE "undoReservation"
  /\ UNCHANGED <<stored, charge, worker>>

(* The reply named the runtime job.  The charge session is told that it is *)
(* reserved, which may come after a callback settled or released it.       *)
BindCharge ==
  /\ creator = "markReserved"
  /\ \E r \in UpdateChargeSession(charge, "reserved") : charge' = r.state
  /\ creator' = "bind"
  /\ UNCHANGED <<stored, runtime, worker>>

(* UpdateJobRuntimeBinding writes the binding columns only. *)
BindRuntime ==
  /\ creator = "bind"
  /\ \E ok \in DbResults : row' = IF ok THEN [row EXCEPT !.bound = TRUE] ELSE row
  /\ creator' = "done"
  /\ UNCHANGED <<assets, relations, product, charge, billed, runtime, worker>>

UndoReservation ==
  /\ creator = "undoReservation"
  /\ \E r \in ReleaseReservation(charge) : charge' = r.state
  /\ creator' = "undoSession"
  /\ UNCHANGED <<stored, runtime, worker>>

UndoSession ==
  /\ creator = "undoSession"
  /\ \E r \in UpdateChargeSession(charge, "released") : charge' = r.state
  /\ creator' = "saveFailed"
  /\ UNCHANGED <<stored, runtime, worker>>

(* The row that is saved is the one this request inserted, not the one the *)
(* table holds by now.                                                     *)
SaveCreateFailed ==
  /\ creator = "saveFailed"
  /\ \E ok \in DbResults : row' = IF ok THEN CreateFailedRow ELSE row
  /\ creator' = "done"
  /\ UNCHANGED <<assets, relations, product, charge, billed, runtime, worker>>

CreatorStep ==
  \/ CreateSession \/ Reserve \/ InsertJob \/ Dispatch
  \/ BindCharge \/ BindRuntime
  \/ UndoReservation \/ UndoSession \/ SaveCreateFailed

-----------------------------------------------------------------------------
(* The platform: it decides once how a runtime job ends. *)

RuntimeEnds ==
  /\ runtime = "running"
  /\ runtime' \in Verdicts
  /\ UNCHANGED <<stored, charge, creator, worker>>

-----------------------------------------------------------------------------
(* What every request in progress does: go on, or answer its caller. *)

GoTo(w, step) == worker' = [worker EXCEPT ![w].pc = step]
Return(w)     == worker' = [worker EXCEPT ![w] = IdleWorker]
At(w, step)   == worker[w].pc = step

(* CreateImageJob may overlap any request; "Concurrent" is about the rest. *)
MayStart == Concurrent \/ \A v \in Workers : At(v, "idle")

Start(w, kind, step, item) ==
  /\ At(w, "idle")
  /\ MayStart
  /\ worker' = [worker EXCEPT ![w] = [IdleWorker EXCEPT !.pc   = step,
                                                        !.kind = kind,
                                                        !.item = item]]

(* SaveJob: the whole row becomes this request's copy of it. *)
Save(w) ==
  /\ At(w, "save")
  /\ \E ok \in DbResults : row' = IF ok THEN worker[w].item ELSE row
  /\ Return(w)
  /\ UNCHANGED <<assets, relations, product, charge, billed, runtime, creator>>

(* Release, used by two handlers: both of its errors are discarded. *)
ReleaseStep1(w) ==
  /\ At(w, "releaseReservation")
  /\ \E r \in ReleaseReservation(charge) : charge' = r.state
  /\ GoTo(w, "releaseSession")
  /\ UNCHANGED <<stored, runtime, creator>>

ReleaseStep2(w) ==
  /\ At(w, "releaseSession")
  /\ \E r \in UpdateChargeSession(charge, "released") : charge' = r.state
  /\ IF worker[w].kind = "runtime" THEN GoTo(w, "save") ELSE Return(w)
  /\ UNCHANGED <<stored, runtime, creator>>

-----------------------------------------------------------------------------
(* CancelJob.  A job that is over is returned as it is. *)

CanBeCanceled(status) == status \notin Terminal

StartCancel(w) ==
  /\ RowExists
  /\ CanBeCanceled(row.status)
  /\ Start(w, "cancel", IF row.bound THEN "cancelRuntime" ELSE "save",
           [row EXCEPT !.status = "canceled", !.stage = "canceled"])
  /\ UNCHANGED <<stored, charge, runtime, creator>>

(* Whatever the platform answers, the row is saved next. *)
CancelRuntimeJob(w) ==
  /\ At(w, "cancelRuntime")
  /\ \E r \in Call(runtime, IF runtime = "running" THEN "canceled" ELSE runtime) :
       runtime' = r.state
  /\ GoTo(w, "save")
  /\ UNCHANGED <<stored, charge, creator>>

-----------------------------------------------------------------------------
(* UpdateJobRuntime, the status callback. *)

(* Progress, with or without a status, can be delivered at any time after  *)
(* the platform knows the job; the verdict once there is one.              *)
RuntimeMessages ==
  IF runtime = "none" THEN {}
  ELSE {"", "processing"} \cup ({runtime} \cap Terminal)

IgnoresRuntimeUpdate(current, incoming) ==
  current \in Terminal /\ incoming # current

ReleasesCharge(status) == status = "failed"

(* A progress message without a status keeps the one the row has. *)
StatusAfter(incoming) == IF incoming = "" THEN row.status ELSE incoming

StartRuntimeUpdate(w) ==
  /\ RowExists
  /\ \E incoming \in RuntimeMessages :
       /\ ~ IgnoresRuntimeUpdate(row.status, incoming)
       /\ \E stage \in {row.stage, StatusAfter(incoming)} :
            Start(w, "runtime",
                  IF ReleasesCharge(StatusAfter(incoming))
                    THEN "releaseReservation" ELSE "save",
                  [row EXCEPT !.status = StatusAfter(incoming), !.stage = stage])
  /\ UNCHANGED <<stored, charge, runtime, creator>>

-----------------------------------------------------------------------------
(* RecordJobResults, the results callback. *)

ResultsMessages ==
  ({runtime} \cap Terminal)
    \cup (IF ProgressResults /\ runtime # "none" THEN {"processing"} ELSE {})

ResultStage(status) ==
  IF status = "processing" THEN "provider_completed" ELSE status

(* Images come with a completed result and with one still in progress. *)
FirstResultsStep(status) ==
  IF status \in {"completed", "processing"} THEN "findAsset" ELSE "saveResults"

StartResults(w) ==
  /\ RowExists
  /\ \E status \in ResultsMessages :
       Start(w, "results", FirstResultsStep(status),
             [row EXCEPT !.status = status, !.stage = ResultStage(status)])
  /\ UNCHANGED <<stored, charge, runtime, creator>>

(* findOrCreateResultAsset looks for the asset of this job and variant ... *)
AssetsOf(variant) == {a \in assets : a.variant = variant}

FindAsset(w) ==
  /\ At(w, "findAsset")
  /\ LET found == AssetsOf(worker[w].variant)
     IN  IF found = {}
         THEN GoTo(w, "createAsset")
         ELSE \E a \in found :
                worker' = [worker EXCEPT ![w].pc = "findRelation",
                                         ![w].asset = a]
  /\ UNCHANGED <<stored, charge, runtime, creator>>

(* ... and stores a new one if it found none. *)
CreateAsset(w) ==
  /\ At(w, "createAsset")
  /\ LET new == [variant |-> worker[w].variant, by |-> w]
     IN  \/ /\ assets' = assets \cup {new}
            /\ worker' = [worker EXCEPT ![w].pc = "findRelation",
                                        ![w].asset = new]
         \/ /\ DbFaults
            /\ Return(w)
            /\ UNCHANGED assets
  /\ UNCHANGED <<row, relations, product, charge, billed, runtime, creator>>

(* The loop body is over: remember the asset if it is the one to select.   *)
AfterVariant(state) ==
  LET done == [state EXCEPT !.asset = NoAsset, !.primary = FALSE,
                            !.picked = IF state.variant = SelectedVariant
                                       THEN state.asset ELSE @]
  IN  IF state.variant = NumVariants
      THEN [done EXCEPT !.pc = "saveResults", !.variant = 1]
      ELSE [done EXCEPT !.pc = "findAsset", !.variant = @ + 1]

(* archiveGeneratedAssetToProduct.  An asset that is archived already is   *)
(* left alone, and so is the product's status.                             *)
IsArchived(asset) == \E r \in relations : r.asset = asset

FindRelation(w) ==
  /\ At(w, "findRelation")
  /\ IF IsArchived(worker[w].asset)
     THEN worker' = [worker EXCEPT ![w] = AfterVariant(worker[w])]
     ELSE worker' = [worker EXCEPT
            ![w].pc = "addRelation",
            ![w].primary = /\ worker[w].variant = SelectedVariant
                           /\ \A r \in relations : ~ r.primary]
  /\ UNCHANGED <<stored, charge, runtime, creator>>

AddRelation(w) ==
  /\ At(w, "addRelation")
  /\ \/ /\ relations' = relations \cup {[asset   |-> worker[w].asset, by |-> w,
                                         primary |-> worker[w].primary]}
        /\ GoTo(w, "syncProduct")
     \/ /\ DbFaults
        /\ Return(w)
        /\ UNCHANGED relations
  /\ UNCHANGED <<row, assets, product, charge, billed, runtime, creator>>

(* syncProductStatuses.  All the job's images have one role, so it makes   *)
(* no difference when between the read and the write others are archived.  *)
ProductRoles ==
  OtherRoles \cup (IF relations = {} THEN {} ELSE {ResultRole})

SyncProduct(w) ==
  /\ At(w, "syncProduct")
  /\ \/ /\ product' = SyncedWith(product, ProductRoles)
        /\ worker' = [worker EXCEPT ![w] = AfterVariant(worker[w])]
     \/ /\ DbFaults
        /\ Return(w)
        /\ UNCHANGED product
  /\ UNCHANGED <<row, assets, relations, charge, billed, runtime, creator>>

(* SaveJob, then finalizeChargeForJob: commit what is completed, release   *)
(* the charge in every other case.                                         *)
AfterSaveStep(status) ==
  IF status = "completed" THEN "finalize" ELSE "releaseReservation"

SaveResults(w) ==
  LET item  == worker[w].item
      saved == IF worker[w].picked = NoAsset THEN item
               ELSE [item EXCEPT !.selected = worker[w].picked]
  IN  /\ At(w, "saveResults")
      /\ \/ /\ row' = saved
            /\ worker' = [worker EXCEPT ![w].pc = AfterSaveStep(item.status),
                                        ![w].item = saved,
                                        ![w].picked = NoAsset]
         \/ /\ DbFaults
            /\ Return(w)
            /\ UNCHANGED row
      /\ UNCHANGED <<assets, relations, product, charge, billed, runtime, creator>>

(* Commit: finalize the metering, then settle the session. *)
AfterFinalizeStep(ok) == IF ok THEN "settle" ELSE "quarantine"

Finalize(w) ==
  /\ At(w, "finalize")
  /\ \E r \in FinalizeMetering(charge) :
       /\ charge' = r.state
       /\ GoTo(w, AfterFinalizeStep(r.ok))
  /\ UNCHANGED <<stored, runtime, creator>>

Settle(w) ==
  /\ At(w, "settle")
  /\ \E r \in UpdateChargeSession(charge, "settled") :
       /\ charge' = r.state
       /\ GoTo(w, IF r.ok THEN "recordCharge" ELSE "quarantine")
  /\ UNCHANGED <<stored, runtime, creator>>

(* persistBillingCharge; its error is discarded.  A second record of the   *)
(* same event is refused by the unique index.                              *)
RecordCharge(w) ==
  /\ At(w, "recordCharge")
  /\ \E ok \in DbResults : billed' = (billed \/ ok)
  /\ Return(w)
  /\ UNCHANGED <<row, assets, relations, product, charge, runtime, creator>>

(* The commit failed: the job fails and its image is taken back.           *)
QuarantinedRow(item) ==
  [item EXCEPT !.status = "failed", !.stage = "metering_failed",
               !.selected = NoAsset]

Quarantine(w) ==
  /\ At(w, "quarantine")
  /\ \E ok \in DbResults :
       row' = IF ok THEN QuarantinedRow(worker[w].item) ELSE row
  /\ Return(w)
  /\ UNCHANGED <<assets, relations, product, charge, billed, runtime, creator>>

-----------------------------------------------------------------------------
(* The service restarts or a connection drops: requests end where they     *)
(* are, and nothing takes them up again.                                   *)

Cut(w) ==
  /\ Crashes
  /\ ~ At(w, "idle")
  /\ Return(w)
  /\ UNCHANGED <<stored, charge, runtime, creator>>

CutCreate ==
  /\ Crashes
  /\ creator # "done"
  /\ creator' = "done"
  /\ UNCHANGED <<stored, charge, runtime, worker>>

Begin(w) == StartCancel(w) \/ StartRuntimeUpdate(w) \/ StartResults(w)

Continue(w) ==
  \/ Save(w) \/ ReleaseStep1(w) \/ ReleaseStep2(w) \/ CancelRuntimeJob(w)
  \/ FindAsset(w) \/ CreateAsset(w) \/ FindRelation(w) \/ AddRelation(w)
  \/ SyncProduct(w) \/ SaveResults(w) \/ Finalize(w) \/ Settle(w)
  \/ RecordCharge(w) \/ Quarantine(w)

Next ==
  \/ CreatorStep
  \/ RuntimeEnds
  \/ CutCreate
  \/ \E w \in Workers : Begin(w) \/ Continue(w) \/ Cut(w)

Spec == Init /\ [][Next]_vars

(* The platform delivers results again until they are accepted, that is at *)
(* least as long as the job is not over; a request in progress goes on.    *)
Redeliver(w) == row.status \notin Terminal /\ StartResults(w)

FairSpec ==
  /\ Spec
  /\ \A w \in Workers : WF_vars(Continue(w)) /\ SF_vars(Redeliver(w))

-----------------------------------------------------------------------------
(* Every variable has its type: in particular a stored selection names a   *)
(* result asset and a request never works on a row of another shape.       *)
TypeOK ==
  /\ row \in JobRow \cup {NoRow}
  /\ assets \subseteq Assets
  /\ relations \subseteq Relations
  /\ product \in Product
  /\ charge \in Charge
  /\ billed \in BOOLEAN
  /\ runtime \in RuntimeStatuses
  /\ creator \in CreatorSteps
  /\ worker \in [Workers -> Worker]

VariantArchived(v) == \E r \in relations : r.asset.variant = v

(* Nothing is metered before it is delivered: when the platform has        *)
(* finalized the metering of the job, every variant of the result is an    *)
(* asset that is archived to the product, whatever was interleaved,        *)
(* repeated, lost or cut off on the way.                                   *)
MeteredAfterDelivery ==
  charge.metered => \A v \in Variants : VariantArchived(v)

(* A billing charge record is backed by finalized metering.                *)
RecordIsBacked == billed => charge.metered

(* A row that says that its metering failed is failed and offers no image, *)
(* although every handler writes whole rows it read earlier and status     *)
(* callbacks may repeat "failed" with another stage.                       *)
QuarantineHolds ==
  row.stage = "metering_failed" => row.status = "failed" /\ row.selected = NoAsset

(* The image a job offers is in the product's library.                     *)
SelectionIsArchived ==
  row.selected # NoAsset => \E r \in relations : r.asset = row.selected

(* What was metered is not given back as well: the reservation of a        *)
(* metered job was not released.                                           *)
NeverMeteredAndReleased ==
  ~ (charge.metered /\ charge.reservation = "released")

(* Redelivered results reuse the asset of the variant they carry.          *)
OneAssetPerVariant ==
  \A a, b \in assets : a.variant = b.variant => a = b

(* One archive relation per asset, and at most one primary one.            *)
ArchivedOnce ==
  \A r, s \in relations : (r.asset = s.asset \/ (r.primary /\ s.primary)) => r = s

(* A status callback, however late, leaves the status of a job that is     *)
(* over as it is: "late provider progress" must not overwrite a result.    *)
ProgressKeepsTerminal ==
  [][\A w \in Workers :
       /\ worker[w].kind = "runtime"
       /\ row.status \in Terminal
       /\ worker'[w] # worker[w]
       => row'.status = row.status]_vars

(* CreateImageJob does not overwrite what a callback made of the job.      *)
CreateKeepsTerminal ==
  [][row.status \in Terminal /\ creator' # creator => row'.status = row.status]_vars

Quiet == creator = "done" /\ \A w \in Workers : At(w, "idle")

(* Once no request is in progress, a job offers an image as its completed  *)
(* result only if its metering was finalized: a failed commit closes it.   *)
OfferedIsMetered ==
  Quiet /\ row.status = "completed" /\ row.selected # NoAsset => charge.metered

(* Once no request is in progress, the product's asset and main status say *)
(* what the assets archived to it say.                                     *)
ProductInSync ==
  Quiet /\ relations # {} =>
    product = SyncedWith(product, OtherRoles \cup {ResultRole})

(* Once the platform's job is over, so is the image job, for good: no late *)
(* progress brings it back and no sequence of refused calls keeps it open. *)
JobGetsOver == runtime \in Terminal ~> [](row.status \in Terminal)

=============================================================================
