# Verification of the e-commerce backend

This directory holds TLA+ models of the service in `src/`, the TLC runs that
check them on small instances, and TLAPS proofs of the results that matter most
for instances of every size. `PROJECT.json` lists components, runs, mutants,
hazards and theorems, and maps each definition to the lines it translates.

## 1. The system

The service is a Go backend (gin, gorm, one SQL database) for merchants who
manage products, have images and listing texts generated, and export them. It
executes nothing expensive itself: a *platform* reached over HTTP runs the
generation jobs and keeps wallets, quota, charge sessions, metering and the
channel ledger, and calls the service back with progress and results.

Three habits of the code shape everything that can go wrong:

* **No transaction and no lock around a request.** A handler reads a row,
  makes remote calls, and writes the *whole* row back (`gorm.Save`). Handlers of
  the same row overlap freely.
* **One attempt per remote call** (`platform/client_part2.go:226`). An error may
  mean "refused", "timed out" or "done, but the answer was lost".
* **Errors of compensating steps are discarded** (releases, quarantine, the
  billing record, the outbox row).

### 1.1 Components

| component | state | operations that change it | hard behaviour | what makes it correct |
|---|---|---|---|---|
| image runtime (`modules/imageruntime`) | image job row, result assets, archive relations, the product's status columns | create, cancel, status callback, results callback | callbacks overlap each other and the create request, come late and twice; the commit of the charge comes after delivery | results reuse assets; nothing is metered undelivered, nothing is offered unmetered; late progress changes nothing; every job gets over |
| billing gate (`billinggate`) | none; drives the platform's charge session, reservation and metering | Begin, MarkReserved, Commit, Release | every call may fail or be lost, in any order with its counterpart | metered and released exclude each other |
| product center (`modules/productcore`) | products, asset relations, listing versions, export tasks and packages | CRUD, adoption, governance, exports, billing of listings and exports | statuses derived from several tables, whole-row saves, deletion next to everything else | statuses agree with the tables; one adopted version; published only from export-ready |
| commercial orders (`modules/commercial`) | orders, payments, fulfillments | create order, confirm payment | debit and grants without idempotency keys, failures half way, overlapping confirmations | paid once, granted in full once, final |
| billing records and outbox (`modules/billing`) | charge records, event outbox | record, refund, replay | remote report between two saves of one record; rows left in work | no report lost, rows closed only when booked, refunds kept |
| visual workflow (`modules/visualworkflow`) | source references, deconstruction jobs, elements, the user's decisions, intent and image plan, and the generation versions, all of them in one JSON column of the session | add and archive sources, deconstruct, retry, callbacks, decide, fuse, plan, generate, retry, select, write back, save as template, and the view of it all | callbacks come late and twice; a request for a version rewrites a column others wrote meanwhile; an order to the platform may have been accepted although its answer was lost | nobody waits for a job that was never started; the stored prompt is the prompt of this plan; what was dropped is not asked for; generated on a reservation; every block is explained |
| template center (`modules/templatecenter`) | templates, texts, versions, favorites, uses, private copies | seeding at every boot, edits by operations, favorite, use, copy, the local and the platform's catalog | boots of older and newer releases over rows of others; the platform answers one time and not the next | listed means usable; a boot leaves the rest alone; both catalogs filter alike |
| prompt center (`modules/promptcenter`) | prompt runs | preview a prompt, store the prompt of an image plan | templates change under a stored run | a run quotes a version that exists |
| promotion, commission, wallet | promotion codes, attribution attempts | ensure code, track signup; otherwise forwarded | create-if-absent races | one code per owner |
| workspace, audit | audit log | appended after the fact | none that decides anything | - |
| auth, authz, access, middleware | none | - | stateless | - |
| router, app, config, migration, storage, telemetry, `pkg/*` | none of their own | start-up wiring and I/O | - | - |

### 1.2 How they interact

`imageruntime` and `productcore` call `billinggate`, which calls the platform;
`imageruntime` writes the products of `productcore` and the charge records of
`billing`; `commercial` and `billing` call the platform directly. The platform
calls back into `imageruntime`, whose handler passes callbacks of other source
types to `visualworkflow`. `visualworkflow` orders deconstructions, intents and
pictures from the platform, the last through `billinggate`; it stores the prompt
of a plan in `promptcenter` and writes a chosen picture to the asset relations of
`productcore`. `templatecenter` asks the platform for its catalog first and falls
back to the local one; `promptcenter` reads the local one only. Everything meets
in the database, and nowhere else.

## 2. The modules

| module | models | notes |
|---|---|---|
| `RemoteCall` | one platform call as its caller sees it | `LostReplies` says whether an error may hide an effect |
| `BillingGate` (extends `RemoteCall`) | the gate and the platform's charge | operators from a charge to the set of outcomes; the callers are the actors |
| `ProductStatus` | the status rules of products | shared by the image job and the product center |
| `ImageJob` (extends `BillingGate`, `ProductStatus`) | one image job from creation to its end | composes job, charge, product and platform |
| `CommercialOrder` (extends `RemoteCall`) | orders of one organization for one package | |
| `Purchase` | what buying promises, abstractly | implemented by `CommercialOrder` (`Promise!Spec`) |
| `BillingOutbox` (extends `RemoteCall`) | one billing event with its outbox rows | |
| `ProductCenter` (extends `BillingGate`, `ProductStatus`) | one product with its asset relations, listing versions and export tasks | composes the rows with the charge of each creation |
| `RuntimeStatus` | how the three parts of the visual workflow read the runtime's status words | pure operators |
| `VisualRows` | source references and elements | the rows the next three share |
| `Preparation` (extends `VisualRows`) | what the deconstruction promises, abstractly | implemented by `VisualDeconstruction`, built on by `VisualPlanning` |
| `VisualDeconstruction` (extends `VisualRows`, `RemoteCall`, `RuntimeStatus`) | sources, deconstruction jobs, runtime jobs, elements | |
| `PromptComposer` | from selections and facts to the image plan | pure operators |
| `StageView` (extends `PromptComposer`) | readiness, blockers, flow, release verdict and rollback of a session | pure operators over the rows |
| `VisualPlanning` (extends `Preparation`, `RemoteCall`, `StageView`) | decisions, intent, plan and its prompt run | its steps compose with those of `Preparation` |
| `VisualGeneration` (extends `RuntimeStatus`, `BillingGate`) | versions, their charge and runtime jobs, selection and writeback | composes column, charge, platform and relations |
| `CatalogFilter` | the filters of both catalogs | pure operators |
| `TemplateCenter` (extends `CatalogFilter`) | catalog, seeding, users' marks and copies, prompt runs of previews | |
| `MC...` | structured constants and symmetry for TLC | |
| `..._proofs` | theorems | extend the model and `TLAPS` |

### How state and actions correspond to the code

A table row is a record of the columns some decision looks at; the table of
which only one row matters is that record, with a value for "absent". A request
in progress is a record with a program counter `pc` and its private copy of the
row (`item` or `copy`), which is exactly the Go struct the handler holds. **One
action is one access to shared state**: a database call or a remote call, with
the computation up to the next one. So every interleaving of handlers the
database permits is a behaviour.

`Call(before, after)` is the set of outcomes of a platform call: done and
answered, not done and an error, and with `LostReplies` done and an error.
`DbFaults` lets every database write fail, `Crashes` lets a request end at any
point (a restart, a dropped connection); nothing takes it up again.

*ImageJob.* `creator` is the one `CreateImageJob` request; `worker[w]` the
callbacks and cancellations in progress, of which any number may start one
after the other. `runtime` is the platform's job; once it is known callbacks
may arrive (`RuntimeMessages`, `ResultsMessages`), as often as they like. What a
handler does first (validation, prompt compilation) reads only and is left out.
An asset's identity is its variant and the request that stored it, so a
duplicate is visible. Metadata, progress figures and messages are left out: no
guard reads them, except the charge identifiers, which the row has from the
insert on.

*CommercialOrder.* Ledger entries, payments, grants and fulfillments are named
by order and confirmation, so doing a thing twice gives two elements. The
wallet's balance is not kept: a refusal is an outcome of `Call`.

*BillingOutbox.* Records of different events share no state, so one event is
modelled, with any number of `RecordCharge`, `RefundCharge` and `ReplayOutbox`
requests. The reported set is the platform's channel ledger, which is keyed by
event, so a repeated report is the same element. `Messages` are named by the
request that owes them.

*ProductCenter.* A table is a function from the stored ids to the columns that
decide something, so inserting, saving and deleting rows are `Save` and
`Delete`. A request record says which operation runs, where it is (`pc`), and
what it read: the product row (`copy`), the relation it will save (`linked`), the
listing versions (`versions`). The two derived statuses at the end of most
requests are one shared sequence, `ReadProduct` to `SaveMain`; each of its steps
can meet a row another request has changed, or a product that is gone, which a
save brings back. The charge of a request that is over cannot change any more
and is dropped. A batch creation is its single operation once per item
(`BatchCreateListingVersions`); a batch adoption looks for the product first and
is then an adoption; an edit of a version (`UpdateListingVersion`) needs the
version to be stored and creates another.

*VisualDeconstruction.* `job` are the stored jobs, `runtime` the platform's jobs
with the job that owns them, `element` what deliveries stored. Only
`CreateDeconstructionJob` is split into its steps, `request[w]` with the copy of
the job it will save; every other handler is one atomic step, whose choices of
failing database calls (`Failing`) stand for the ways it may end. The constant
`Overlapping` names the handlers that may run while a request for a job is in
progress; the others wait until it is over. A
delivery replaces the elements of its job as a whole, and is numbered, so what a
delivery brought is told apart from what an earlier one did.

*VisualPlanning.* The deconstruction appears as `Preparation`: any step it
allows may happen between two steps of the user. The composed text is abstracted
to what it asks for, slot by slot; the functions of `PromptComposer` decide it
from the selections and the elements. `StageView` is evaluated in every state
for every answer the platform's capability check may give.

*VisualGeneration.* `version` is the column. A request for versions,
`request[w]`, reads it, reserves, orders the runtime job, writes what it read back
with the version added, and starts again for the next version of a fan-out; a
callback, `callback[c]`, reads and writes under the row lock that callbacks alone
take. Selection, writeback and edits are one step each. `charge` belongs to the
version as ordered, also when its row was never stored or was overwritten.

*TemplateCenter.* A template is its catalog row; its texts and versions are
tables of their own, as in the code. Which release boots is an open choice, so
upgrades and rollbacks are both behaviours. The platform's catalog (`offered`)
changes as it likes. Every request is one step; a boot is one transaction and so
is its step.

Above every set of actions stands a section of *mistakes*: operators of the same
shape as one decision below, wrong in a way a careless edit could make it. The
specifications use none of them. Exchanging one for the other shows that the
property named with it in `PROJECT.json` (`mutants`) really depends on the code.

## 3. What is checked

The image, order, outbox and visual runs switch deadlock checking off: every
request ends, the numbers of rows are bounded, and a system without requests
rests. `product_serial` and `catalog` check it: an edit can always start and a
boot always happen, so a deadlock would be a request that is stuck. The type
invariants are in no run: they are proved, for every instance.

| run | instance | what it shows |
|---|---|---|
| `image_serial` | 2 workers, one at a time, 2 variants, write failures, restarts, results while still processing | redelivered results reuse assets and relations; at most one primary; late status callbacks change nothing (serially) |
| `image_concurrent` | 2 workers, 1 variant, lost replies | metering only after delivery; records backed; quarantine holds; the selection is archived |
| `image_closed` | 1 worker, 2 variants, no faults but refused calls, fair | `JobGetsOver`; a quiet completed job is metered; the product is in sync; metered is never released |
| `order_concurrent` | 1 order, 3 confirmations, 2 policies, every fault | payments are debited, quota is paid for, fulfilled is paid and granted in full, paid is never undone |
| `order_exact` | 2 orders, 3 confirmations, one at a time, no faults | refinement of `Purchase` |
| `outbox_faults` | 2 records, 1 refund, 2 replayers, every fault | closed rows were booked; one queued charge per event |
| `outbox_drains` | 2 records, 1 refund, 1 replayer, lost replies, fair | no report is lost, and every queued report is booked in the end |
| `product_serial` | 1 worker, 2 relations, assets and listings, 1 export, every operation, lost replies, database errors | one adopted version, one primary asset; the listing status agrees with the versions; what counts as exported has an export task; metered rows are stored, successful creations billed; an adopted version is not deleted |
| `visual_deconstruct` | 2 requests, 2 sources, 2 jobs, 2 deliveries, with and without a key of the client's, lost replies, failing lookups, inserts and manifests | a job that names a runtime job has one of its own; nobody waits for a job never started; refinement of `Preparation` |
| `visual_plan` | 2 sources, 1 job, 2 deliveries, two facts that compete for a slot, decisions, fixed answers, client plans, failing refreshes and saves | the stored prompt is that of the plan and was made from the rows of the moment; what is dropped is not asked for; what blocks is shown |
| `visual_generate` | 1 request, 2 callbacks, 2 versions, fan-outs of 2, a client key, failing saves and stores | a runtime job runs on a held reservation; a picture written back is stored and the product's, which has one primary picture at most; callbacks only add pictures made for the version |
| `catalog` | 2 templates, 2 releases, 1 user, 2 contents, 1 copy, 1 prompt, every filter field | what is listed can be opened, used, copied and compiled; boots leave others' rows alone; both catalogs filter alike |

**Bounds.** Two overlapping handlers are enough for every race of the form
"read, other writes, write back", which is the only form this code has; a third
confirmation lets a retry follow a race. Two variants exercise the loop over
variants with a failure between them; a third repeats the second. The request
counters are bounded by the sets of identities; image-job workers are reusable,
so the number of callbacks is not bounded at all.
The product center's workers and ids are reusable too: an id is new again once no
row and no request has it. Two listing versions make an adoption replace another
and a deletion leave one; two relations make one lose its primary mark to the
other; two roles reach every asset status. `product_serial` lets the database
fail at the steps whose errors the code reports (`MCReportingSteps`). The code drops
the errors of a demotion and of the derived statuses: with those among the failing
steps a status simply stays as it was, and `OneAdopted` and
`ListingReadyIffAdopted` do not hold.

The visual and catalog runs take at most two and a half minutes (0.2 to 2.4 million
states). In `visual_deconstruct` two jobs, one with a key and one without, and two
deliveries make a retry, a late and a repeated delivery meet; two requests with
the same key are the race the unique index settles. In `visual_plan` one job
suffices because elements of other jobs differ only in the job they name, which
the composer does not look at; the two facts on one slot are the case in which it
has to choose. `visual_generate` lets one request for versions overlap two
callbacks and selections; `CallbacksOnlyAdd` has the one request as its condition
(`Cardinality(Workers) = 1`). Overlapping requests are covered by the theorems
`JobsAreReserved` and `WritebacksAreKept`, which have no such condition. In `catalog` the second release changes
one template and drops the other; a third release repeats one of the two.
`WaitingIsRunning` takes the save of a job after its dispatch to succeed:
`"saveJob"` is not among the failing steps.

**Fairness.** `ImageJob!FairSpec`: a request in progress goes on (Go runs its
goroutines: weak fairness of `Continue`), and the platform delivers results
again until the job is over (strong fairness of `Redeliver`; the handler answers
errors with a status that makes the platform retry, see
`modules/imageruntime/handler.go:413`). Status callbacks and cancellations are
under no fairness. `BillingOutbox!FairSpec`: the replay endpoint keeps being
called and its requests go on; the listing, ordered by age, comes to every row
(strong fairness per row); and the platform does not refuse one message for
ever. The visual workflow and the catalogs state no liveness: after a lost reply
or a lost callback nothing in the code asks again, a user has to.

### Statements that fail

Each of these is written in its module and fails with the constants given
(fault constants not named are `FALSE`, `Failing` not named is empty). None is
part of a passing run at these constants; to see one, give TLC a configuration
of the module with them and the statement as its only property.

| statement | constants | scenario |
|---|---|---|
| `ProgressKeepsTerminal` | 2 workers, 1 variant, `Concurrent` | progress read the row before the result was saved (serially, `imageruntime/handler_part2_test.go:201` says it is kept) |
| `CreateKeepsTerminal` | 1 worker, `LostReplies` | dispatch took effect, its reply was lost, `saveFailed` comes after a callback |
| `CreateKeepsTerminal` | 2 workers, `Concurrent` | the job is canceled before its dispatch is refused, and `saveFailed` writes over that |
| `OneAssetPerVariant` | 2 workers | two deliveries both find no asset |
| `OfferedIsMetered` | 2 workers | a stale completed row is written over a failed job whose charge was released |
| `OfferedIsMetered` | 2 workers, one at a time, `ProgressResults` | results that say "processing" select an image and end with a release of the charge; then a status callback completes the job, and nothing meters it |
| `DebitedOnce` | 1 order, 2 confirmations, `Concurrent` | both find no payment (serially, `commercial/handler_test.go:105` says the second is refused) |
| `GrantedOnce` | 2 policies, 2 confirmations, nothing else | the second grant is refused, the retry grants the first again |
| `OneSubscription` | 2 orders | both created before either is confirmed |
| `FulfilledIsFinal` | `Concurrent` | a confirmation that fails late writes `fulfillment_failed` over `fulfilled` |
| `RefundIsKept` | `Concurrent`, 1 record, 1 refund, 1 replayer | a charge report saves the record as it was before the refund |
| `AdoptedIsKept` | 2 workers, 1 relation, asset and export, 2 listings, every operation, `Concurrent` | a version is adopted, then deleted by a request that read it as a draft (`docs/BACKEND_GUIDE.md:186`) |
| `OneAdopted` | as `AdoptedIsKept` | two adoptions, neither sees the other's version as adopted |
| `ListingReadyIffAdopted` | as `AdoptedIsKept` | an edit saves the product with the listing status it read before an adoption |
| `ExportIsBacked` | as `AdoptedIsKept` | a late save brings a deleted product back without its exports |
| `MeteredIsStored` | as `AdoptedIsKept` | the product is deleted while one of its creations is being charged |
| `WaitingIsRunning` | `visual_deconstruct` with `"saveJob"` failing | the dispatch was refused, and the save that would mark the job blocked fails |
| `RunsOnReservation` | `visual_generate` with `LostReplies` | a dispatch took effect, its reply was lost, and the reservation is released |
| `CallbacksOnlyAdd`, without its condition | `visual_generate` with 2 workers, 1 caller, 3 versions, fan-outs of 1, no client keys, nothing failing | a stale write of one request takes a picture out of the column, a callback reads it so, another request's write brings the picture back, and the callback's write takes it out again |

## 4. What is proved

Proved by TLAPS for every number of workers, variants, orders, confirmations,
policies, requests, replayers and callbacks, and for every setting of the fault
constants unless an assumption is named. "One at a time" below is the assumption
`Concurrent = FALSE`: any number of requests, none overlapping another. Where it is
needed, the table of statements that fail shows what happens without it.

**`ImageJob_proofs`.** For any overlap and every fault: `TypeCorrect`,
`MeteringFollowsDelivery`, `RecordsAreBacked`, `QuarantineIsKept`,
`SelectionsAreArchived`, and `MeteredOrReleased` under `LostReplies = FALSE`. The
invariant says, for each step of a results handler, what it has already archived:
every variant before the one in work, and all of them from `saveResults` on; and of
every private copy of the row what holds of the row itself, because any copy may
become the row. Assets and relations only grow, so these facts survive the steps of
others. For `MeteredOrReleased` it adds that a handler about to release works for a
runtime job that did not complete, and that the verdict never changes.

| theorem | assumes | inductive invariant |
|---|---|---|
| `RedeliveryReusesAssets`, `RedeliveryArchivesOnce` | one at a time | `ArchiveInv`: who is about to create an asset or a relation has found none, and a mark it will set is the first |
| `ProductFollowsAssets` | `DbFaults`, `Crashes` both `FALSE`, any overlap | `SyncInv`: while the product does not show an archived image, some handler is at `SyncProduct`; deriving the statuses twice changes nothing (`SyncedTwice`) |
| `LateProgressIsIgnored` | one at a time, no lost reply | `ReportInv`: a status callback holds a copy of the row as it is, and once a runtime job exists the creator no longer writes a failure over the row |
| `OffersAreMetered` | one at a time, `DbFaults`, `Crashes`, `ProgressResults` all `FALSE`; replies may be lost | `OfferInv`: a row or a copy that selects an image is metered, or in the hands of the handler that will meter or quarantine it |

**`CommercialOrder_proofs`.** For any overlap and every fault: `OrderTypeCorrect`,
`PaymentsHaveDebits`, `QuotaHasPayment`, `FulfilledHasAll`, `PaymentIsFinal`.
Debits, payments, grants and fulfillments only grow, so what a confirmation knows at
its program counter (`RequestInv`) is stable; a copy past `savePaid` says paid, so no
save can undo it. `FulfilledStays` needs one at a time only: by `OpenInv` whoever may
still write an order row works for an order that is not fulfilled.
`OrdersAreDebitedOnce` and `OrdersKeepPromise` assume `Undisturbed`: one at a time, no
lost reply, no failing write, no restart, for the debit and the grants have no
idempotency key. `DebitInv` ties the debits of an order to its payment: one, or one
more at the step between the two; `GrantInv` does the same for grants and
fulfillments. `OrdersKeepPromise` is the refinement of `Purchase`: its mapping counts
debits and grants, so each step is shown to add one element to one of the sets (a
step of `Purchase`) or to leave them (a stutter). It assumes at most one policy per
package: with two, a refused second grant leaves the first, which a later
confirmation makes again.

**`BillingOutbox_proofs`.** For any overlap and every fault: `OutboxTypeCorrect`,
`ClosedRowsAreReported`, `OneChargeIsQueued`; `NoReportIsLost` under
`DbFaults = FALSE` and `Crashes = FALSE`; and `RefundsStay` one at a time, under every
fault, from `RefundInv`: who will write a record back has read its refund.

**`ProductCenter_proofs`.** For any overlap and every fault: `ProductTypeCorrect`,
`CreationsAreBilled`. The invariant `IInv` ties each step of a creation to the one
charge it can have there (`ChargeAt`): every path to the derived statuses runs through
every call of the gate, and any error leaves for the release. `ExportsStayBacked`
assumes one at a time, or that no product is deleted: `EInv` says of every copy of the
product a request may still write that it counts as exported only if an export task
is stored. That is stable because export tasks go with their product only; so without
deletions the theorem covers all stale whole-row saves.

| theorem | assumes, besides one at a time | inductive invariant |
|---|---|---|
| `OnePrimaryAtATime` | nothing: any failing step | `MarkInv`: who will save a primary mark has cleared the others |
| `AdoptedStays` | nothing: any failing step | `RemoveInv`: the version about to be deleted is not adopted |
| `OneAdoptedAtATime` | `"adopt" \notin Failing` | `AdoptInv`: an adoption under way knows every other version that is still adopted |
| `MeteredRowsAreStored` | nothing: any failing step, lost replies | `CreatedInv`: a creation past its insert has its row, and no step of its own takes it away |
| `ListingStatusFollows` | no failing step among the adoption and the derivation of statuses | `ListInv`: if the status is behind the versions, the request that changed them is on its way to derive it |

**`VisualDeconstruction_proofs`.** `JobsAgree`, `KeysAreUnique`,
`NamedJobsAreBacked`, `ElementsAreDelivered`, `DeconstructionTypeCorrect`,
`DeconstructionPrepares`, and `WaitingJobsRun` under `"saveJob" \notin Failing`.
`JobInv` ties row, private copy and platform: a runtime job has the key of the
job that owns it, a row that names a runtime job has one under its key, and a
request that may write a row back holds a copy with that row's key. `Attended` adds
that a job that waits without a runtime job has a request at work on it. `ElementInv`
says that elements belong to jobs the platform has and to deliveries that came, which
makes every step a step of `Preparation` or none.

**`VisualPlanning_proofs`.** `PlansAreSound`, `PromptsMatchPlans`,
`ReadyPromptsAreComposed`, `SlotsAreDecidedOnce`, `DroppedIsNeverUsed`,
`StoredPromptsAreCurrent`, `PlanningTypeCorrect`, `ViewIsExplained`. `PlanInv`
says of a plan that its prompt is none or its own, that only the backend's own
plan counts as validated, that this one is ready only if composed from enough,
and that it decides each slot once: the last is what makes "dropped" exclude
"kept" in the composed prompt. `ViewIsExplained` is a fact about the
operators of `StageView` alone, by cases over the eight parts.

**`VisualGeneration_proofs`.** `ColumnsAreSound`, `GenerationTypeCorrect`,
`WritebacksAreKept`, and `JobsAreReserved` under `LostReplies = FALSE`. `RowInv`
holds of the column and of every copy of it a request or a callback may write
over it, and relations are only demoted, never deleted; so it survives the lost
updates. `ReserveInv` follows a charge along its request: it is held from the
reservation on until the release, and a request that will release has ordered
nothing. `CallbacksAdd` proves `CallbacksOnlyAdd`, whose condition is one request for
versions at a time, under every fault and any overlap but one: no client updates a
version while something is in progress (`"updateVersion" \notin Overlapping`), for
an update may take pictures away on purpose. `GrowInv` orders three copies of the
column, version by version: what the request has read is behind the column, and the
column is behind what the callback will write (`Grows`, which is not transitive, for a
version may be missing from the copy in between; hence all three pairs). An id is in
no copy before its request saves it, and only one callback waits at a time.

**`TemplateCenter_proofs`.** `CatalogIsWhole`, `CatalogTypeCorrect`,
`ListedTemplatesAreUsable`, `BootsKeepOthers`, `FallbackFindsTheSame`.
`CatalogInv`: every row has its text and its current version, of which there is
one only; a row the seeding may overwrite points at the seed's version; and no
version outlives its template, so a template that comes back does not meet the
versions of the one that was there before.

Every safety property a run checks is so the subject of a theorem. Only
model-checked: liveness, `JobGetsOver` and `OutboxDrains` (TLAPS has no `ENABLED`).
Assumptions on constants are those named here and the `ASSUME`s of the modules, which
TLC evaluates in every run.

## 5. What is not modelled

* Reads that only build answers (lists, views, dashboards), wording, metrics,
  logging, activity entries.
* Of image jobs: prompt compilation and template resolution, functions of one
  request; the registration of source assets.
* Of the visual workflow: the stage and the status of the session's own row,
  which handlers write and none reads; strategy reports and the progress of
  planners; callbacks for prompt planner jobs, for no code orders such a job
  (`CreatePromptPlannerJob` composes the plan itself); readiness values stored by
  clients, and metadata of theirs that looks like a writeback's; the flags
  "selected" and "confirmed" of elements; stages, progress, blockers and the flags of
  generation results; the workspace template a version is saved as. Two writebacks
  of one product at the same time are left out as well: under READ COMMITTED both
  may end as primary.
* Of the template center: sorting and paging, facets, recommendations, previews. Of
  the prompt center: the compiled text.
* Of the product center: export packages, profit snapshots, downloads and the
  filters of the asset library.
* Amounts: a charge is made or not made. Price arithmetic is planned as pure
  operators.
* `auth`, `authz`, `access`, `middleware`: no state.

## 6. Plan

1. `ImageJob`, `BillingGate`, `CommercialOrder`, `BillingOutbox` with their proofs (done).
2. `ProductCenter`: products, listing versions, adoption and exports, batches and
   edits, serially and with overlapping requests (done); export packages remain.
3. The visual workflow: `Preparation` and its implementation, planning with the
   view, generation with charge and writeback, with their proofs (done); strategy
   reports remain.
4. `TemplateCenter` with seeding, both catalogs and prompt previews (done);
   recommendations and facets remain.
5. Promotion codes and signup attribution: create-if-absent races.
6. Pure algorithms: credit conversion, rate-card choice, order bundles, each
   against a reference definition.
7. Proofs: every safety property of the runs (done); the statements that fail in
   general, for the constants at which they hold (`CreateKeepsTerminal`,
   `OneSubscription`, `GrantedOnce` remain).
