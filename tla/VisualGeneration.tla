-------------------------- MODULE VisualGeneration --------------------------
(***************************************************************************)
(* The generation versions of a visual workflow session                    *)
(* (internal/modules/visualworkflow, service_part5.go to service_part8.go):*)
(* a version asks the platform for pictures on a charge of its own, the    *)
(* platform's callbacks bring the pictures, the user selects one and       *)
(* writes it back to the product.  The versions are one column of the      *)
(* session's row, and every handler writes the whole column.               *)
(*                                                                         *)
(* The creation of a version is a sequence of calls between the read of    *)
(* the row and its write; a callback reads and writes the row under a lock *)
(* that callbacks alone take.  The other handlers are one step each.       *)
(* Whether the plan can be generated from, is left open here (see          *)
(* VisualPlanning); stages, progress, blockers and the flags of the        *)
(* results are left out, for no decision of the handlers reads them.       *)
(***************************************************************************)
EXTENDS Naturals, Sequences, FiniteSets, RuntimeStatus, BillingGate

CONSTANTS
  Workers,      \* the requests for versions that may run at the same time
  Callers,      \* the callbacks that may run at the same time
  ClientKeys,   \* the idempotency keys of clients
  Files,        \* the pictures the platform makes
  OldPictures,  \* pictures the product has from elsewhere
  ClientStatuses, ClientResults, \* what clients write over a version
  MaxVersions,  \* bound on the versions asked for
  MaxFanout,    \* MaxGenerationFanoutTasks
  Overlapping,  \* what may start while a request or a callback is in progress
  Failing       \* the steps whose database call may fail

VersionStatuses ==
  {"draft", "queued", "processing", "completed", "failed", "canceled", "blocked",
   "contract_needed"}

Pictures == Files \cup OldPictures

ASSUME VisualGenerationAssumption ==
  /\ "none" \notin ClientKeys \cup Pictures
  /\ ClientStatuses \subseteq VersionStatuses
  /\ ClientResults \subseteq SUBSET Pictures
  /\ MaxVersions \in Nat \ {0} /\ MaxFanout \in Nat

VARIABLES
  version,   \* the generation versions of the session's row
  asset,     \* the stored pictures
  relation,  \* the product's pictures: is the picture the primary one?
  runtime,   \* the platform's runtime jobs, by the key they were asked with
  charge,    \* the charge of each version asked for
  request,   \* what each worker is doing
  callback   \* what each callback is doing

generationVars == <<version, asset, relation, runtime, charge, request, callback>>

-----------------------------------------------------------------------------

Ids == 1 .. MaxVersions

(* The key of a runtime job: the client's, or the id of the version.       *)
Keys == [client : ClientKeys, id : {0}] \cup [client : {"none"}, id : Ids]

NoKey == [client |-> "none", id |-> 0]

(* "key" is the client's key in the metadata, "job" the runtime job the    *)
(* version names, "writeback" the picture written back.                    *)
Version == [id : Ids, key : ClientKeys \cup {"none"}, job : Keys \cup {NoKey},
            status : VersionStatuses, results : SUBSET Pictures,
            selected : Pictures \cup {"none"}, writeback : Pictures \cup {"none"}]

(* The platform keeps one runtime job per key, for the version it was      *)
(* asked for first.                                                        *)
RuntimeJob == [owner : Ids, status : RuntimeStatuses, files : SUBSET Files]

NewVersion(id, key, results) ==
  [id |-> id, key |-> key, job |-> NoKey, status |-> "contract_needed",
   results |-> results, selected |-> "none", writeback |-> "none"]

(* "read" is the column as the request read it, "new" the version it will  *)
(* add, "left" the versions a fan-out has yet to create.                   *)
Idle == [pc |-> "idle", read |-> << >>, new |-> NewVersion(1, "none", {}), left |-> 0]

Quiet == [pc |-> "idle", write |-> << >>]

(* The product has a primary picture from elsewhere.                       *)
Init ==
  /\ version = << >>
  /\ asset = OldPictures
  /\ \E primary \in OldPictures : relation = [p \in OldPictures |-> p = primary]
  /\ runtime = [k \in {} |-> Idle]
  /\ charge = << >>
  /\ request = [w \in Workers |-> Idle]
  /\ callback = [c \in Callers |-> Quiet]

At(w, step) == request[w].pc = step

DbResults(step) == IF step \in Failing THEN BOOLEAN ELSE {TRUE}

MayStart(op) ==
  \/ op \in Overlapping
  \/ /\ \A w \in Workers : At(w, "idle")
     /\ \A c \in Callers : callback[c].pc = "idle"

-----------------------------------------------------------------------------
(* Mistakes the handlers could make.  The specification uses none of them. *)

(* a charge that was refused does not keep the job from the platform *)
IgnoresCharge(ok) == TRUE

(* the callbacks take no lock *)
NeverLocked == FALSE

(* a new primary picture does not replace the old one *)
KeepsPrimaries(related, picture) == related

-----------------------------------------------------------------------------
(* CreateGenerationVersion, alone or as one of a fan-out.                  *)

(* The id of a new version is fresh.                                       *)
BuildId == Len(charge) + 1

FoundByKey(key) == key # "none" /\ \E i \in DOMAIN version : version[i].key = key

(* Does the platform list the task as ready?                               *)
GenerationRuntimeCapabilityReady == BOOLEAN

(* The stored prompt a version names, as it is looked up, and the plan: is *)
(* it ready, of this prompt, and does it say anything?                     *)
PromptRuns  == [found : BOOLEAN, ofProduct : BOOLEAN, executable : BOOLEAN, compiled : BOOLEAN]
PromptPlans == [ready : BOOLEAN, ofPrompt : BOOLEAN, worded : BOOLEAN]

PlatformRuntimeInputManifestFromPromptPlan(p) == p.ready /\ p.ofPrompt /\ p.worded

(* The plan stands in for a stored prompt that is not found, not for one   *)
(* that must not be used.                                                  *)
PlatformRuntimeInputManifest ==
  {IF run.found THEN run.ofProduct /\ run.executable /\ run.compiled
   ELSE PlatformRuntimeInputManifestFromPromptPlan(p) : run \in PromptRuns, p \in PromptPlans}

(* A version that cannot be asked for is added blocked.                    *)
PrepareGenerationRuntimeVersion(w, key, results, left) ==
  /\ BuildId <= MaxVersions
  /\ charge' = Append(charge, NoCharge)
  /\ \E capable \in GenerationRuntimeCapabilityReady,
        executable \in PlatformRuntimeInputManifest :
       request' = [request EXCEPT ![w] =
         [pc |-> IF capable /\ executable THEN "begin" ELSE "save", read |-> version,
          new |-> NewVersion(BuildId, key, results), left |-> left]]

(* A version with the client's key is the answer.                          *)
CreateGenerationVersion(w) ==
  /\ At(w, "idle")
  /\ MayStart("createVersion")
  /\ \E key \in ClientKeys \cup {"none"}, results \in ClientResults :
       /\ ~ FoundByKey(key)
       /\ PrepareGenerationRuntimeVersion(w, key, results, 0)
  /\ UNCHANGED <<version, asset, relation, runtime, callback>>

(* The versions of a fan-out have fresh keys, one for each run.            *)
CreateGenerationFanout(w) ==
  /\ At(w, "idle")
  /\ MayStart("fanout")
  /\ \E total \in 1 .. MaxFanout :
       PrepareGenerationRuntimeVersion(w, "none", {}, total - 1)
  /\ UNCHANGED <<version, asset, relation, runtime, callback>>

GenerationRuntimeIdempotencyKey(v) ==
  IF v.key # "none" THEN [client |-> v.key, id |-> 0] ELSE [client |-> "none", id |-> v.id]

(* Begin of the billing gate.                                              *)
Begin(c) ==
  UNION {IF created.ok THEN ReserveResources(created.state) ELSE {created} :
           created \in CreateChargeSession(c)}

(* Release of the billing gate.                                            *)
Release(c) ==
  UNION {UpdateChargeSession(released.state, "released") : released \in ReleaseReservation(c)}

ChargeHolds(ok) == ok

(* A version whose charge is refused is added blocked.                     *)
BeginVisualRuntimeChargeSession(w) ==
  /\ At(w, "begin")
  /\ \E begun \in Begin(charge[request[w].new.id]) :
       /\ charge' = [charge EXCEPT ![request[w].new.id] = begun.state]
       /\ request' = [request EXCEPT ![w].pc =
                        IF ChargeHolds(begun.ok) THEN "createRuntime" ELSE "save"]
  /\ UNCHANGED <<version, asset, relation, runtime, callback>>

CreateRuntimeJob(key, owner) ==
  IF key \in DOMAIN runtime THEN runtime
  ELSE [k \in DOMAIN runtime \cup {key} |->
          IF k \in DOMAIN runtime THEN runtime[k]
          ELSE [owner |-> owner, status |-> "queued", files |-> {}]]

Named(v, key, status) == [v EXCEPT !.job = key, !.status = MapGenerationRuntimeStatus(status)]

(* On an error the charge is released, and an error of that is dropped.    *)
CreatePlatformGenerationRuntimeJob(w) ==
  LET new == request[w].new
      key == GenerationRuntimeIdempotencyKey(new)
  IN  /\ At(w, "createRuntime")
      /\ \E call \in Call(runtime, CreateRuntimeJob(key, new.id)) :
           /\ runtime' = call.state
           /\ IF call.ok
              THEN /\ request' = [request EXCEPT ![w].pc = "save",
                                    ![w].new = Named(new, key, call.state[key].status)]
                   /\ UNCHANGED charge
              ELSE /\ request' = [request EXCEPT ![w].pc = "save"]
                   /\ \E done \in Release(charge[new.id]) :
                        charge' = [charge EXCEPT ![new.id] = done.state]
      /\ UNCHANGED <<version, asset, relation, callback>>

(* The column as it was read, with the version added.  A fan-out goes on   *)
(* with the next version, unless the save failed.                          *)
SaveSession(w) ==
  /\ At(w, "save")
  /\ \E ok \in DbResults("saveSession") :
       /\ version' = IF ok THEN Append(request[w].read, request[w].new) ELSE version
       /\ request' = [request EXCEPT ![w] =
            IF ok /\ @.left > 0 THEN [Idle EXCEPT !.pc = "next", !.left = request[w].left] ELSE Idle]
  /\ UNCHANGED <<asset, relation, runtime, charge, callback>>

(* The next version of a fan-out, or its end when the plan is not what it  *)
(* was.                                                                    *)
NextOfFanout(w) ==
  /\ At(w, "next")
  /\ \/ PrepareGenerationRuntimeVersion(w, "none", {}, request[w].left - 1)
     \/ request' = [request EXCEPT ![w] = Idle] /\ UNCHANGED charge
  /\ UNCHANGED <<version, asset, relation, runtime, callback>>

-----------------------------------------------------------------------------
(* The platform and its callbacks.                                         *)

RunRuntimeJob ==
  /\ \E k \in DOMAIN runtime :
       LET now(status, files) ==
             runtime' = [runtime EXCEPT ![k].status = status, ![k].files = files]
       IN  \/ runtime[k].status = "queued" /\ now("processing", {})
           \/ runtime[k].status = "processing" /\ now("failed", {})
           \/ runtime[k].status = "processing" /\ \E files \in SUBSET Files \ {{}} :
                now("completed", files)
  /\ UNCHANGED <<version, asset, relation, charge, request, callback>>

(* A callback names the version the runtime job was asked for.             *)
FindGenerationVersionByCallbackID(k) ==
  {i \in DOMAIN version : version[i].id = runtime[k].owner}

Locked == \E c \in Callers : callback[c].pc # "idle"

(* The column the callback will write.                                     *)
WillWrite(c, i, v) ==
  callback' = [callback EXCEPT ![c] = [pc |-> "save", write |-> [version EXCEPT ![i] = v]]]

(* The metadata is sanitized, and that takes the client's key out of it.   *)
MergeGenerationMetadata(v) == [v EXCEPT !.key = "none"]

MayCall(c) ==
  /\ MayStart("callback")
  /\ callback[c].pc = "idle"
  /\ ~ Locked

(* A report may be late; "processing" does not reopen what has results.    *)
InternalUpdateGenerationRuntime(c) ==
  /\ MayCall(c)
  /\ \E k \in DOMAIN runtime, word \in RuntimeWords :
       \E i \in FindGenerationVersionByCallbackID(k) :
         LET v      == version[i]
             status == NormalizeGenerationRuntimeCallbackStatus(word)
             kept   == status = "processing" /\ (v.status = "completed" \/ v.results # {})
         IN  /\ word \in {"queued", "processing", runtime[k].status}
             /\ word = "processing" => runtime[k].status # "queued"
             /\ WillWrite(c, i, MergeGenerationMetadata(
                  [v EXCEPT !.job = k, !.status = IF kept THEN v.status ELSE status]))
  /\ UNCHANGED <<version, asset, relation, runtime, charge, request>>

(* A picture is stored once, by its storage key.                           *)
FindOrCreateGenerationResultAsset(sent) == asset \cup sent

(* The results of a delivery are added to those of the version.  A flagged *)
(* picture is selected, and the first one when none was.                   *)
Recorded(v, status, sent, picked) ==
  MergeGenerationMetadata(
    [v EXCEPT !.status   = status,
              !.results  = @ \cup sent,
              !.selected = IF picked = "none" THEN @ ELSE picked])

(* The pictures are stored one by one before the version is written, and   *)
(* stay when one that follows cannot be stored.  A delivery may be late,   *)
(* and may come again.                                                     *)
InternalRecordGenerationResults(c) ==
  /\ MayCall(c)
  /\ \E k \in DOMAIN runtime :
       \E i \in FindGenerationVersionByCallbackID(k), sent \in SUBSET runtime[k].files :
         LET status == IF runtime[k].status = "completed" /\ sent # runtime[k].files
                       THEN "processing" ELSE runtime[k].status
         IN  /\ status # "queued"
             /\ status = "completed" => sent # {}
             /\ asset' = FindOrCreateGenerationResultAsset(sent)
             /\ \/ \E picked \in sent \cup {"none"} :
                     /\ picked = "none" => sent = {} \/ version[i].selected # "none"
                     /\ WillWrite(c, i, Recorded(version[i], status, sent, picked))
                \/ "storeAsset" \in Failing /\ UNCHANGED callback
  /\ UNCHANGED <<version, relation, runtime, charge, request>>

SaveGenerationVersions(c) ==
  /\ callback[c].pc = "save"
  /\ \E ok \in DbResults("saveCallback") :
       version' = IF ok THEN callback[c].write ELSE version
  /\ callback' = [callback EXCEPT ![c] = Quiet]
  /\ UNCHANGED <<asset, relation, runtime, charge, request>>

-----------------------------------------------------------------------------
(* The client's own operations.                                            *)

ValidateGenerationVersion(v) ==
  /\ v.status = "completed" => v.results # {} \/ v.job # NoKey
  /\ v.selected \in v.results \cup {"none"}

Edited(i, v) ==
  /\ ValidateGenerationVersion(v)
  /\ version' = [version EXCEPT ![i] = v]
  /\ UNCHANGED <<runtime, charge, request, callback>>

(* A field the client leaves out stays as it is.  New metadata replaces    *)
(* the old; the runtime job cannot be written.                             *)
UpdateGenerationVersion ==
  /\ MayStart("updateVersion")
  /\ \E i \in DOMAIN version, selected \in Pictures \cup {"none"}, metadata \in BOOLEAN :
       \E status \in ClientStatuses \cup {version[i].status},
          results \in ClientResults \cup {version[i].results} :
         LET v == [version[i] EXCEPT !.status = status, !.results = results,
                                     !.selected = selected]
         IN  Edited(i, IF metadata THEN [v EXCEPT !.key = "none", !.writeback = "none"] ELSE v)
  /\ UNCHANGED <<asset, relation>>

SelectGenerationVersion ==
  /\ MayStart("select")
  /\ \E i \in DOMAIN version :
       \E picture \in version[i].results \cup {"none"} :
         Edited(i, [version[i] EXCEPT !.selected = picture])
  /\ UNCHANGED <<asset, relation>>

(* The client sends the versions back, without the runtime jobs.           *)
UpdateSession ==
  /\ MayStart("updateSession")
  /\ LET sent == [i \in DOMAIN version |-> [version[i] EXCEPT !.job = NoKey]]
     IN  /\ \A i \in DOMAIN sent : ValidateGenerationVersion(sent[i])
         /\ version' = sent
  /\ UNCHANGED <<asset, relation, runtime, charge, request, callback>>

(* The template of the workspace is left out.                              *)
SaveGenerationVersionAsTemplate ==
  /\ MayStart("saveTemplate")
  /\ \E i \in DOMAIN version :
       /\ version[i].status = "completed"
       /\ version[i].results \cap asset # {}
       /\ Edited(i, MergeGenerationMetadata(version[i]))
  /\ UNCHANGED <<asset, relation>>

ClearPrimaryProductAssets(related, picture) ==
  [p \in DOMAIN related |-> related[p] /\ p = picture]

(* One transaction: the picture becomes one of the product's, perhaps the  *)
(* primary one, and the version remembers it.                              *)
WritebackSelectedGenerationAsset ==
  /\ MayStart("writeback")
  /\ \E i \in DOMAIN version, isPrimary \in BOOLEAN :
       \E picture \in version[i].results \cap asset :
         LET related == [p \in DOMAIN relation \cup {picture} |->
                           IF p = picture THEN isPrimary ELSE relation[p]]
         IN  /\ relation' = IF isPrimary THEN ClearPrimaryProductAssets(related, picture)
                            ELSE related
             /\ Edited(i, [version[i] EXCEPT !.writeback = picture, !.selected = picture])
  /\ UNCHANGED asset

Next ==
  \/ \E w \in Workers :
       \/ CreateGenerationVersion(w)
       \/ CreateGenerationFanout(w)
       \/ BeginVisualRuntimeChargeSession(w)
       \/ CreatePlatformGenerationRuntimeJob(w)
       \/ SaveSession(w)
       \/ NextOfFanout(w)
  \/ RunRuntimeJob
  \/ \E c \in Callers :
       \/ InternalUpdateGenerationRuntime(c)
       \/ InternalRecordGenerationResults(c)
       \/ SaveGenerationVersions(c)
  \/ UpdateGenerationVersion
  \/ SelectGenerationVersion
  \/ UpdateSession
  \/ SaveGenerationVersionAsTemplate
  \/ WritebackSelectedGenerationAsset

Spec == Init /\ [][Next]_generationVars

-----------------------------------------------------------------------------
(* Properties.                                                             *)

(* The rows have their types.                                              *)
TypeOK ==
  /\ version \in Seq(Version)
  /\ asset \subseteq Pictures
  /\ DOMAIN relation \subseteq Pictures /\ \A p \in DOMAIN relation : relation[p] \in BOOLEAN
  /\ DOMAIN runtime \subseteq Keys /\ \A k \in DOMAIN runtime : runtime[k] \in RuntimeJob
  /\ charge \in Seq(Charge) /\ Len(charge) <= MaxVersions

(* Nothing is generated for free: the platform has a runtime job only on a *)
(* reservation that is still held, however requests with one key overlap   *)
(* and whatever fails, as long as no reply is lost.                        *)
RunsOnReservation ==
  \A k \in DOMAIN runtime : charge[runtime[k].owner].reservation = "held"

(* Callbacks do not undo one another, nor what is done while they wait:    *)
(* when one writes the whole column, no version loses a picture, and the   *)
(* pictures it gains were made for it.  With two overlapping requests the  *)
(* column can grow behind a callback's back.                               *)
CallbacksOnlyAdd ==
  [][Cardinality(Workers) = 1 => \A c \in Callers : SaveGenerationVersions(c) =>
       \A i \in DOMAIN version, j \in DOMAIN version' :
         version[i].id = version'[j].id =>
           /\ version[i].results \subseteq version'[j].results
           /\ \A f \in version'[j].results \ version[i].results :
                \E k \in DOMAIN runtime :
                  runtime[k].owner = version[i].id /\ f \in runtime[k].files]_generationVars

(* What a version says it wrote back is a stored picture of the product,   *)
(* and the product has one primary picture at most.                        *)
WrittenBackIsRelated ==
  /\ \A i \in DOMAIN version :
       version[i].writeback # "none" => version[i].writeback \in DOMAIN relation \cap asset
  /\ \A p, q \in DOMAIN relation : relation[p] /\ relation[q] => p = q

=============================================================================
