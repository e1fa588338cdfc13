------------------------------ MODULE StageView ------------------------------
(***************************************************************************)
(* What the visual workflow shows of a session (buildStageView and the     *)
(* projections of internal/modules/visualworkflow/mapper.go): how ready    *)
(* each part is, what blocks it, the business flow over the eight parts,   *)
(* the verdict over the flow, what a rollback would touch, and whether the *)
(* session may be released.  Nothing here is stored: every view is derived *)
(* from the rows and from what the platform says it can do.                *)
(*                                                                         *)
(* A blocker is [code, target]; its message is left out, and so is the     *)
(* readiness a client may have stored: the view starts from the default.   *)
(***************************************************************************)
EXTENDS FiniteSets, Sequences, PromptComposer

Readiness == {"missing", "partial", "ready", "blocked"}

(* What the platform says of a task, "absent" when it does not list it.    *)
RuntimeCapabilityTasks == {"image_understanding", "image_generation"}
CapabilityWords        == {"absent", "available", "unavailable"}
Matrices               == [RuntimeCapabilityTasks -> CapabilityWords]

(* The matrix could not be read, or nobody was asked.                      *)
NoMatrix == [task \in RuntimeCapabilityTasks |-> "unknown"]

Blocker(code, target) == [code |-> code, target |-> target]

(* The evidence of steps that happen outside the workflow; a version keeps *)
(* it in its metadata.                                                     *)
ClosureEvidence == {"delivery_download_status", "charge_metering_status", "browser_e2e_status"}

-----------------------------------------------------------------------------
(* Readiness.  "sources" is a sequence of rows with a role and a status,   *)
(* "status" the status of the latest deconstruction job, "none" without.   *)

SourceRolesIn(sources) == {sources[i].role : i \in DOMAIN sources}

SourceBlockers(sources) ==
  IF sources = << >>
  THEN {Blocker("DUAL_TRACK_SOURCE_REQUIRED", "source_references")}
  ELSE {Blocker("CONTRACT_NEEDED", "source_reference") :
          i \in {j \in DOMAIN sources : sources[j].status = "contract_needed"}}
       \cup {Blocker(IF track = "sku" THEN "DUAL_TRACK_SKU_SOURCE_REQUIRED"
                     ELSE "DUAL_TRACK_REFERENCE_SOURCE_REQUIRED", "source_references") :
               track \in Tracks \ SourceRolesIn(sources)}

ApplySourceReferenceReadiness(sources) ==
  IF SourceBlockers(sources) = {} THEN "ready" ELSE "blocked"

DeconstructionReadiness(status) ==
  CASE status = "none"            -> "missing"
    [] status = "completed"       -> "ready"
    [] status = "contract_needed" -> "blocked"
    [] OTHER                      -> "partial"

DeconstructionBlockers(status) ==
  IF status = "contract_needed" THEN {Blocker("CONTRACT_NEEDED", "deconstruction_job")} ELSE {}

(* A plan the backend composed is ready with its status; any other also    *)
(* needs a snapshot that the prompt center validated.                      *)
PromptReady(plan) ==
  /\ plan.status = "ready"
  /\ plan.origin = "backend_intent_fusion" \/ plan.validated

GenerationHasProviderResult(versions) ==
  \E i \in DOMAIN versions :
    /\ versions[i].job # "none"
    /\ versions[i].results # {}
    /\ versions[i].status = "completed" \/ versions[i].stage = "result_available"

(* A job that is not completed still needs the platform to understand      *)
(* pictures.                                                               *)
NeedsDeconstructionCapability(status) == status \notin {"none", "completed"}

(* A mistake: a task the platform does not offer is not blamed.  Unused.   *)
BlamesNobody(matrix) == {}

CapabilityBlockers(matrix) ==
  {Blocker("PLATFORM_CAPABILITY_UNAVAILABLE", task) :
     task \in {t \in RuntimeCapabilityTasks : matrix[t] = "unavailable"}}
  \cup (IF matrix = NoMatrix
        THEN {Blocker("PLATFORM_CAPABILITY_ERROR", "runtime_capabilities")} ELSE {})

ReadinessOf(sources, status, plan, versions, matrix) ==
  LET prompt     == IF PromptReady(plan) THEN "ready" ELSE "blocked"
      generation == IF GenerationHasProviderResult(versions) THEN "ready" ELSE "blocked"
  IN  [source         |-> ApplySourceReferenceReadiness(sources),
       deconstruction |-> IF /\ matrix["image_understanding"] = "unavailable"
                             /\ NeedsDeconstructionCapability(status)
                          THEN "blocked" ELSE DeconstructionReadiness(status),
       prompt         |-> prompt,
       generation     |-> IF matrix["image_generation"] = "unavailable"
                          THEN "blocked" ELSE generation,
       blockers       |-> SourceBlockers(sources) \cup DeconstructionBlockers(status)
                            \cup {Blocker("CONTRACT_NEEDED", target) :
                                    target \in {t \in {"prompt_plan", "generation"} :
                                      \/ t = "prompt_plan" /\ prompt = "blocked"
                                      \/ t = "generation" /\ generation = "blocked"}}
                            \cup CapabilityBlockers(matrix)]

Parts == {"source", "deconstruction", "prompt", "generation"}

ComputeOverall(r) ==
  IF (\E part \in Parts : r[part] = "blocked") \/ r.blockers # {} THEN "blocked"
  ELSE IF \A part \in Parts : r[part] = "ready" THEN "ready"
  ELSE IF r.source = "missing" THEN "missing" ELSE "partial"

-----------------------------------------------------------------------------
(* The business flow: one node per part, with a status and its blockers.   *)

LatestGenerationVersion(versions) == versions[Len(versions)]

BusinessDeconstructionStatus(status, r) ==
  IF status \in {"none", ""} THEN r.deconstruction ELSE status

BusinessGenerationStatus(versions, r) ==
  IF versions = << >> THEN r.generation ELSE LatestGenerationVersion(versions).status

BusinessWorkshopStatus(versions) ==
  IF versions = << >> \/ LatestGenerationVersion(versions).results = {} THEN "missing"
  ELSE IF LatestGenerationVersion(versions).selected = "none" THEN "partial" ELSE "ready"

(* Any version will do, not only the latest.                               *)
BusinessWritebackStatus(versions) ==
  IF \E i \in DOMAIN versions : versions[i].writeback = "succeeded" THEN "ready" ELSE "missing"

BusinessMetadataStatus(versions, evidence) ==
  IF \E i \in DOMAIN versions : evidence \in versions[i].closure THEN "ready" ELSE "missing"

BlockersForBusinessNode(r, target) == {b \in r.blockers : b.target = target}

Node(status, blockers) == [status |-> status, blockers |-> blockers]

BuildBusinessWorkflowDAG(status, plan, versions, r) ==
  [source         |-> Node(r.source, {}),
   deconstruction |-> Node(BusinessDeconstructionStatus(status, r),
                           BlockersForBusinessNode(r, "deconstruction_job")),
   prompt_plan    |-> Node(plan.status, BlockersForBusinessNode(r, "prompt_plan")),
   generation     |-> Node(BusinessGenerationStatus(versions, r),
                           BlockersForBusinessNode(r, "generation")),
   workshop       |-> Node(BusinessWorkshopStatus(versions), {}),
   product_center_writeback |-> Node(BusinessWritebackStatus(versions), {}),
   delivery_download |->
     Node(BusinessMetadataStatus(versions, "delivery_download_status"), {}),
   charge_metering |->
     Node(BusinessMetadataStatus(versions, "charge_metering_status"), {})]

BuildIntegrationVerdict(flow, r) ==
  LET status(words) == \E node \in DOMAIN flow : flow[node].status \in words
      blocked == \/ status({"blocked", "contract_needed", "invalid"})
                 \/ \E node \in DOMAIN flow : flow[node].blockers # {}
                 \/ r.blockers # {}
      passed  == \A node \in DOMAIN flow :
                   flow[node].status \in {"ready", "completed", "succeeded"}
  IN  IF status({"failed", "error"}) THEN "fail"
      ELSE IF ~ blocked /\ passed THEN "pass" ELSE "blocked"

(* What a rollback lists, and whether undoing it is safe.  A writeback is  *)
(* looked for under two flat keys of the metadata, which the writeback     *)
(* does not use and clients may not send: it is never listed.              *)
BuildRollbackSnapshot(status, versions) ==
  LET scope(name, safe) == [scope |-> name, safe |-> safe]
      latest == LatestGenerationVersion(versions)
  IN  {scope("workflow_session", TRUE)}
      \cup (IF status = "none" THEN {}
            ELSE {scope("deconstruction_job", status # "completed")})
      \cup (IF versions = << >> THEN {}
            ELSE {scope("generation_version",
                        latest.status # "completed" \/ latest.selected = "none")}
                 \cup (IF latest.selected = "none" THEN {}
                       ELSE {scope("selected_asset", TRUE)})
                 \cup {scope(evidence, FALSE) :
                         evidence \in latest.closure \cap
                           {"delivery_download_status", "charge_metering_status"}})

RuntimeCapabilityGateStatus(matrix) ==
  CASE matrix = NoMatrix                                              -> "blocked"
    [] \A t \in RuntimeCapabilityTasks : matrix[t] = "absent"         -> "missing"
    [] \E t \in RuntimeCapabilityTasks : matrix[t] = "unavailable"    -> "blocked"
    [] OTHER                                                          -> "ready"

BuildReleaseReadiness(verdict, versions, matrix) ==
  IF /\ RuntimeCapabilityGateStatus(matrix) = "ready"
     /\ BusinessMetadataStatus(versions, "browser_e2e_status") = "ready"
     /\ verdict = "pass"
  THEN "pass" ELSE "blocked"

(* The whole view.                                                         *)
BuildStageView(sources, status, plan, versions, matrix) ==
  LET r       == ReadinessOf(sources, status, plan, versions, matrix)
      flow    == BuildBusinessWorkflowDAG(status, plan, versions, r)
      verdict == BuildIntegrationVerdict(flow, r)
  IN  [readiness |-> r,
       overall   |-> ComputeOverall(r),
       flow      |-> flow,
       verdict   |-> verdict,
       rollback  |-> BuildRollbackSnapshot(status, versions),
       release   |-> BuildReleaseReadiness(verdict, versions, matrix)]

=============================================================================
