----------------------------- MODULE VisualRows -----------------------------
(***************************************************************************)
(* The rows of a visual workflow session that its parts share: the source  *)
(* references and the elements read from them (internal/modules/           *)
(* visualworkflow, internal/repository/visual_workflow_repository.go).     *)
(***************************************************************************)
EXTENDS Naturals, Sequences, PromptComposer

CONSTANTS
  SourceForms, \* the source references clients add: [kind, role, usable]
  SourceEdits, \* the pairs of statuses clients set on a source reference
  MaxSources, MaxJobs, MaxDeliveries  \* bounds of the instance

SourceStatuses == {"ready", "pending", "contract_needed", "archived"}

SourceKinds == {"upload", "platform_source_ref", "product_asset", "url", "video_frame"}

(* "usable": the source has a url or a storage key.                        *)
SourceForm == [kind : SourceKinds, role : Tracks \cup {"none"}, usable : BOOLEAN]

ASSUME VisualRowsAssumption ==
  /\ SourceForms \subseteq SourceForm
  /\ SourceEdits \subseteq SourceStatuses \X SourceStatuses
  /\ MaxSources \in Nat /\ MaxJobs \in Nat /\ MaxDeliveries \in Nat

(* Sources and jobs are sequences, oldest first; an index is an id.        *)
SourceIds == 1 .. MaxSources
JobIds    == 1 .. MaxJobs

Source == [role : Tracks, status : SourceStatuses, resolve : SourceStatuses, usable : BOOLEAN]

JobStatuses == {"queued", "processing", "completed", "failed", "canceled", "contract_needed", ""}

(* An element of a job's delivery.  "slotted" is whether the decision on   *)
(* it came with the name of the slot; whether it is selected or confirmed  *)
(* is left out.                                                            *)
Element == [job : JobIds, delivery : 1 .. MaxDeliveries, track : Tracks,
            dimension : Dimensions, source : {0} \cup SourceIds,
            readiness : {"ready", "needs_review"}, decision : Decisions \cup {"none"},
            slotted : BOOLEAN]

Result == [track : Tracks, dimension : Dimensions, source : {0} \cup SourceIds,
           readiness : {"ready", "needs_review"}]

ElementOf(i, delivery, result) ==
  [job |-> i, delivery |-> delivery, track |-> result.track, dimension |-> result.dimension,
   source |-> result.source, readiness |-> result.readiness, decision |-> "none",
   slotted |-> FALSE]

(* Unless the form says so, a url is a reference and the rest is the SKU.   *)
SourceRoleFromMetadata(form) ==
  IF form.role # "none" THEN form.role ELSE IF form.kind = "url" THEN "reference" ELSE "sku"

(* A url is asked for its metadata; a frame of a video is not supported.   *)
InitialSourceStatuses(kind) ==
  CASE kind = "url"         -> {"ready", "contract_needed"}
    [] kind = "video_frame" -> {"contract_needed"}
    [] OTHER                -> {"ready"}

NewSources ==
  UNION {{[role |-> SourceRoleFromMetadata(form), status |-> status, resolve |-> status,
           usable |-> form.usable] : status \in InitialSourceStatuses(form.kind)}
           : form \in SourceForms}

Ready(s) == s.status = "ready" /\ s.resolve = "ready"

(* Archived sources are not listed.                                        *)
ListedIn(sources) == {i \in DOMAIN sources : sources[i].status # "archived"}

ReadyIn(sources) == {i \in ListedIn(sources) : Ready(sources[i])}

=============================================================================
