--------------------------- MODULE VisualPlanning ---------------------------
(***************************************************************************)
(* The image plan of a visual workflow session (internal/modules/          *)
(* visualworkflow, service_part3.go, service_part6.go, service_part7.go):  *)
(* the user decides on the elements of the deconstruction, every decision  *)
(* composes the plan anew, the intent planner of the platform answers the  *)
(* fixed questions, and the plan becomes a stored prompt of the prompt     *)
(* center.  Of the deconstruction it takes what Preparation promises; the  *)
(* module also states what the session's view may say.                     *)
(*                                                                         *)
(* Every handler is one step; a choice stands for each database call on    *)
(* its way that may fail.  The progress the planners report and the flags  *)
(* "selected" and "confirmed" of an element are left out: the handlers     *)
(* write them and no decision rests on them.                               *)
(***************************************************************************)
EXTENDS Preparation, RemoteCall, StageView

CONSTANTS
  Answers,     \* the sets of results a delivery may bring
  Choices,     \* the decisions users make on an element: [decision, slotted]
  AnswerSets,  \* the answers to the fixed questions an intent may hold
  Failing      \* the steps whose database call may fail

Answer == [slot : Slots, decision : Decisions]

(* Of several answers to one question the first counts, and is the one in  *)
(* the set.                                                                *)
ASSUME VisualPlanningAssumption ==
  /\ Answers \subseteq SUBSET Result
  /\ Choices \subseteq [decision : Decisions, slotted : BOOLEAN]
  /\ AnswerSets \subseteq SUBSET Answer
  /\ \A A \in AnswerSets : \A f, g \in A : f.slot = g.slot => f = g

VARIABLES
  plan,    \* the session's image plan, with the content of the prompt it names
  intent,  \* the answers to the fixed questions in the session's intent
  asked    \* has the platform a runtime job of the intent planner?

planningVars == <<source, standing, element, plan, intent, asked>>

(* A plan is composed by the backend or sent by a client; "content" is     *)
(* what it was composed from, "prompt" the content of the stored prompt    *)
(* whose id it holds.                                                      *)
NoPlan == [status |-> "contract_needed", origin |-> "none", content |-> NoContent,
           prompt |-> NoContent, validated |-> FALSE]

Init ==
  /\ PreparationInit
  /\ plan = NoPlan
  /\ intent = {}
  /\ asked = {}

DbResults(step) == IF step \in Failing THEN BOOLEAN ELSE {TRUE}

-----------------------------------------------------------------------------
(* Mistakes the handlers could make.                                       *)

(* the run of the prompt center stays with the plan that replaces its own  *)
KeepsPrompt(manifest) ==
  [status |-> IF manifest.ready THEN "ready" ELSE "blocked",
   origin |-> "backend_intent_fusion", content |-> manifest,
   prompt |-> plan.prompt, validated |-> plan.validated]

(* the plan is taken as it is stored *)
TrustsStoredPlan == {[plan |-> plan, intent |-> intent]}

-----------------------------------------------------------------------------
(* Composing the plan.                                                     *)

PromptPlanFromIntentFusion(manifest) ==
  [status |-> IF manifest.ready THEN "ready" ELSE "blocked",
   origin |-> "backend_intent_fusion", content |-> manifest,
   prompt |-> NoContent, validated |-> FALSE]

IntentSourceReferencesFromSources ==
  {[id |-> i, role |-> source[i].role] : i \in ReadyIn(source)}

(* What a refresh may write.  The intent keeps the fixed answers that no   *)
(* element decided on, and loses the others.                               *)
RefreshIntentInputManifest(elements) ==
  {[intent |-> {f \in intent : \A s \in selections : s.slot # f.slot},
    plan   |-> PromptPlanFromIntentFusion(
                 BuildIntentFusionInputManifest(IntentSourceReferencesFromSources,
                   MergeIntentSelections(selections, intent), elements))] :
     selections \in IntentSelectionsFromElements(elements)}

Stored == [plan |-> plan, intent |-> intent]

Store(row) == plan' = row.plan /\ intent' = row.intent

(* A refresh may fail at any of its calls; it saves nothing then.          *)
Refreshed(elements) ==
  RefreshIntentInputManifest(elements) \cup (IF "refresh" \in Failing THEN {Stored} ELSE {})

-----------------------------------------------------------------------------
(* The deconstruction, as Preparation promises it.                         *)

(* A job shows here only in what it delivers: one about a single picture,  *)
(* which may deliver anything, stands for all.                             *)
Prepare ==
  /\ \/ SourceAdded
     \/ SourceMarked
     \/ JobAdded /\ standing'[Len(standing')] = [status |-> "queued", single |-> TRUE]
  /\ UNCHANGED <<plan, intent, asked>>

(* The platform's later deliveries for a job replace earlier ones.         *)
NextDelivery(i) == 1 + Cardinality(UNION {1 .. e.delivery : e \in ElementsOf(i)})

NewElements(i, results) == {ElementOf(i, NextDelivery(i), r) : r \in results}

(* A delivery, of no results for a failed job.  It does not compose the    *)
(* plan anew, and takes the decisions made on the job's elements along.    *)
Deliver ==
  /\ \E i \in DOMAIN standing, results \in Answers \cup {{}} :
       /\ NextDelivery(i) <= MaxDeliveries
       /\ element' = (element \ ElementsOf(i)) \cup NewElements(i, results)
       /\ Delivered(i)
  /\ UNCHANGED <<plan, intent, asked>>

-----------------------------------------------------------------------------
(* The user's decisions: UpdateElement, ApplyAttentionTree and             *)
(* ConfirmSelection.                                                       *)

Decide(e, choice) ==
  [e EXCEPT !.decision = choice.decision, !.slotted = @ \/ choice.slotted]

Replaced(old, new) == (element \ old) \cup new

(* A readiness or a flag alone does not compose the plan anew; metadata    *)
(* does, with a decision or without one.                                   *)
UpdateElement ==
  /\ \E e \in element, readiness \in {"ready", "needs_review"} :
       \E updated \in {e} \cup {Decide(e, choice) : choice \in Choices} :
         /\ element' = Replaced({e}, {[updated EXCEPT !.readiness = readiness]})
         /\ \/ \E row \in Refreshed(element') : Store(row)
            \/ updated = e /\ UNCHANGED <<plan, intent>>
  /\ UNCHANGED <<source, standing, asked>>

(* The elements are saved one by one: when one that follows those saved    *)
(* fails, the plan is not composed.                                        *)
ApplyAttentionTree ==
  /\ \E saved \in SUBSET element \ {{}} :
       \E choice \in [saved -> Choices] :
         LET applied(e) == [Decide(e, choice[e]) EXCEPT
                              !.readiness = IF choice[e].decision = "needs_review"
                                            THEN "needs_review" ELSE "ready"]
         IN  /\ element' = Replaced(saved, {applied(e) : e \in saved})
             /\ \/ \E row \in Refreshed(element') : Store(row)
                \/ "saveElement" \in Failing /\ saved # element /\ UNCHANGED <<plan, intent>>
  /\ UNCHANGED <<source, standing, asked>>

(* What is confirmed needs no review any more; the plan is not composed.   *)
(* When a save fails, those before it are confirmed.                       *)
ConfirmSelection ==
  /\ \E saved \in SUBSET element \ {{}} :
       element' = Replaced(saved, {[e EXCEPT !.readiness = "ready"] : e \in saved})
  /\ UNCHANGED <<source, standing, plan, intent, asked>>

-----------------------------------------------------------------------------
(* UpdateSession.                                                          *)

ValidateClientPromptPlan(origin) == origin = "client"

UpdateSession ==
  /\ \/ /\ intent' \in AnswerSets
        /\ UNCHANGED plan
     \/ /\ \E status \in {"ready", "blocked"}, origin \in {"client", "backend_intent_fusion"} :
             /\ ValidateClientPromptPlan(origin)
             /\ plan' = [NoPlan EXCEPT !.status = status, !.origin = origin]
        /\ UNCHANGED intent
  /\ UNCHANGED <<source, standing, element, asked>>

-----------------------------------------------------------------------------
(* The intent planner.                                                     *)

(* The platform is asked once; a lost answer leaves the runtime job.       *)
CreateIntentPlannerJob ==
  /\ element # {}
  /\ \E call \in Call(asked, {"intent"}) : asked' = call.state
  /\ UNCHANGED <<source, standing, element, plan, intent>>

(* The planner rewrites the intent, whatever was answered since.           *)
InternalRecordIntentPlannerResults ==
  /\ asked # {}
  /\ intent' \in AnswerSets
  /\ UNCHANGED <<source, standing, element, plan, asked>>

-----------------------------------------------------------------------------
(* CreatePromptPlannerJob: the plan is composed and saved, and a ready one *)
(* becomes a stored prompt.                                                *)

SessionsToPlan == RefreshIntentInputManifest(element)

(* The prompt center answers with the run it stored for this content.      *)
AttachPromptCenterSnapshot(p) == [p EXCEPT !.prompt = p.content, !.validated = TRUE]

CreatePromptPlannerJob ==
  /\ \E row \in SessionsToPlan, executable \in BOOLEAN, saved \in DbResults("savePlan") :
       Store(IF row.plan.status = "ready" /\ executable /\ saved
             THEN [row EXCEPT !.plan = AttachPromptCenterSnapshot(@)]
             ELSE row)
  /\ UNCHANGED <<source, standing, element, asked>>

-----------------------------------------------------------------------------

Next ==
  \/ Prepare
  \/ Deliver
  \/ UpdateElement
  \/ ApplyAttentionTree
  \/ ConfirmSelection
  \/ UpdateSession
  \/ CreateIntentPlannerJob
  \/ InternalRecordIntentPlannerResults
  \/ CreatePromptPlannerJob

Spec == Init /\ [][Next]_planningVars

-----------------------------------------------------------------------------
(* Properties.                                                             *)

Selection == [slot : Slots \cup {NoSlot}, decision : Decisions]

Fact == [slot : Slots, from : {<<0, 0>>} \cup (JobIds \X (1 .. MaxDeliveries))]

Content == [ready : BOOLEAN, sources : SUBSET [id : SourceIds, role : Tracks],
            selections : SUBSET Selection, facts : SUBSET Fact]

Plan == [status : {"ready", "blocked", "contract_needed"},
         origin : {"none", "client", "backend_intent_fusion"},
         content : Content, prompt : Content, validated : BOOLEAN]

(* The rows have their types.                                              *)
TypeOK ==
  /\ source \in Seq(Source) /\ Len(source) <= MaxSources
  /\ standing \in Seq([status : JobStatuses, single : BOOLEAN]) /\ Len(standing) <= MaxJobs
  /\ element \subseteq Element
  /\ plan \in Plan
  /\ intent \in SUBSET Answer
  /\ asked \subseteq {"intent"}

(* The stored prompt a plan names is the prompt of this very plan, not of  *)
(* one composed before the user's last decision.                           *)
PromptMatchesPlan ==
  plan.prompt # NoContent => plan.prompt = plan.content

(* A plan the view calls ready was composed by the backend from two        *)
(* sources and a decision, whatever plans clients sent.                    *)
ReadyPromptIsComposed == PromptReady(plan) => plan.content.ready

(* What the user dropped is not quoted by the composed prompt, whoever     *)
(* read it and whichever job it comes from.                                *)
DroppedIsNotUsed ==
  plan.content.ready =>
    LET composed == PromptCompositionFromIntentFusion(plan.content)
    IN  \A s \in plan.content.selections :
          s.decision = "drop" =>
            \A f \in composed.analysis \cup composed.objective.subject
                       \cup composed.objective.scenery : f.slot # s.slot

(* One slot, one decision: neither several elements nor an answer to a     *)
(* fixed question beside an element make the plan decide a slot twice.     *)
OneDecisionPerSlot ==
  \A s, t \in plan.content.selections :
    s.slot = t.slot /\ s.slot # NoSlot => s = t

CurrentContents == {row.plan.content : row \in RefreshIntentInputManifest(element)}

(* The prompt that is stored for a plan is made from the sources, the      *)
(* decisions and the elements of that moment (CreatePromptPlannerJob       *)
(* composes the plan again first).                                         *)
PlannedIsCurrent ==
  [][plan'.prompt \notin {plan.prompt, NoContent}
       => plan'.prompt \in CurrentContents]_planningVars

(* The blockers that are about a part of the view.                         *)
Targets(part) ==
  CASE part = "source"         -> {"source_reference", "source_references"}
    [] part = "deconstruction" -> {"deconstruction_job", "image_understanding"}
    [] part = "prompt"         -> {"prompt_plan"}
    [] part = "generation"     -> {"generation", "image_generation"}

ListedSources == SelectSeq(source, LAMBDA s : s.status # "archived")

(* A version with every evidence a view asks for.                          *)
Finished == [job |-> "named", status |-> "completed", stage |-> "result_available",
             results |-> {"picture"}, selected |-> "picture", writeback |-> "succeeded",
             closure |-> ClosureEvidence]

(* Nothing is blocked silently: for each part the view shows as blocked it *)
(* lists a blocker that is about this part, whatever the jobs' state and   *)
(* whatever the platform says.  And a session with a finished version is   *)
(* not called fit for release unless every part of it is ready.            *)
BlockedIsExplained ==
  \A status \in JobStatuses \cup {"none"}, matrix \in Matrices \cup {NoMatrix} :
    LET r       == ReadinessOf(ListedSources, status, plan, << >>, matrix)
        done    == ReadinessOf(ListedSources, status, plan, <<Finished>>, matrix)
        verdict == BuildIntegrationVerdict(
                     BuildBusinessWorkflowDAG(status, plan, <<Finished>>, done), done)
    IN  /\ \A part \in Parts : r[part] = "blocked" =>
             \E b \in r.blockers : b.target \in Targets(part)
        /\ BuildReleaseReadiness(verdict, <<Finished>>, matrix) = "pass"
             => ComputeOverall(done) = "ready"

=============================================================================
