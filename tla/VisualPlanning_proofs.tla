------------------------ MODULE VisualPlanning_proofs ------------------------
(***************************************************************************)
(* What TLAPS proves of VisualPlanning, for any sources, decisions,        *)
(* answers and deliveries, and whatever fails.                             *)
(***************************************************************************)
EXTENDS VisualPlanning, FiniteSetTheorems, SequenceTheorems, TLAPS

Decisive(answers) == \A f, g \in answers : f.slot = g.slot => f = g

(* Selections that decide each slot once.                                  *)
DecidesOnce(selections) ==
  \A s, t \in selections : s.slot = t.slot /\ s.slot # NoSlot => s = t

(* What holds of every plan that is stored.                                *)
SoundPlan(p) ==
  /\ p.prompt # NoContent => p.prompt = p.content
  /\ p.validated => p.origin = "backend_intent_fusion"
  /\ p.origin = "backend_intent_fusion" /\ p.status = "ready" => p.content.ready
  /\ DecidesOnce(p.content.selections)

PlanInv == SoundPlan(plan) /\ Decisive(intent)

-----------------------------------------------------------------------------
(* Composing.                                                              *)

LEMMA ElementsDecideOnce ==
  ASSUME NEW elements, NEW selections \in IntentSelectionsFromElements(elements)
  PROVE  DecidesOnce(selections)
<1> DEFINE decided == {e \in elements : e.decision \notin {"none", "needs_review"}}
           all     == {[slot     |-> IF e.slotted THEN <<e.track, e.dimension>> ELSE NoSlot,
                        decision |-> e.decision] : e \in decided}
           free    == {s \in all : s.slot = NoSlot}
<1>1. PICK P \in SUBSET (all \ free) :
        /\ selections = free \cup P
        /\ \A s \in all \ free : \E p \in P : /\ p.slot = s.slot
                                              /\ \A q \in P : q.slot = p.slot => q = p
  BY Zenon DEF IntentSelectionsFromElements
<1> HIDE DEF all
<1>2. ASSUME NEW s \in selections, NEW t \in selections, s.slot = t.slot, s.slot # NoSlot
      PROVE  s = t
  <2>1. s \in P /\ t \in P BY <1>1, <1>2
  <2>2. PICK p \in P : p.slot = s.slot /\ \A q \in P : q.slot = p.slot => q = p
    BY <1>1, <2>1
  <2> QED BY <1>2, <2>1, <2>2
<1> QED BY <1>2 DEF DecidesOnce

LEMMA MergedDecideOnce ==
  ASSUME NEW primary, NEW fixed, DecidesOnce(primary), Decisive(fixed)
  PROVE  DecidesOnce(MergeIntentSelections(primary, fixed))
BY DEF DecidesOnce, Decisive, MergeIntentSelections

LEMMA ComposedIsSound ==
  ASSUME NEW sources, NEW selections, NEW elements, DecidesOnce(selections)
  PROVE  LET manifest == BuildIntentFusionInputManifest(sources, selections, elements)
             p        == PromptPlanFromIntentFusion(manifest)
         IN  /\ SoundPlan(p)
             /\ p.prompt = NoContent
             /\ SoundPlan(AttachPromptCenterSnapshot(p))
             /\ AttachPromptCenterSnapshot(p).prompt = p.content
<1> DEFINE manifest == BuildIntentFusionInputManifest(sources, selections, elements)
<1>1. manifest.selections = selections BY DEF BuildIntentFusionInputManifest
<1> HIDE DEF manifest
<1> QED BY <1>1 DEF PromptPlanFromIntentFusion, SoundPlan, AttachPromptCenterSnapshot, manifest

(* What a composition stores, with or without the run of the prompt center.*)
LEMMA ComposedRow ==
  ASSUME Decisive(intent), NEW elements, NEW row \in RefreshIntentInputManifest(elements)
  PROVE  /\ Decisive(row.intent)
         /\ SoundPlan(row.plan)
         /\ row.plan.prompt = NoContent
         /\ SoundPlan(AttachPromptCenterSnapshot(row.plan))
         /\ AttachPromptCenterSnapshot(row.plan).prompt = row.plan.content
<1>1. PICK selections \in IntentSelectionsFromElements(elements) :
        row = [intent |-> {f \in intent : \A s \in selections : s.slot # f.slot},
               plan   |-> PromptPlanFromIntentFusion(
                            BuildIntentFusionInputManifest(IntentSourceReferencesFromSources,
                              MergeIntentSelections(selections, intent), elements))]
  BY Zenon DEF RefreshIntentInputManifest
<1> DEFINE merged == MergeIntentSelections(selections, intent)
           manifest == BuildIntentFusionInputManifest(IntentSourceReferencesFromSources,
                                                      merged, elements)
           p == PromptPlanFromIntentFusion(manifest)
<1>2. DecidesOnce(merged) BY ElementsDecideOnce, MergedDecideOnce
<1>3. /\ SoundPlan(p)
      /\ p.prompt = NoContent
      /\ SoundPlan(AttachPromptCenterSnapshot(p))
      /\ AttachPromptCenterSnapshot(p).prompt = p.content
  <2> HIDE DEF merged
  <2> QED BY <1>2, ComposedIsSound
<1>4. row.plan = p /\ row.intent = {f \in intent : \A s \in selections : s.slot # f.slot}
  BY <1>1
<1>5. Decisive(row.intent) BY <1>4 DEF Decisive
<1> HIDE DEF p
<1> QED BY <1>3, <1>4, <1>5

(* A refresh that may fail leaves a plan of the session's or a new one.    *)
LEMMA RefreshedRow ==
  ASSUME PlanInv, NEW elements, NEW row \in Refreshed(elements)
  PROVE  /\ Decisive(row.intent)
         /\ SoundPlan(row.plan)
         /\ row.plan.prompt \in {plan.prompt, NoContent}
<1>1. row \in RefreshIntentInputManifest(elements) \/ row = Stored
  BY DEF Refreshed
<1>2. CASE row \in RefreshIntentInputManifest(elements)
  BY <1>2, ComposedRow DEF PlanInv
<1>3. CASE row = Stored BY <1>3 DEF Stored, PlanInv
<1> QED BY <1>1, <1>2, <1>3

-----------------------------------------------------------------------------
(* The steps.  What each may do to the plan is the same for both theorems. *)

LEMMA PlanInit == Init => PlanInv
BY DEF Init, PlanInv, SoundPlan, NoPlan, NoContent, Decisive, DecidesOnce

(* Whose prompt the plan names after a step.                               *)
PromptKept == plan'.prompt \in {plan.prompt, NoContent}

LEMMA StepResult ==
  ASSUME PlanInv, [Next]_planningVars
  PROVE  PlanInv' /\ (PromptKept \/ plan'.prompt \in CurrentContents)
<1>1. ASSUME NEW elements, NEW row \in Refreshed(elements), Store(row)
      PROVE  PlanInv' /\ PromptKept
  BY <1>1, RefreshedRow DEF Store, PlanInv, PromptKept
<1>2. ASSUME UNCHANGED <<plan, intent>> PROVE PlanInv' /\ PromptKept
  BY <1>2 DEF PlanInv, PromptKept
<1>3. ASSUME NEW A \in AnswerSets PROVE Decisive(A)
  BY VisualPlanningAssumption DEF Decisive
<1>4. CASE Prepare \/ Deliver \/ ConfirmSelection \/ CreateIntentPlannerJob
           \/ UNCHANGED planningVars
  BY <1>2, <1>4 DEF Prepare, Deliver, ConfirmSelection, CreateIntentPlannerJob, planningVars
<1>5. CASE UpdateElement
  <2>1. (\E row \in Refreshed(element') : Store(row)) \/ UNCHANGED <<plan, intent>>
    BY <1>5, Zenon DEF UpdateElement
  <2> QED BY <1>1, <1>2, <2>1
<1>6. CASE ApplyAttentionTree
  <2>1. (\E row \in Refreshed(element') : Store(row)) \/ UNCHANGED <<plan, intent>>
    BY <1>6, Zenon DEF ApplyAttentionTree
  <2> QED BY <1>1, <1>2, <2>1
<1>7. CASE UpdateSession
  <2>1. CASE intent' \in AnswerSets /\ UNCHANGED plan
    BY <1>3, <2>1 DEF PlanInv, PromptKept
  <2>2. CASE \E status \in {"ready", "blocked"}, origin \in {"client", "backend_intent_fusion"} :
               /\ ValidateClientPromptPlan(origin)
               /\ plan' = [NoPlan EXCEPT !.status = status, !.origin = origin]
               /\ UNCHANGED intent
    BY <2>2 DEF PlanInv, PromptKept, SoundPlan, ValidateClientPromptPlan, NoPlan, NoContent,
                DecidesOnce
  <2> QED BY <1>7, <2>1, <2>2 DEF UpdateSession
<1>8. CASE InternalRecordIntentPlannerResults
  BY <1>3, <1>8 DEF InternalRecordIntentPlannerResults, PlanInv, PromptKept
<1>9. CASE CreatePromptPlannerJob
  <2>1. PICK row \in RefreshIntentInputManifest(element) :
          \/ Store(row)
          \/ Store([row EXCEPT !.plan = AttachPromptCenterSnapshot(@)])
    BY <1>9 DEF CreatePromptPlannerJob, SessionsToPlan
  <2>2. /\ Decisive(row.intent) /\ SoundPlan(row.plan) /\ row.plan.prompt = NoContent
        /\ SoundPlan(AttachPromptCenterSnapshot(row.plan))
        /\ AttachPromptCenterSnapshot(row.plan).prompt = row.plan.content
    BY ComposedRow DEF PlanInv
  <2>3. CASE Store(row) BY <2>2, <2>3 DEF Store, PlanInv, PromptKept
  <2>4. CASE Store([row EXCEPT !.plan = AttachPromptCenterSnapshot(@)])
    <3>1. DOMAIN row = {"intent", "plan"} BY DEF RefreshIntentInputManifest
    <3>2. plan' = AttachPromptCenterSnapshot(row.plan) /\ intent' = row.intent
      BY <2>4, <3>1 DEF Store
    <3>3. row.plan.content \in CurrentContents BY <2>1 DEF CurrentContents
    <3> QED BY <2>2, <3>2, <3>3 DEF PlanInv
  <2> QED BY <2>1, <2>3, <2>4
<1> QED BY <1>4, <1>5, <1>6, <1>7, <1>8, <1>9 DEF Next

THEOREM PlansAreSound == Spec => []PlanInv
<1>1. PlanInv /\ [Next]_planningVars => PlanInv' BY StepResult
<1> QED BY <1>1, PlanInit, PTL DEF Spec

(* The stored prompt a plan names is the prompt of this very plan.         *)
THEOREM PromptsMatchPlans == Spec => []PromptMatchesPlan
<1>1. PlanInv => PromptMatchesPlan BY DEF PlanInv, SoundPlan, PromptMatchesPlan
<1> QED BY <1>1, PlansAreSound, PTL

(* A plan is ready only when the backend composed it from enough.          *)
THEOREM ReadyPromptsAreComposed == Spec => []ReadyPromptIsComposed
<1>1. PlanInv => ReadyPromptIsComposed
  BY DEF PlanInv, SoundPlan, ReadyPromptIsComposed, PromptReady
<1> QED BY <1>1, PlansAreSound, PTL

(* A plan decides no slot twice.                                           *)
THEOREM SlotsAreDecidedOnce == Spec => []OneDecisionPerSlot
<1>1. PlanInv => OneDecisionPerSlot BY DEF PlanInv, SoundPlan, DecidesOnce, OneDecisionPerSlot
<1> QED BY <1>1, PlansAreSound, PTL

-----------------------------------------------------------------------------

LEMMA QuotesAreNotDropped ==
  ASSUME NEW facts, NEW track \in Tracks, NEW selections, DecidesOnce(selections),
         NEW s \in selections, s.decision = "drop",
         NEW f \in FilterPromptComposerAnalysisEntries(facts, track, selections)
  PROVE  f.slot # s.slot
<1>1. f.slot[1] = track /\ PromptComposerSlotDecision(selections, f.slot) # "drop"
  BY DEF FilterPromptComposerAnalysisEntries
<1> SUFFICES ASSUME f.slot = s.slot PROVE FALSE OBVIOUS
<1>2. s.slot # NoSlot BY <1>1 DEF NoSlot, Tracks
<1>3. \E t \in selections : t.slot = f.slot OBVIOUS
<1> DEFINE chosen == CHOOSE t \in selections : t.slot = f.slot
<1>4. chosen \in selections /\ chosen.slot = f.slot BY <1>3
<1>5. chosen = s BY <1>2, <1>4 DEF DecidesOnce
<1>6. PromptComposerSlotDecision(selections, f.slot) = chosen.decision
  BY <1>3 DEF PromptComposerSlotDecision
<1> QED BY <1>1, <1>5, <1>6

(* What the user dropped is in no section of the composed prompt.          *)
THEOREM DroppedIsNeverUsed == Spec => []DroppedIsNotUsed
<1>1. PlanInv => DroppedIsNotUsed
  <2> SUFFICES ASSUME PlanInv, NEW s \in plan.content.selections, s.decision = "drop",
                      NEW f, f \in LET composed == PromptCompositionFromIntentFusion(plan.content)
                                   IN  composed.analysis \cup composed.objective.subject
                                         \cup composed.objective.scenery
               PROVE  f.slot # s.slot
    BY Zenon DEF DroppedIsNotUsed
  <2> DEFINE quoted(track) == FilterPromptComposerAnalysisEntries(plan.content.facts, track,
                                                                  plan.content.selections)
  <2>1. \E track \in Tracks : f \in quoted(track)
    BY DEF PromptCompositionFromIntentFusion, PromptComposerObjectiveText, Tracks
  <2>2. DecidesOnce(plan.content.selections) BY DEF PlanInv, SoundPlan
  <2> QED BY <2>1, <2>2, QuotesAreNotDropped
<1> QED BY <1>1, PlansAreSound, PTL

(* The prompt that is stored for a plan was composed in that very step.    *)
THEOREM StoredPromptsAreCurrent == Spec => PlannedIsCurrent
<1>1. PlanInv /\ [Next]_planningVars
        => [plan'.prompt \notin {plan.prompt, NoContent}
              => plan'.prompt \in CurrentContents]_planningVars
  BY StepResult DEF PromptKept
<1> QED BY <1>1, PlansAreSound, PTL DEF Spec, PlannedIsCurrent

-----------------------------------------------------------------------------
(* Type correctness.                                                       *)

SourcesTyped   == source \in Seq(Source) /\ Len(source) <= MaxSources
StandingsTyped ==
  standing \in Seq([status : JobStatuses, single : BOOLEAN]) /\ Len(standing) <= MaxJobs

TypeInv ==
  /\ SourcesTyped /\ StandingsTyped /\ element \subseteq Element /\ plan \in Plan
  /\ intent \in SUBSET Answer /\ asked \subseteq {"intent"}

LEMMA NewSourcesTyped == NewSources \subseteq Source
<1> SUFFICES ASSUME NEW s \in NewSources PROVE s \in Source OBVIOUS
<1>1. PICK form \in SourceForms : \E status \in InitialSourceStatuses(form.kind) :
        s = [role |-> SourceRoleFromMetadata(form), status |-> status, resolve |-> status,
             usable |-> form.usable]
  BY DEF NewSources
<1>2. PICK status \in InitialSourceStatuses(form.kind) :
        s = [role |-> SourceRoleFromMetadata(form), status |-> status, resolve |-> status,
             usable |-> form.usable]
  BY <1>1
<1>3. form \in SourceForm BY VisualRowsAssumption
<1>4. SourceRoleFromMetadata(form) \in Tracks BY <1>3 DEF SourceForm, SourceRoleFromMetadata, Tracks
<1>5. status \in SourceStatuses BY DEF InitialSourceStatuses, SourceStatuses
<1> QED BY <1>2, <1>3, <1>4, <1>5 DEF Source, SourceForm

LEMMA CallOutcome ==
  ASSUME NEW before, NEW after, NEW r \in Call(before, after)
  PROVE  r.state \in {before, after}
<1>1. \/ r = [ok |-> TRUE, state |-> after]
      \/ r = [ok |-> FALSE, state |-> before]
      \/ r = [ok |-> FALSE, state |-> after]
  BY LostRepliesAssumption, Zenon DEF Call
<1> QED BY <1>1

LEMMA PrepareTyped == ASSUME TypeInv, Prepare PROVE SourcesTyped' /\ StandingsTyped'
<1> USE VisualRowsAssumption
<1>1. CASE SourceAdded
  <2>1. PICK s \in NewSources : source' = Append(source, s) BY <1>1 DEF SourceAdded
  <2>2. SourcesTyped'
    BY <1>1, <2>1, NewSourcesTyped, AppendProperties DEF SourceAdded, TypeInv, SourcesTyped
  <2> QED BY <1>1, <2>2 DEF SourceAdded, TypeInv, StandingsTyped
<1>2. CASE SourceMarked
  <2>1. PICK i \in DOMAIN source, statuses \in SourceEdits \cup {<<"archived", "archived">>} :
          source' = [source EXCEPT ![i].status = statuses[1], ![i].resolve = statuses[2]]
    BY <1>2 DEF SourceMarked
  <2> DEFINE s == [source[i] EXCEPT !.status = statuses[1], !.resolve = statuses[2]]
  <2>2. statuses[1] \in SourceStatuses /\ statuses[2] \in SourceStatuses
    BY DEF SourceStatuses
  <2>3. source[i] \in Source BY DEF TypeInv, SourcesTyped
  <2>4. s \in Source BY <2>2, <2>3 DEF Source
  <2>5. source' = [source EXCEPT ![i] = s]
    BY <2>1, <2>3 DEF Source, TypeInv, SourcesTyped
  <2>6. i \in 1 .. Len(source) BY DEF TypeInv, SourcesTyped
  <2> HIDE DEF s
  <2>7. SourcesTyped' BY <2>4, <2>5, <2>6, ExceptSeq DEF TypeInv, SourcesTyped
  <2> QED BY <1>2, <2>7 DEF SourceMarked, TypeInv, StandingsTyped
<1>3. CASE JobAdded
  <2>1. PICK status \in {"queued", "contract_needed"}, single \in BOOLEAN :
          standing' = Append(standing, [status |-> status, single |-> single])
    BY <1>3 DEF JobAdded
  <2>2. [status |-> status, single |-> single] \in [status : JobStatuses, single : BOOLEAN]
    BY DEF JobStatuses
  <2>3. StandingsTyped'
    BY <1>3, <2>1, <2>2, AppendProperties DEF JobAdded, TypeInv, StandingsTyped
  <2> QED BY <1>3, <2>3 DEF JobAdded, TypeInv, SourcesTyped
<1> QED BY <1>1, <1>2, <1>3 DEF Prepare

(* A delivery has a number, and it is in the bound when the step says so.  *)
LEMMA NextDeliveryTyped ==
  ASSUME element \subseteq Element, NEW i
  PROVE  NextDelivery(i) \in Nat \ {0}
<1> DEFINE seen == UNION {1 .. e.delivery : e \in ElementsOf(i)}
<1>1. \A e \in ElementsOf(i) : e.delivery \in 1 .. MaxDeliveries
  BY DEF ElementsOf, Element
<1>2. seen \in SUBSET (1 .. MaxDeliveries)
  BY <1>1, VisualRowsAssumption
<1>3. IsFiniteSet(1 .. MaxDeliveries) BY FS_Interval, VisualRowsAssumption
<1> HIDE DEF seen
<1>4. Cardinality(seen) \in Nat BY <1>2, <1>3, FS_Subset, FS_CardinalityType
<1> QED BY <1>4 DEF NextDelivery, seen

LEMMA DeliverTyped ==
  ASSUME TypeInv, Deliver
  PROVE  SourcesTyped' /\ StandingsTyped' /\ element' \subseteq Element
<1>1. PICK i \in DOMAIN standing, results \in Answers \cup {{}} :
        /\ NextDelivery(i) <= MaxDeliveries
        /\ element' = (element \ ElementsOf(i)) \cup NewElements(i, results)
        /\ Delivered(i)
  BY Zenon DEF Deliver
<1>2. UNCHANGED source /\ \E status \in JobStatuses :
        standing' = [standing EXCEPT ![i].status = status]
  BY <1>1 DEF Delivered, JobStatuses
<1>3. PICK status \in JobStatuses : standing' = [standing EXCEPT ![i].status = status]
  BY <1>2
<1>4. StandingsTyped'
  <2> DEFINE s == [standing[i] EXCEPT !.status = status]
  <2>1. i \in 1 .. Len(standing) /\ standing[i] \in [status : JobStatuses, single : BOOLEAN]
    <3>1. standing \in Seq([status : JobStatuses, single : BOOLEAN])
      BY DEF TypeInv, StandingsTyped
    <3>2. i \in 1 .. Len(standing) BY <3>1
    <3> QED BY <3>1, <3>2, ElementOfSeq
  <2>2. s \in [status : JobStatuses, single : BOOLEAN] BY <2>1
  <2>3. standing' = [standing EXCEPT ![i] = s] BY <1>3
  <2> HIDE DEF s
  <2> QED BY <2>1, <2>2, <2>3, ExceptSeq DEF TypeInv, StandingsTyped
<1>5. NextDelivery(i) \in 1 .. MaxDeliveries
  BY <1>1, NextDeliveryTyped, VisualRowsAssumption DEF TypeInv
<1>6. i \in JobIds BY VisualRowsAssumption DEF TypeInv, StandingsTyped, JobIds
<1>7. ASSUME NEW r \in results PROVE ElementOf(i, NextDelivery(i), r) \in Element
  <2>1. r \in Result BY VisualPlanningAssumption
  <2> HIDE DEF NextDelivery
  <2> QED BY <1>5, <1>6, <2>1 DEF Result, Element, ElementOf
<1>8. element' \subseteq Element BY <1>1, <1>7 DEF TypeInv, NewElements
<1> QED BY <1>2, <1>4, <1>8 DEF TypeInv, SourcesTyped

LEMMA DecideTyped ==
  ASSUME NEW e \in Element, NEW choice \in Choices
  PROVE  /\ Decide(e, choice) \in Element
         /\ \A word \in {"ready", "needs_review"} :
              [Decide(e, choice) EXCEPT !.readiness = word] \in Element
BY VisualPlanningAssumption DEF Decide, Element

LEMMA SelectionsTyped ==
  ASSUME NEW elements, elements \subseteq Element,
         NEW selections \in IntentSelectionsFromElements(elements)
  PROVE  selections \subseteq Selection
<1> DEFINE decided == {e \in elements : e.decision \notin {"none", "needs_review"}}
           selected(e) == [slot     |-> IF e.slotted THEN <<e.track, e.dimension>> ELSE NoSlot,
                           decision |-> e.decision]
           all == {selected(e) : e \in decided}
<1>1. selections \subseteq all
  <2> HIDE DEF selected
  <2> QED BY DEF IntentSelectionsFromElements, selected
<1>2. ASSUME NEW e \in decided PROVE selected(e) \in Selection
  BY DEF Element, Selection, Slots
<1> HIDE DEF selected
<1> QED BY <1>1, <1>2

LEMMA FactsTyped ==
  ASSUME NEW track \in Tracks, NEW elements, elements \subseteq Element
  PROVE  FactsOfTrack(track, elements) \subseteq Fact
<1> SUFFICES ASSUME NEW f \in FactsOfTrack(track, elements) PROVE f \in Fact OBVIOUS
<1>1. CASE f = PromptFallbackIntentEntry(track)
  <2>1. <<track, IF track = "sku" THEN "product" ELSE "background">> \in Slots
    BY DEF Slots, Tracks, Dimensions
  <2> QED BY <1>1, <2>1 DEF PromptFallbackIntentEntry, Fact
<1>2. ASSUME NEW e \in elements, e.track = track,
             f = [from |-> <<e.job, e.delivery>>, slot |-> <<track, e.dimension>>]
      PROVE  f \in Fact
  <2>1. <<e.job, e.delivery>> \in JobIds \X (1 .. MaxDeliveries) BY DEF Element
  <2>2. <<track, e.dimension>> \in Slots BY DEF Slots, Element
  <2> QED BY <1>2, <2>1, <2>2 DEF Fact
<1> QED BY <1>1, <1>2 DEF FactsOfTrack

LEMMA NoContentTyped == NoContent \in Content
BY DEF NoContent, Content

LEMMA ComposedTyped ==
  ASSUME TypeInv, NEW elements, elements \subseteq Element,
         NEW row \in RefreshIntentInputManifest(elements)
  PROVE  /\ row.intent \in SUBSET Answer
         /\ row.plan \in Plan
         /\ AttachPromptCenterSnapshot(row.plan) \in Plan
<1>1. PICK selections \in IntentSelectionsFromElements(elements) :
        row = [intent |-> {f \in intent : \A s \in selections : s.slot # f.slot},
               plan   |-> PromptPlanFromIntentFusion(
                            BuildIntentFusionInputManifest(IntentSourceReferencesFromSources,
                              MergeIntentSelections(selections, intent), elements))]
  BY Zenon DEF RefreshIntentInputManifest
<1> DEFINE merged   == MergeIntentSelections(selections, intent)
           sources  == IntentSourceReferencesFromSources
           manifest == BuildIntentFusionInputManifest(sources, merged, elements)
<1>2. merged \subseteq Selection
  <2>1. selections \subseteq Selection BY SelectionsTyped
  <2>2. intent \subseteq Selection BY DEF TypeInv, Answer, Selection
  <2> QED BY <2>1, <2>2 DEF MergeIntentSelections
<1>3. sources \subseteq [id : SourceIds, role : Tracks]
  <2> SUFFICES ASSUME NEW i \in ReadyIn(source)
               PROVE  [id |-> i, role |-> source[i].role] \in [id : SourceIds, role : Tracks]
    BY DEF IntentSourceReferencesFromSources
  <2>1. source \in Seq(Source) /\ Len(source) <= MaxSources BY DEF TypeInv, SourcesTyped
  <2>2. i \in 1 .. Len(source) BY <2>1 DEF ReadyIn, ListedIn
  <2>3. source[i] \in Source BY <2>1, <2>2, ElementOfSeq
  <2>4. i \in SourceIds BY <2>1, <2>2, VisualRowsAssumption DEF SourceIds
  <2> QED BY <2>3, <2>4 DEF Source
<1>4. UNION {FactsOfTrack(track, elements) : track \in Tracks} \subseteq Fact
  <2> SUFFICES ASSUME NEW track \in Tracks PROVE FactsOfTrack(track, elements) \subseteq Fact
    OBVIOUS
  <2> QED BY FactsTyped
<1> HIDE DEF merged, sources
<1>5. manifest \in Content
  BY <1>2, <1>3, <1>4 DEF BuildIntentFusionInputManifest, Content
<1> HIDE DEF manifest
<1>6. /\ row.plan = PromptPlanFromIntentFusion(manifest)
      /\ row.intent = {f \in intent : \A s \in selections : s.slot # f.slot}
  BY <1>1 DEF manifest, merged, sources
<1>7. PromptPlanFromIntentFusion(manifest) \in Plan
  BY <1>5, NoContentTyped DEF PromptPlanFromIntentFusion, Plan
<1>8. \A p \in Plan : AttachPromptCenterSnapshot(p) \in Plan
  BY DEF AttachPromptCenterSnapshot, Plan
<1> QED BY <1>6, <1>7, <1>8 DEF TypeInv

LEMMA RefreshedTyped ==
  ASSUME TypeInv, NEW elements, elements \subseteq Element,
         NEW row \in Refreshed(elements), Store(row)
  PROVE  plan' \in Plan /\ intent' \in SUBSET Answer
<1>1. CASE row \in RefreshIntentInputManifest(elements)
  BY <1>1, ComposedTyped DEF Store
<1>2. CASE row = Stored BY <1>2 DEF Stored, Store, TypeInv
<1> QED BY <1>1, <1>2 DEF Refreshed

LEMMA TypeInit == Init => TypeInv
<1> SUFFICES ASSUME Init PROVE TypeInv OBVIOUS
<1>1. SourcesTyped /\ StandingsTyped
  BY EmptySeq, VisualRowsAssumption DEF Init, PreparationInit, SourcesTyped, StandingsTyped
<1>2. plan \in Plan BY NoContentTyped DEF Init, NoPlan, Plan
<1> QED BY <1>1, <1>2 DEF Init, PreparationInit, TypeInv

LEMMA TypeStep == ASSUME TypeInv, [Next]_planningVars PROVE TypeInv'
<1>1. ASSUME UNCHANGED <<source, standing>> PROVE SourcesTyped' /\ StandingsTyped'
  BY <1>1 DEF TypeInv, SourcesTyped, StandingsTyped
<1>2. ASSUME UNCHANGED plan PROVE plan' \in Plan
  BY <1>2 DEF TypeInv
<1>3. ASSUME NEW old \in SUBSET element, NEW new, new \subseteq Element,
             element' = Replaced(old, new)
      PROVE  element' \subseteq Element
  BY <1>3 DEF Replaced, TypeInv
<1>4. CASE Prepare BY <1>2, <1>4, PrepareTyped DEF Prepare, SourceAdded, SourceMarked, JobAdded, TypeInv
<1>5. CASE Deliver BY <1>2, <1>5, DeliverTyped DEF Deliver, TypeInv
<1>6. CASE UpdateElement
  <2> DEFINE Updates(e) == {e} \cup {Decide(e, choice) : choice \in Choices}
  <2>0. PICK e \in element, readiness \in {"ready", "needs_review"} :
          \E updated \in Updates(e) :
            /\ element' = Replaced({e}, {[updated EXCEPT !.readiness = readiness]})
            /\ \/ \E row \in Refreshed(element') : Store(row)
               \/ UNCHANGED <<plan, intent>>
    BY <1>6, Zenon DEF UpdateElement
  <2>1. PICK updated \in Updates(e) :
            /\ element' = Replaced({e}, {[updated EXCEPT !.readiness = readiness]})
            /\ \/ \E row \in Refreshed(element') : Store(row)
               \/ UNCHANGED <<plan, intent>>
    BY <2>0
  <2>4. updated \in Element BY <2>1, DecideTyped DEF TypeInv
  <2>5. [updated EXCEPT !.readiness = readiness] \in Element BY <2>4 DEF Element
  <2>2. element' \subseteq Element BY <1>3, <2>1, <2>5 DEF TypeInv
  <2>3. plan' \in Plan /\ intent' \in SUBSET Answer
    BY <2>1, <2>2, RefreshedTyped DEF TypeInv
  <2> QED BY <1>1, <1>6, <2>2, <2>3 DEF UpdateElement, TypeInv
<1>7. CASE ApplyAttentionTree
  <2>1. PICK saved \in SUBSET element \ {{}} : \E choice \in [saved -> Choices] :
          /\ element' = Replaced(saved, {[Decide(e, choice[e]) EXCEPT
               !.readiness = IF choice[e].decision = "needs_review"
                             THEN "needs_review" ELSE "ready"] : e \in saved})
          /\ \/ \E row \in Refreshed(element') : Store(row)
             \/ UNCHANGED <<plan, intent>>
    BY <1>7, Zenon DEF ApplyAttentionTree
  <2>2. PICK choice \in [saved -> Choices] :
          /\ element' = Replaced(saved, {[Decide(e, choice[e]) EXCEPT
               !.readiness = IF choice[e].decision = "needs_review"
                             THEN "needs_review" ELSE "ready"] : e \in saved})
          /\ \/ \E row \in Refreshed(element') : Store(row)
             \/ UNCHANGED <<plan, intent>>
    BY <2>1
  <2>3. ASSUME NEW e \in saved
        PROVE  [Decide(e, choice[e]) EXCEPT
                  !.readiness = IF choice[e].decision = "needs_review"
                                THEN "needs_review" ELSE "ready"] \in Element
    BY DecideTyped DEF TypeInv
  <2>4. element' \subseteq Element
    <3> DEFINE new == {[Decide(e, choice[e]) EXCEPT
                          !.readiness = IF choice[e].decision = "needs_review"
                                        THEN "needs_review" ELSE "ready"] : e \in saved}
    <3>1. new \subseteq Element BY <2>3
    <3>2. element' = Replaced(saved, new) BY <2>2
    <3> HIDE DEF new
    <3> QED BY <1>3, <3>1, <3>2
  <2>5. plan' \in Plan /\ intent' \in SUBSET Answer
    BY <1>2, <2>2, <2>4, RefreshedTyped DEF TypeInv
  <2> QED BY <1>1, <1>7, <2>4, <2>5 DEF ApplyAttentionTree, TypeInv
<1>8. CASE ConfirmSelection
  <2>1. PICK saved \in SUBSET element \ {{}} :
          element' = Replaced(saved, {[e EXCEPT !.readiness = "ready"] : e \in saved})
    BY <1>8 DEF ConfirmSelection
  <2>2. ASSUME NEW e \in saved PROVE [e EXCEPT !.readiness = "ready"] \in Element
    BY DEF TypeInv, Element
  <2>3. element' \subseteq Element
    <3> DEFINE new == {[e EXCEPT !.readiness = "ready"] : e \in saved}
    <3>1. new \subseteq Element BY <2>2
    <3>2. element' = Replaced(saved, new) BY <2>1
    <3> HIDE DEF new
    <3> QED BY <1>3, <3>1, <3>2
  <2> QED BY <1>1, <1>2, <1>8, <2>3 DEF ConfirmSelection, TypeInv
<1>9. CASE UpdateSession
  <2>1. CASE intent' \in AnswerSets /\ UNCHANGED plan
    BY <1>1, <1>2, <1>9, <2>1, VisualPlanningAssumption DEF UpdateSession, TypeInv
  <2>2. CASE \E status \in {"ready", "blocked"}, origin \in {"client", "backend_intent_fusion"} :
               /\ ValidateClientPromptPlan(origin)
               /\ plan' = [NoPlan EXCEPT !.status = status, !.origin = origin]
               /\ UNCHANGED intent
    <3>1. plan' \in Plan BY <2>2, NoContentTyped DEF Plan, NoPlan
    <3> QED BY <1>1, <1>9, <2>2, <3>1 DEF UpdateSession, TypeInv
  <2> QED BY <1>9, <2>1, <2>2 DEF UpdateSession
<1>10. CASE CreateIntentPlannerJob
  <2>1. PICK call \in Call(asked, {"intent"}) : asked' = call.state
    BY <1>10 DEF CreateIntentPlannerJob
  <2>2. call.state \in {asked, {"intent"}} BY CallOutcome
  <2>3. asked' \subseteq {"intent"} BY <2>1, <2>2 DEF TypeInv
  <2> QED BY <1>1, <1>2, <1>10, <2>3 DEF CreateIntentPlannerJob, TypeInv
<1>11. CASE InternalRecordIntentPlannerResults
  BY <1>1, <1>2, <1>11, VisualPlanningAssumption DEF InternalRecordIntentPlannerResults, TypeInv
<1>12. CASE CreatePromptPlannerJob
  <2>1. PICK row \in RefreshIntentInputManifest(element) :
          \/ Store(row)
          \/ Store([row EXCEPT !.plan = AttachPromptCenterSnapshot(@)])
    BY <1>12 DEF CreatePromptPlannerJob, SessionsToPlan
  <2>2. /\ row.intent \in SUBSET Answer
        /\ row.plan \in Plan
        /\ AttachPromptCenterSnapshot(row.plan) \in Plan
    BY ComposedTyped DEF TypeInv
  <2>3. CASE Store(row)
    <3>1. plan' \in Plan /\ intent' \in SUBSET Answer BY <2>2, <2>3 DEF Store
    <3> QED BY <1>1, <1>12, <3>1 DEF CreatePromptPlannerJob, TypeInv
  <2>4. CASE Store([row EXCEPT !.plan = AttachPromptCenterSnapshot(@)])
    <3>1. DOMAIN row = {"intent", "plan"} BY DEF RefreshIntentInputManifest
    <3>2. plan' = AttachPromptCenterSnapshot(row.plan) /\ intent' = row.intent
      BY <2>4, <3>1 DEF Store
    <3> QED BY <1>1, <1>12, <2>2, <3>2 DEF CreatePromptPlannerJob, TypeInv
  <2> QED BY <2>1, <2>3, <2>4
<1>13. CASE UNCHANGED planningVars BY <1>1, <1>2, <1>13 DEF planningVars, TypeInv
<1> QED
  BY <1>4, <1>5, <1>6, <1>7, <1>8, <1>9, <1>10, <1>11, <1>12, <1>13 DEF Next

(* The rows keep their types (TypeOK).                                     *)
THEOREM PlanningTypeCorrect == Spec => []TypeOK
<1>1. TypeInv => TypeOK
  BY DEF TypeInv, TypeOK, SourcesTyped, StandingsTyped
<1>2. TypeInv /\ [Next]_planningVars => TypeInv' BY TypeStep
<1> QED BY <1>1, <1>2, TypeInit, PTL DEF Spec

-----------------------------------------------------------------------------
(* The view.                                                               *)

LEMMA BlockerFields ==
  ASSUME NEW code, NEW target
  PROVE  Blocker(code, target).target = target
BY DEF Blocker

LEMMA SourceIsExplained ==
  ASSUME NEW sources, NEW b \in SourceBlockers(sources)
  PROVE  b.target \in Targets("source")
<1>1. CASE sources = << >> BY <1>1, BlockerFields DEF SourceBlockers, Targets
<1>2. CASE sources # << >>
  <2>1. (\E code : b = Blocker(code, "source_reference"))
          \/ \E code : b = Blocker(code, "source_references")
    BY <1>2, Zenon DEF SourceBlockers
  <2> QED BY <2>1, BlockerFields DEF Targets
<1> QED BY <1>1, <1>2

LEMMA ViewExplains ==
  ASSUME NEW sources, NEW status, NEW p, NEW versions, NEW matrix,
         NEW part \in Parts, ReadinessOf(sources, status, p, versions, matrix)[part] = "blocked"
  PROVE  \E b \in ReadinessOf(sources, status, p, versions, matrix).blockers :
           b.target \in Targets(part)
<1> DEFINE r          == ReadinessOf(sources, status, p, versions, matrix)
           prompt     == IF PromptReady(p) THEN "ready" ELSE "blocked"
           generation == IF GenerationHasProviderResult(versions) THEN "ready" ELSE "blocked"
           contract   == {Blocker("CONTRACT_NEEDED", target) :
                            target \in {t \in {"prompt_plan", "generation"} :
                              \/ t = "prompt_plan" /\ prompt = "blocked"
                              \/ t = "generation" /\ generation = "blocked"}}
<1>1. r.blockers = SourceBlockers(sources) \cup DeconstructionBlockers(status) \cup contract
                     \cup CapabilityBlockers(matrix)
  BY DEF ReadinessOf
<1>2. /\ r.source = ApplySourceReferenceReadiness(sources)
      /\ r.deconstruction = IF /\ matrix["image_understanding"] = "unavailable"
                               /\ NeedsDeconstructionCapability(status)
                            THEN "blocked" ELSE DeconstructionReadiness(status)
      /\ r.prompt = prompt
      /\ r.generation = IF matrix["image_generation"] = "unavailable"
                        THEN "blocked" ELSE generation
  BY DEF ReadinessOf
<1>3. \A task \in RuntimeCapabilityTasks : matrix[task] = "unavailable"
        => Blocker("PLATFORM_CAPABILITY_UNAVAILABLE", task) \in CapabilityBlockers(matrix)
  BY DEF CapabilityBlockers
<1>4. CASE part = "source"
  <2>1. SourceBlockers(sources) # {} BY <1>2, <1>4 DEF ApplySourceReferenceReadiness
  <2> QED BY <1>1, <1>4, <2>1, SourceIsExplained
<1>5. CASE part = "deconstruction"
  <2>1. \/ matrix["image_understanding"] = "unavailable"
        \/ status = "contract_needed"
    BY <1>2, <1>5 DEF DeconstructionReadiness
  <2>2. CASE matrix["image_understanding"] = "unavailable"
    BY <1>1, <1>3, <1>5, <2>2, BlockerFields DEF Targets, RuntimeCapabilityTasks
  <2>3. CASE status = "contract_needed"
    BY <1>1, <1>5, <2>3, BlockerFields DEF Targets, DeconstructionBlockers
  <2> QED BY <2>1, <2>2, <2>3
<1>6. CASE part = "prompt"
  <2>1. Blocker("CONTRACT_NEEDED", "prompt_plan") \in contract BY <1>2, <1>6
  <2> QED BY <1>1, <1>6, <2>1, BlockerFields DEF Targets
<1>7. CASE part = "generation"
  <2>1. CASE matrix["image_generation"] = "unavailable"
    BY <1>1, <1>3, <1>7, <2>1, BlockerFields DEF Targets, RuntimeCapabilityTasks
  <2>2. CASE generation = "blocked"
    <3>1. Blocker("CONTRACT_NEEDED", "generation") \in contract BY <2>2
    <3> QED BY <1>1, <1>7, <3>1, BlockerFields DEF Targets
  <2> QED BY <1>2, <1>7, <2>1, <2>2
<1> QED BY <1>4, <1>5, <1>6, <1>7 DEF Parts

(* What may be released is ready in every part.                            *)
LEMMA ReleasedIsReady ==
  ASSUME NEW sources, NEW status \in JobStatuses \cup {"none"},
         NEW p, NEW versions, NEW matrix
  PROVE  LET r       == ReadinessOf(sources, status, p, versions, matrix)
             verdict == BuildIntegrationVerdict(
                          BuildBusinessWorkflowDAG(status, p, versions, r), r)
         IN  BuildReleaseReadiness(verdict, versions, matrix) = "pass"
               => ComputeOverall(r) = "ready"
<1> DEFINE r       == ReadinessOf(sources, status, p, versions, matrix)
           flow    == BuildBusinessWorkflowDAG(status, p, versions, r)
           verdict == BuildIntegrationVerdict(flow, r)
<1> SUFFICES ASSUME BuildReleaseReadiness(verdict, versions, matrix) = "pass"
             PROVE  ComputeOverall(r) = "ready"
  OBVIOUS
<1>1. verdict = "pass" BY DEF BuildReleaseReadiness
<1> HIDE DEF r, flow
<1>2. /\ r.blockers = {}
      /\ \A node \in DOMAIN flow : flow[node].status \in {"ready", "completed", "succeeded"}
  BY <1>1 DEF BuildIntegrationVerdict
<1>3. /\ "source" \in DOMAIN flow /\ flow["source"].status = r.source
      /\ "deconstruction" \in DOMAIN flow
      /\ flow["deconstruction"].status = BusinessDeconstructionStatus(status, r)
  BY DEF flow, BuildBusinessWorkflowDAG, Node
<1>4. \A part \in Parts : r[part] # "blocked" BY <1>2, ViewExplains, Zenon DEF r
<1>5. r.source = "ready"
  BY <1>4 DEF r, ReadinessOf, ApplySourceReferenceReadiness, Parts
<1>6. r.prompt = "ready" /\ r.generation = "ready"
  BY <1>4 DEF r, ReadinessOf, Parts
<1>7. r.deconstruction = "ready"
  <2>1. r.deconstruction \in {DeconstructionReadiness(status), "blocked"}
    BY DEF r, ReadinessOf
  <2>2. r.deconstruction = DeconstructionReadiness(status)
    BY <1>4, <2>1 DEF Parts
  <2>3. CASE status = "none" BY <1>2, <1>3, <2>2, <2>3
                                DEF BusinessDeconstructionStatus, DeconstructionReadiness
  <2>4. CASE status = ""
    BY <1>2, <1>3, <2>2, <2>4 DEF BusinessDeconstructionStatus, DeconstructionReadiness
  <2>5. CASE status \notin {"none", ""}
    BY <1>2, <1>3, <2>2, <2>5
       DEF BusinessDeconstructionStatus, DeconstructionReadiness, JobStatuses
  <2> QED BY <2>3, <2>4, <2>5
<1> QED BY <1>2, <1>5, <1>6, <1>7 DEF ComputeOverall, Parts

(* For whatever the view shows as blocked it lists a blocker about it, and *)
(* what may be released is ready.                                          *)
THEOREM ViewIsExplained == Spec => []BlockedIsExplained
<1>1. BlockedIsExplained BY ViewExplains, ReleasedIsReady, Zenon DEF BlockedIsExplained
<1> QED BY <1>1, PTL

=============================================================================
