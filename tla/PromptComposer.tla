--------------------------- MODULE PromptComposer ---------------------------
(***************************************************************************)
(* How the visual workflow turns the user's choices and the facts read     *)
(* from the pictures into an image plan (buildIntentFusionInputManifest,   *)
(* promptPlanFromIntentFusion and the prompt composer of                   *)
(* internal/modules/visualworkflow).                                       *)
(*                                                                         *)
(* The composed text is abstracted to what it asks for: which facts it     *)
(* quotes, where the background comes from, which slots it uses and which  *)
(* it forbids.  A slot is a pair of a track and a dimension: the product   *)
(* or the background of the SKU picture or of the reference picture.       *)
(***************************************************************************)
EXTENDS Naturals, FiniteSets

Tracks     == {"sku", "reference"}
Dimensions == {"product", "background"}
Slots      == Tracks \X Dimensions

Decisions == {"keep", "replace", "drop", "crop", "needs_review"}

(* A selection is [slot, decision].  A decision on an element that came    *)
(* without the name of a slot is a selection of no slot: it counts, and    *)
(* the composed prompt does not use it.                                    *)
NoSlot == <<"none", "none">>

(* What an image plan is made from.                                        *)
NoContent == [ready |-> FALSE, sources |-> {}, selections |-> {}, facts |-> {}]

Kept(decision) == decision \in {"keep", "replace"}

(* A mistake: a dropped slot is still quoted.  Unused.                     *)
QuotesDropped(facts, track, selections) == {f \in facts : f.slot[1] = track}

(* The decision on a slot, "none" when there is none.                      *)
PromptComposerSlotDecision(selections, slot) ==
  IF \E s \in selections : s.slot = slot
  THEN (CHOOSE s \in selections : s.slot = slot).decision
  ELSE "none"

(* The selections made on the elements that have a decision.  When several *)
(* elements decide on one slot the first in the list counts; which one     *)
(* that is, is left open: the result is the set of what may be selected.   *)
IntentSelectionsFromElements(elements) ==
  LET decided == {e \in elements : e.decision \notin {"none", "needs_review"}}
      all     == {[slot     |-> IF e.slotted THEN <<e.track, e.dimension>> ELSE NoSlot,
                   decision |-> e.decision] : e \in decided}
      free    == {s \in all : s.slot = NoSlot}
  IN  {free \cup picked : picked \in
         {P \in SUBSET (all \ free) : \A s \in all \ free : \E p \in P : /\ p.slot = s.slot
                                          /\ \A q \in P : q.slot = p.slot => q = p}}

(* One selection per slot: those made on elements come first, the answers  *)
(* to the fixed questions fill the slots that are left.                    *)
MergeIntentSelections(primary, fixed) ==
  primary \cup {f \in fixed : \A p \in primary : p.slot # f.slot}

(* A fact of the reference track is quoted whatever its confidence, one of *)
(* the SKU track only when nobody has to review it.                        *)
PromptUsableDeconstructionElement(e) ==
  e.track = "reference" \/ e.readiness # "needs_review"

FilterPromptComposerAnalysisEntries(facts, track, selections) ==
  {f \in facts : /\ f.slot[1] = track
                 /\ PromptComposerSlotDecision(selections, f.slot) # "drop"}

(* A fact is [slot, from]: the slot it describes and the job and delivery  *)
(* it was read by.  When a track has no usable fact a stock sentence       *)
(* stands for it.                                                          *)
PromptFallbackIntentEntry(track) ==
  [from |-> <<0, 0>>, slot |-> <<track, IF track = "sku" THEN "product" ELSE "background">>]

FactsOfTrack(track, elements) ==
  LET usable == {e \in elements : e.track = track /\ PromptUsableDeconstructionElement(e)}
  IN  IF usable = {} THEN {PromptFallbackIntentEntry(track)}
                     ELSE {[from |-> <<e.job, e.delivery>>, slot |-> <<track, e.dimension>>] : e \in usable}

(* Two ready sources and one selection make the input ready.               *)
BuildIntentFusionInputManifest(sources, selections, elements) ==
  [ready      |-> Cardinality(sources) >= 2 /\ selections # {},
   sources    |-> sources,
   selections |-> selections,
   facts      |-> UNION {FactsOfTrack(track, elements) : track \in Tracks}]

-----------------------------------------------------------------------------
(* The sections of the composed prompt.                                    *)

PromptComposerObjectiveText(selections, facts) ==
  LET on(track, dimension) == PromptComposerSlotDecision(selections, <<track, dimension>>)
      quoted(track) == FilterPromptComposerAnalysisEntries(facts, track, selections)
  IN  [subject    |-> IF on("sku", "product") \in {"keep", "replace", "none"}
                        THEN quoted("sku") ELSE {},
       background |-> IF Kept(on("reference", "background")) THEN "reference"
                      ELSE IF Kept(on("sku", "background")) THEN "sku" ELSE "plain",
       scenery    |-> IF Kept(on("reference", "background")) THEN quoted("reference") ELSE {}]

PromptComposerNegativeText(selections) ==
  {slot \in {<<"sku", "background">>, <<"reference", "product">>, <<"reference", "background">>} :
     PromptComposerSlotDecision(selections, slot) = "drop"}

PromptComposerSelectionText(selections) ==
  [used    |-> {s.slot : s \in {t \in selections : Kept(t.decision)}},
   avoided |-> {s.slot : s \in {t \in selections : t.decision = "drop"}}]

PromptCompositionFromIntentFusion(manifest) ==
  [objective |-> PromptComposerObjectiveText(manifest.selections, manifest.facts),
   analysis  |-> UNION {FilterPromptComposerAnalysisEntries(manifest.facts, track,
                                                            manifest.selections)
                          : track \in Tracks},
   asked     |-> PromptComposerSelectionText(manifest.selections),
   avoid     |-> PromptComposerNegativeText(manifest.selections)]

=============================================================================
