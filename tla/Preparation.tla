----------------------------- MODULE Preparation -----------------------------
(***************************************************************************)
(* What the deconstruction promises to the rest of the visual workflow:    *)
(* sources come and change status, jobs come and move between statuses,    *)
(* and the elements of a job change only as a whole, when a delivery       *)
(* replaces them.  A completed delivery that is not about a single picture *)
(* has elements of both tracks.  VisualDeconstruction implements this;     *)
(* VisualPlanning builds on it.                                            *)
(***************************************************************************)
EXTENDS VisualRows

VARIABLES
  source,   \* the source references
  standing, \* of each deconstruction job: [status, single]
  element   \* the stored elements

preparation == <<source, standing, element>>

PreparationInit == source = << >> /\ standing = << >> /\ element = {}

SourceAdded ==
  /\ Len(source) < MaxSources
  /\ \E s \in NewSources : source' = Append(source, s)
  /\ UNCHANGED <<standing, element>>

SourceMarked ==
  /\ \E i \in DOMAIN source, statuses \in SourceEdits \cup {<<"archived", "archived">>} :
       source' = [source EXCEPT ![i].status = statuses[1], ![i].resolve = statuses[2]]
  /\ UNCHANGED <<standing, element>>

JobAdded ==
  /\ Len(standing) < MaxJobs
  /\ \E status \in {"queued", "contract_needed"}, single \in BOOLEAN :
       standing' = Append(standing, [status |-> status, single |-> single])
  /\ UNCHANGED <<source, element>>

JobMoved ==
  /\ \E i \in DOMAIN standing, status \in JobStatuses :
       standing' = [standing EXCEPT ![i].status = status]
  /\ UNCHANGED <<source, element>>

ElementsOf(i) == {e \in element : e.job = i}

(* The elements after the step are a fresh delivery for job i; those of a  *)
(* failed job are gone.                                                    *)
Delivered(i) ==
  LET new == {e \in element' : e.job = i}
  IN  /\ element' = (element \ ElementsOf(i)) \cup new
      /\ \A e \in new : /\ e.decision = "none"
                        /\ e.source \in {0} \cup ListedIn(source)
                        /\ \A f \in new : e.delivery = f.delivery
                        /\ \A f \in ElementsOf(i) : f.delivery < e.delivery
      /\ standing' = [standing EXCEPT ![i].status = IF new = {} THEN "failed" ELSE "completed"]
      /\ new = {} \/ standing[i].single \/ {e.track : e \in new} = Tracks
      /\ UNCHANGED source

PreparationNext ==
  \/ SourceAdded
  \/ SourceMarked
  \/ JobAdded
  \/ JobMoved
  \/ \E i \in DOMAIN standing : Delivered(i)

PreparationSpec == PreparationInit /\ [][PreparationNext]_preparation

=============================================================================
