------------------------ MODULE VisualDeconstruction ------------------------
(***************************************************************************)
(* One session of the visual workflow up to its deconstruction             *)
(* (internal/modules/visualworkflow, service.go and service_part4.go to    *)
(* service_part5.go): the source pictures, the deconstruction jobs, the    *)
(* runtime jobs of the platform behind them, and the elements their        *)
(* results bring.  The stage and the status of the session's own row are   *)
(* left out: every handler writes them and none reads them.                *)
(*                                                                         *)
(* A request for a deconstruction is a sequence of database and platform   *)
(* calls; it keeps what it read as a private copy and writes whole rows    *)
(* back.  The other requests are one step each, with a choice for every    *)
(* database call that may fail on the way; while a request for a           *)
(* deconstruction is in progress only those in Overlapping may happen.     *)
(***************************************************************************)
EXTENDS VisualRows, RemoteCall, RuntimeStatus

CONSTANTS
  Workers,      \* the requests for a deconstruction that may run at the same time
  Orders,       \* what clients order: [client, single], a key of their own or "none",
                \* and whether the job is about a single picture
  Readings,     \* what a completed runtime job may answer
  Overlapping,  \* the operations that may start while a request is in progress
  Failing       \* the steps whose database call may fail

(* What the provider answers: the slots its elements describe, whether they *)
(* name their source, whether it is sure of them, whether it sends text.   *)
Reading   == [slots : SUBSET Slots, named : BOOLEAN, sure : BOOLEAN, text : BOOLEAN]
NoReading == [slots |-> {}, named |-> FALSE, sure |-> FALSE, text |-> FALSE]

ASSUME VisualDeconstructionAssumption ==
  /\ \A o \in Orders : o.single \in BOOLEAN
  /\ Readings \subseteq Reading

VARIABLES
  source,   \* the source references
  job,      \* the deconstruction jobs
  element,  \* the stored elements
  runtime,  \* the platform's runtime jobs, by the key they were asked with
  request   \* what each worker is doing

vars == <<source, job, element, runtime, request>>

-----------------------------------------------------------------------------
(* The rows.                                                               *)

(* The key of a deconstruction job: the client's, or a hash of the two     *)
(* sources the request rests on.                                           *)
Keys  == [client : {o.client : o \in Orders} \cup {"none"}, sku : {0} \cup SourceIds,
          reference : {0} \cup SourceIds]
NoKey == [client |-> "none", sku |-> 0, reference |-> 0]

(* "single" is the policy of one picture per runtime job, "named" whether  *)
(* the row names its runtime job.                                          *)
Job   == [key : Keys, sku : SourceIds, reference : SourceIds, primary : SourceIds,
          single : BOOLEAN, status : JobStatuses, named : BOOLEAN]
NoJob == [key |-> NoKey, sku |-> 0, reference |-> 0, primary |-> 0, single |-> FALSE,
          status |-> "", named |-> FALSE]

(* The platform keeps one runtime job per key, for the row it was given.   *)
RuntimeJob == [owner : JobIds, status : RuntimeStatuses, reading : Readings \cup {NoReading},
               deliveries : 0 .. MaxDeliveries]

Steps == {"idle", "find", "capability", "insert", "createRuntime", "saveJob"}

(* "job" is the row the request read or will write, "id" the index of the  *)
(* job, "retry" whether the job was found.                                 *)
Request == [pc : Steps, job : Job \cup {NoJob}, id : {0} \cup JobIds,
            retry : BOOLEAN]
Idle    == [pc |-> "idle", job |-> NoJob, id |-> 0, retry |-> FALSE]

Init ==
  /\ source = << >>
  /\ job = << >>
  /\ element = {}
  /\ runtime = [k \in {} |-> NoReading]
  /\ request = [w \in Workers |-> Idle]

-----------------------------------------------------------------------------

At(w, step)   == request[w].pc = step
GoTo(w, step) == request' = [request EXCEPT ![w].pc = step]
End(w)        == request' = [request EXCEPT ![w] = Idle]

DbResults(step) == IF step \in Failing THEN BOOLEAN ELSE {TRUE}

MayStart(op) == op \in Overlapping \/ \A w \in Workers : At(w, "idle")

Listed       == ListedIn(source)
ReadySources == ReadyIn(source)

Newest(ids) == CHOOSE i \in ids : \A j \in ids : j <= i

(* The newest ready source of each track.                                  *)
ReadyOf(track) == {i \in ReadySources : source[i].role = track}

DualTracked == \A track \in Tracks : ReadyOf(track) # {}

(* The client's key, or one made from the two sources: not from the source *)
(* the client asked for.                                                   *)
DeconstructionIdempotencyKey(client, sku, reference) ==
  IF client = "none" THEN [client |-> client, sku |-> sku, reference |-> reference]
                     ELSE [client |-> client, sku |-> 0, reference |-> 0]

CanRetryContractNeededDeconstructionJob(j) == j.status = "contract_needed" /\ ~ j.named

JobsWith(key) == {i \in DOMAIN job : job[i].key = key}

-----------------------------------------------------------------------------
(* Mistakes the handlers could make, each in the place of one decision     *)
(* below.  The specification uses none of them.                            *)

(* the platform's key forgets the session's own key *)
KeyOfSources(j) == [client |-> "none", sku |-> j.sku, reference |-> j.reference]

(* a refused runtime job leaves the row as it was *)
StaysQueued(j) == j

(* one track is enough *)
AcceptsOneTrack(i, status, results) == status = "completed" => results # {}

-----------------------------------------------------------------------------
(* Sources: CreateSourceReference, ArchiveSourceReference and              *)
(* UpdateSourceReference.                                                  *)

CreateSourceReference ==
  /\ MayStart("createSource")
  /\ Len(source) < MaxSources
  /\ \E s \in NewSources : source' = Append(source, s)
  /\ UNCHANGED <<job, element, runtime, request>>

SetSourceStatuses(op, statuses) ==
  /\ MayStart(op)
  /\ \E i \in DOMAIN source :
       source' = [source EXCEPT ![i].status = statuses[1], ![i].resolve = statuses[2]]
  /\ UNCHANGED <<job, element, runtime, request>>

ArchiveSourceReference == SetSourceStatuses("archiveSource", <<"archived", "archived">>)

UpdateSourceReference ==
  \E statuses \in SourceEdits : SetSourceStatuses("updateSource", statuses)

-----------------------------------------------------------------------------
(* CreateDeconstructionJob.                                                *)

(* The request reads the sources; a source the client asks for has to be   *)
(* listed, nothing more.                                                   *)
CreateDeconstructionJob(w) ==
  /\ At(w, "idle")
  /\ MayStart("createJob")
  /\ DualTracked
  /\ \E order \in Orders, requested \in {0} \cup Listed :
       LET sku       == Newest(ReadyOf("sku"))
           reference == Newest(ReadyOf("reference"))
       IN  request' = [request EXCEPT ![w] =
             [Idle EXCEPT !.pc = "find",
                          !.job = [key |-> DeconstructionIdempotencyKey(order.client, sku, reference),
                                   sku |-> sku, reference |-> reference,
                                   primary |-> IF requested = 0 THEN sku ELSE requested,
                                   single |-> order.single, status |-> "queued", named |-> FALSE]]]
  /\ UNCHANGED <<source, job, element, runtime>>

(* A job with the key is the answer, unless it was blocked before it had a *)
(* runtime job: then it is tried again with what it was created from.      *)
FindDeconstructionJob(w) ==
  /\ At(w, "find")
  /\ \E ok \in DbResults("find") :
       LET found == JobsWith(request[w].job.key)
           i     == Newest(found)
       IN  CASE ~ ok -> End(w)
             [] ok /\ found = {} -> GoTo(w, "capability")
             [] OTHER ->
                  IF CanRetryContractNeededDeconstructionJob(job[i])
                  THEN request' = [request EXCEPT ![w].pc = "capability", ![w].job = job[i],
                                                  ![w].id = i, ![w].retry = TRUE]
                  ELSE End(w)
  /\ UNCHANGED <<source, job, element, runtime>>

(* A job that is found is saved blocked again; a new one is inserted       *)
(* blocked.                                                                *)
DeconstructionRuntimeCapabilityReady(w) ==
  /\ At(w, "capability")
  /\ \/ /\ GoTo(w, IF request[w].retry THEN "createRuntime" ELSE "insert")
        /\ UNCHANGED job
     \/ IF request[w].retry
        THEN /\ \E ok \in DbResults("saveJob") :
                  job' = IF ok THEN [job EXCEPT ![request[w].id] =
                                       [request[w].job EXCEPT !.status = "contract_needed"]]
                         ELSE job
             /\ End(w)
        ELSE /\ request' = [request EXCEPT ![w].pc = "insert",
                                           ![w].job.status = "contract_needed"]
             /\ UNCHANGED job
  /\ UNCHANGED <<source, element, runtime>>

(* ON CONFLICT DO NOTHING: the row of the other request is the answer.     *)
Conflicts(w) == JobsWith(request[w].job.key) # {}

InsertDeconstructionJob(w) ==
  /\ At(w, "insert")
  /\ \E ok \in DbResults("insert") :
       IF ~ ok \/ Conflicts(w)
       THEN End(w) /\ UNCHANGED job
       ELSE /\ Len(job) < MaxJobs
            /\ job' = Append(job, request[w].job)
            /\ IF request[w].job.status = "queued"
               THEN request' = [request EXCEPT ![w].pc = "createRuntime",
                                               ![w].id = Len(job) + 1]
               ELSE End(w)
  /\ UNCHANGED <<source, element, runtime>>

(* The picture the runtime job is about has to be ready and readable now.  *)
PlatformDeconstructionRuntimeInputManifest(j) ==
  j.primary \in ReadySources /\ source[j.primary].usable

PlatformKey(j) == j.key

Blocked(j) == [j EXCEPT !.status = "contract_needed", !.named = FALSE]

(* The platform answers a key it knows with the runtime job it has.        *)
CreateRuntimeJob(key, owner) ==
  IF key \in DOMAIN runtime THEN runtime
  ELSE [k \in DOMAIN runtime \cup {key} |->
          IF k \in DOMAIN runtime THEN runtime[k]
          ELSE [owner |-> owner, status |-> "queued", reading |-> NoReading, deliveries |-> 0]]

CreatePlatformDeconstructionRuntimeJob(w) ==
  LET row == request[w].job
      key == PlatformKey(row)
      prepared(j) == request' = [request EXCEPT ![w].pc = "saveJob", ![w].job = j]
  IN  /\ At(w, "createRuntime")
      /\ \E readable \in DbResults("manifest") :
           IF ~ readable \/ ~ PlatformDeconstructionRuntimeInputManifest(row)
           THEN prepared(Blocked(row)) /\ UNCHANGED runtime
           ELSE \E call \in Call(runtime, CreateRuntimeJob(key, request[w].id)) :
                  /\ runtime' = call.state
                  /\ prepared(IF call.ok
                              THEN [row EXCEPT !.named = TRUE,
                                               !.status = MapVisualDeconstructionRuntimeStatus(
                                                            call.state[key].status)]
                              ELSE Blocked(row))
      /\ UNCHANGED <<source, job, element>>

SaveDeconstructionJob(w) ==
  /\ At(w, "saveJob")
  /\ \E ok \in DbResults("saveJob") :
       job' = IF ok THEN [job EXCEPT ![request[w].id] = request[w].job] ELSE job
  /\ End(w)
  /\ UNCHANGED <<source, element, runtime>>

-----------------------------------------------------------------------------
(* The platform and its callbacks.                                         *)

(* The platform runs a job once.                                           *)
RunRuntimeJob ==
  /\ \E k \in DOMAIN runtime :
       LET now(status, reading) ==
             runtime' = [runtime EXCEPT ![k].status = status, ![k].reading = reading]
       IN  \/ runtime[k].status = "queued" /\ now("processing", NoReading)
           \/ runtime[k].status = "processing" /\ now("failed", NoReading)
           \/ runtime[k].status = "processing" /\ \E r \in Readings : now("completed", r)
  /\ UNCHANGED <<source, job, element, request>>

(* A report may be late, and need not carry a status.                      *)
InternalUpdateDeconstructionRuntime ==
  /\ MayStart("updateRuntime")
  /\ \E k \in DOMAIN runtime :
       \E word \in {runtime[k].status, "processing", ""} :
         LET i      == runtime[k].owner
             mapped == NormalizeVisualDeconstructionRuntimeStatus(word, TRUE)
             status == IF mapped = "" THEN job[i].status ELSE mapped
         IN  /\ word = "processing" => runtime[k].status # "queued"
             /\ job' = [job EXCEPT ![i].status = status, ![i].named = TRUE]
  /\ UNCHANGED <<source, element, runtime, request>>

(* A result before it is stored.                                           *)
ResultElement(track, dimension, id, readiness) ==
  [track |-> track, dimension |-> dimension, source |-> id, readiness |-> readiness]

VisualResultElements(i, reading) ==
  {ResultElement(slot[1], slot[2],
                 IF ~ reading.named THEN 0
                 ELSE IF slot[1] = "sku" THEN job[i].sku ELSE job[i].reference,
                 IF reading.sure THEN "ready" ELSE "needs_review") : slot \in reading.slots}

(* One result for every listed source, ready or not, from the text.        *)
VisualResultElementsForSources ==
  {ResultElement(source[s].role, IF source[s].role = "sku" THEN "product" ELSE "background", s,
                 "needs_review") : s \in Listed}

FallbackVisualResultElementsFromProviderText(reading) ==
  IF reading.text THEN VisualResultElementsForSources ELSE {}

(* With one picture per runtime job the results are about that picture.    *)
ProjectSingleImageUnderstandingElements(i, results) ==
  LET primary == job[i].primary
  IN  IF ~ job[i].single \/ primary \notin Listed THEN results
      ELSE {[r EXCEPT !.source = primary] :
              r \in {q \in results : q.track = source[primary].role}}

JobRequiresDualTrackResultCoverage(i) == ~ job[i].single

EnsureDualTrackVisualResultElements(results) ==
  results \cup {f \in VisualResultElementsForSources :
                 f.track \notin {r.track : r \in results}}

(* A result about a source that is not listed any more is an error.        *)
NormalizeResultElementSourceProjection(r) ==
  r.source = 0 \/ (r.source \in Listed /\ source[r.source].role = r.track)

ValidateDualTrackResultCoverage(i, status, results) ==
  (JobRequiresDualTrackResultCoverage(i) /\ status = "completed")
    => {r.track : r \in results} = Tracks

CompletedResults(i, reading) ==
  LET given     == VisualResultElements(i, reading)
      read      == IF given = {} THEN FallbackVisualResultElementsFromProviderText(reading)
                   ELSE given
      projected == ProjectSingleImageUnderstandingElements(i, read)
  IN  IF JobRequiresDualTrackResultCoverage(i) /\ reading.text
      THEN EnsureDualTrackVisualResultElements(projected) ELSE projected

(* The results replace those of the job's earlier deliveries; the job and  *)
(* its elements change in one transaction.  A delivery that is not         *)
(* accepted changes nothing.                                               *)
Superseded(i) == {e \in element : e.job = i}

InternalRecordDeconstructionResults ==
  /\ MayStart("recordResults")
  /\ \E k \in DOMAIN runtime :
       LET i       == runtime[k].owner
           status  == runtime[k].status
           results == IF status = "completed" THEN CompletedResults(i, runtime[k].reading)
                      ELSE {}
           stored  == {ElementOf(i, runtime[k].deliveries + 1, r) : r \in results}
       IN  /\ status \in {"completed", "failed"}
           /\ runtime[k].deliveries < MaxDeliveries
           /\ status = "completed" => results # {}
           /\ \A r \in results : NormalizeResultElementSourceProjection(r)
           /\ ValidateDualTrackResultCoverage(i, status, results)
           /\ job' = [job EXCEPT ![i].status = status]
           /\ element' = (element \ Superseded(i)) \cup stored
           /\ runtime' = [runtime EXCEPT ![k].deliveries = @ + 1]
  /\ UNCHANGED <<source, request>>

Next ==
  \/ CreateSourceReference
  \/ ArchiveSourceReference
  \/ UpdateSourceReference
  \/ \E w \in Workers :
       \/ CreateDeconstructionJob(w)
       \/ FindDeconstructionJob(w)
       \/ DeconstructionRuntimeCapabilityReady(w)
       \/ InsertDeconstructionJob(w)
       \/ CreatePlatformDeconstructionRuntimeJob(w)
       \/ SaveDeconstructionJob(w)
  \/ RunRuntimeJob
  \/ InternalUpdateDeconstructionRuntime
  \/ InternalRecordDeconstructionResults

Spec == Init /\ [][Next]_vars

-----------------------------------------------------------------------------
(* Properties.                                                             *)

(* The rows have their types.                                              *)
TypeOK ==
  /\ source \in Seq(Source) /\ Len(source) <= MaxSources
  /\ job \in Seq(Job) /\ Len(job) <= MaxJobs
  /\ element \subseteq Element
  /\ DOMAIN runtime \subseteq Keys
  /\ \A k \in DOMAIN runtime : runtime[k] \in RuntimeJob
  /\ request \in [Workers -> Request]

(* However two requests with one key overlap, the session has one job for  *)
(* the key (the unique index and ON CONFLICT DO NOTHING of                 *)
(* CreateDeconstructionJob).                                               *)
OneJobPerKey ==
  \A i, j \in DOMAIN job : job[i].key = job[j].key => i = j

(* A job that names a runtime job has one at the platform, and it is its   *)
(* own: no other job's results come under its id.                          *)
NamedIsBacked ==
  \A i \in DOMAIN job : job[i].named =>
    \E k \in DOMAIN runtime : runtime[k].owner = i

(* Once every request is answered, a job the user waits for is one the     *)
(* platform has: nobody waits for a job that was never started.            *)
WaitingIsRunning ==
  (\A w \in Workers : At(w, "idle")) =>
    \A i \in DOMAIN job : job[i].status \in {"queued", "processing"} =>
      \E k \in DOMAIN runtime : runtime[k].owner = i

Prep == INSTANCE Preparation WITH
          standing <- [i \in DOMAIN job |-> [status |-> job[i].status, single |-> job[i].single]]

(* The rest of the workflow may rely on Preparation: elements change by    *)
(* whole deliveries, and a completed one covers both tracks.               *)
KeepsPreparation == Prep!PreparationSpec

=============================================================================
