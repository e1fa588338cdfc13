-------------------- MODULE VisualDeconstruction_proofs --------------------
(***************************************************************************)
(* What TLAPS proves of VisualDeconstruction, for any overlapping requests *)
(* and whatever fails.                                                     *)
(***************************************************************************)
EXTENDS VisualDeconstruction, SequenceTheorems, WellFoundedInduction, TLAPS

LEMMA LessIsWellFounded ==
  IsWellFoundedOn({ss \in Nat \X Nat : ss[1] < ss[2]}, Nat)
BY NatLessThanWellFounded, Zenon DEF OpToRel

LEMMA NewestIsOne ==
  ASSUME NEW n \in Nat, NEW ids, ids \subseteq 1 .. n, ids # {}
  PROVE  Newest(ids) \in ids
<1> DEFINE R == {ss \in Nat \X Nat : ss[1] < ss[2]}
           T == {n - i : i \in ids}
<1>1. IsWellFoundedOn(R, Nat) BY LessIsWellFounded
<1>2. T \subseteq Nat /\ T # {}
  <2>1. \A i \in ids : i \in 1 .. n /\ n - i \in Nat OBVIOUS
  <2> QED BY <2>1
<1>3. \A x \in Nat, y \in Nat : x < y => <<x, y>> \in R OBVIOUS
<1> HIDE DEF R, T
<1>4. \E x \in T : \A y \in T : ~ (<<y, x>> \in R) BY <1>1, <1>2, WFMin
<1>5. PICK x \in T : \A y \in T : ~ (y < x) BY <1>2, <1>3, <1>4
<1>6. PICK i \in ids : x = n - i BY DEF T
<1>7. \A j \in ids : j <= i
  <2> TAKE j \in ids
  <2>1. n - j \in T BY DEF T
  <2> QED BY <1>5, <1>6, <2>1
<1> QED BY <1>7 DEF Newest

-----------------------------------------------------------------------------
(* The invariant.                                                          *)

Requests == {r \in Request : r.pc # "idle" => r.job \in Job}

SourcesTyped == source \in Seq(Source) /\ Len(source) <= MaxSources

JobsTyped == job \in Seq(Job) /\ Len(job) <= MaxJobs

RuntimeTyped == DOMAIN runtime \subseteq Keys /\ runtime \in [DOMAIN runtime -> RuntimeJob]

RequestsTyped == request \in [Workers -> Requests]

(* A runtime job has the key of the job that owns it, and a job that names *)
(* a runtime job has one.                                                  *)
JobsKeyed ==
  /\ OneJobPerKey
  /\ \A k \in DOMAIN runtime : runtime[k].owner \in DOMAIN job /\ job[runtime[k].owner].key = k
  /\ \A i \in DOMAIN job : job[i].named => job[i].key \in DOMAIN runtime

Waits(j) == j.status \in {"queued", "processing"}

(* The request has the row of an existing job, and may write it back.      *)
Holding(w) ==
  \/ request[w].pc \in {"createRuntime", "saveJob"}
  \/ request[w].pc = "capability" /\ request[w].retry

RequestKeyed(w) ==
  LET r == request[w]
  IN  /\ r.pc \in {"find", "insert"} => ~ r.retry
      /\ r.pc \in {"find", "capability", "insert", "createRuntime"} => ~ r.job.named
      /\ (r.pc \in {"find", "capability", "insert"} /\ ~ r.retry)
           => r.job.status \in {"queued", "contract_needed"}
      /\ Holding(w) => /\ r.id \in DOMAIN job
                       /\ r.job.key = job[r.id].key
                       /\ r.job.single = job[r.id].single
      /\ (r.pc = "saveJob" /\ (r.job.named \/ Waits(r.job))) => r.job.key \in DOMAIN runtime

RequestsKeyed == \A w \in Workers : RequestKeyed(w)

JobInv ==
  SourcesTyped /\ JobsTyped /\ RuntimeTyped /\ RequestsTyped /\ JobsKeyed /\ RequestsKeyed

(* What happens to the rows while a request is not looking.                *)
Later ==
  /\ DOMAIN job \subseteq DOMAIN job'
  /\ \A i \in DOMAIN job : job'[i].key = job[i].key /\ job'[i].single = job[i].single
  /\ DOMAIN runtime \subseteq DOMAIN runtime'

LEMMA StillKeyed ==
  ASSUME JobInv, Later, NEW w \in Workers, request'[w] = request[w]
  PROVE  RequestKeyed(w)'
<1>1. RequestKeyed(w) BY DEF JobInv, RequestsKeyed
<1>2. Holding(w)' => Holding(w) BY DEF Holding
<1> QED BY <1>1, <1>2 DEF RequestKeyed, Later

(* A step of one request that is still keyed after it.                     *)
LEMMA RequestReplaced ==
  ASSUME JobInv, Later, NEW w \in Workers, NEW r \in Requests,
         request' = [request EXCEPT ![w] = r], RequestKeyed(w)'
  PROVE  RequestsTyped' /\ RequestsKeyed'
<1>1. RequestsTyped' BY DEF JobInv, RequestsTyped
<1>2. \A u \in Workers \ {w} : request'[u] = request[u] BY DEF JobInv, RequestsTyped
<1>3. RequestsKeyed' BY <1>2, StillKeyed DEF RequestsKeyed
<1> QED BY <1>1, <1>3

LEMMA RequestsKept ==
  ASSUME JobInv, Later, UNCHANGED request PROVE RequestsTyped' /\ RequestsKeyed'
BY StillKeyed DEF JobInv, RequestsTyped, RequestsKeyed

LEMMA RowsKept ==
  ASSUME JobInv, UNCHANGED <<job, runtime>>
  PROVE  JobsTyped' /\ RuntimeTyped' /\ JobsKeyed' /\ Later
BY DEF JobInv, JobsTyped, RuntimeTyped, JobsKeyed, OneJobPerKey, Later

LEMMA SourcesKept == ASSUME JobInv, UNCHANGED source PROVE SourcesTyped'
BY DEF JobInv, SourcesTyped

LEMMA JobFacts ==
  ASSUME JobInv
  PROVE  /\ DOMAIN job = 1 .. Len(job) /\ Len(job) \in Nat
         /\ DOMAIN job \subseteq JobIds
         /\ \A i \in DOMAIN job : job[i] \in Job
BY VisualRowsAssumption DEF JobInv, JobsTyped, JobIds

LEMMA IdleTyped == Idle \in Requests
BY DEF Idle, Requests, Request, Steps, NoJob

SameOwners ==
  /\ RuntimeTyped'
  /\ DOMAIN runtime' = DOMAIN runtime
  /\ \A k \in DOMAIN runtime : runtime'[k].owner = runtime[k].owner

LEMMA RuntimeReplaced ==
  ASSUME JobInv, NEW k \in DOMAIN runtime, NEW r \in RuntimeJob, r.owner = runtime[k].owner,
         runtime' = [runtime EXCEPT ![k] = r]
  PROVE  SameOwners
BY DEF JobInv, RuntimeTyped, SameOwners

(* A job's row is replaced by one with its key.                            *)
LEMMA JobReplaced ==
  ASSUME JobInv, NEW i \in DOMAIN job, NEW j \in Job,
         j.key = job[i].key, j.single = job[i].single, j.named => j.key \in DOMAIN runtime,
         job' = [job EXCEPT ![i] = j], SameOwners
  PROVE  JobsTyped' /\ RuntimeTyped' /\ JobsKeyed' /\ Later
<1>1. /\ job \in Seq(Job) /\ Len(job) <= MaxJobs
      /\ i \in 1 .. Len(job)
  BY JobFacts DEF JobInv, JobsTyped
<1>2. /\ job' \in Seq(Job) /\ Len(job') = Len(job) /\ DOMAIN job' = DOMAIN job
      /\ job'[i] = j /\ \A h \in DOMAIN job : h # i => job'[h] = job[h]
  BY <1>1, ExceptSeq
<1>3. Later BY <1>2 DEF Later, SameOwners
<1>4. JobsKeyed' BY <1>2, <1>3 DEF JobInv, JobsKeyed, OneJobPerKey, Later, SameOwners
<1> QED BY <1>1, <1>2, <1>3, <1>4 DEF JobsTyped, SameOwners

(* The row a request holds is written over that of the job.                *)
LEMMA HeldSaved ==
  ASSUME JobInv, NEW w \in Workers, Holding(w), NEW j \in Job,
         j.key = request[w].job.key, j.single = request[w].job.single,
         j.named => j.key \in DOMAIN runtime,
         job' = [job EXCEPT ![request[w].id] = j], UNCHANGED runtime
  PROVE  JobsTyped' /\ RuntimeTyped' /\ JobsKeyed' /\ Later
<1>1. RequestKeyed(w) BY DEF JobInv, RequestsKeyed
<1>2. /\ request[w].id \in DOMAIN job
      /\ request[w].job.key = job[request[w].id].key
      /\ request[w].job.single = job[request[w].id].single
  BY <1>1 DEF RequestKeyed
<1>3. SameOwners BY DEF SameOwners, JobInv, RuntimeTyped
<1> QED BY <1>2, <1>3, JobReplaced

LEMMA RequestEnded ==
  ASSUME JobInv, Later, NEW w \in Workers, End(w)
  PROVE  RequestsTyped' /\ RequestsKeyed'
<1>1. request'[w] = Idle BY DEF End, JobInv, RequestsTyped
<1>2. RequestKeyed(w)' BY <1>1 DEF RequestKeyed, Holding, Idle
<1> QED BY <1>2, IdleTyped, RequestReplaced DEF End

-----------------------------------------------------------------------------
(* The steps of a request.                                                 *)

LEMMA ReadyIsSource ==
  ASSUME JobInv, NEW track, ReadyOf(track) # {}
  PROVE  Newest(ReadyOf(track)) \in SourceIds
<1>1. source \in Seq(Source) /\ Len(source) <= MaxSources BY DEF JobInv, SourcesTyped
<1>2. ReadyOf(track) \subseteq 1 .. Len(source) /\ Len(source) \in Nat
  BY <1>1 DEF ReadyOf, ReadySources, ReadyIn, ListedIn
<1>3. Newest(ReadyOf(track)) \in 1 .. Len(source) BY <1>2, NewestIsOne
<1> QED BY <1>1, <1>3, VisualRowsAssumption DEF SourceIds

LEMMA ListedIsSource == ASSUME JobInv PROVE Listed \subseteq SourceIds
BY VisualRowsAssumption DEF JobInv, SourcesTyped, Listed, ListedIn, SourceIds

LEMMA CreateStep ==
  ASSUME JobInv, NEW w \in Workers, CreateDeconstructionJob(w) PROVE JobInv'
<1> DEFINE sku       == Newest(ReadyOf("sku"))
           reference == Newest(ReadyOf("reference"))
           row(o, requested) ==
             [key |-> DeconstructionIdempotencyKey(o.client, sku, reference),
              sku |-> sku, reference |-> reference,
              primary |-> IF requested = 0 THEN sku ELSE requested,
              single |-> o.single, status |-> "queued", named |-> FALSE]
           asked(o, requested) == [Idle EXCEPT !.pc = "find", !.job = row(o, requested)]
<1>1. PICK o \in Orders, requested \in {0} \cup Listed :
        request' = [request EXCEPT ![w] = asked(o, requested)]
  BY DEF CreateDeconstructionJob
<1>2. UNCHANGED <<source, job, element, runtime>> BY DEF CreateDeconstructionJob
<1>3. sku \in SourceIds /\ reference \in SourceIds
  BY ReadyIsSource DEF CreateDeconstructionJob, DualTracked, Tracks
<1> HIDE DEF sku, reference
<1>4. row(o, requested) \in Job
  <2>1. requested = 0 \/ requested \in SourceIds BY ListedIsSource
  <2>2. DeconstructionIdempotencyKey(o.client, sku, reference) \in Keys
    BY <1>3 DEF DeconstructionIdempotencyKey, Keys
  <2>3. o.single \in BOOLEAN BY VisualDeconstructionAssumption
  <2> QED BY <1>3, <2>1, <2>2, <2>3 DEF Job, JobStatuses
<1>5. asked(o, requested).pc = "find" /\ asked(o, requested).retry = FALSE
      /\ asked(o, requested).job = row(o, requested)
  BY DEF Idle
<1>6. asked(o, requested) \in Requests
  BY <1>4 DEF Idle, Requests, Request, Steps
<1>7. request'[w] = asked(o, requested) BY <1>1 DEF JobInv, RequestsTyped
<1>8. row(o, requested).named = FALSE /\ row(o, requested).status = "queued" OBVIOUS
<1> HIDE DEF row, asked
<1>9. RequestKeyed(w)' BY <1>5, <1>7, <1>8 DEF RequestKeyed, Holding
<1> QED BY <1>1, <1>2, <1>6, <1>9, RowsKept, SourcesKept, RequestReplaced DEF JobInv

LEMMA FindStep ==
  ASSUME JobInv, NEW w \in Workers, FindDeconstructionJob(w) PROVE JobInv'
<1> DEFINE found == JobsWith(request[w].job.key)
           i     == Newest(found)
           r     == request[w]
<1>1. UNCHANGED <<source, job, element, runtime>> /\ r.pc = "find"
  BY DEF FindDeconstructionJob, At
<1>2. \/ End(w)
      \/ GoTo(w, "capability")
      \/ /\ found # {} /\ CanRetryContractNeededDeconstructionJob(job[i])
         /\ request' = [request EXCEPT ![w].pc = "capability", ![w].job = job[i],
                                         ![w].id = i, ![w].retry = TRUE]
  BY DEF FindDeconstructionJob
<1>3. r \in Requests /\ RequestKeyed(w) BY DEF JobInv, RequestsTyped, RequestsKeyed
<1>4. CASE End(w) BY <1>1, <1>4, RowsKept, SourcesKept, RequestEnded DEF JobInv
<1>5. CASE GoTo(w, "capability")
  <2> DEFINE n == [r EXCEPT !.pc = "capability"]
  <2>1. n \in Requests BY <1>1, <1>3 DEF Requests, Request, Steps
  <2>2. request' = [request EXCEPT ![w] = n] BY <1>5 DEF GoTo, JobInv, RequestsTyped
  <2>3. request'[w] = n BY <2>2 DEF JobInv, RequestsTyped
  <2>4. n.pc = "capability" /\ n.job = r.job /\ n.retry = r.retry BY <1>3 DEF Requests, Request
  <2> HIDE DEF n
  <2>5. RequestKeyed(w)' BY <1>1, <1>3, <2>3, <2>4 DEF RequestKeyed, Holding
  <2> QED BY <1>1, <2>1, <2>2, <2>5, RowsKept, SourcesKept, RequestReplaced DEF JobInv
<1>6. CASE /\ found # {} /\ CanRetryContractNeededDeconstructionJob(job[i])
           /\ request' = [request EXCEPT ![w].pc = "capability", ![w].job = job[i],
                                           ![w].id = i, ![w].retry = TRUE]
  <2>1. found \subseteq 1 .. Len(job) BY JobFacts DEF JobsWith
  <2>2. i \in found BY <1>6, <2>1, JobFacts, NewestIsOne
  <2>3. i \in DOMAIN job /\ job[i] \in Job /\ i \in JobIds BY <2>2, JobFacts DEF JobsWith
  <2> HIDE DEF i, found
  <2> DEFINE n == [r EXCEPT !.pc = "capability", !.job = job[i], !.id = i, !.retry = TRUE]
  <2>4. n \in Requests BY <1>3, <2>3 DEF Requests, Request, Steps
  <2>5. request' = [request EXCEPT ![w] = n] BY <1>6 DEF JobInv, RequestsTyped
  <2>6. request'[w] = n BY <2>5 DEF JobInv, RequestsTyped
  <2>7. n.pc = "capability" /\ n.job = job[i] /\ n.retry = TRUE /\ n.id = i
    BY <1>3 DEF Requests, Request
  <2> HIDE DEF n
  <2>8. RequestKeyed(w)'
    BY <1>1, <1>6, <2>3, <2>6, <2>7 DEF RequestKeyed, Holding, CanRetryContractNeededDeconstructionJob
  <2> QED BY <1>1, <2>4, <2>5, <2>8, RowsKept, SourcesKept, RequestReplaced DEF JobInv
<1> QED BY <1>2, <1>4, <1>5, <1>6

LEMMA CapabilityStep ==
  ASSUME JobInv, NEW w \in Workers, DeconstructionRuntimeCapabilityReady(w) PROVE JobInv'
<1> DEFINE r == request[w]
<1>1. UNCHANGED <<source, element, runtime>> /\ r.pc = "capability"
  BY DEF DeconstructionRuntimeCapabilityReady, At
<1>2. r \in Requests /\ RequestKeyed(w) /\ r.job \in Job /\ r.retry \in BOOLEAN
  BY <1>1 DEF JobInv, RequestsTyped, RequestsKeyed, Requests, Request
<1>3. \/ GoTo(w, IF r.retry THEN "createRuntime" ELSE "insert") /\ UNCHANGED job
      \/ /\ r.retry /\ End(w)
         /\ \/ job' = [job EXCEPT ![r.id] = [r.job EXCEPT !.status = "contract_needed"]]
            \/ UNCHANGED job
      \/ /\ ~ r.retry /\ UNCHANGED job
         /\ request' = [request EXCEPT ![w].pc = "insert", ![w].job.status = "contract_needed"]
  BY <1>2 DEF DeconstructionRuntimeCapabilityReady
<1>4. CASE GoTo(w, IF r.retry THEN "createRuntime" ELSE "insert") /\ UNCHANGED job
  <2> DEFINE n == [r EXCEPT !.pc = IF r.retry THEN "createRuntime" ELSE "insert"]
  <2>1. n \in Requests BY <1>1, <1>2 DEF Requests, Request, Steps
  <2>2. request' = [request EXCEPT ![w] = n] BY <1>4 DEF GoTo, JobInv, RequestsTyped
  <2>3. request'[w] = n BY <2>2 DEF JobInv, RequestsTyped
  <2>4. n.pc = (IF r.retry THEN "createRuntime" ELSE "insert") /\ n.job = r.job /\ n.retry = r.retry
        /\ n.id = r.id
    BY <1>2 DEF Requests, Request
  <2> HIDE DEF n
  <2>5. RequestKeyed(w)' BY <1>1, <1>2, <1>4, <2>3, <2>4 DEF RequestKeyed, Holding
  <2> QED BY <1>1, <1>4, <2>1, <2>2, <2>5, RowsKept, SourcesKept, RequestReplaced DEF JobInv
<1>5. CASE r.retry /\ End(w)
           /\ job' = [job EXCEPT ![r.id] = [r.job EXCEPT !.status = "contract_needed"]]
  <2> DEFINE j == [r.job EXCEPT !.status = "contract_needed"]
  <2>1. j \in Job /\ j.key = r.job.key /\ j.single = r.job.single /\ j.named = r.job.named
    BY <1>2 DEF Job, JobStatuses
  <2>2. ~ r.job.named BY <1>1, <1>2 DEF RequestKeyed
  <2>3. Holding(w) BY <1>1, <1>5 DEF Holding
  <2>4. JobsTyped' /\ RuntimeTyped' /\ JobsKeyed' /\ Later
    BY <1>1, <1>5, <2>1, <2>2, <2>3, HeldSaved
  <2> QED BY <1>1, <1>5, <2>4, SourcesKept, RequestEnded DEF JobInv
<1>6. CASE End(w) /\ UNCHANGED job
  BY <1>1, <1>6, RowsKept, SourcesKept, RequestEnded DEF JobInv
<1>7. CASE /\ ~ r.retry /\ UNCHANGED job
           /\ request' = [request EXCEPT ![w].pc = "insert", ![w].job.status = "contract_needed"]
  <2> DEFINE j == [r.job EXCEPT !.status = "contract_needed"]
             n == [r EXCEPT !.pc = "insert", !.job = j]
  <2>1. j \in Job /\ j.named = r.job.named /\ j.status = "contract_needed"
    BY <1>2 DEF Job, JobStatuses
  <2>2. request' = [request EXCEPT ![w] = n]
    BY <1>2, <1>7 DEF JobInv, RequestsTyped, Requests, Request
  <2> HIDE DEF j
  <2>3. n \in Requests BY <1>2, <2>1 DEF Requests, Request, Steps
  <2>4. n.pc = "insert" /\ n.job = j /\ n.retry = r.retry BY <1>2 DEF Requests, Request
  <2>5. request'[w] = n BY <2>2 DEF JobInv, RequestsTyped
  <2> HIDE DEF n
  <2>6. RequestKeyed(w)' BY <1>1, <1>2, <1>7, <2>1, <2>4, <2>5 DEF RequestKeyed, Holding
  <2> QED BY <1>1, <1>7, <2>2, <2>3, <2>6, RowsKept, SourcesKept, RequestReplaced DEF JobInv
<1> QED BY <1>3, <1>4, <1>5, <1>6, <1>7

(* The unique index: a job is inserted only when no other has its key.     *)
LEMMA InsertStep ==
  ASSUME JobInv, NEW w \in Workers, InsertDeconstructionJob(w) PROVE JobInv'
<1> DEFINE r == request[w]
<1>1. UNCHANGED <<source, element, runtime>> /\ r.pc = "insert"
  BY DEF InsertDeconstructionJob, At
<1>2. r \in Requests /\ RequestKeyed(w) /\ r.job \in Job
  BY <1>1 DEF JobInv, RequestsTyped, RequestsKeyed, Requests
<1>3. CASE End(w) /\ UNCHANGED job
  BY <1>1, <1>3, RowsKept, SourcesKept, RequestEnded DEF JobInv
<1>4. CASE /\ ~ Conflicts(w) /\ Len(job) < MaxJobs /\ job' = Append(job, r.job)
           /\ IF r.job.status = "queued"
              THEN request' = [request EXCEPT ![w].pc = "createRuntime", ![w].id = Len(job) + 1]
              ELSE End(w)
  <2>1. ~ r.job.named BY <1>1, <1>2 DEF RequestKeyed
  <2>2. job \in Seq(Job) /\ Len(job) \in Nat /\ DOMAIN job = 1 .. Len(job)
    BY JobFacts DEF JobInv, JobsTyped
  <2>3. /\ job' \in Seq(Job) /\ Len(job') = Len(job) + 1
        /\ DOMAIN job' = DOMAIN job \cup {Len(job) + 1}
        /\ job'[Len(job) + 1] = r.job
        /\ \A i \in DOMAIN job : job'[i] = job[i]
    BY <1>2, <1>4, <2>2
  <2>4. JobsTyped' BY <1>4, <2>2, <2>3, VisualRowsAssumption DEF JobsTyped
  <2>5. \A i \in DOMAIN job : job[i].key # r.job.key BY <1>4 DEF Conflicts, JobsWith
  <2>6. JobsKeyed' /\ Later
    <3>1. OneJobPerKey' BY <2>3, <2>5 DEF JobInv, JobsKeyed, OneJobPerKey
    <3>2. \A i \in DOMAIN job' : job'[i].named => job'[i].key \in DOMAIN runtime'
      BY <1>1, <2>1, <2>3 DEF JobInv, JobsKeyed
    <3>3. \A k \in DOMAIN runtime' :
            runtime'[k].owner \in DOMAIN job' /\ job'[runtime'[k].owner].key = k
      BY <1>1, <2>3 DEF JobInv, JobsKeyed
    <3> QED BY <1>1, <2>3, <3>1, <3>2, <3>3 DEF JobsKeyed, Later
  <2>7. RuntimeTyped' BY <1>1 DEF JobInv, RuntimeTyped
  <2>8. CASE End(w) BY <1>1, <2>4, <2>6, <2>7, <2>8, SourcesKept, RequestEnded DEF JobInv
  <2>9. CASE request' = [request EXCEPT ![w].pc = "createRuntime", ![w].id = Len(job) + 1]
    <3> DEFINE n == [r EXCEPT !.pc = "createRuntime", !.id = Len(job) + 1]
    <3>1. Len(job) + 1 \in JobIds BY <1>4, <2>2, VisualRowsAssumption DEF JobIds
    <3>2. n \in Requests BY <1>2, <3>1 DEF Requests, Request, Steps
    <3>3. request' = [request EXCEPT ![w] = n] BY <2>9 DEF JobInv, RequestsTyped
    <3>4. request'[w] = n BY <3>3 DEF JobInv, RequestsTyped
    <3>5. n.pc = "createRuntime" /\ n.job = r.job /\ n.id = Len(job) + 1
      BY <1>2 DEF Requests, Request
    <3> HIDE DEF n
    <3>6. RequestKeyed(w)' BY <2>1, <2>3, <3>4, <3>5 DEF RequestKeyed, Holding
    <3> QED BY <1>1, <2>4, <2>6, <2>7, <3>2, <3>3, <3>6, SourcesKept, RequestReplaced DEF JobInv
  <2> QED BY <1>4, <2>8, <2>9
<1> QED BY <1>3, <1>4 DEF InsertDeconstructionJob

LEMMA CallOutcome ==
  ASSUME NEW before, NEW after, NEW r \in Call(before, after)
  PROVE  r.ok \in BOOLEAN /\ r.state \in {before, after} /\ (r.ok => r.state = after)
<1>1. \/ r = [ok |-> TRUE, state |-> after]
      \/ r = [ok |-> FALSE, state |-> before]
      \/ r = [ok |-> FALSE, state |-> after]
  BY LostRepliesAssumption, Zenon DEF Call
<1>2. CASE r = [ok |-> TRUE, state |-> after] BY <1>2
<1>3. CASE r = [ok |-> FALSE, state |-> before] BY <1>3
<1>4. CASE r = [ok |-> FALSE, state |-> after] BY <1>4
<1> QED BY <1>1, <1>2, <1>3, <1>4, Zenon

LEMMA MappedStatus ==
  ASSUME NEW word \in RuntimeStatuses
  PROVE  MapVisualDeconstructionRuntimeStatus(word) \in JobStatuses
BY DEF MapVisualDeconstructionRuntimeStatus, NormalizeVisualDeconstructionRuntimeStatus,
       RuntimeStatuses, JobStatuses

(* The platform's job for the key of a job's row is that job's own.        *)
LEMMA RuntimeCreated ==
  ASSUME JobInv, NEW id \in DOMAIN job
  PROVE  LET key   == job[id].key
             after == CreateRuntimeJob(key, id)
         IN  /\ DOMAIN after = DOMAIN runtime \cup {key}
             /\ after \in [DOMAIN after -> RuntimeJob]
             /\ \A k \in DOMAIN runtime : after[k] = runtime[k]
             /\ after[key].owner = id
<1> DEFINE key   == job[id].key
           new   == [owner |-> id, status |-> "queued", reading |-> NoReading, deliveries |-> 0]
           after == CreateRuntimeJob(key, id)
<1>1. new \in RuntimeJob
  BY JobFacts, VisualRowsAssumption DEF RuntimeJob, RuntimeStatuses
<1>2. CASE key \in DOMAIN runtime
  <2>1. after = runtime BY <1>2 DEF CreateRuntimeJob
  <2>2. runtime[key].owner \in DOMAIN job /\ job[runtime[key].owner].key = key
    BY <1>2 DEF JobInv, JobsKeyed
  <2>3. runtime[key].owner = id BY <2>2 DEF JobInv, JobsKeyed, OneJobPerKey
  <2> QED BY <1>2, <2>1, <2>3 DEF JobInv, RuntimeTyped
<1>3. CASE key \notin DOMAIN runtime
  <2>1. after = [k \in DOMAIN runtime \cup {key} |-> IF k \in DOMAIN runtime THEN runtime[k] ELSE new]
    BY <1>3 DEF CreateRuntimeJob
  <2>2. new.owner = id OBVIOUS
  <2> HIDE DEF new, key, after
  <2> QED BY <1>1, <1>3, <2>1, <2>2 DEF JobInv, RuntimeTyped, key, after
<1> QED BY <1>2, <1>3

LEMMA PlatformStep ==
  ASSUME JobInv, NEW w \in Workers, CreatePlatformDeconstructionRuntimeJob(w) PROVE JobInv'
<1> DEFINE r     == request[w]
           row   == r.job
           id    == r.id
           after == CreateRuntimeJob(PlatformKey(row), id)
           prepared(j) == request' = [request EXCEPT ![w].pc = "saveJob", ![w].job = j]
<1>1. UNCHANGED <<source, job, element>> /\ r.pc = "createRuntime"
  BY Zenon DEF CreatePlatformDeconstructionRuntimeJob, At
<1>2. r \in Requests /\ RequestKeyed(w) /\ row \in Job
  BY <1>1 DEF JobInv, RequestsTyped, RequestsKeyed, Requests
<1>3. id \in DOMAIN job /\ row.key = job[id].key /\ row.single = job[id].single
  <2>1. Holding(w) BY <1>1 DEF Holding
  <2> QED BY <1>2, <2>1 DEF RequestKeyed
<1>4. \/ prepared(Blocked(row)) /\ UNCHANGED runtime
      \/ \E call \in Call(runtime, after) :
           /\ runtime' = call.state
           /\ prepared(IF call.ok
                       THEN [row EXCEPT !.named = TRUE,
                                        !.status = MapVisualDeconstructionRuntimeStatus(
                                                     call.state[PlatformKey(row)].status)]
                       ELSE Blocked(row))
  BY Zenon DEF CreatePlatformDeconstructionRuntimeJob
<1>5. /\ DOMAIN after = DOMAIN runtime \cup {row.key}
      /\ after \in [DOMAIN after -> RuntimeJob]
      /\ \A k \in DOMAIN runtime : after[k] = runtime[k]
      /\ after[row.key].owner = id
  BY <1>3, RuntimeCreated DEF PlatformKey
<1> HIDE DEF after
<1>6. RuntimeTyped' /\ JobsKeyed' /\ Later /\ JobsTyped'
  <2>1. runtime' \in {runtime, after}
    <3>1. \A call \in Call(runtime, after) : call.state \in {runtime, after} BY CallOutcome
    <3> QED BY <1>4, <3>1
  <2>2. CASE runtime' = runtime BY <1>1, <2>2, RowsKept
  <2>3. CASE runtime' = after
    <3>1. row.key \in Keys BY <1>2 DEF Job
    <3>2. RuntimeTyped' BY <1>5, <2>3, <3>1 DEF JobInv, RuntimeTyped
    <3>3. JobsKeyed' BY <1>1, <1>3, <1>5, <2>3 DEF JobInv, JobsKeyed, OneJobPerKey
    <3> QED BY <1>1, <1>5, <2>3, <3>2, <3>3 DEF JobInv, JobsTyped, Later
  <2> QED BY <2>1, <2>2, <2>3
<1>7. ASSUME NEW j \in Job, prepared(j), j.key = row.key, j.single = row.single,
             (j.named \/ Waits(j)) => row.key \in DOMAIN runtime'
      PROVE  RequestsTyped' /\ RequestsKeyed'
  <2> DEFINE n == [r EXCEPT !.pc = "saveJob", !.job = j]
  <2>1. n \in Requests BY <1>2 DEF Requests, Request, Steps
  <2>2. request' = [request EXCEPT ![w] = n] BY <1>7 DEF JobInv, RequestsTyped
  <2>3. request'[w] = n BY <2>2 DEF JobInv, RequestsTyped
  <2>4. n.pc = "saveJob" /\ n.job = j /\ n.id = id BY <1>2 DEF Requests, Request
  <2> HIDE DEF n
  <2>5. RequestKeyed(w)'
    BY <1>1, <1>3, <1>7, <2>3, <2>4 DEF RequestKeyed, Holding
  <2> QED BY <1>6, <2>1, <2>2, <2>5, RequestReplaced
<1>8. /\ Blocked(row) \in Job /\ Blocked(row).key = row.key /\ Blocked(row).single = row.single
      /\ ~ Blocked(row).named /\ ~ Waits(Blocked(row))
  BY <1>2 DEF Blocked, Job, JobStatuses, Waits
<1>9. CASE prepared(Blocked(row)) BY <1>1, <1>6, <1>7, <1>8, <1>9, SourcesKept DEF JobInv
<1>10. ASSUME NEW call \in Call(runtime, after), call.ok, runtime' = call.state,
              prepared([row EXCEPT !.named = TRUE,
                                   !.status = MapVisualDeconstructionRuntimeStatus(
                                                call.state[PlatformKey(row)].status)])
       PROVE  JobInv'
  <2>1. runtime' = after BY <1>10, CallOutcome
  <2>2. after[row.key].status \in RuntimeStatuses BY <1>5 DEF RuntimeJob
  <2> DEFINE status == MapVisualDeconstructionRuntimeStatus(call.state[PlatformKey(row)].status)
             j == [row EXCEPT !.named = TRUE, !.status = status]
  <2>3. status \in JobStatuses BY <1>10, <2>1, <2>2, MappedStatus DEF PlatformKey
  <2> HIDE DEF status
  <2>4. j \in Job /\ j.key = row.key /\ j.single = row.single BY <1>2, <2>3 DEF Job
  <2>5. prepared(j) BY <1>10 DEF status
  <2>6. row.key \in DOMAIN runtime' BY <1>5, <2>1
  <2> HIDE DEF j
  <2> QED BY <1>1, <1>6, <1>7, <2>4, <2>5, <2>6, SourcesKept DEF JobInv
<1> QED BY <1>4, <1>9, <1>10

LEMMA SaveStep ==
  ASSUME JobInv, NEW w \in Workers, SaveDeconstructionJob(w) PROVE JobInv'
<1> DEFINE r == request[w]
<1>1. UNCHANGED <<source, element, runtime>> /\ r.pc = "saveJob" /\ End(w)
  BY DEF SaveDeconstructionJob, At
<1>2. UNCHANGED job \/ job' = [job EXCEPT ![r.id] = r.job] BY DEF SaveDeconstructionJob
<1>3. r.job \in Job /\ RequestKeyed(w) BY <1>1 DEF JobInv, RequestsTyped, RequestsKeyed, Requests
<1>4. CASE UNCHANGED job BY <1>1, <1>4, RowsKept, SourcesKept, RequestEnded DEF JobInv
<1>5. CASE job' = [job EXCEPT ![r.id] = r.job]
  <2>1. Holding(w) /\ (r.job.named => r.job.key \in DOMAIN runtime)
    <3>1. Holding(w) BY <1>1 DEF Holding
    <3> QED BY <1>1, <1>3, <3>1 DEF RequestKeyed
  <2>2. JobsTyped' /\ RuntimeTyped' /\ JobsKeyed' /\ Later
    BY <1>1, <1>3, <1>5, <2>1, HeldSaved
  <2> QED BY <1>1, <2>2, SourcesKept, RequestEnded DEF JobInv
<1> QED BY <1>2, <1>4, <1>5

-----------------------------------------------------------------------------
(* The sources, the platform and its callbacks.                            *)

LEMMA SourceStep ==
  ASSUME JobInv, CreateSourceReference \/ ArchiveSourceReference \/ UpdateSourceReference
  PROVE  JobInv'
<1>1. UNCHANGED <<job, element, runtime, request>>
  BY DEF CreateSourceReference, ArchiveSourceReference, UpdateSourceReference, SetSourceStatuses
<1>2. source \in Seq(Source) /\ Len(source) <= MaxSources BY DEF JobInv, SourcesTyped
<1>3. CASE CreateSourceReference
  <2>1. PICK s \in NewSources : source' = Append(source, s) BY <1>3 DEF CreateSourceReference
  <2>2. s \in Source
    BY VisualRowsAssumption
       DEF NewSources, InitialSourceStatuses, SourceRoleFromMetadata, SourceForm, Source,
           SourceStatuses, Tracks
  <2>3. SourcesTyped'
    BY <1>2, <1>3, <2>1, <2>2, VisualRowsAssumption DEF SourcesTyped, CreateSourceReference
  <2> QED BY <1>1, <2>3, RowsKept, RequestsKept DEF JobInv
<1>4. CASE ArchiveSourceReference \/ UpdateSourceReference
  <2>1. PICK op \in {"archiveSource", "updateSource"}, statuses \in SourceStatuses \X SourceStatuses :
          SetSourceStatuses(op, statuses)
    BY <1>4, VisualRowsAssumption DEF ArchiveSourceReference, UpdateSourceReference, SourceStatuses
  <2>2. PICK i \in DOMAIN source :
          source' = [source EXCEPT ![i].status = statuses[1], ![i].resolve = statuses[2]]
    BY <2>1 DEF SetSourceStatuses
  <2> DEFINE s == [source[i] EXCEPT !.status = statuses[1], !.resolve = statuses[2]]
  <2>3. i \in 1 .. Len(source) /\ source[i] \in Source BY <1>2
  <2>4. s \in Source BY <2>3 DEF Source
  <2>5. source' = [source EXCEPT ![i] = s] BY <1>2, <2>2
  <2> HIDE DEF s
  <2>6. SourcesTyped' BY <1>2, <2>3, <2>4, <2>5, ExceptSeq DEF SourcesTyped
  <2> QED BY <1>1, <2>6, RowsKept, RequestsKept DEF JobInv
<1> QED BY <1>3, <1>4

(* The platform changes the status and the reading of a job, no more.      *)
LEMMA RunOutcome ==
  ASSUME JobInv, RunRuntimeJob
  PROVE  \E k \in DOMAIN runtime, status \in RuntimeStatuses, reading \in Readings \cup {NoReading} :
           runtime' = [runtime EXCEPT ![k].status = status, ![k].reading = reading]
BY DEF RunRuntimeJob, RuntimeStatuses

LEMMA RunStep == ASSUME JobInv, RunRuntimeJob PROVE JobInv' /\ SameOwners
<1>1. UNCHANGED <<source, job, element, request>> BY Zenon DEF RunRuntimeJob
<1>2. PICK k \in DOMAIN runtime, status \in RuntimeStatuses, reading \in Readings \cup {NoReading} :
        runtime' = [runtime EXCEPT ![k].status = status, ![k].reading = reading]
  BY RunOutcome
<1> DEFINE r == [runtime[k] EXCEPT !.status = status, !.reading = reading]
<1>3. runtime[k] \in RuntimeJob BY DEF JobInv, RuntimeTyped
<1>4. r \in RuntimeJob /\ r.owner = runtime[k].owner BY <1>3 DEF RuntimeJob
<1>5. runtime' = [runtime EXCEPT ![k] = r] BY <1>2 DEF JobInv, RuntimeTyped
<1> HIDE DEF r
<1>6. SameOwners BY <1>4, <1>5, RuntimeReplaced
<1>7. JobsKeyed' /\ Later /\ JobsTyped' /\ RuntimeTyped'
  BY <1>1, <1>6 DEF SameOwners, JobInv, JobsTyped, JobsKeyed, OneJobPerKey, Later
<1> QED BY <1>1, <1>6, <1>7, SourcesKept, RequestsKept DEF JobInv

LEMMA OwnerFacts ==
  ASSUME JobInv, NEW k \in DOMAIN runtime
  PROVE  /\ runtime[k] \in RuntimeJob
         /\ runtime[k].owner \in DOMAIN job
         /\ job[runtime[k].owner] \in Job
         /\ job[runtime[k].owner].key = k
BY JobFacts DEF JobInv, RuntimeTyped, JobsKeyed

LEMMA UpdateStep == ASSUME JobInv, InternalUpdateDeconstructionRuntime PROVE JobInv'
<1>1. UNCHANGED <<source, element, runtime, request>>
  BY Zenon DEF InternalUpdateDeconstructionRuntime
<1>2. PICK k \in DOMAIN runtime : \E word \in {runtime[k].status, "processing", ""} :
        LET i      == runtime[k].owner
            mapped == NormalizeVisualDeconstructionRuntimeStatus(word, TRUE)
            status == IF mapped = "" THEN job[i].status ELSE mapped
        IN  job' = [job EXCEPT ![i].status = status, ![i].named = TRUE]
  BY Zenon DEF InternalUpdateDeconstructionRuntime
<1>3. PICK word \in RuntimeStatuses \cup {""} :
        LET i      == runtime[k].owner
            mapped == NormalizeVisualDeconstructionRuntimeStatus(word, TRUE)
            status == IF mapped = "" THEN job[i].status ELSE mapped
        IN  job' = [job EXCEPT ![i].status = status, ![i].named = TRUE]
  <2>1. {runtime[k].status, "processing", ""} \subseteq RuntimeStatuses \cup {""}
    BY OwnerFacts DEF RuntimeJob, RuntimeStatuses
  <2> QED BY <1>2, <2>1
<1> DEFINE i      == runtime[k].owner
           mapped == NormalizeVisualDeconstructionRuntimeStatus(word, TRUE)
           status == IF mapped = "" THEN job[i].status ELSE mapped
           j      == [job[i] EXCEPT !.status = status, !.named = TRUE]
<1>4. i \in DOMAIN job /\ job[i] \in Job /\ job[i].key = k BY OwnerFacts
<1>5. job' = [job EXCEPT ![i].status = status, ![i].named = TRUE] BY <1>3
<1>6. mapped \in JobStatuses
  BY DEF NormalizeVisualDeconstructionRuntimeStatus, RuntimeStatuses, JobStatuses
<1> HIDE DEF mapped
<1>7. status \in JobStatuses BY <1>4, <1>6 DEF Job
<1> HIDE DEF status
<1>8. j \in Job /\ j.key = job[i].key /\ j.single = job[i].single BY <1>4, <1>7 DEF Job
<1>9. job' = [job EXCEPT ![i] = j] BY <1>4, <1>5 DEF JobInv, JobsTyped
<1> HIDE DEF i, j
<1>10. SameOwners BY <1>1 DEF SameOwners, JobInv, RuntimeTyped
<1>11. JobsTyped' /\ RuntimeTyped' /\ JobsKeyed' /\ Later BY <1>4, <1>8, <1>9, <1>10, JobReplaced
<1> QED BY <1>1, <1>11, SourcesKept, RequestsKept DEF JobInv

(* An accepted delivery, without what its elements say.                    *)
Accepted(k) ==
  LET i      == runtime[k].owner
      status == runtime[k].status
  IN  /\ status \in {"completed", "failed"}
      /\ runtime[k].deliveries < MaxDeliveries
      /\ job' = [job EXCEPT ![i].status = status]
      /\ runtime' = [runtime EXCEPT ![k].deliveries = @ + 1]

LEMMA AcceptedOutcome ==
  ASSUME JobInv, NEW k \in DOMAIN runtime, Accepted(k)
  PROVE  /\ SameOwners /\ JobsTyped' /\ JobsKeyed' /\ Later
         /\ runtime'[k].deliveries = runtime[k].deliveries + 1
         /\ \A h \in DOMAIN runtime : h # k => runtime'[h] = runtime[h]
         /\ runtime[k].deliveries \in Nat
         /\ runtime[k].deliveries + 1 \in 1 .. MaxDeliveries
<1> DEFINE i == runtime[k].owner
           j == [job[i] EXCEPT !.status = runtime[k].status]
           r == [runtime[k] EXCEPT !.deliveries = @ + 1]
<1>1. runtime[k] \in RuntimeJob /\ i \in DOMAIN job /\ job[i] \in Job /\ job[i].key = k
  BY OwnerFacts
<1>2. /\ runtime[k].deliveries \in Nat
      /\ runtime[k].deliveries + 1 \in 1 .. MaxDeliveries
  BY <1>1, VisualRowsAssumption DEF Accepted, RuntimeJob
<1>3. r \in RuntimeJob /\ r.owner = runtime[k].owner /\ r.deliveries = runtime[k].deliveries + 1
  BY <1>1, <1>2 DEF RuntimeJob
<1>4. runtime' = [runtime EXCEPT ![k] = r] BY DEF Accepted, JobInv, RuntimeTyped
<1> HIDE DEF r
<1>5. SameOwners BY <1>3, <1>4, RuntimeReplaced
<1>6. j \in Job /\ j.key = job[i].key /\ j.single = job[i].single
  BY <1>1 DEF Accepted, Job, JobStatuses
<1>7. job' = [job EXCEPT ![i] = j] BY <1>1 DEF Accepted, JobInv, JobsTyped
<1> HIDE DEF i, j
<1>8. JobsTyped' /\ JobsKeyed' /\ Later BY <1>1, <1>5, <1>6, <1>7, JobReplaced
<1> QED BY <1>2, <1>3, <1>4, <1>5, <1>8 DEF JobInv, RuntimeTyped

LEMMA RecordStep == ASSUME JobInv, InternalRecordDeconstructionResults PROVE JobInv'
<1>1. UNCHANGED <<source, request>> BY Zenon DEF InternalRecordDeconstructionResults
<1>2. PICK k \in DOMAIN runtime : Accepted(k)
  BY Zenon DEF InternalRecordDeconstructionResults, Accepted
<1>3. SameOwners /\ JobsTyped' /\ JobsKeyed' /\ Later BY <1>2, AcceptedOutcome
<1> QED BY <1>1, <1>3, SourcesKept, RequestsKept DEF JobInv, SameOwners

LEMMA JobInit == Init => JobInv
<1> SUFFICES ASSUME Init PROVE JobInv OBVIOUS
<1>1. << >> \in Seq(Source) /\ << >> \in Seq(Job) /\ Len(<< >>) = 0 BY EmptySeq
<1>2. SourcesTyped /\ JobsTyped
  BY <1>1, VisualRowsAssumption DEF Init, SourcesTyped, JobsTyped
<1>3. RuntimeTyped BY DEF Init, RuntimeTyped
<1>4. RequestsTyped BY IdleTyped DEF Init, RequestsTyped
<1>5. JobsKeyed BY DEF Init, JobsKeyed, OneJobPerKey
<1>6. RequestsKeyed BY DEF Init, RequestsKeyed, RequestKeyed, Holding, Idle
<1> QED BY <1>2, <1>3, <1>4, <1>5, <1>6 DEF JobInv

LEMMA JobStep == JobInv /\ [Next]_vars => JobInv'
<1> SUFFICES ASSUME JobInv, [Next]_vars PROVE JobInv' OBVIOUS
<1>1. CASE CreateSourceReference \/ ArchiveSourceReference \/ UpdateSourceReference
  BY <1>1, SourceStep
<1>2. ASSUME NEW w \in Workers,
             \/ CreateDeconstructionJob(w)
             \/ FindDeconstructionJob(w)
             \/ DeconstructionRuntimeCapabilityReady(w)
             \/ InsertDeconstructionJob(w)
             \/ CreatePlatformDeconstructionRuntimeJob(w)
             \/ SaveDeconstructionJob(w)
      PROVE  JobInv'
  BY <1>2, CreateStep, FindStep, CapabilityStep, InsertStep, PlatformStep, SaveStep
<1>3. CASE RunRuntimeJob BY <1>3, RunStep
<1>4. CASE InternalUpdateDeconstructionRuntime BY <1>4, UpdateStep
<1>5. CASE InternalRecordDeconstructionResults BY <1>5, RecordStep
<1>6. CASE UNCHANGED vars
  BY <1>6, RowsKept, SourcesKept, RequestsKept DEF JobInv, vars
<1> QED BY <1>1, <1>2, <1>3, <1>4, <1>5, <1>6 DEF Next

(* The jobs of the session, their runtime jobs and the rows that requests  *)
(* will write agree on their keys, however requests overlap.               *)
THEOREM JobsAgree == Spec => []JobInv
BY JobInit, JobStep, PTL DEF Spec

(* The unique index and ON CONFLICT DO NOTHING of CreateDeconstructionJob: *)
(* two requests with one key end with one job.                             *)
THEOREM KeysAreUnique == Spec => []OneJobPerKey
<1>1. JobInv => OneJobPerKey BY DEF JobInv, JobsKeyed
<1> QED BY <1>1, JobsAgree, PTL

(* A job that names a runtime job has one of its own at the platform:      *)
(* createPlatformDeconstructionRuntimeJob asks with the job's own key.     *)
THEOREM NamedJobsAreBacked == Spec => []NamedIsBacked
<1>1. JobInv => NamedIsBacked
  <2> SUFFICES ASSUME JobInv, NEW i \in DOMAIN job, job[i].named
               PROVE  \E k \in DOMAIN runtime : runtime[k].owner = i
    BY DEF NamedIsBacked
  <2>1. job[i].key \in DOMAIN runtime BY DEF JobInv, JobsKeyed
  <2>2. runtime[job[i].key].owner = i BY <2>1 DEF JobInv, JobsKeyed, OneJobPerKey
  <2> QED BY <2>1, <2>2
<1> QED BY <1>1, JobsAgree, PTL

-----------------------------------------------------------------------------
(* Nobody waits for a job that was never started.                          *)

Backed(i) == \E k \in DOMAIN runtime : runtime[k].owner = i

(* The request will still write the row of job i.                          *)
Attends(w, i) == request[w].pc \in {"createRuntime", "saveJob"} /\ request[w].id = i

Attended ==
  \A i \in DOMAIN job : Waits(job[i]) => Backed(i) \/ \E w \in Workers : Attends(w, i)

LEMMA KeyIsBacked ==
  ASSUME JobInv, NEW i \in DOMAIN job, job[i].key \in DOMAIN runtime PROVE Backed(i)
<1>1. runtime[job[i].key].owner = i BY DEF JobInv, JobsKeyed, OneJobPerKey
<1> QED BY <1>1 DEF Backed

(* The steps after which no job waits that did not wait before.            *)
LEMMA AttendedKept ==
  ASSUME Attended, DOMAIN runtime \subseteq DOMAIN runtime',
         \A k \in DOMAIN runtime : runtime'[k].owner = runtime[k].owner,
         \A i \in DOMAIN job' : Waits(job'[i]) => i \in DOMAIN job /\ (Waits(job[i]) \/ Backed(i)),
         \A w \in Workers, i \in DOMAIN job : Attends(w, i) => Attends(w, i)'
  PROVE  Attended'
<1>1. \A i \in DOMAIN job : Backed(i) => Backed(i)' BY DEF Backed
<1> QED BY <1>1 DEF Attended

LEMMA RowsAsTheyWere ==
  ASSUME UNCHANGED job
  PROVE  \A i \in DOMAIN job' : Waits(job'[i]) => i \in DOMAIN job /\ (Waits(job[i]) \/ Backed(i))
OBVIOUS

(* A step of a request that attends to no job.                             *)
LEMMA OthersAttend ==
  ASSUME JobInv, NEW w \in Workers, request[w].pc \notin {"createRuntime", "saveJob"}, NEW r,
         request' = [request EXCEPT ![w] = r]
  PROVE  \A u \in Workers, i \in DOMAIN job : Attends(u, i) => Attends(u, i)'
<1>1. \A u \in Workers \ {w} : request'[u] = request[u] BY DEF JobInv, RequestsTyped
<1> QED BY <1>1 DEF Attends

LEMMA AttendedInit == Init => Attended
BY DEF Init, Attended

LEMMA EarlyAttended ==
  ASSUME JobInv, Attended, NEW w \in Workers,
         CreateDeconstructionJob(w) \/ FindDeconstructionJob(w)
  PROVE  Attended'
<1>1. UNCHANGED <<job, runtime>> /\ request[w].pc \notin {"createRuntime", "saveJob"}
  BY DEF CreateDeconstructionJob, FindDeconstructionJob, At
<1>2. \E r : request' = [request EXCEPT ![w] = r]
  <2>1. CASE CreateDeconstructionJob(w) BY <2>1 DEF CreateDeconstructionJob
  <2>2. CASE FindDeconstructionJob(w)
    <3> DEFINE i == Newest(JobsWith(request[w].job.key))
               r == [request[w] EXCEPT !.pc = "capability", !.job = job[i], !.id = i,
                                       !.retry = TRUE]
               g == [request[w] EXCEPT !.pc = "capability"]
    <3>1. \/ End(w)
          \/ request' = [request EXCEPT ![w].pc = "capability"]
          \/ request' = [request EXCEPT ![w].pc = "capability", ![w].job = job[i],
                                        ![w].id = i, ![w].retry = TRUE]
      BY <2>2 DEF FindDeconstructionJob, GoTo
    <3>2. request' \in {[request EXCEPT ![w] = Idle], [request EXCEPT ![w] = g],
                        [request EXCEPT ![w] = r]}
      BY <3>1 DEF End, JobInv, RequestsTyped
    <3> QED BY <3>2
  <2> QED BY <2>1, <2>2
<1>3. \A u \in Workers, i \in DOMAIN job : Attends(u, i) => Attends(u, i)'
  BY <1>1, <1>2, OthersAttend
<1> QED BY <1>1, <1>3, AttendedKept, RowsAsTheyWere

LEMMA CapabilityAttended ==
  ASSUME JobInv, Attended, NEW w \in Workers, DeconstructionRuntimeCapabilityReady(w)
  PROVE  Attended'
<1> DEFINE r == request[w]
<1>1. UNCHANGED runtime /\ r.pc = "capability"
  BY DEF DeconstructionRuntimeCapabilityReady, At
<1>2. r \in Requests BY DEF JobInv, RequestsTyped
<1>3. \E n : request' = [request EXCEPT ![w] = n]
  <2> DEFINE n1 == [r EXCEPT !.pc = "createRuntime"]
             n2 == [r EXCEPT !.pc = "insert"]
             n3 == [r EXCEPT !.pc = "insert", !.job = [r.job EXCEPT !.status = "contract_needed"]]
  <2>1. \/ GoTo(w, "createRuntime") \/ GoTo(w, "insert") \/ End(w)
        \/ request' = [request EXCEPT ![w].pc = "insert", ![w].job.status = "contract_needed"]
    BY DEF DeconstructionRuntimeCapabilityReady
  <2>2. request' \in {[request EXCEPT ![w] = Idle], [request EXCEPT ![w] = n1],
                      [request EXCEPT ![w] = n2], [request EXCEPT ![w] = n3]}
    BY <1>2, <2>1 DEF GoTo, End, JobInv, RequestsTyped, Requests, Request
  <2> QED BY <2>2
<1>4. \A u \in Workers, i \in DOMAIN job : Attends(u, i) => Attends(u, i)'
  BY <1>1, <1>3, OthersAttend
<1>5. \A i \in DOMAIN job' : Waits(job'[i]) => i \in DOMAIN job /\ (Waits(job[i]) \/ Backed(i))
  <2> DEFINE j == [r.job EXCEPT !.status = "contract_needed"]
  <2>1. UNCHANGED job \/ job' = [job EXCEPT ![r.id] = j]
    BY DEF DeconstructionRuntimeCapabilityReady
  <2>2. ~ Waits(j)
    BY <1>1, <1>2 DEF Waits, Requests, Job
  <2> HIDE DEF j
  <2>3. CASE job' = [job EXCEPT ![r.id] = j] BY <2>2, <2>3 DEF JobInv, JobsTyped
  <2> QED BY <2>1, <2>3
<1> QED BY <1>1, <1>4, <1>5, AttendedKept

LEMMA InsertAttended ==
  ASSUME JobInv, Attended, NEW w \in Workers, InsertDeconstructionJob(w) PROVE Attended'
<1> DEFINE r == request[w]
<1>1. UNCHANGED runtime /\ r.pc = "insert" BY DEF InsertDeconstructionJob, At
<1>2. r \in Requests /\ RequestKeyed(w) /\ r.job \in Job /\ request \in [Workers -> Requests]
  BY <1>1 DEF JobInv, RequestsTyped, RequestsKeyed, Requests
<1>3. CASE End(w) /\ UNCHANGED job
  <2>1. \A u \in Workers, i \in DOMAIN job : Attends(u, i) => Attends(u, i)'
    BY <1>1, <1>3, OthersAttend DEF End
  <2> QED BY <1>1, <1>3, <2>1, AttendedKept, RowsAsTheyWere
<1>4. CASE /\ job' = Append(job, r.job)
           /\ IF r.job.status = "queued"
              THEN request' = [request EXCEPT ![w].pc = "createRuntime", ![w].id = Len(job) + 1]
              ELSE End(w)
  <2>1. /\ Len(job) \in Nat /\ DOMAIN job' = DOMAIN job \cup {Len(job) + 1}
        /\ job'[Len(job) + 1] = r.job /\ \A i \in DOMAIN job : job'[i] = job[i]
    BY <1>2, <1>4, JobFacts DEF JobInv, JobsTyped
  <2>2. \A u \in Workers \ {w} : request'[u] = request[u]
    BY <1>2, <1>4 DEF End
  <2>3. \A u \in Workers, i \in DOMAIN job : Attends(u, i) => Attends(u, i)'
    BY <1>1, <2>2 DEF Attends
  <2>4. \A i \in DOMAIN job : Backed(i) => Backed(i)' BY <1>1 DEF Backed
  <2>5. Waits(r.job)
          => request'[w].pc = "createRuntime" /\ request'[w].id = Len(job) + 1
    <3>1. r.job.status = "queued" \/ ~ Waits(r.job) BY <1>1, <1>2 DEF RequestKeyed, Waits
    <3>2. r.job.status = "queued"
            => request'[w].pc = "createRuntime" /\ request'[w].id = Len(job) + 1
      BY <1>2, <1>4 DEF Requests, Request
    <3> QED BY <3>1, <3>2 DEF Waits
  <2> QED BY <2>1, <2>3, <2>4, <2>5 DEF Attended, Attends
<1> QED BY <1>3, <1>4 DEF InsertDeconstructionJob

LEMMA PlatformAttended ==
  ASSUME JobInv, Attended, NEW w \in Workers, CreatePlatformDeconstructionRuntimeJob(w)
  PROVE  Attended'
<1> DEFINE r == request[w]
<1>1. UNCHANGED <<source, job, element>> /\ r.pc = "createRuntime"
  BY Zenon DEF CreatePlatformDeconstructionRuntimeJob, At
<1>2. request \in [Workers -> Requests] BY DEF JobInv, RequestsTyped
<1>3. \E j : request' = [request EXCEPT ![w].pc = "saveJob", ![w].job = j]
  BY Zenon DEF CreatePlatformDeconstructionRuntimeJob
<1>4. \A u \in Workers, i \in DOMAIN job : Attends(u, i) => Attends(u, i)'
  BY <1>1, <1>2, <1>3 DEF Attends, Requests, Request
<1>5. /\ DOMAIN runtime \subseteq DOMAIN runtime'
      /\ \A k \in DOMAIN runtime : runtime'[k].owner = runtime[k].owner
  <2>1. UNCHANGED runtime \/ runtime' = CreateRuntimeJob(PlatformKey(r.job), r.id)
    <3>1. \/ UNCHANGED runtime
          \/ \E call \in Call(runtime, CreateRuntimeJob(PlatformKey(r.job), r.id)) :
               runtime' = call.state
      BY Zenon DEF CreatePlatformDeconstructionRuntimeJob
    <3> HIDE DEF r
    <3>2. \A call \in Call(runtime, CreateRuntimeJob(PlatformKey(r.job), r.id)) :
            call.state \in {runtime, CreateRuntimeJob(PlatformKey(r.job), r.id)}
      BY CallOutcome
    <3> QED BY <3>1, <3>2
  <2> QED BY <2>1 DEF CreateRuntimeJob
<1> QED BY <1>1, <1>4, <1>5, AttendedKept, RowsAsTheyWere

LEMMA SaveAttended ==
  ASSUME "saveJob" \notin Failing, JobInv, Attended, NEW w \in Workers, SaveDeconstructionJob(w)
  PROVE  Attended'
<1> DEFINE r == request[w]
<1>1. UNCHANGED <<source, element, runtime>> /\ r.pc = "saveJob" /\ End(w)
  BY DEF SaveDeconstructionJob, At
<1>2. job' = [job EXCEPT ![r.id] = r.job] BY DEF SaveDeconstructionJob, DbResults
<1>3. RequestKeyed(w) /\ request \in [Workers -> Requests]
  BY DEF JobInv, RequestsTyped, RequestsKeyed
<1>4. Holding(w) BY <1>1 DEF Holding
<1>5. r.id \in DOMAIN job /\ r.job.key = job[r.id].key /\ (Waits(r.job) => r.job.key \in DOMAIN runtime)
  BY <1>1, <1>3, <1>4 DEF RequestKeyed
<1>6. Waits(r.job) => Backed(r.id) BY <1>5, KeyIsBacked
<1>7. /\ DOMAIN job' = DOMAIN job /\ job'[r.id] = r.job
      /\ \A i \in DOMAIN job : i # r.id => job'[i] = job[i]
  BY <1>2, <1>5 DEF JobInv, JobsTyped
<1>8. \A i \in DOMAIN job : Backed(i) => Backed(i)' BY <1>1 DEF Backed
<1>9. \A u \in Workers \ {w} : request'[u] = request[u] BY <1>1, <1>3 DEF End
<1>10. \A u \in Workers, i \in DOMAIN job : Attends(u, i) => Attends(u, i)' \/ i = r.id
  BY <1>9 DEF Attends
<1> HIDE DEF r
<1> QED BY <1>6, <1>7, <1>8, <1>10 DEF Attended

LEMMA CallbackAttended ==
  ASSUME JobInv, Attended,
         InternalUpdateDeconstructionRuntime \/ InternalRecordDeconstructionResults
  PROVE  Attended'
<1>1. PICK k \in DOMAIN runtime, status \in RuntimeStatuses \cup JobStatuses :
        /\ \/ job' = [job EXCEPT ![runtime[k].owner].status = status]
           \/ job' = [job EXCEPT ![runtime[k].owner].status = status,
                                 ![runtime[k].owner].named = TRUE]
        /\ UNCHANGED request
        /\ UNCHANGED runtime \/ runtime' = [runtime EXCEPT ![k].deliveries = @ + 1]
  <2>1. CASE InternalUpdateDeconstructionRuntime
    <3>1. PICK k \in DOMAIN runtime, word \in RuntimeStatuses \cup {""} :
            LET i      == runtime[k].owner
                mapped == NormalizeVisualDeconstructionRuntimeStatus(word, TRUE)
                status == IF mapped = "" THEN job[i].status ELSE mapped
            IN  job' = [job EXCEPT ![i].status = status, ![i].named = TRUE]
      <4>1. PICK k \in DOMAIN runtime : \E word \in {runtime[k].status, "processing", ""} :
              LET i      == runtime[k].owner
                  mapped == NormalizeVisualDeconstructionRuntimeStatus(word, TRUE)
                  status == IF mapped = "" THEN job[i].status ELSE mapped
              IN  job' = [job EXCEPT ![i].status = status, ![i].named = TRUE]
        BY <2>1, Zenon DEF InternalUpdateDeconstructionRuntime
      <4>2. {runtime[k].status, "processing", ""} \subseteq RuntimeStatuses \cup {""}
        BY OwnerFacts DEF RuntimeJob, RuntimeStatuses
      <4> QED BY <4>1, <4>2
    <3> DEFINE mapped == NormalizeVisualDeconstructionRuntimeStatus(word, TRUE)
               status == IF mapped = "" THEN job[runtime[k].owner].status ELSE mapped
    <3>2. mapped \in JobStatuses
      BY DEF NormalizeVisualDeconstructionRuntimeStatus, RuntimeStatuses, JobStatuses
    <3>3. job' = [job EXCEPT ![runtime[k].owner].status = status, ![runtime[k].owner].named = TRUE]
      BY <3>1
    <3> HIDE DEF mapped
    <3>4. status \in JobStatuses BY <3>2, OwnerFacts DEF Job
    <3> HIDE DEF status
    <3>5. UNCHANGED <<request, runtime>> BY <2>1, Zenon DEF InternalUpdateDeconstructionRuntime
    <3> QED BY <3>3, <3>4, <3>5
  <2>2. CASE InternalRecordDeconstructionResults
    <3>1. PICK k \in DOMAIN runtime : Accepted(k)
      BY <2>2, Zenon DEF InternalRecordDeconstructionResults, Accepted
    <3>2. UNCHANGED request BY <2>2, Zenon DEF InternalRecordDeconstructionResults
    <3>3. runtime[k].status \in JobStatuses BY <3>1 DEF Accepted, JobStatuses
    <3> QED BY <3>1, <3>2, <3>3 DEF Accepted
  <2> QED BY <2>1, <2>2
<1>2. Backed(runtime[k].owner) BY DEF Backed
<1>3. \A i \in DOMAIN job : i # runtime[k].owner => job'[i] = job[i]
  BY <1>1, JobFacts DEF JobInv, JobsTyped
<1>4. DOMAIN job' = DOMAIN job BY <1>1
<1>5. \A i \in DOMAIN job' : Waits(job'[i]) => i \in DOMAIN job /\ (Waits(job[i]) \/ Backed(i))
  BY <1>2, <1>3, <1>4
<1>6. /\ DOMAIN runtime \subseteq DOMAIN runtime'
      /\ \A h \in DOMAIN runtime : runtime'[h].owner = runtime[h].owner
  BY <1>1 DEF JobInv, RuntimeTyped, RuntimeJob
<1> QED BY <1>1, <1>5, <1>6, AttendedKept DEF Attends

LEMMA AttendedStep ==
  ASSUME "saveJob" \notin Failing
  PROVE  JobInv /\ Attended /\ [Next]_vars => Attended'
<1> SUFFICES ASSUME JobInv, Attended, [Next]_vars PROVE Attended' OBVIOUS
<1>1. ASSUME UNCHANGED <<job, runtime, request>> PROVE Attended'
  BY <1>1 DEF Attended, Backed, Attends
<1>2. CASE CreateSourceReference \/ ArchiveSourceReference \/ UpdateSourceReference
  BY <1>1, <1>2
     DEF CreateSourceReference, ArchiveSourceReference, UpdateSourceReference, SetSourceStatuses
<1>3. ASSUME NEW w \in Workers,
             \/ CreateDeconstructionJob(w)
             \/ FindDeconstructionJob(w)
             \/ DeconstructionRuntimeCapabilityReady(w)
             \/ InsertDeconstructionJob(w)
             \/ CreatePlatformDeconstructionRuntimeJob(w)
             \/ SaveDeconstructionJob(w)
      PROVE  Attended'
  BY <1>3, EarlyAttended, CapabilityAttended, InsertAttended, PlatformAttended, SaveAttended
<1>4. CASE RunRuntimeJob
  <2>1. SameOwners BY <1>4, RunStep
  <2>2. UNCHANGED <<job, request>> BY <1>4, Zenon DEF RunRuntimeJob
  <2> QED BY <2>1, <2>2, AttendedKept, RowsAsTheyWere DEF SameOwners, Attends
<1>5. CASE InternalUpdateDeconstructionRuntime \/ InternalRecordDeconstructionResults
  BY <1>5, CallbackAttended
<1>6. CASE UNCHANGED vars BY <1>1, <1>6 DEF vars
<1> QED BY <1>2, <1>3, <1>4, <1>5, <1>6 DEF Next

(* Once every request is answered, a job the user waits for is one the     *)
(* platform has, as long as the row that CreateDeconstructionJob wrote     *)
(* last can be saved: a platform that refuses, or whose answer is lost,    *)
(* leaves a job that is blocked.                                           *)
THEOREM WaitingJobsRun ==
  ASSUME "saveJob" \notin Failing PROVE Spec => []WaitingIsRunning
<1>1. JobInv /\ Attended /\ [Next]_vars => Attended' BY AttendedStep
<1>2. Attended => WaitingIsRunning
  BY DEF Attended, WaitingIsRunning, Waits, Backed, Attends, At
<1> QED BY <1>1, <1>2, AttendedInit, JobsAgree, PTL DEF Spec

-----------------------------------------------------------------------------
(* The elements of a job.                                                  *)

ElementInv ==
  /\ element \subseteq Element
  /\ \A e \in element : Backed(e.job)
  /\ \A e \in element, k \in DOMAIN runtime :
       runtime[k].owner = e.job => e.delivery <= runtime[k].deliveries

LEMMA SourceResultsTyped ==
  ASSUME JobInv PROVE VisualResultElementsForSources \subseteq Result
<1>1. \A s \in Listed : s \in SourceIds /\ source[s] \in Source
  BY ListedIsSource DEF JobInv, SourcesTyped, Listed, ListedIn
<1> QED BY <1>1 DEF VisualResultElementsForSources, ResultElement, Result, Source, Dimensions

LEMMA CompletedTyped ==
  ASSUME JobInv, NEW i \in DOMAIN job, NEW reading \in Reading
  PROVE  CompletedResults(i, reading) \subseteq Result
<1> DEFINE given     == VisualResultElements(i, reading)
           read      == IF given = {} THEN FallbackVisualResultElementsFromProviderText(reading)
                        ELSE given
           projected == ProjectSingleImageUnderstandingElements(i, read)
<1>1. job[i] \in Job BY JobFacts
<1>2. given \subseteq Result
  BY <1>1 DEF VisualResultElements, ResultElement, Result, Reading, Slots, Job
<1> HIDE DEF given
<1>3. FallbackVisualResultElementsFromProviderText(reading) \subseteq Result
  BY SourceResultsTyped DEF FallbackVisualResultElementsFromProviderText
<1>4. read \subseteq Result BY <1>2, <1>3
<1> HIDE DEF read
<1>5. projected \subseteq Result
  BY <1>1, <1>4 DEF ProjectSingleImageUnderstandingElements, Result, Job
<1> HIDE DEF projected
<1>6. EnsureDualTrackVisualResultElements(projected) \subseteq Result
  BY <1>5, SourceResultsTyped DEF EnsureDualTrackVisualResultElements
<1>7. CompletedResults(i, reading) \in {projected, EnsureDualTrackVisualResultElements(projected)}
  BY DEF CompletedResults, projected, read, given
<1> QED BY <1>5, <1>6, <1>7

(* What a delivery of runtime job k stores.                                *)
Delivery(k, results) ==
  {ElementOf(runtime[k].owner, runtime[k].deliveries + 1, r) : r \in results}

(* A delivery brings the results of a completed job, or none of a failed   *)
(* one.                                                                    *)
Delivers(k, results) ==
  /\ Accepted(k)
  /\ results \subseteq Result
  /\ IF runtime[k].status = "completed"
     THEN results # {} /\ ValidateDualTrackResultCoverage(runtime[k].owner, "completed", results)
     ELSE results = {}
  /\ \A r \in results : r.source \in {0} \cup Listed
  /\ element' = (element \ Superseded(runtime[k].owner)) \cup Delivery(k, results)

LEMMA RecordOutcome ==
  ASSUME JobInv, InternalRecordDeconstructionResults
  PROVE  \E k \in DOMAIN runtime : \E results : Delivers(k, results)
<1>1. PICK k \in DOMAIN runtime :
       LET i       == runtime[k].owner
           status  == runtime[k].status
           results == IF status = "completed" THEN CompletedResults(i, runtime[k].reading)
                      ELSE {}
           stored  == {ElementOf(i, runtime[k].deliveries + 1, r) : r \in results}
       IN  /\ Accepted(k)
           /\ status = "completed" => results # {}
           /\ \A r \in results : NormalizeResultElementSourceProjection(r)
           /\ ValidateDualTrackResultCoverage(i, status, results)
           /\ element' = (element \ Superseded(i)) \cup stored
  BY Zenon DEF InternalRecordDeconstructionResults, Accepted
<1> DEFINE i       == runtime[k].owner
           results == IF runtime[k].status = "completed"
                      THEN CompletedResults(i, runtime[k].reading) ELSE {}
<1>2. i \in DOMAIN job /\ runtime[k].reading \in Reading
  <2>1. NoReading \in Reading BY DEF NoReading, Reading
  <2>2. Readings \subseteq Reading BY VisualDeconstructionAssumption
  <2>3. runtime[k].reading \in Readings \cup {NoReading} BY OwnerFacts DEF RuntimeJob
  <2> QED BY <2>1, <2>2, <2>3, OwnerFacts
<1>3. results \subseteq Result BY <1>2, CompletedTyped
<1>4. /\ Accepted(k)
      /\ runtime[k].status = "completed" => results # {}
      /\ \A r \in results : NormalizeResultElementSourceProjection(r)
      /\ ValidateDualTrackResultCoverage(i, runtime[k].status, results)
      /\ element' = (element \ Superseded(i)) \cup Delivery(k, results)
  BY <1>1 DEF Delivery
<1>5. runtime[k].status # "completed" => results = {} OBVIOUS
<1> HIDE DEF results
<1>6. Delivers(k, results)
  BY <1>3, <1>4, <1>5 DEF Delivers, NormalizeResultElementSourceProjection
<1> QED BY <1>6

LEMMA DeliveryTyped ==
  ASSUME JobInv, NEW k \in DOMAIN runtime, NEW results, Delivers(k, results)
  PROVE  /\ Delivery(k, results) \subseteq Element
         /\ \A e \in Delivery(k, results) :
              /\ e.job = runtime[k].owner /\ e.delivery = runtime[k].deliveries + 1
              /\ e.decision = "none"
              /\ \E r \in results : e.track = r.track /\ e.source = r.source
<1>1. runtime[k].owner \in JobIds BY OwnerFacts DEF RuntimeJob
<1>2. runtime[k].deliveries + 1 \in 1 .. MaxDeliveries BY AcceptedOutcome DEF Delivers
<1>3. \A r \in Result : ElementOf(runtime[k].owner, runtime[k].deliveries + 1, r) \in Element
  BY <1>1, <1>2 DEF ElementOf, Element, Result
<1> QED BY <1>3 DEF Delivers, Delivery, ElementOf

(* Steps that deliver nothing.                                             *)
LEMMA ElementsKept ==
  ASSUME JobInv, JobInv', ElementInv, UNCHANGED element,
         DOMAIN runtime \subseteq DOMAIN runtime',
         \A k \in DOMAIN runtime : /\ runtime'[k].owner = runtime[k].owner
                                   /\ runtime'[k].deliveries = runtime[k].deliveries
  PROVE  ElementInv'
<1>1. \A e \in element : Backed(e.job)' BY DEF ElementInv, Backed
<1>2. ASSUME NEW e \in element, NEW k \in DOMAIN runtime', runtime'[k].owner = e.job
      PROVE  e.delivery <= runtime'[k].deliveries
  <2>1. PICK h \in DOMAIN runtime : runtime[h].owner = e.job BY DEF ElementInv, Backed
  <2>2. runtime'[h].owner = e.job /\ h \in DOMAIN runtime' BY <2>1
  <2>3. job'[e.job].key = k /\ job'[e.job].key = h BY <1>2, <2>2 DEF JobInv, JobsKeyed
  <2>4. k = h BY <2>3
  <2> QED BY <2>1, <2>4 DEF ElementInv
<1> QED BY <1>1, <1>2 DEF ElementInv

LEMMA ElementsDelivered ==
  ASSUME JobInv, ElementInv, NEW k \in DOMAIN runtime, NEW results, Delivers(k, results)
  PROVE  ElementInv'
<1>1. /\ SameOwners
      /\ runtime'[k].deliveries = runtime[k].deliveries + 1
      /\ \A h \in DOMAIN runtime : h # k => runtime'[h] = runtime[h]
      /\ runtime[k].deliveries \in Nat
  BY AcceptedOutcome DEF Delivers
<1>2. /\ Delivery(k, results) \subseteq Element
      /\ \A e \in Delivery(k, results) :
           e.job = runtime[k].owner /\ e.delivery = runtime[k].deliveries + 1
  BY DeliveryTyped
<1>3. element' = (element \ Superseded(runtime[k].owner)) \cup Delivery(k, results)
  BY DEF Delivers
<1>4. element' \subseteq Element BY <1>2, <1>3 DEF ElementInv
<1>5. \A e \in element' : Backed(e.job)'
  BY <1>1, <1>2, <1>3 DEF ElementInv, Backed, SameOwners
<1>6. ASSUME NEW e \in element', NEW h \in DOMAIN runtime', runtime'[h].owner = e.job
      PROVE  e.delivery <= runtime'[h].deliveries
  <2>1. h \in DOMAIN runtime /\ runtime[h].owner = e.job BY <1>1, <1>6 DEF SameOwners
  <2>2. CASE e \in Delivery(k, results)
    <3>1. job[e.job].key = h /\ job[e.job].key = k BY <1>2, <2>1, <2>2 DEF JobInv, JobsKeyed
    <3> QED BY <1>1, <1>2, <2>2, <3>1
  <2>3. CASE e \in element /\ e.job # runtime[k].owner
    BY <1>1, <2>1, <2>3 DEF ElementInv
  <2> QED BY <1>3, <2>2, <2>3 DEF Superseded
<1> QED BY <1>4, <1>5, <1>6 DEF ElementInv

LEMMA ElementInit == Init => ElementInv
BY DEF Init, ElementInv

LEMMA PlatformKeeps ==
  ASSUME JobInv, NEW w \in Workers, CreatePlatformDeconstructionRuntimeJob(w)
  PROVE  DOMAIN runtime \subseteq DOMAIN runtime' /\ \A k \in DOMAIN runtime : runtime'[k] = runtime[k]
<1> DEFINE r     == request[w]
           after == CreateRuntimeJob(PlatformKey(r.job), r.id)
<1>1. UNCHANGED runtime \/ \E call \in Call(runtime, after) : runtime' = call.state
  BY Zenon DEF CreatePlatformDeconstructionRuntimeJob
<1> HIDE DEF after
<1>2. \A call \in Call(runtime, after) : call.state \in {runtime, after} BY CallOutcome
<1>3. runtime' \in {runtime, after} BY <1>1, <1>2
<1> QED BY <1>3 DEF after, CreateRuntimeJob

LEMMA ElementStep == JobInv /\ JobInv' /\ ElementInv /\ [Next]_vars => ElementInv'
<1> SUFFICES ASSUME JobInv, JobInv', ElementInv, [Next]_vars PROVE ElementInv' OBVIOUS
<1>1. ASSUME UNCHANGED <<element, runtime>> PROVE ElementInv' BY <1>1 DEF ElementInv, Backed
<1>2. CASE CreateSourceReference \/ ArchiveSourceReference \/ UpdateSourceReference
  BY <1>1, <1>2
     DEF CreateSourceReference, ArchiveSourceReference, UpdateSourceReference, SetSourceStatuses
<1>3. ASSUME NEW w \in Workers,
             \/ CreateDeconstructionJob(w)
             \/ FindDeconstructionJob(w)
             \/ DeconstructionRuntimeCapabilityReady(w)
             \/ InsertDeconstructionJob(w)
             \/ SaveDeconstructionJob(w)
      PROVE  ElementInv'
  <2>1. UNCHANGED <<element, runtime>>
    BY <1>3, Zenon DEF CreateDeconstructionJob, FindDeconstructionJob,
         DeconstructionRuntimeCapabilityReady, InsertDeconstructionJob, SaveDeconstructionJob
  <2> QED BY <1>1, <2>1
<1>4. ASSUME NEW w \in Workers, CreatePlatformDeconstructionRuntimeJob(w) PROVE ElementInv'
  <2>1. UNCHANGED element BY <1>4, Zenon DEF CreatePlatformDeconstructionRuntimeJob
  <2> QED BY <1>4, <2>1, PlatformKeeps, ElementsKept
<1>5. CASE RunRuntimeJob
  <2>1. UNCHANGED element BY <1>5, Zenon DEF RunRuntimeJob
  <2>2. PICK k \in DOMAIN runtime, status \in RuntimeStatuses,
              reading \in Readings \cup {NoReading} :
          runtime' = [runtime EXCEPT ![k].status = status, ![k].reading = reading]
    BY <1>5, RunOutcome
  <2>3. \A h \in DOMAIN runtime : /\ runtime'[h].owner = runtime[h].owner
                                  /\ runtime'[h].deliveries = runtime[h].deliveries
    BY <2>2 DEF JobInv, RuntimeTyped, RuntimeJob
  <2>4. DOMAIN runtime' = DOMAIN runtime BY <2>2
  <2> QED BY <2>1, <2>3, <2>4, ElementsKept
<1>6. CASE InternalUpdateDeconstructionRuntime
  BY <1>1, <1>6, Zenon DEF InternalUpdateDeconstructionRuntime
<1>7. CASE InternalRecordDeconstructionResults BY <1>7, RecordOutcome, ElementsDelivered
<1>8. CASE UNCHANGED vars BY <1>1, <1>8 DEF vars
<1> QED BY <1>2, <1>3, <1>4, <1>5, <1>6, <1>7, <1>8 DEF Next

(* The elements of a session belong to jobs the platform has, and none is  *)
(* newer than the last delivery.                                           *)
THEOREM ElementsAreDelivered == Spec => []ElementInv
<1>1. JobInv /\ JobInv' /\ ElementInv /\ [Next]_vars => ElementInv' BY ElementStep
<1> QED BY <1>1, ElementInit, JobsAgree, PTL DEF Spec

(* The rows have their types, whatever overlaps and fails.                 *)
THEOREM DeconstructionTypeCorrect == Spec => []TypeOK
<1>1. JobInv /\ ElementInv => TypeOK
  <2> SUFFICES ASSUME JobInv, ElementInv PROVE TypeOK OBVIOUS
  <2>1. request \in [Workers -> Request] BY DEF JobInv, RequestsTyped, Requests
  <2> QED BY <2>1 DEF JobInv, ElementInv, SourcesTyped, JobsTyped, RuntimeTyped, TypeOK
<1> QED BY <1>1, JobsAgree, ElementsAreDelivered, PTL

-----------------------------------------------------------------------------
(* The deconstruction implements Preparation.                              *)

Standing == [i \in DOMAIN job |-> [status |-> job[i].status, single |-> job[i].single]]

StandingJob == [status : JobStatuses, single : BOOLEAN]

LEMMA StandingFacts ==
  ASSUME JobInv
  PROVE  /\ Standing \in Seq(StandingJob)
         /\ Len(Standing) = Len(job) /\ DOMAIN Standing = DOMAIN job
         /\ \A i \in DOMAIN job : Standing[i] = [status |-> job[i].status, single |-> job[i].single]
<1>1. DOMAIN job = 1 .. Len(job) /\ Len(job) \in Nat /\ \A i \in DOMAIN job : job[i] \in Job
  BY JobFacts
<1>2. \A i \in DOMAIN job : [status |-> job[i].status, single |-> job[i].single] \in StandingJob
  BY <1>1 DEF Job, StandingJob
<1> HIDE DEF StandingJob
<1>3. Standing \in Seq(StandingJob) BY <1>1, <1>2 DEF Standing
<1>4. DOMAIN Standing = DOMAIN job BY DEF Standing
<1>5. Len(Standing) = Len(job) BY <1>1, <1>3, <1>4
<1> QED BY <1>3, <1>4, <1>5 DEF Standing

LEMMA PreparationInit == Init => Prep!PreparationInit
<1> SUFFICES ASSUME Init PROVE Prep!PreparationInit OBVIOUS
<1>1. JobInv BY JobInit
<1>2. job = << >> BY DEF Init
<1>3. Standing \in Seq(StandingJob) /\ Len(Standing) = 0
  BY <1>1, <1>2, StandingFacts, EmptySeq
<1>4. Standing = << >> BY <1>3, EmptySeq
<1> QED BY <1>4 DEF Init, Prep!PreparationInit, Standing

(* Nothing the rest of the workflow sees.                                  *)
LEMMA PreparationUnseen ==
  ASSUME UNCHANGED <<source, job, element>> PROVE UNCHANGED Prep!preparation
BY DEF Prep!preparation

LEMMA SourcePrepared ==
  ASSUME JobInv, CreateSourceReference \/ ArchiveSourceReference \/ UpdateSourceReference
  PROVE  Prep!PreparationNext
<1>1. UNCHANGED <<job, element>>
  BY DEF CreateSourceReference, ArchiveSourceReference, UpdateSourceReference, SetSourceStatuses
<1>2. CASE CreateSourceReference
  <2>1. NewSources = Prep!NewSources
    BY DEF NewSources, Prep!NewSources, InitialSourceStatuses, Prep!InitialSourceStatuses,
           SourceRoleFromMetadata, Prep!SourceRoleFromMetadata
  <2>2. Prep!SourceAdded BY <1>1, <1>2, <2>1 DEF CreateSourceReference, Prep!SourceAdded
  <2> QED BY <2>2 DEF Prep!PreparationNext
<1>3. CASE ArchiveSourceReference \/ UpdateSourceReference
  <2>1. \E i \in DOMAIN source, statuses \in SourceEdits \cup {<<"archived", "archived">>} :
          source' = [source EXCEPT ![i].status = statuses[1], ![i].resolve = statuses[2]]
    BY <1>3 DEF ArchiveSourceReference, UpdateSourceReference, SetSourceStatuses
  <2>2. Prep!SourceMarked BY <1>1, <2>1 DEF Prep!SourceMarked
  <2> QED BY <2>2 DEF Prep!PreparationNext
<1> QED BY <1>2, <1>3

(* A job's row is written, and its policy stays.                           *)
LEMMA JobPrepared ==
  ASSUME JobInv, NEW i \in DOMAIN job, NEW j \in Job, j.single = job[i].single,
         job' = [job EXCEPT ![i] = j], UNCHANGED <<source, element>>
  PROVE  Prep!PreparationNext
<1>1. Standing' = [Standing EXCEPT ![i].status = j.status] BY DEF Standing
<1>2. j.status \in JobStatuses BY DEF Job
<1>3. i \in DOMAIN Standing BY DEF Standing
<1>4. \E h \in DOMAIN Standing, status \in JobStatuses :
        Standing' = [Standing EXCEPT ![h].status = status]
  BY <1>1, <1>2, <1>3
<1>5. Prep!JobMoved
  BY <1>4, Zenon DEF Prep!JobMoved, Standing, JobStatuses, Prep!JobStatuses
<1> QED BY <1>5 DEF Prep!PreparationNext

LEMMA InsertPrepared ==
  ASSUME JobInv, NEW w \in Workers, InsertDeconstructionJob(w)
  PROVE  Prep!PreparationNext \/ UNCHANGED Prep!preparation
<1> DEFINE j == request[w].job
           s == [status |-> j.status, single |-> j.single]
<1>1. UNCHANGED <<source, element>> /\ request[w].pc = "insert"
  BY DEF InsertDeconstructionJob, At
<1>2. CASE UNCHANGED job BY <1>1, <1>2, PreparationUnseen
<1>3. CASE Len(job) < MaxJobs /\ job' = Append(job, j)
  <2>1. RequestKeyed(w) /\ j \in Job
    BY <1>1 DEF JobInv, RequestsKeyed, RequestsTyped, Requests
  <2>2. j.status \in {"queued", "contract_needed"} /\ j.single \in BOOLEAN
    BY <1>1, <2>1 DEF RequestKeyed, Job
  <2>3. /\ Standing \in Seq(StandingJob) /\ Len(Standing) = Len(job)
        /\ DOMAIN Standing = 1 .. Len(job) /\ Len(job) \in Nat
        /\ job \in Seq(Job)
    BY StandingFacts, JobFacts DEF JobInv, JobsTyped
  <2>4. /\ DOMAIN job' = 1 .. Len(job) + 1
        /\ job'[Len(job) + 1] = j
        /\ \A i \in 1 .. Len(job) : job'[i] = job[i]
    BY <1>3, <2>1, <2>3
  <2>5. Append(Standing, s) = [i \in 1 .. Len(job) + 1 |->
                                 IF i = Len(job) + 1 THEN s ELSE Standing[i]]
    BY <2>3 DEF Append
  <2>6. Standing' = [i \in 1 .. Len(job) + 1 |-> IF i = Len(job) + 1 THEN s ELSE Standing[i]]
    BY <2>3, <2>4 DEF Standing
  <2>7. Standing' = Append(Standing, s) BY <2>5, <2>6
  <2>8. Prep!JobAdded BY <1>1, <1>3, <2>2, <2>3, <2>7 DEF Prep!JobAdded, Standing
  <2> QED BY <2>8 DEF Prep!PreparationNext
<1> QED BY <1>2, <1>3 DEF InsertDeconstructionJob

(* The row a request holds is written, or nothing is.                      *)
LEMMA HeldPrepared ==
  ASSUME JobInv, NEW w \in Workers, Holding(w), NEW j \in Job, j.single = request[w].job.single,
         UNCHANGED job \/ job' = [job EXCEPT ![request[w].id] = j], UNCHANGED <<source, element>>
  PROVE  Prep!PreparationNext \/ UNCHANGED Prep!preparation
<1>1. request[w].id \in DOMAIN job /\ request[w].job.single = job[request[w].id].single
  BY DEF JobInv, RequestsKeyed, RequestKeyed
<1>2. CASE UNCHANGED job BY <1>2, PreparationUnseen
<1>3. CASE job' = [job EXCEPT ![request[w].id] = j] BY <1>1, <1>3, JobPrepared
<1> QED BY <1>2, <1>3

LEMMA CapabilityPrepared ==
  ASSUME JobInv, NEW w \in Workers, DeconstructionRuntimeCapabilityReady(w)
  PROVE  Prep!PreparationNext \/ UNCHANGED Prep!preparation
<1> DEFINE r == request[w]
           j == [r.job EXCEPT !.status = "contract_needed"]
<1>1. UNCHANGED <<source, element>> /\ r.pc = "capability"
  BY DEF DeconstructionRuntimeCapabilityReady, At
<1>2. UNCHANGED job \/ (r.retry /\ job' = [job EXCEPT ![r.id] = j])
  BY DEF DeconstructionRuntimeCapabilityReady
<1>3. r.job \in Job BY <1>1 DEF JobInv, RequestsTyped, Requests
<1>4. j \in Job /\ j.single = r.job.single BY <1>3 DEF Job, JobStatuses
<1> HIDE DEF j
<1>5. CASE UNCHANGED job BY <1>1, <1>5, PreparationUnseen
<1>6. CASE r.retry /\ job' = [job EXCEPT ![r.id] = j]
  <2>1. Holding(w) BY <1>1, <1>6 DEF Holding
  <2> QED BY <1>1, <1>4, <1>6, <2>1, HeldPrepared
<1> QED BY <1>2, <1>5, <1>6

LEMMA UpdatePrepared ==
  ASSUME JobInv, InternalUpdateDeconstructionRuntime PROVE Prep!PreparationNext
<1>1. UNCHANGED <<source, element>> BY Zenon DEF InternalUpdateDeconstructionRuntime
<1>2. PICK k \in DOMAIN runtime : \E status :
        job' = [job EXCEPT ![runtime[k].owner].status = status, ![runtime[k].owner].named = TRUE]
  BY Zenon DEF InternalUpdateDeconstructionRuntime
<1>3. PICK status :
        job' = [job EXCEPT ![runtime[k].owner].status = status, ![runtime[k].owner].named = TRUE]
  BY <1>2
<1> DEFINE i == runtime[k].owner
           j == [job[i] EXCEPT !.status = status, !.named = TRUE]
<1>4. i \in DOMAIN job /\ job[i] \in Job BY OwnerFacts
<1>5. job' = [job EXCEPT ![i] = j] BY <1>3, <1>4 DEF JobInv, JobsTyped
<1>6. job'[i] = j BY <1>4, <1>5
<1>7. job'[i] \in Job
  <2>1. JobInv' BY UpdateStep
  <2>2. i \in DOMAIN job' BY <1>4, <1>5
  <2> QED BY <2>1, <2>2, JobFacts DEF JobInv, JobsTyped
<1>8. j \in Job /\ j.single = job[i].single BY <1>4, <1>6, <1>7 DEF Job
<1> HIDE DEF i, j
<1> QED BY <1>1, <1>4, <1>5, <1>8, JobPrepared

(* A delivery replaces the elements of its job as a whole.                 *)
LEMMA DeliveryPrepared ==
  ASSUME JobInv, ElementInv, NEW k \in DOMAIN runtime, NEW results, Delivers(k, results),
         UNCHANGED source
  PROVE  Prep!PreparationNext
<1>1. PICK i \in DOMAIN job : i = runtime[k].owner /\ job[i] \in Job BY OwnerFacts
<1> DEFINE new == {e \in element' : e.job = i}
<1>2. /\ Delivery(k, results) \subseteq Element
      /\ \A e \in Delivery(k, results) :
           /\ e.job = i /\ e.delivery = runtime[k].deliveries + 1 /\ e.decision = "none"
           /\ \E r \in results : e.track = r.track /\ e.source = r.source
  BY <1>1, DeliveryTyped
<1>3. element' = (element \ Superseded(i)) \cup Delivery(k, results) BY <1>1 DEF Delivers
<1>4. new = Delivery(k, results) BY <1>2, <1>3 DEF Superseded
<1>5. runtime[k].deliveries \in Nat BY AcceptedOutcome DEF Delivers
<1>6. \A f \in Superseded(i) : f.delivery \in Nat /\ f.delivery <= runtime[k].deliveries
  <2>1. \A f \in element : f.delivery \in Nat BY VisualRowsAssumption DEF ElementInv, Element
  <2> QED BY <1>1, <2>1 DEF ElementInv, Superseded
<1>7. \A e \in new : /\ e.decision = "none"
                     /\ e.source \in {0} \cup Listed
                     /\ \A f \in new : e.delivery = f.delivery
                     /\ \A f \in Superseded(i) : f.delivery < e.delivery
  <2>1. \A r \in results : r.source \in {0} \cup Listed BY DEF Delivers
  <2>2. \A e \in new : e.source \in {0} \cup Listed BY <1>2, <1>4, <2>1
  <2>3. \A e \in new : e.delivery = runtime[k].deliveries + 1 /\ e.decision = "none" BY <1>2, <1>4
  <2> QED BY <1>5, <1>6, <2>2, <2>3
<1>8. new = {} <=> results = {} BY <1>4 DEF Delivery
<1>9. Standing' = [Standing EXCEPT ![i].status = IF new = {} THEN "failed" ELSE "completed"]
  <2>1. job' = [job EXCEPT ![i].status = runtime[k].status]
    BY <1>1 DEF Delivers, Accepted
  <2>2. runtime[k].status = IF new = {} THEN "failed" ELSE "completed"
    BY <1>8 DEF Delivers, Accepted
  <2> HIDE DEF new
  <2>3. job' = [job EXCEPT ![i].status = IF new = {} THEN "failed" ELSE "completed"]
    BY <2>1, <2>2
  <2> QED BY <1>1, <2>3 DEF Standing, Job
<1>10. new = {} \/ Standing[i].single \/ {e.track : e \in new} = Tracks
  <2>1. ASSUME new # {}, ~ job[i].single PROVE {e.track : e \in new} = Tracks
    <3>1. {r.track : r \in results} = Tracks
      BY <1>1, <1>8, <2>1 DEF Delivers, ValidateDualTrackResultCoverage, JobRequiresDualTrackResultCoverage
    <3>2. ASSUME NEW r \in results PROVE \E e \in Delivery(k, results) : e.track = r.track
      <4> DEFINE e == ElementOf(runtime[k].owner, runtime[k].deliveries + 1, r)
      <4>1. e \in Delivery(k, results) BY DEF Delivery
      <4>2. e.track = r.track BY DEF ElementOf
      <4> QED BY <4>1, <4>2
    <3>3. \A e \in new : \E r \in results : e.track = r.track BY <1>2, <1>4
    <3> HIDE DEF new
    <3> QED BY <1>4, <3>1, <3>2, <3>3
  <2>2. Standing[i].single = job[i].single BY <1>1 DEF Standing
  <2> QED BY <2>1, <2>2
<1>11. Prep!ElementsOf(i) = Superseded(i) /\ Prep!ListedIn(source) = Listed
  BY DEF Prep!ElementsOf, Superseded, Prep!ListedIn, Listed, ListedIn
<1>12. Prep!Tracks = Tracks BY DEF Prep!Tracks, Tracks
<1>13. element' = (element \ Superseded(i)) \cup new BY <1>3, <1>4
<1> HIDE DEF new
<1>14. Prep!Delivered(i)
  BY <1>7, <1>9, <1>10, <1>11, <1>12, <1>13 DEF Prep!Delivered, Standing, new
<1>15. i \in DOMAIN Standing BY <1>1 DEF Standing
<1>16. \E h \in DOMAIN Standing : Prep!Delivered(h) BY <1>14, <1>15
<1> QED BY <1>16, Zenon DEF Prep!PreparationNext, Standing

LEMMA PreparationStep ==
  JobInv /\ ElementInv /\ [Next]_vars => [Prep!PreparationNext]_Prep!preparation
<1> SUFFICES ASSUME JobInv, ElementInv, [Next]_vars
             PROVE  Prep!PreparationNext \/ UNCHANGED Prep!preparation
  OBVIOUS
<1>1. CASE CreateSourceReference \/ ArchiveSourceReference \/ UpdateSourceReference
  BY <1>1, SourcePrepared
<1>2. ASSUME NEW w \in Workers,
             \/ CreateDeconstructionJob(w)
             \/ FindDeconstructionJob(w)
             \/ CreatePlatformDeconstructionRuntimeJob(w)
      PROVE  UNCHANGED Prep!preparation
  <2>1. UNCHANGED <<source, job, element>>
    BY <1>2, Zenon DEF CreateDeconstructionJob, FindDeconstructionJob,
                       CreatePlatformDeconstructionRuntimeJob
  <2> QED BY <2>1, PreparationUnseen
<1>3. ASSUME NEW w \in Workers, DeconstructionRuntimeCapabilityReady(w)
      PROVE  Prep!PreparationNext \/ UNCHANGED Prep!preparation
  BY <1>3, CapabilityPrepared
<1>4. ASSUME NEW w \in Workers, InsertDeconstructionJob(w)
      PROVE  Prep!PreparationNext \/ UNCHANGED Prep!preparation
  BY <1>4, InsertPrepared
<1>5. ASSUME NEW w \in Workers, SaveDeconstructionJob(w)
      PROVE  Prep!PreparationNext \/ UNCHANGED Prep!preparation
  <2>1. UNCHANGED <<source, element>> /\ request[w].pc = "saveJob" BY <1>5 DEF SaveDeconstructionJob, At
  <2>2. Holding(w) BY <2>1 DEF Holding
  <2>3. request[w].job \in Job BY <2>1 DEF JobInv, RequestsTyped, Requests
  <2>4. UNCHANGED job \/ job' = [job EXCEPT ![request[w].id] = request[w].job]
    BY <1>5 DEF SaveDeconstructionJob
  <2> QED BY <2>1, <2>2, <2>3, <2>4, HeldPrepared
<1>6. CASE RunRuntimeJob
  <2>1. UNCHANGED <<source, job, element>> BY <1>6, Zenon DEF RunRuntimeJob
  <2> QED BY <2>1, PreparationUnseen
<1>7. CASE InternalUpdateDeconstructionRuntime BY <1>7, UpdatePrepared
<1>8. CASE InternalRecordDeconstructionResults
  <2>1. UNCHANGED source BY <1>8, Zenon DEF InternalRecordDeconstructionResults
  <2> QED BY <1>8, <2>1, RecordOutcome, DeliveryPrepared
<1>9. CASE UNCHANGED vars BY <1>9, PreparationUnseen DEF vars
<1> QED BY <1>1, <1>2, <1>3, <1>4, <1>5, <1>6, <1>7, <1>8, <1>9 DEF Next

(* The deconstruction implements what the planning rests on: the elements  *)
(* of a job change by whole deliveries, and a completed one covers both    *)
(* tracks.                                                                 *)
THEOREM DeconstructionPrepares == Spec => KeepsPreparation
<1>1. Init => Prep!PreparationInit BY PreparationInit
<1>2. JobInv /\ ElementInv /\ [Next]_vars => [Prep!PreparationNext]_Prep!preparation
  BY PreparationStep
<1> QED BY <1>1, <1>2, JobsAgree, ElementsAreDelivered, PTL
        DEF Spec, KeepsPreparation, Prep!PreparationSpec

=============================================================================
