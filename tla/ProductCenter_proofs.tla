------------------------ MODULE ProductCenter_proofs ------------------------
(***************************************************************************)
(* What holds of ProductCenter for any number of overlapping requests,     *)
(* relations, listing versions and export tasks.                           *)
(***************************************************************************)
EXTENDS ProductCenter, TLAPS

(* What a request holds at its step is what it is about to write, and its  *)
(* charge has come as far as its step says.                                *)
Creating == {"createListing", "createExport"}

ChargeAt(step) ==
  CASE step \in {"checkAssets", "checkAdopted", "openSession"} -> NoCharge
    [] step = "reserve" ->
         [session |-> "created", reservation |-> "none", metered |-> FALSE]
    [] step \in {"insert", "markReserved"} ->
         [session |-> "created", reservation |-> "held", metered |-> FALSE]
    [] step = "meter" ->
         [session |-> "reserved", reservation |-> "held", metered |-> FALSE]
    [] step = "settle" ->
         [session |-> "reserved", reservation |-> "committed", metered |-> TRUE]
    [] OTHER ->
         [session |-> "settled", reservation |-> "committed", metered |-> TRUE]

TailSteps == {"read", "list", "save", "readMain", "saveMain"}

Knows(r) ==
  /\ r.pc \in {"list", "save", "saveMain", "checkStatus", "saveProduct"} =>
       r.copy \in Product
  /\ r.pc \in {"checkLinked", "clearPrimary", "saveRelation"} =>
       r.id \in Relations /\ r.linked \in Relation
  /\ r.pc = "fetchRelation" => r.id \in Relations
  /\ r.pc \in {"adopt", "deleteListing"} => r.id \in Listings
  /\ r.pc = "saveExport" => r.id \in Exports /\ r.to \in TaskStatuses

Charged == {"checkAssets", "checkAdopted", "openSession", "reserve", "insert",
            "markReserved", "meter", "settle"} \cup TailSteps

Billed(r) ==
  r.op \in Creating =>
    /\ r.pc \in Charged \cup {"unreserve", "release"}
    /\ r.pc \in Charged => r.charge = ChargeAt(r.pc)

Fine(r) == r \in Request /\ Knows(r) /\ Billed(r)

RequestsOK ==
  /\ DOMAIN request = Workers
  /\ request = [w \in Workers |-> request[w]]
  /\ \A w \in Workers : Fine(request[w])

TablesOK ==
  /\ product \in Product \cup {NoProduct}
  /\ relation \in Table(Relations, Relation)
  /\ listing \in Table(Listings, VersionStatuses)
  /\ export \in Table(Exports, TaskStatuses)

IInv == RequestsOK /\ TablesOK

-----------------------------------------------------------------------------
(* Tables *)

LEMMA EmptyType ==
  ASSUME NEW ids, NEW rows
  PROVE  EmptyTable \in Table(ids, rows)
<1>1. EmptyTable \in [{} -> rows]
  BY DEF EmptyTable
<1>2. {} \in SUBSET ids
  OBVIOUS
<1> QED
  BY <1>1, <1>2 DEF Table

LEMMA TableType ==
  ASSUME NEW ids, NEW rows, NEW t
  PROVE  t \in Table(ids, rows) <=>
           \E stored \in SUBSET ids : t \in [stored -> rows]
BY DEF Table

LEMMA TableFacts ==
  ASSUME NEW ids, NEW rows, NEW t \in Table(ids, rows)
  PROVE  /\ DOMAIN t \subseteq ids
         /\ t \in [DOMAIN t -> rows]
         /\ \A i \in DOMAIN t : t[i] \in rows
<1>1. PICK stored \in SUBSET ids : t \in [stored -> rows]
  BY TableType
<1> QED
  BY <1>1

LEMMA SaveType ==
  ASSUME NEW ids, NEW rows, NEW t \in Table(ids, rows), NEW id \in ids, NEW row \in rows
  PROVE  Save(t, id, row) \in Table(ids, rows)
<1>1. DOMAIN t \subseteq ids /\ \A i \in DOMAIN t : t[i] \in rows
  BY TableFacts
<1>2. DOMAIN t \cup {id} \in SUBSET ids
  BY <1>1
<1>3. Save(t, id, row) \in [DOMAIN t \cup {id} -> rows]
  BY <1>1 DEF Save, Stored
<1> QED
  BY <1>2, <1>3, TableType

LEMMA DeleteType ==
  ASSUME NEW ids, NEW rows, NEW t \in Table(ids, rows), NEW id
  PROVE  Delete(t, id) \in Table(ids, rows)
<1>1. DOMAIN t \subseteq ids /\ \A i \in DOMAIN t : t[i] \in rows
  BY TableFacts
<1>2. DOMAIN t \ {id} \in SUBSET ids
  BY <1>1
<1>3. Delete(t, id) \in [DOMAIN t \ {id} -> rows]
  BY <1>1 DEF Delete, Stored, Restrict
<1> QED
  BY <1>2, <1>3, TableType

-----------------------------------------------------------------------------
(* Requests *)

LEMMA IdleFine == Fine(Idle)
<1>1. Idle \in Request
  BY EmptyType DEF Idle, Request, NoCharge, Charge, SessionStatuses,
     ReservationStatuses, Steps
<1> QED
  BY <1>1 DEF Fine, Idle, Knows, Billed, Creating

(* A step replaces the record of its own request. *)
LEMMA Moves ==
  ASSUME RequestsOK, NEW w \in Workers, NEW r, Fine(r),
         request' = [request EXCEPT ![w] = r]
  PROVE  RequestsOK'
BY DEF RequestsOK

LEMMA Ends ==
  ASSUME RequestsOK, NEW w \in Workers, End(w)
  PROVE  RequestsOK'
BY IdleFine, Moves DEF End

LEMMA Goes ==
  ASSUME RequestsOK, NEW w \in Workers, NEW step,
         Fine([request[w] EXCEPT !.pc = step]), GoTo(w, step)
  PROVE  RequestsOK'
<1>1. request' = [request EXCEPT ![w] = [request[w] EXCEPT !.pc = step]]
  BY DEF GoTo
<1> QED
  BY <1>1, Moves

LEMMA Proceeds ==
  ASSUME RequestsOK, NEW w \in Workers, NEW ok \in BOOLEAN, NEW step,
         ok => Fine([request[w] EXCEPT !.pc = step]), Proceed(w, ok, step)
  PROVE  RequestsOK'
<1>1. CASE ok
  BY <1>1, Goes DEF Proceed
<1>2. CASE ~ ok
  BY <1>2, Ends DEF Proceed
<1> QED
  BY <1>1, <1>2

LEMMA DbOutcomes == \A w : DbResults(w) \subseteq BOOLEAN
BY DEF DbResults

-----------------------------------------------------------------------------
(* Asset relations *)

LEMMA AddAssetKeeps ==
  ASSUME IInv, NEW w \in Workers, AddAsset(w)
  PROVE  IInv'
<1>1. PICK i \in Relations, row \in Relation :
        request' = [request EXCEPT ![w] =
          [Idle EXCEPT !.op = "addAsset", !.pc = "checkLinked", !.id = i,
                       !.linked = row]]
  BY DEF AddAsset
<1>2. Fine([Idle EXCEPT !.op = "addAsset", !.pc = "checkLinked", !.id = i,
                        !.linked = row])
  BY IdleFine DEF Fine, Idle, Request, Knows, Billed, Creating, Charged, ChargeAt, Ids, Steps,
     AllOperations, AssetOperations
<1> QED
  BY <1>1, <1>2, Moves DEF IInv, TablesOK, AddAsset

LEMMA CheckLinkedKeeps ==
  ASSUME IInv, NEW w \in Workers, CheckLinked(w)
  PROVE  IInv'
<1>1. Fine(request[w]) /\ request[w].pc = "checkLinked"
  BY DEF IInv, RequestsOK, CheckLinked, At
<1>2. \A step \in {"clearPrimary", "saveRelation"} :
        Fine([request[w] EXCEPT !.pc = step])
  BY <1>1 DEF Fine, Request, Knows, Billed, Charged, ChargeAt, Steps, TailSteps
<1>3. \/ End(w) \/ GoTo(w, "clearPrimary") \/ GoTo(w, "saveRelation")
  BY DEF CheckLinked
<1>4. RequestsOK'
  BY <1>2, <1>3, Ends, Goes DEF IInv
<1> QED
  BY <1>4 DEF IInv, TablesOK, CheckLinked

LEMMA ChangeAssetKeeps ==
  ASSUME IInv, NEW w \in Workers, NEW op \in {"updateAsset", "governAsset"},
         ChangeAsset(w, op)
  PROVE  IInv'
<1>1. PICK i \in Stored(relation) :
        request' = [request EXCEPT ![w] =
          [Idle EXCEPT !.op = op, !.pc = "fetchRelation", !.id = i]]
  BY DEF ChangeAsset
<1>2. i \in Relations
  BY TableFacts DEF IInv, TablesOK, Stored
<1>3. Fine([Idle EXCEPT !.op = op, !.pc = "fetchRelation", !.id = i])
  BY <1>2, IdleFine DEF Fine, Idle, Request, Knows, Billed, Creating, Charged, ChargeAt, Ids, Steps,
     AllOperations, AssetOperations
<1> QED
  BY <1>1, <1>3, Moves DEF IInv, TablesOK, ChangeAsset

LEMMA FetchRelationKeeps ==
  ASSUME IInv, NEW w \in Workers, FetchRelation(w)
  PROVE  IInv'
<1> DEFINE i == request[w].id
<1>1. Fine(request[w]) /\ request[w].pc = "fetchRelation"
  BY DEF IInv, RequestsOK, FetchRelation, At
<1>2. CASE i \in Stored(relation)
           /\ \E role \in Roles, mark \in {"keep", "set", "unset"} :
                request' = [request EXCEPT
                  ![w].linked = [relation[i] EXCEPT
                     !.role = role,
                     !.primary = IF mark = "keep" THEN @ ELSE mark = "set"],
                  ![w].pc = IF mark = "set" THEN "clearPrimary" ELSE "saveRelation"]
  <2>1. PICK role \in Roles, mark \in {"keep", "set", "unset"} :
          request' = [request EXCEPT
            ![w].linked = [relation[i] EXCEPT
               !.role = role,
               !.primary = IF mark = "keep" THEN @ ELSE mark = "set"],
            ![w].pc = IF mark = "set" THEN "clearPrimary" ELSE "saveRelation"]
    BY <1>2
  <2> DEFINE row == [relation[i] EXCEPT
                       !.role = role,
                       !.primary = IF mark = "keep" THEN @ ELSE mark = "set"]
             r == [request[w] EXCEPT
                     !.linked = row,
                     !.pc = IF mark = "set" THEN "clearPrimary" ELSE "saveRelation"]
  <2>2. relation[i] \in Relation
    BY <1>2, TableFacts DEF IInv, TablesOK, Stored
  <2>3. row \in Relation
    BY <2>2 DEF Relation
  <2>4. request' = [request EXCEPT ![w] = r]
    BY <2>1
  <2> HIDE DEF row
  <2>5. Fine(r)
    BY <1>1, <2>3 DEF Fine, Request, Knows, Billed, Charged, ChargeAt, Steps, TailSteps
  <2> HIDE DEF r
  <2> QED
    BY <2>4, <2>5, Moves DEF IInv, TablesOK, FetchRelation
<1>3. CASE End(w)
  BY <1>3, Ends DEF IInv, TablesOK, FetchRelation
<1> QED
  BY <1>2, <1>3 DEF FetchRelation

LEMMA ClearPrimaryKeeps ==
  ASSUME IInv, NEW w \in Workers, ClearPrimary(w)
  PROVE  IInv'
<1>1. Fine(request[w]) /\ request[w].pc = "clearPrimary"
  BY DEF IInv, RequestsOK, ClearPrimary, At
<1>2. Fine([request[w] EXCEPT !.pc = "saveRelation"])
  BY <1>1 DEF Fine, Request, Knows, Billed, Charged, ChargeAt, Steps, TailSteps
<1>3. PICK ok \in BOOLEAN :
        /\ relation' = IF ok
             THEN [i \in Stored(relation) |->
                     IF LosesMark(i, w) THEN [relation[i] EXCEPT !.primary = FALSE]
                     ELSE relation[i]]
             ELSE relation
        /\ Proceed(w, ok, "saveRelation")
  BY DbOutcomes DEF ClearPrimary
<1>4. RequestsOK'
  BY <1>2, <1>3, Proceeds DEF IInv
<1>5. relation' \in Table(Relations, Relation)
  <2>0. \A i \in Stored(relation) : relation[i] \in Relation
    BY TableFacts DEF IInv, TablesOK, Stored
  <2>1. \A i \in Stored(relation) : [relation[i] EXCEPT !.primary = FALSE] \in Relation
    BY <2>0 DEF Relation
  <2>2. Stored(relation) \subseteq Relations
    BY TableFacts DEF IInv, TablesOK, Stored
  <2>3. CASE ok
    BY <1>3, <2>0, <2>1, <2>2, <2>3 DEF Table
  <2>4. CASE ~ ok
    BY <1>3, <2>4 DEF IInv, TablesOK
  <2> QED
    BY <2>3, <2>4
<1> QED
  BY <1>4, <1>5 DEF IInv, TablesOK, ClearPrimary

LEMMA SaveRelationKeeps ==
  ASSUME IInv, NEW w \in Workers, SaveRelation(w)
  PROVE  IInv'
<1>1. Fine(request[w]) /\ request[w].pc = "saveRelation"
  BY DEF IInv, RequestsOK, SaveRelation, At
<1>2. Fine([request[w] EXCEPT !.pc = "read"])
  BY <1>1 DEF Fine, Request, Knows, Billed, Charged, ChargeAt, Steps, TailSteps
<1>3. PICK ok \in BOOLEAN :
        /\ relation' = IF ok THEN Save(relation, request[w].id, request[w].linked)
                       ELSE relation
        /\ Proceed(w, ok /\ request[w].op # "governAsset", "read")
  BY DbOutcomes DEF SaveRelation
<1>4. RequestsOK'
  BY <1>2, <1>3, Proceeds DEF IInv
<1>5. relation' \in Table(Relations, Relation)
  BY <1>1, <1>3, SaveType DEF IInv, TablesOK, Fine, Knows
<1> QED
  BY <1>4, <1>5 DEF IInv, TablesOK, SaveRelation

LEMMA DeleteAssetKeeps ==
  ASSUME IInv, NEW w \in Workers, DeleteAsset(w)
  PROVE  IInv'
<1>1. Fine([Idle EXCEPT !.op = "deleteAsset", !.pc = "read"])
  BY IdleFine DEF Fine, Idle, Request, Knows, Billed, Creating, Steps,
     AllOperations, AssetOperations
<1>2. RequestsOK'
  BY <1>1, Moves DEF IInv, DeleteAsset
<1>3. relation' \in Table(Relations, Relation)
  BY DeleteType DEF IInv, TablesOK, DeleteAsset
<1> QED
  BY <1>2, <1>3 DEF IInv, TablesOK, DeleteAsset

-----------------------------------------------------------------------------
(* New listing versions and export tasks *)

LEMMA CreateListingKeeps ==
  ASSUME IInv, NEW w \in Workers, CreateListing(w)
  PROVE  IInv'
<1>1. PICK l \in Listings, step \in {"openSession", "checkAssets"} :
        request' = [request EXCEPT ![w] =
          [Idle EXCEPT !.op = "createListing", !.id = l, !.pc = step]]
  BY DEF CreateListing
<1>2. Fine([Idle EXCEPT !.op = "createListing", !.id = l, !.pc = step])
  BY IdleFine DEF Fine, Idle, Request, Knows, Billed, Creating, Charged, ChargeAt, Ids, Steps, TailSteps,
     AllOperations, ListingOperations
<1> QED
  BY <1>1, <1>2, Moves DEF IInv, TablesOK, CreateListing

LEMMA CreateExportKeeps ==
  ASSUME IInv, NEW w \in Workers, CreateExport(w)
  PROVE  IInv'
<1>1. PICK e \in Exports :
        request' = [request EXCEPT ![w] =
          [Idle EXCEPT !.op = "createExport", !.id = e, !.pc = "checkAssets"]]
  BY DEF CreateExport
<1>2. Fine([Idle EXCEPT !.op = "createExport", !.id = e, !.pc = "checkAssets"])
  BY IdleFine DEF Fine, Idle, Request, Knows, Billed, Creating, Charged, ChargeAt, Ids, Steps, TailSteps,
     AllOperations, ExportOperations
<1> QED
  BY <1>1, <1>2, Moves DEF IInv, TablesOK, CreateExport

LEMMA CheckAssetsKeeps ==
  ASSUME IInv, NEW w \in Workers, CheckAssets(w)
  PROVE  IInv'
<1>1. Fine(request[w]) /\ request[w].pc = "checkAssets"
  BY DEF IInv, RequestsOK, CheckAssets, At
<1>2. \A step \in {"checkAdopted", "openSession"} :
        Fine([request[w] EXCEPT !.pc = step])
  BY <1>1 DEF Fine, Request, Knows, Billed, Charged, ChargeAt, Steps, TailSteps
<1>3. PICK ok \in BOOLEAN, step \in {"checkAdopted", "openSession"} :
        Proceed(w, ok, step)
  BY DbOutcomes DEF CheckAssets
<1> QED
  BY <1>2, <1>3, Proceeds DEF IInv, TablesOK, CheckAssets

LEMMA CheckAdoptedKeeps ==
  ASSUME IInv, NEW w \in Workers, CheckAdopted(w)
  PROVE  IInv'
<1>1. Fine(request[w]) /\ request[w].pc = "checkAdopted"
  BY DEF IInv, RequestsOK, CheckAdopted, At
<1>2. Fine([request[w] EXCEPT !.pc = "openSession"])
  BY <1>1 DEF Fine, Request, Knows, Billed, Charged, ChargeAt, Steps, TailSteps
<1>3. PICK ok \in BOOLEAN : Proceed(w, ok, "openSession")
  BY DbOutcomes DEF CheckAdopted, HasAdopted
<1> QED
  BY <1>2, <1>3, Proceeds DEF IInv, TablesOK, CheckAdopted

(* What a caller knows of a remote call. *)
LEMMA CallOutcomes ==
  ASSUME NEW before, NEW after, NEW r \in Call(before, after)
  PROVE  /\ r.ok \in BOOLEAN
         /\ r.state = before \/ r.state = after
         /\ r.ok => r.state = after
<1>1. CASE r = [ok |-> TRUE, state |-> after]
  BY <1>1
<1>2. CASE r = [ok |-> FALSE, state |-> before]
  BY <1>2
<1>3. CASE r = [ok |-> FALSE, state |-> after]
  BY <1>3
<1> QED
  BY <1>1, <1>2, <1>3 DEF Call

(* A platform call leaves its request fine if the step after it is, with   *)
(* the charge the answer tells of, and without an answer with either.      *)
LEMMA CallKeeps ==
  ASSUME IInv, NEW w \in Workers, NEW step, NEW after, NEW ifOk, NEW ifError,
         CallPlatform(w, step, Call(request[w].charge, after), ifOk, ifError),
         ifOk # "idle" => Fine([request[w] EXCEPT !.charge = after, !.pc = ifOk]),
         ifError # "idle" =>
           /\ Fine([request[w] EXCEPT !.charge = request[w].charge, !.pc = ifError])
           /\ Fine([request[w] EXCEPT !.charge = after, !.pc = ifError])
  PROVE  IInv'
<1>1. PICK r \in Call(request[w].charge, after) :
        LET next == IF r.ok THEN ifOk ELSE ifError
        IN  request' = [request EXCEPT ![w] =
              IF next = "idle" THEN Idle ELSE [@ EXCEPT !.charge = r.state, !.pc = next]]
  BY DEF CallPlatform
<1> DEFINE next == IF r.ok THEN ifOk ELSE ifError
           new == IF next = "idle" THEN Idle
                  ELSE [request[w] EXCEPT !.charge = r.state, !.pc = next]
<1>2. request' = [request EXCEPT ![w] = new]
  BY <1>1
<1>3. /\ r.ok \in BOOLEAN
      /\ r.state = request[w].charge \/ r.state = after
      /\ r.ok => r.state = after
  BY CallOutcomes
<1>4. Fine(new)
  <2>1. CASE next = "idle"
    BY <2>1, IdleFine
  <2>2. CASE next # "idle" /\ r.ok
    BY <2>2, <1>3
  <2>3. CASE next # "idle" /\ ~ r.ok
    BY <2>3, <1>3
  <2> QED
    BY <2>1, <2>2, <2>3, <1>3
<1>5. RequestsOK'
  <2> HIDE DEF new
  <2> QED
    BY <1>2, <1>4, Moves DEF IInv
<1> QED
  BY <1>5 DEF IInv, TablesOK, CallPlatform

LEMMA ChargeValues ==
  /\ ChargeAt("openSession") =
       [session |-> "none", reservation |-> "none", metered |-> FALSE]
  /\ ChargeAt("reserve") =
       [session |-> "created", reservation |-> "none", metered |-> FALSE]
  /\ \A step \in {"insert", "markReserved"} : ChargeAt(step) =
       [session |-> "created", reservation |-> "held", metered |-> FALSE]
  /\ ChargeAt("meter") =
       [session |-> "reserved", reservation |-> "held", metered |-> FALSE]
  /\ ChargeAt("settle") =
       [session |-> "reserved", reservation |-> "committed", metered |-> TRUE]
  /\ \A step \in TailSteps : ChargeAt(step) =
       [session |-> "settled", reservation |-> "committed", metered |-> TRUE]
BY DEF ChargeAt, NoCharge, TailSteps

LEMMA NextCharge ==
  ASSUME NEW r, Fine(r), NEW c \in Charge,
         NEW step \in {"reserve", "insert", "markReserved", "meter", "settle",
                       "unreserve", "release", "read"},
         r.op \in Creating /\ step \in Charged => c = ChargeAt(step),
         r.op \in Creating => r.pc \in Charged \cup {"unreserve", "release"}
  PROVE  Fine([r EXCEPT !.charge = c, !.pc = step])
<1> DEFINE n == [r EXCEPT !.charge = c, !.pc = step]
<1>1. n \in Request /\ n.op = r.op /\ n.pc = step /\ n.charge = c
  BY DEF Fine, Request, Steps
<1>2. Knows(n)
  BY <1>1 DEF Knows
<1>3. Billed(n)
  <2> HIDE DEF n
  <2> QED
    BY <1>1 DEF Billed, Charged, TailSteps
<1> QED
  BY <1>1, <1>2, <1>3 DEF Fine

LEMMA ChargeNow ==
  ASSUME IInv, NEW w \in Workers
  PROVE  /\ Fine(request[w])
         /\ request[w].charge \in Charge
         /\ request[w].op \in Creating /\ request[w].pc \in Charged =>
              request[w].charge = ChargeAt(request[w].pc)
BY DEF IInv, RequestsOK, Fine, Request, Billed

LEMMA OpenSessionKeeps ==
  ASSUME IInv, NEW w \in Workers, OpenSession(w)
  PROVE  IInv'
<1> DEFINE c == request[w].charge
           after == [c EXCEPT !.session = "created"]
<1>1. request[w].pc = "openSession"
  BY DEF OpenSession, CallPlatform, At
<1>2. after \in Charge
  BY ChargeNow DEF Charge, SessionStatuses, ReservationStatuses
<1>3. Fine([request[w] EXCEPT !.charge = after, !.pc = "reserve"])
  <2>1. ASSUME request[w].op \in Creating PROVE after = ChargeAt("reserve")
    <3>1. c = ChargeAt("openSession")
      BY <1>1, <2>1, ChargeNow DEF Charged
    <3>2. c = [session |-> "none", reservation |-> "none", metered |-> FALSE]
      BY <3>1, ChargeValues
    <3>3. after = [c EXCEPT !.session = "created"]
      OBVIOUS
    <3> HIDE DEF c, after
    <3>4. after = [session |-> "created", reservation |-> "none", metered |-> FALSE]
      BY <3>2, <3>3
    <3> QED
      BY <3>4, ChargeValues DEF TailSteps
  <2> HIDE DEF after
  <2> QED
    BY <1>1, <1>2, <2>1, ChargeNow, NextCharge DEF Charged, TailSteps, Fine, Billed
<1> QED
  BY <1>3, CallKeeps DEF OpenSession, CreateChargeSession

LEMMA ReserveKeeps ==
  ASSUME IInv, NEW w \in Workers, Reserve(w)
  PROVE  IInv'
<1> DEFINE c == request[w].charge
           after == [c EXCEPT !.reservation = "held"]
<1>1. request[w].pc = "reserve"
  BY DEF Reserve, CallPlatform, At
<1>2. after \in Charge
  BY ChargeNow DEF Charge, SessionStatuses, ReservationStatuses
<1>3. Fine([request[w] EXCEPT !.charge = after, !.pc = "insert"])
  <2>1. ASSUME request[w].op \in Creating PROVE after = ChargeAt("insert")
    <3>1. c = ChargeAt("reserve")
      BY <1>1, <2>1, ChargeNow DEF Charged
    <3>2. c = [session |-> "created", reservation |-> "none", metered |-> FALSE]
      BY <3>1, ChargeValues
    <3>3. after = [c EXCEPT !.reservation = "held"]
      OBVIOUS
    <3> HIDE DEF c, after
    <3>4. after = [session |-> "created", reservation |-> "held", metered |-> FALSE]
      BY <3>2, <3>3
    <3> QED
      BY <3>4, ChargeValues DEF TailSteps
  <2> HIDE DEF after
  <2> QED
    BY <1>1, <1>2, <2>1, ChargeNow, NextCharge DEF Charged, TailSteps, Fine, Billed
<1> QED
  BY <1>3, CallKeeps DEF Reserve, ReserveResources

LEMMA MarkReservedKeeps ==
  ASSUME IInv, NEW w \in Workers, MarkReserved(w)
  PROVE  IInv'
<1> DEFINE c == request[w].charge
           after == [c EXCEPT !.session = "reserved"]
<1>1. request[w].pc = "markReserved"
  BY DEF MarkReserved, CallPlatform, At
<1>2. after \in Charge
  BY ChargeNow DEF Charge, SessionStatuses, ReservationStatuses
<1>3. Fine([request[w] EXCEPT !.charge = after, !.pc = "meter"])
  <2>1. ASSUME request[w].op \in Creating PROVE after = ChargeAt("meter")
    <3>1. c = ChargeAt("markReserved")
      BY <1>1, <2>1, ChargeNow DEF Charged
    <3>2. c = [session |-> "created", reservation |-> "held", metered |-> FALSE]
      BY <3>1, ChargeValues
    <3>3. after = [c EXCEPT !.session = "reserved"]
      OBVIOUS
    <3> HIDE DEF c, after
    <3>4. after = [session |-> "reserved", reservation |-> "held", metered |-> FALSE]
      BY <3>2, <3>3
    <3> QED
      BY <3>4, ChargeValues DEF TailSteps
  <2> HIDE DEF after
  <2> QED
    BY <1>1, <1>2, <2>1, ChargeNow, NextCharge DEF Charged, TailSteps, Fine, Billed
<1>4. /\ Fine([request[w] EXCEPT !.charge = c, !.pc = "unreserve"])
      /\ Fine([request[w] EXCEPT !.charge = after, !.pc = "unreserve"])
  <2> HIDE DEF after
  <2> QED
    BY <1>1, <1>2, ChargeNow, NextCharge DEF Charged, TailSteps, Fine, Billed
<1> QED
  BY <1>3, <1>4, CallKeeps DEF MarkReserved, UpdateChargeSession

LEMMA MeterKeeps ==
  ASSUME IInv, NEW w \in Workers, Meter(w)
  PROVE  IInv'
<1> DEFINE c == request[w].charge
           after == [c EXCEPT !.metered = TRUE,
                             !.reservation = IF @ = "held" THEN "committed" ELSE @]
<1>1. request[w].pc = "meter"
  BY DEF Meter, CallPlatform, At
<1>2. after \in Charge
  BY ChargeNow DEF Charge, SessionStatuses, ReservationStatuses
<1>3. Fine([request[w] EXCEPT !.charge = after, !.pc = "settle"])
  <2>1. ASSUME request[w].op \in Creating PROVE after = ChargeAt("settle")
    <3>1. c = ChargeAt("meter")
      BY <1>1, <2>1, ChargeNow DEF Charged
    <3>2. c = [session |-> "reserved", reservation |-> "held", metered |-> FALSE]
      BY <3>1, ChargeValues
    <3>3. after = [c EXCEPT !.metered = TRUE,
                           !.reservation = IF @ = "held" THEN "committed" ELSE @]
      OBVIOUS
    <3> HIDE DEF c, after
    <3>4. after = [session |-> "reserved", reservation |-> "committed", metered |-> TRUE]
      BY <3>2, <3>3
    <3> QED
      BY <3>4, ChargeValues DEF TailSteps
  <2> HIDE DEF after
  <2> QED
    BY <1>1, <1>2, <2>1, ChargeNow, NextCharge DEF Charged, TailSteps, Fine, Billed
<1>4. /\ Fine([request[w] EXCEPT !.charge = c, !.pc = "unreserve"])
      /\ Fine([request[w] EXCEPT !.charge = after, !.pc = "unreserve"])
  <2> HIDE DEF after
  <2> QED
    BY <1>1, <1>2, ChargeNow, NextCharge DEF Charged, TailSteps, Fine, Billed
<1> QED
  BY <1>3, <1>4, CallKeeps DEF Meter, FinalizeMetering

LEMMA SettleKeeps ==
  ASSUME IInv, NEW w \in Workers, Settle(w)
  PROVE  IInv'
<1> DEFINE c == request[w].charge
           after == [c EXCEPT !.session = "settled"]
<1>1. request[w].pc = "settle"
  BY DEF Settle, CallPlatform, At
<1>2. after \in Charge
  BY ChargeNow DEF Charge, SessionStatuses, ReservationStatuses
<1>3. Fine([request[w] EXCEPT !.charge = after, !.pc = "read"])
  <2>1. ASSUME request[w].op \in Creating PROVE after = ChargeAt("read")
    <3>1. c = ChargeAt("settle")
      BY <1>1, <2>1, ChargeNow DEF Charged
    <3>2. c = [session |-> "reserved", reservation |-> "committed", metered |-> TRUE]
      BY <3>1, ChargeValues
    <3>3. after = [c EXCEPT !.session = "settled"]
      OBVIOUS
    <3> HIDE DEF c, after
    <3>4. after = [session |-> "settled", reservation |-> "committed", metered |-> TRUE]
      BY <3>2, <3>3
    <3> QED
      BY <3>4, ChargeValues DEF TailSteps
  <2> HIDE DEF after
  <2> QED
    BY <1>1, <1>2, <2>1, ChargeNow, NextCharge DEF Charged, TailSteps, Fine, Billed
<1>4. /\ Fine([request[w] EXCEPT !.charge = c, !.pc = "unreserve"])
      /\ Fine([request[w] EXCEPT !.charge = after, !.pc = "unreserve"])
  <2> HIDE DEF after
  <2> QED
    BY <1>1, <1>2, ChargeNow, NextCharge DEF Charged, TailSteps, Fine, Billed
<1> QED
  BY <1>3, <1>4, CallKeeps DEF Settle, UpdateChargeSession, SettleErrorStep

LEMMA UnreserveKeeps ==
  ASSUME IInv, NEW w \in Workers, Unreserve(w)
  PROVE  IInv'
<1> DEFINE c == request[w].charge
           after == [c EXCEPT !.reservation = IF @ = "held" THEN "released" ELSE @]
<1>1. request[w].pc = "unreserve"
  BY DEF Unreserve, CallPlatform, At
<1>2. after \in Charge
  BY ChargeNow DEF Charge, SessionStatuses, ReservationStatuses
<1>3. Fine([request[w] EXCEPT !.charge = after, !.pc = "release"])
  <2>1. "release" \notin Charged
    BY DEF Charged, TailSteps
  <2> HIDE DEF after
  <2> QED
    BY <1>1, <1>2, <2>1, ChargeNow, NextCharge DEF Charged, TailSteps, Fine, Billed
<1>4. /\ Fine([request[w] EXCEPT !.charge = c, !.pc = "release"])
      /\ Fine([request[w] EXCEPT !.charge = after, !.pc = "release"])
  <2> HIDE DEF after
  <2> QED
    BY <1>1, <1>2, ChargeNow, NextCharge DEF Charged, TailSteps, Fine, Billed
<1> QED
  BY <1>3, <1>4, CallKeeps DEF Unreserve, ReleaseReservation

LEMMA ReleaseSessionKeeps ==
  ASSUME IInv, NEW w \in Workers, ReleaseSession(w)
  PROVE  IInv'
BY CallKeeps DEF ReleaseSession, UpdateChargeSession

LEMMA InsertKeeps ==
  ASSUME IInv, NEW w \in Workers, Insert(w)
  PROVE  IInv'
<1> DEFINE id == request[w].id
           c == request[w].charge
<1>1. PICK ok \in BOOLEAN :
        /\ GoTo(w, IF ok THEN "markReserved" ELSE InsertErrorStep)
        /\ listing' = IF ok /\ id \in Listings THEN Save(listing, id, "draft")
                      ELSE listing
        /\ export' = IF ok /\ id \in Exports THEN Save(export, id, "succeeded")
                     ELSE export
  BY DbOutcomes DEF Insert
<1>2. request[w].pc = "insert"
  BY DEF Insert, At
<1>3. /\ Fine([request[w] EXCEPT !.pc = "markReserved"])
      /\ Fine([request[w] EXCEPT !.pc = "unreserve"])
  BY <1>2, ChargeNow DEF Fine, Request, Knows, Billed, Charged, ChargeAt, Steps, TailSteps
<1>4. RequestsOK'
  BY <1>1, <1>3, Goes DEF IInv, InsertErrorStep
<1>5. listing' \in Table(Listings, VersionStatuses)
  <2>1. "draft" \in VersionStatuses
    BY DEF VersionStatuses
  <2> QED
    BY <1>1, <2>1, SaveType DEF IInv, TablesOK
<1>6. export' \in Table(Exports, TaskStatuses)
  <2>1. "succeeded" \in TaskStatuses
    BY DEF TaskStatuses
  <2> QED
    BY <1>1, <2>1, SaveType DEF IInv, TablesOK
<1> QED
  BY <1>4, <1>5, <1>6 DEF IInv, TablesOK, Insert

-----------------------------------------------------------------------------
(* Adoption, deletion, export status *)

LEMMA AdoptListingKeeps ==
  ASSUME IInv, NEW w \in Workers, AdoptListing(w)
  PROVE  IInv'
<1>1. PICK l \in Stored(listing) :
        request' = [request EXCEPT ![w] =
          [Idle EXCEPT !.op = "adoptListing", !.id = l, !.versions = listing,
                       !.pc = "adopt"]]
  BY DEF AdoptListing
<1>2. l \in Listings /\ listing \in Table(Listings, VersionStatuses)
  BY TableFacts DEF IInv, TablesOK, Stored
<1>3. Fine([Idle EXCEPT !.op = "adoptListing", !.id = l, !.versions = listing,
                        !.pc = "adopt"])
  BY <1>2, IdleFine DEF Fine, Idle, Request, Knows, Billed, Creating, Ids, Steps,
     AllOperations, ListingOperations
<1> QED
  BY <1>1, <1>3, Moves DEF IInv, TablesOK, AdoptListing

LEMMA DemoteKeeps ==
  ASSUME IInv, NEW w \in Workers, Demote(w)
  PROVE  IInv'
<1> DEFINE versions == request[w].versions
<1>1. PICK v \in ToDemote(w), ok \in BOOLEAN :
        /\ listing' = IF ok THEN Save(listing, v, "ready") ELSE listing
        /\ request' = [request EXCEPT ![w].versions[v] = "ready"]
  BY DbOutcomes DEF Demote
<1>2. Fine(request[w]) /\ request[w].pc = "adopt"
  BY DEF IInv, RequestsOK, Demote, At
<1>3. versions \in Table(Listings, VersionStatuses)
  BY <1>2 DEF Fine, Request
<1>4. v \in DOMAIN versions /\ v \in Listings
  BY <1>3, TableFacts DEF ToDemote, Stored
<1>5. "ready" \in VersionStatuses
  BY DEF VersionStatuses
<1> DEFINE left == [versions EXCEPT ![v] = "ready"]
<1>6. left \in Table(Listings, VersionStatuses)
  <2>1. /\ DOMAIN versions \in SUBSET Listings
        /\ versions \in [DOMAIN versions -> VersionStatuses]
    BY <1>3, TableFacts
  <2>2. left \in [DOMAIN versions -> VersionStatuses]
    BY <1>5, <2>1
  <2> QED
    BY <2>1, <2>2, TableType
<1>7. request' = [request EXCEPT ![w] = [request[w] EXCEPT !.versions = left]]
  BY <1>1
<1>8. Fine([request[w] EXCEPT !.versions = left])
  <2> HIDE DEF left
  <2> QED
    BY <1>2, <1>6 DEF Fine, Request, Knows, Billed, Charged, TailSteps
<1>9. RequestsOK'
  BY <1>7, <1>8, Moves DEF IInv
<1>10. listing' \in Table(Listings, VersionStatuses)
  BY <1>1, <1>4, <1>5, SaveType DEF IInv, TablesOK
<1> QED
  BY <1>9, <1>10 DEF IInv, TablesOK, Demote

LEMMA AdoptKeeps ==
  ASSUME IInv, NEW w \in Workers, Adopt(w)
  PROVE  IInv'
<1>1. Fine(request[w]) /\ request[w].pc = "adopt"
  BY DEF IInv, RequestsOK, Adopt, At
<1>2. Fine([request[w] EXCEPT !.pc = "read"])
  BY <1>1 DEF Fine, Request, Knows, Billed, Charged, ChargeAt, Steps, TailSteps
<1>3. PICK ok \in BOOLEAN :
        /\ listing' = IF ok THEN Save(listing, request[w].id, "adopted") ELSE listing
        /\ Proceed(w, ok, "read")
  BY DbOutcomes DEF Adopt, AfterAdoption
<1>4. RequestsOK'
  BY <1>2, <1>3, Proceeds DEF IInv
<1>5. request[w].id \in Listings /\ "adopted" \in VersionStatuses
  BY <1>1 DEF Fine, Knows, VersionStatuses
<1>6. listing' \in Table(Listings, VersionStatuses)
  BY <1>3, <1>5, SaveType DEF IInv, TablesOK
<1> QED
  BY <1>4, <1>6 DEF IInv, TablesOK, Adopt

LEMMA DeleteListingKeeps ==
  ASSUME IInv, NEW w \in Workers, DeleteListing(w)
  PROVE  IInv'
<1>1. PICK l \in Stored(listing) :
        request' = [request EXCEPT ![w] =
          [Idle EXCEPT !.op = "deleteListing", !.id = l, !.pc = "deleteListing"]]
  BY DEF DeleteListing
<1>2. l \in Listings
  BY TableFacts DEF IInv, TablesOK, Stored
<1>3. Fine([Idle EXCEPT !.op = "deleteListing", !.id = l, !.pc = "deleteListing"])
  BY <1>2, IdleFine DEF Fine, Idle, Request, Knows, Billed, Creating, Ids, Steps,
     AllOperations, ListingOperations
<1> QED
  BY <1>1, <1>3, Moves DEF IInv, TablesOK, DeleteListing

LEMMA RemoveListingKeeps ==
  ASSUME IInv, NEW w \in Workers, RemoveListing(w)
  PROVE  IInv'
<1>1. Fine(request[w]) /\ request[w].pc = "deleteListing"
  BY DEF IInv, RequestsOK, RemoveListing, At
<1>2. Fine([request[w] EXCEPT !.pc = "read"])
  BY <1>1 DEF Fine, Request, Knows, Billed, Charged, ChargeAt, Steps, TailSteps
<1>3. PICK ok \in BOOLEAN :
        /\ listing' = IF ok THEN Delete(listing, request[w].id) ELSE listing
        /\ Proceed(w, ok, "read")
  BY DbOutcomes DEF RemoveListing
<1>4. RequestsOK'
  BY <1>2, <1>3, Proceeds DEF IInv
<1>5. listing' \in Table(Listings, VersionStatuses)
  BY <1>3, DeleteType DEF IInv, TablesOK
<1> QED
  BY <1>4, <1>5 DEF IInv, TablesOK, RemoveListing

LEMMA UpdateExportKeeps ==
  ASSUME IInv, NEW w \in Workers, UpdateExport(w)
  PROVE  IInv'
<1>1. PICK e \in Stored(export), s \in TaskStatuses :
        request' = [request EXCEPT ![w] =
          [Idle EXCEPT !.op = "updateExport", !.id = e, !.to = s, !.pc = "saveExport"]]
  BY DEF UpdateExport
<1>2. e \in Exports
  BY TableFacts DEF IInv, TablesOK, Stored
<1>3. Fine([Idle EXCEPT !.op = "updateExport", !.id = e, !.to = s, !.pc = "saveExport"])
  BY <1>2, IdleFine DEF Fine, Idle, Request, Knows, Billed, Creating, Ids, Steps,
     AllOperations, ExportOperations
<1> QED
  BY <1>1, <1>3, Moves DEF IInv, TablesOK, UpdateExport

LEMMA SaveExportKeeps ==
  ASSUME IInv, NEW w \in Workers, SaveExport(w)
  PROVE  IInv'
<1>1. Fine(request[w]) /\ request[w].pc = "saveExport"
  BY DEF IInv, RequestsOK, SaveExport, At
<1>2. Fine([request[w] EXCEPT !.pc = "read"])
  BY <1>1 DEF Fine, Request, Knows, Billed, Charged, ChargeAt, Steps, TailSteps
<1>3. PICK ok \in BOOLEAN :
        /\ export' = IF ok THEN Save(export, request[w].id, request[w].to) ELSE export
        /\ Proceed(w, ok /\ request[w].to = "succeeded", "read")
  BY DbOutcomes DEF SaveExport
<1>4. RequestsOK'
  BY <1>2, <1>3, Proceeds DEF IInv
<1>5. request[w].id \in Exports /\ request[w].to \in TaskStatuses
  BY <1>1 DEF Fine, Knows
<1>6. export' \in Table(Exports, TaskStatuses)
  BY <1>3, <1>5, SaveType DEF IInv, TablesOK
<1> QED
  BY <1>4, <1>6 DEF IInv, TablesOK, SaveExport

-----------------------------------------------------------------------------
(* The tail, and the product itself *)

LEMMA StatusTypes ==
  /\ \A roles : AssetStatusOf(roles) \in AssetStatuses
  /\ \A versions : ListingStatusOf(versions) \in ListingStatuses
  /\ \A p \in Product : MainStatusOf(p) \in MainStatuses
BY DEF AssetStatusOf, AssetStatuses, ListingStatusOf, ListingStatuses, MainStatusOf,
       MainStatuses, Product

LEMMA ReadProductKeeps ==
  ASSUME IInv, NEW w \in Workers, ReadProduct(w)
  PROVE  IInv'
<1> DEFINE isExport == request[w].op \in ExportOperations
           copy == [product EXCEPT !.exportStatus = IF isExport THEN ExportedStatus ELSE @]
           step == IF isExport THEN "save" ELSE "list"
<1>1. Fine(request[w]) /\ request[w].pc = "read"
  BY DEF IInv, RequestsOK, ReadProduct, At
<1>2. CASE /\ product # NoProduct
           /\ request' = [request EXCEPT ![w].copy = copy, ![w].pc = step]
  <2>1. copy \in Product
    BY <1>2 DEF IInv, TablesOK, Product, ExportedStatus, ExportStatuses
  <2>2. step \in {"save", "list"}
    OBVIOUS
  <2>3. request' = [request EXCEPT ![w] = [request[w] EXCEPT !.copy = copy, !.pc = step]]
    BY <1>2
  <2> HIDE DEF copy, step
  <2>4. Fine([request[w] EXCEPT !.copy = copy, !.pc = step])
    BY <1>1, <2>1, <2>2 DEF Fine, Request, Knows, Billed, Charged, ChargeAt, Steps, TailSteps
  <2> QED
    BY <2>3, <2>4, Moves DEF IInv, TablesOK, ReadProduct
<1>3. CASE Proceed(w, ~ isExport, "readMain")
  <2>1. Fine([request[w] EXCEPT !.pc = "readMain"])
    BY <1>1 DEF Fine, Request, Knows, Billed, Charged, ChargeAt, Steps, TailSteps
  <2> QED
    BY <1>3, <2>1, Proceeds DEF IInv, TablesOK, ReadProduct
<1> QED
  BY <1>2, <1>3 DEF ReadProduct

LEMMA ListRowsKeeps ==
  ASSUME IInv, NEW w \in Workers, ListRows(w)
  PROVE  IInv'
<1> DEFINE derived == Derived(request[w].op, request[w].copy)
<1>1. Fine(request[w]) /\ request[w].pc = "list"
  BY DEF IInv, RequestsOK, ListRows, At
<1>2. PICK ok \in BOOLEAN :
        request' = [request EXCEPT
          ![w].copy = IF ok THEN Derived(request[w].op, @) ELSE @,
          ![w].pc   = IF ok THEN "save" ELSE "readMain"]
  BY DbOutcomes DEF ListRows
<1>3. derived \in Product
  BY <1>1, StatusTypes DEF Fine, Knows, Derived, Product
<1>4. CASE ok
  <2>1. request' = [request EXCEPT ![w] =
          [request[w] EXCEPT !.copy = derived, !.pc = "save"]]
    BY <1>2, <1>4
  <2> HIDE DEF derived
  <2>2. Fine([request[w] EXCEPT !.copy = derived, !.pc = "save"])
    BY <1>1, <1>3 DEF Fine, Request, Knows, Billed, Charged, ChargeAt, Steps, TailSteps
  <2> QED
    BY <2>1, <2>2, Moves DEF IInv, TablesOK, ListRows
<1>5. CASE ~ ok
  <2>1. request' = [request EXCEPT ![w] = [request[w] EXCEPT !.pc = "readMain"]]
    BY <1>2, <1>5
  <2>2. Fine([request[w] EXCEPT !.pc = "readMain"])
    BY <1>1 DEF Fine, Request, Knows, Billed, Charged, ChargeAt, Steps, TailSteps
  <2> QED
    BY <2>1, <2>2, Moves DEF IInv, TablesOK, ListRows
<1> QED
  BY <1>4, <1>5

LEMMA SaveStatusKeeps ==
  ASSUME IInv, NEW w \in Workers, SaveStatus(w)
  PROVE  IInv'
<1>1. Fine(request[w]) /\ request[w].pc = "save"
  BY DEF IInv, RequestsOK, SaveStatus, At
<1>2. Fine([request[w] EXCEPT !.pc = "readMain"])
  BY <1>1 DEF Fine, Request, Knows, Billed, Charged, ChargeAt, Steps, TailSteps
<1>3. RequestsOK'
  BY <1>2, Goes DEF IInv, SaveStatus
<1>4. product' \in Product \cup {NoProduct}
  BY <1>1 DEF SaveStatus, IInv, TablesOK, Fine, Knows
<1> QED
  BY <1>3, <1>4 DEF IInv, TablesOK, SaveStatus

LEMMA ReadMainKeeps ==
  ASSUME IInv, NEW w \in Workers, ReadMain(w)
  PROVE  IInv'
<1> DEFINE copy == [product EXCEPT !.status = MainStatusOf(product)]
<1>1. Fine(request[w]) /\ request[w].pc = "readMain"
  BY DEF IInv, RequestsOK, ReadMain, At
<1>2. CASE /\ product # NoProduct
           /\ request' = [request EXCEPT ![w].copy = copy, ![w].pc = "saveMain"]
  <2>1. copy \in Product
    BY <1>2, StatusTypes DEF IInv, TablesOK, Product
  <2>2. request' = [request EXCEPT ![w] =
          [request[w] EXCEPT !.copy = copy, !.pc = "saveMain"]]
    BY <1>2
  <2> HIDE DEF copy
  <2>3. Fine([request[w] EXCEPT !.copy = copy, !.pc = "saveMain"])
    BY <1>1, <2>1 DEF Fine, Request, Knows, Billed, Charged, ChargeAt, Steps, TailSteps
  <2> QED
    BY <2>2, <2>3, Moves DEF IInv, TablesOK, ReadMain
<1>3. CASE End(w)
  BY <1>3, Ends DEF IInv, TablesOK, ReadMain
<1> QED
  BY <1>2, <1>3 DEF ReadMain

LEMMA SaveMainKeeps ==
  ASSUME IInv, NEW w \in Workers, SaveMain(w)
  PROVE  IInv'
<1>1. Fine(request[w]) /\ request[w].pc = "saveMain"
  BY DEF IInv, RequestsOK, SaveMain, At
<1>2. product' \in Product \cup {NoProduct}
  BY <1>1 DEF SaveMain, IInv, TablesOK, Fine, Knows
<1> QED
  BY <1>2, Ends DEF IInv, TablesOK, SaveMain

LEMMA SetStatusKeeps ==
  ASSUME IInv, NEW w \in Workers, SetStatus(w)
  PROVE  IInv'
<1>1. PICK to \in MainStatuses :
        request' = [request EXCEPT ![w] =
          [Idle EXCEPT !.op = "setStatus", !.pc = "checkStatus",
                       !.copy = [product EXCEPT !.status = to]]]
  BY DEF SetStatus
<1> DEFINE copy == [product EXCEPT !.status = to]
<1>2. copy \in Product
  BY DEF SetStatus, IInv, TablesOK, Product
<1>3. Fine([Idle EXCEPT !.op = "setStatus", !.pc = "checkStatus", !.copy = copy])
  <2> HIDE DEF copy
  <2> QED
    BY <1>2, IdleFine DEF Fine, Idle, Request, Knows, Billed, Creating, Steps,
       AllOperations, ProductOperations
<1> QED
  BY <1>1, <1>3, Moves DEF IInv, TablesOK, SetStatus

LEMMA CheckStatusKeeps ==
  ASSUME IInv, NEW w \in Workers, CheckStatus(w)
  PROVE  IInv'
<1>1. Fine(request[w]) /\ request[w].pc = "checkStatus"
  BY DEF IInv, RequestsOK, CheckStatus, At
<1>2. Fine([request[w] EXCEPT !.pc = "saveProduct"])
  BY <1>1 DEF Fine, Request, Knows, Billed, Charged, ChargeAt, Steps, TailSteps
<1>3. PICK ok \in BOOLEAN :
        Proceed(w, ok /\ Precondition(request[w].copy.status), "saveProduct")
  BY DbOutcomes DEF CheckStatus
<1>4. Precondition(request[w].copy.status) \in BOOLEAN
  BY DEF Precondition, HasAdopted
<1> QED
  BY <1>2, <1>3, <1>4, Proceeds DEF IInv, TablesOK, CheckStatus

LEMMA EditProductKeeps ==
  ASSUME IInv, NEW w \in Workers, EditProduct(w)
  PROVE  IInv'
<1>1. product \in Product
  BY DEF EditProduct, IInv, TablesOK
<1>2. Fine([Idle EXCEPT !.op = "editProduct", !.pc = "saveProduct", !.copy = product])
  BY <1>1, IdleFine DEF Fine, Idle, Request, Knows, Billed, Creating, Steps,
     AllOperations, ProductOperations
<1> QED
  BY <1>2, Moves DEF IInv, TablesOK, EditProduct

LEMMA SaveProductKeeps ==
  ASSUME IInv, NEW w \in Workers, SaveProduct(w)
  PROVE  IInv'
<1>1. Fine(request[w]) /\ request[w].pc = "saveProduct"
  BY DEF IInv, RequestsOK, SaveProduct, At
<1>2. product' \in Product \cup {NoProduct}
  BY <1>1 DEF SaveProduct, IInv, TablesOK, Fine, Knows
<1> QED
  BY <1>2, Ends DEF IInv, TablesOK, SaveProduct

LEMMA DeleteProductKeeps ==
  ASSUME IInv, NEW w \in Workers, DeleteProduct(w)
  PROVE  IInv'
<1>1. /\ relation' \in Table(Relations, Relation)
      /\ listing' \in Table(Listings, VersionStatuses)
      /\ export' \in Table(Exports, TaskStatuses)
  BY EmptyType DEF DeleteProduct
<1> QED
  BY <1>1 DEF DeleteProduct, IInv, RequestsOK, TablesOK

-----------------------------------------------------------------------------

LEMMA InitHolds == Init => IInv
<1> SUFFICES ASSUME Init PROVE IInv
  OBVIOUS
<1>1. RequestsOK
  BY IdleFine DEF Init, RequestsOK
<1>2. product \in Product
  BY DEF Init, Product, MainStatuses, AssetStatuses, ListingStatuses, ExportStatuses
<1> QED
  BY <1>1, <1>2, EmptyType DEF Init, IInv, TablesOK

LEMMA NextHolds == IInv /\ [Next]_vars => IInv'
<1> SUFFICES ASSUME IInv, [Next]_vars PROVE IInv'
  OBVIOUS
<1>1. ASSUME NEW w \in Workers, Start(w) PROVE IInv'
  BY <1>1, AddAssetKeeps, DeleteAssetKeeps, ChangeAssetKeeps, CreateListingKeeps,
     CreateExportKeeps, AdoptListingKeeps, DeleteListingKeeps, UpdateExportKeeps,
     SetStatusKeeps, EditProductKeeps, DeleteProductKeeps
     DEF Start, BatchCreateListingVersions, UpdateListingVersion, BatchAdoptListingVersions
<1>2. ASSUME NEW w \in Workers, Charging(w) PROVE IInv'
  BY <1>2, OpenSessionKeeps, ReserveKeeps, InsertKeeps, MarkReservedKeeps, MeterKeeps,
     SettleKeeps, UnreserveKeeps, ReleaseSessionKeeps DEF Charging
<1>3. ASSUME NEW w \in Workers, Continue(w) PROVE IInv'
  BY <1>2, <1>3, CheckLinkedKeeps, FetchRelationKeeps, ClearPrimaryKeeps,
     SaveRelationKeeps, CheckAssetsKeeps, CheckAdoptedKeeps, DemoteKeeps, AdoptKeeps,
     RemoveListingKeeps, SaveExportKeeps, ReadProductKeeps, ListRowsKeeps,
     SaveStatusKeeps, ReadMainKeeps, SaveMainKeeps, CheckStatusKeeps, SaveProductKeeps
     DEF Continue
<1>4. CASE UNCHANGED vars
  BY <1>4 DEF vars, IInv, RequestsOK, TablesOK
<1> QED
  BY <1>1, <1>3, <1>4 DEF Next

LEMMA Invariance == Spec => []IInv
BY InitHolds, NextHolds, PTL DEF Spec

(* Every variable keeps its type, whatever requests overlap and fail.      *)
THEOREM ProductTypeCorrect == Spec => []TypeOK
<1>1. IInv => TypeOK
  BY DEF IInv, RequestsOK, TablesOK, Fine, TypeOK
<1> QED
  BY <1>1, Invariance, PTL

(* A listing version or export task whose creation goes on to the product  *)
(* is fully billed, whatever replies are lost, writes fail or requests     *)
(* overlap.                                                                *)
THEOREM CreationsAreBilled == Spec => []SuccessIsBilled
<1>1. IInv => SuccessIsBilled
  <2> SUFFICES ASSUME IInv, NEW w \in Workers, request[w].op \in Creating,
                      InTail(w)
               PROVE  request[w].charge =
                        [session |-> "settled", reservation |-> "committed",
                         metered |-> TRUE]
    BY DEF SuccessIsBilled, Creating
  <2>1. request[w].pc \in TailSteps /\ request[w].pc \in Charged
    BY DEF InTail, TailSteps, Charged
  <2> QED
    BY <2>1, ChargeNow, ChargeValues
<1> QED
  BY <1>1, Invariance, PTL

-----------------------------------------------------------------------------
(* A product that counts as exported has an export task.  Export tasks go  *)
(* with their product only, so it is enough that there was one when the    *)
(* status was read or derived, unless the product is deleted meanwhile.    *)

Exported(p) == p.exportStatus = "ready" \/ p.status \in {"export_ready", "published"}

Backed == Stored(export) # {}

(* What a request may write, or go on to, only if an export task is stored *)
Vouches(r, backed) ==
  /\ r.pc \in {"list", "save", "saveMain", "saveProduct"} /\ Exported(r.copy) => backed
  /\ r.pc = "checkStatus" /\ (r.copy.exportStatus = "ready" \/ r.copy.status = "published")
     => backed
  /\ r.op \in ExportOperations /\ r.pc \in {"markReserved", "meter", "settle", "read"}
     => backed
  /\ r.op = "createExport"
     /\ r.pc \in {"checkAssets", "checkAdopted", "openSession", "reserve", "insert"}
     => r.id \in Exports
  /\ r.op = "updateExport" => r.pc \in {"saveExport"} \cup TailSteps

EInv == ExportIsBacked /\ \A w \in Workers : Vouches(request[w], Backed)

LEMMA Vouching ==
  ASSUME IInv, EInv, NEW w \in Workers, NEW r, Backed => Backed',
         Exported(product)' => Backed', Vouches(r, Backed'),
         request' = [request EXCEPT ![w] = r]
  PROVE  EInv'
<1>1. ExportIsBacked'
  BY DEF ExportIsBacked, Exported, Backed
<1>2. DOMAIN request = Workers
  BY DEF IInv, RequestsOK
<1>3. request'[w] = r /\ \A v \in Workers \ {w} : request'[v] = request[v]
  BY <1>2
<1>4. ASSUME NEW v \in Workers PROVE Vouches(request'[v], Backed')
  <2>1. CASE v = w
    BY <1>3, <2>1
  <2>2. CASE v # w
    <3>1. Vouches(request[v], Backed) /\ request'[v] = request[v]
      BY <1>3, <2>2 DEF EInv
    <3> QED
      BY <3>1 DEF Vouches
  <2> QED
    BY <2>1, <2>2
<1>5. (\A v \in Workers : Vouches(request[v], Backed))'
  BY <1>4 DEF Vouches
<1> QED
  BY <1>1, <1>5 DEF EInv

LEMMA EndVouches ==
  ASSUME IInv, EInv, NEW w \in Workers, Backed => Backed',
         Exported(product)' => Backed', End(w)
  PROVE  EInv'
<1>1. Vouches(Idle, Backed')
  BY DEF Vouches, Idle, ExportOperations
<1> QED
  BY <1>1, Vouching DEF End

LEMMA GoVouches ==
  ASSUME IInv, EInv, NEW w \in Workers, NEW step, Backed => Backed',
         Exported(product)' => Backed',
         Vouches([request[w] EXCEPT !.pc = step], Backed'), GoTo(w, step)
  PROVE  EInv'
<1>1. request' = [request EXCEPT ![w] = [request[w] EXCEPT !.pc = step]]
  BY DEF GoTo
<1> QED
  BY <1>1, Vouching

LEMMA ProceedVouches ==
  ASSUME IInv, EInv, NEW w \in Workers, NEW ok \in BOOLEAN, NEW step,
         Backed => Backed', Exported(product)' => Backed',
         ok => Vouches([request[w] EXCEPT !.pc = step], Backed'), Proceed(w, ok, step)
  PROVE  EInv'
<1>1. CASE ok
  BY <1>1, GoVouches DEF Proceed
<1>2. CASE ~ ok
  BY <1>2, EndVouches DEF Proceed
<1> QED
  BY <1>1, <1>2

(* A step that leaves the product and the exports as they are. *)
LEMMA Unwritten ==
  ASSUME EInv, UNCHANGED <<product, export>>
  PROVE  (Backed => Backed') /\ (Exported(product)' => Backed')
BY DEF EInv, ExportIsBacked, Exported, Backed, Stored

(* A request that starts by reading neither the product nor an export.     *)
Quiet(r) ==
  /\ r.op \in AllOperations \ {"createExport"}
  /\ r.pc \in {"checkLinked", "read", "fetchRelation", "openSession", "checkAssets",
               "adopt", "deleteListing", "saveExport"}
  /\ r.op = "updateExport" => r.pc = "saveExport"

LEMMA QuietStarts ==
  ASSUME IInv, EInv, NEW w \in Workers,
         \/ AddAsset(w) \/ DeleteAsset(w)
         \/ ChangeAsset(w, "updateAsset") \/ ChangeAsset(w, "governAsset")
         \/ CreateListing(w) \/ AdoptListing(w) \/ DeleteListing(w) \/ UpdateExport(w)
  PROVE  EInv'
<1>1. ASSUME NEW r, Quiet(r), request' = [request EXCEPT ![w] = r],
             UNCHANGED <<product, export>>
      PROVE  EInv'
  <2>1. Vouches(r, Backed')
    BY <1>1 DEF Quiet, Vouches, ExportOperations
  <2> QED
    BY <1>1, <2>1, Unwritten, Vouching
<1>2. CASE AddAsset(w)
  <2>1. PICK i \in Relations, row \in Relation : request' = [request EXCEPT ![w] =
          [Idle EXCEPT !.op = "addAsset", !.pc = "checkLinked", !.id = i, !.linked = row]]
    BY <1>2 DEF AddAsset
  <2>2. Quiet([Idle EXCEPT !.op = "addAsset", !.pc = "checkLinked", !.id = i,
                           !.linked = row])
    BY DEF Quiet, Idle, AllOperations, AssetOperations
  <2> QED
    BY <1>1, <1>2, <2>1, <2>2 DEF AddAsset
<1>3. CASE DeleteAsset(w)
  <2>1. Quiet([Idle EXCEPT !.op = "deleteAsset", !.pc = "read"])
    BY DEF Quiet, Idle, AllOperations, AssetOperations
  <2> QED
    BY <1>1, <1>3, <2>1 DEF DeleteAsset
<1>4. ASSUME NEW op \in {"updateAsset", "governAsset"}, ChangeAsset(w, op) PROVE EInv'
  <2>1. PICK i : request' = [request EXCEPT ![w] =
          [Idle EXCEPT !.op = op, !.pc = "fetchRelation", !.id = i]]
    BY <1>4 DEF ChangeAsset
  <2>2. Quiet([Idle EXCEPT !.op = op, !.pc = "fetchRelation", !.id = i])
    BY DEF Quiet, Idle, AllOperations, AssetOperations
  <2> QED
    BY <1>1, <1>4, <2>1, <2>2 DEF ChangeAsset
<1>5. CASE CreateListing(w)
  <2>1. PICK l : request' = [request EXCEPT ![w] =
          [Idle EXCEPT !.op = "createListing", !.id = l,
             !.pc = IF product.assetStatus = "ready" THEN "openSession"
                    ELSE "checkAssets"]]
    BY <1>5 DEF CreateListing
  <2>2. Quiet([Idle EXCEPT !.op = "createListing", !.id = l,
             !.pc = IF product.assetStatus = "ready" THEN "openSession"
                    ELSE "checkAssets"])
    BY DEF Quiet, Idle, AllOperations, ListingOperations
  <2> QED
    BY <1>1, <1>5, <2>1, <2>2 DEF CreateListing
<1>6. CASE AdoptListing(w)
  <2>1. PICK l : request' = [request EXCEPT ![w] =
          [Idle EXCEPT !.op = "adoptListing", !.id = l, !.versions = listing,
                       !.pc = "adopt"]]
    BY <1>6 DEF AdoptListing
  <2>2. Quiet([Idle EXCEPT !.op = "adoptListing", !.id = l, !.versions = listing,
                           !.pc = "adopt"])
    BY DEF Quiet, Idle, AllOperations, ListingOperations
  <2> QED
    BY <1>1, <1>6, <2>1, <2>2 DEF AdoptListing
<1>7. CASE DeleteListing(w)
  <2>1. PICK l : request' = [request EXCEPT ![w] =
          [Idle EXCEPT !.op = "deleteListing", !.id = l, !.pc = "deleteListing"]]
    BY <1>7 DEF DeleteListing
  <2>2. Quiet([Idle EXCEPT !.op = "deleteListing", !.id = l, !.pc = "deleteListing"])
    BY DEF Quiet, Idle, AllOperations, ListingOperations
  <2> QED
    BY <1>1, <1>7, <2>1, <2>2 DEF DeleteListing
<1>8. CASE UpdateExport(w)
  <2>1. PICK e, to : request' = [request EXCEPT ![w] =
          [Idle EXCEPT !.op = "updateExport", !.id = e, !.to = to, !.pc = "saveExport"]]
    BY <1>8 DEF UpdateExport
  <2>2. Quiet([Idle EXCEPT !.op = "updateExport", !.id = e, !.to = to, !.pc = "saveExport"])
    BY DEF Quiet, Idle, AllOperations, ExportOperations
  <2> QED
    BY <1>1, <1>8, <2>1, <2>2 DEF UpdateExport
<1> QED
  BY <1>2, <1>3, <1>4, <1>5, <1>6, <1>7, <1>8

LEMMA CreateExportVouches ==
  ASSUME IInv, EInv, NEW w \in Workers, CreateExport(w)
  PROVE  EInv'
<1>1. PICK e \in Exports :
        request' = [request EXCEPT ![w] =
          [Idle EXCEPT !.op = "createExport", !.id = e, !.pc = "checkAssets"]]
  BY DEF CreateExport
<1>2. Vouches([Idle EXCEPT !.op = "createExport", !.id = e, !.pc = "checkAssets"], Backed')
  BY DEF Vouches, Idle
<1> QED
  BY <1>1, <1>2, Unwritten, Vouching DEF CreateExport

LEMMA SetStatusVouches ==
  ASSUME IInv, EInv, NEW w \in Workers, SetStatus(w)
  PROVE  EInv'
<1>1. PICK to \in MainStatuses :
        /\ ValidTransition(product.status, to)
        /\ request' = [request EXCEPT ![w] =
             [Idle EXCEPT !.op = "setStatus", !.pc = "checkStatus",
                          !.copy = [product EXCEPT !.status = to]]]
  BY DEF SetStatus
<1> DEFINE copy == [product EXCEPT !.status = to]
<1>2. product \in Product
  BY DEF SetStatus, IInv, TablesOK
<1>3. copy.status = to /\ copy.exportStatus = product.exportStatus
  BY <1>2 DEF Product
<1>4. to = "published" => product.status = "export_ready"
  BY <1>1, <1>2 DEF ValidTransition, Product, MainStatuses
<1>5. UNCHANGED <<product, export>>
  BY DEF SetStatus
<1>6. copy.exportStatus = "ready" \/ copy.status = "published" => Backed'
  BY <1>3, <1>4, <1>5, Unwritten DEF EInv, ExportIsBacked, Backed
<1>7. Vouches([Idle EXCEPT !.op = "setStatus", !.pc = "checkStatus", !.copy = copy], Backed')
  <2> HIDE DEF copy
  <2> QED
    BY <1>6 DEF Vouches, Idle, ExportOperations
<1> QED
  BY <1>1, <1>5, <1>7, Unwritten, Vouching

LEMMA EditProductVouches ==
  ASSUME IInv, EInv, NEW w \in Workers, EditProduct(w)
  PROVE  EInv'
<1>1. UNCHANGED <<product, export>>
  BY DEF EditProduct
<1>2. Exported(product) => Backed'
  BY <1>1, Unwritten DEF EInv, ExportIsBacked, Exported, Backed
<1>3. Vouches([Idle EXCEPT !.op = "editProduct", !.pc = "saveProduct", !.copy = product],
              Backed')
  BY <1>2 DEF Vouches, Idle, ExportOperations
<1> QED
  BY <1>1, <1>3, Unwritten, Vouching DEF EditProduct

LEMMA Doing ==
  ASSUME IInv, EInv, NEW w \in Workers
  PROVE  Fine(request[w]) /\ request[w] \in Request /\ Vouches(request[w], Backed)
BY DEF IInv, RequestsOK, EInv, Fine

(* The next step of a request that is past its start and not at a write.   *)
LEMMA StepVouches ==
  ASSUME IInv, EInv, NEW w \in Workers, NEW step, NEW backed,
         Backed => backed,
         step \notin {"list", "save", "saveMain", "saveProduct", "checkStatus"},
         request[w].op \in ExportOperations
           /\ step \in {"markReserved", "meter", "settle", "read"} => backed,
         request[w].op = "createExport"
           /\ step \in {"checkAssets", "checkAdopted", "openSession", "reserve", "insert"}
           => request[w].id \in Exports,
         request[w].op = "updateExport" => step \in TailSteps
  PROVE  /\ Vouches([request[w] EXCEPT !.pc = step], backed)
         /\ \A c : Vouches([request[w] EXCEPT !.charge = c, !.pc = step], backed)
BY Doing DEF Vouches, Request

(* The steps of the asset and listing operations. *)
LEMMA RowSteps ==
  ASSUME IInv, EInv, NEW w \in Workers,
         \/ CheckLinked(w) \/ FetchRelation(w) \/ ClearPrimary(w) \/ SaveRelation(w)
         \/ Demote(w) \/ Adopt(w) \/ RemoveListing(w)
  PROVE  EInv'
<1> DEFINE here == {"checkLinked", "fetchRelation", "clearPrimary", "saveRelation",
                    "adopt", "deleteListing"}
<1>1. request[w].pc \in here
  BY DEF CheckLinked, FetchRelation, ClearPrimary, SaveRelation, Demote, Adopt,
     RemoveListing, At
<1>2. request[w].op \notin ExportOperations
  BY <1>1, Doing DEF Vouches, Fine, Billed, Creating, Charged, TailSteps, ExportOperations
<1>3. UNCHANGED <<product, export>>
  BY DEF CheckLinked, FetchRelation, ClearPrimary, SaveRelation, Demote, Adopt,
     RemoveListing
<1>4. \A step \in here \cup {"read"} :
        Vouches([request[w] EXCEPT !.pc = step], Backed')
  BY <1>2, <1>3, Unwritten, StepVouches DEF ExportOperations
<1>5. CASE CheckLinked(w)
  BY <1>3, <1>4, <1>5, Unwritten, EndVouches, GoVouches DEF CheckLinked
<1>6. CASE FetchRelation(w)
  <2>1. CASE End(w)
    BY <1>3, <2>1, Unwritten, EndVouches
  <2>2. ASSUME NEW row, NEW step \in here,
               request' = [request EXCEPT ![w].linked = row, ![w].pc = step]
        PROVE  EInv'
    <3>1. request' = [request EXCEPT ![w] =
            [request[w] EXCEPT !.linked = row, !.pc = step]]
      BY <2>2
    <3>2. Vouches([request[w] EXCEPT !.linked = row, !.pc = step], Backed')
      BY <1>2, <2>2, Doing DEF Vouches, Request, ExportOperations
    <3> QED
      BY <1>3, <3>1, <3>2, Unwritten, Vouching
  <2> QED
    BY <1>6, <2>1, <2>2 DEF FetchRelation
<1>7. CASE ClearPrimary(w)
  BY <1>3, <1>4, <1>7, Unwritten, ProceedVouches, DbOutcomes DEF ClearPrimary
<1>8. CASE SaveRelation(w)
  <2>1. PICK ok \in BOOLEAN : Proceed(w, ok /\ request[w].op # "governAsset", "read")
    BY <1>8, DbOutcomes DEF SaveRelation
  <2> QED
    BY <1>3, <1>4, <2>1, Unwritten, ProceedVouches
<1>9. CASE Demote(w)
  <2>1. PICK v : request' = [request EXCEPT ![w].versions[v] = "ready"]
    BY <1>9 DEF Demote
  <2> DEFINE versions == [request[w].versions EXCEPT ![v] = "ready"]
  <2>2. request' = [request EXCEPT ![w] = [request[w] EXCEPT !.versions = versions]]
    BY <2>1
  <2> HIDE DEF versions
  <2>3. Vouches([request[w] EXCEPT !.versions = versions], Backed')
    BY <1>1, <1>2, Doing DEF Vouches, Request, ExportOperations
  <2> QED
    BY <1>3, <2>2, <2>3, Unwritten, Vouching
<1>10. CASE Adopt(w)
  BY <1>3, <1>4, <1>10, Unwritten, ProceedVouches, DbOutcomes DEF Adopt, AfterAdoption
<1>11. CASE RemoveListing(w)
  BY <1>3, <1>4, <1>11, Unwritten, ProceedVouches, DbOutcomes DEF RemoveListing
<1> QED
  BY <1>5, <1>6, <1>7, <1>8, <1>9, <1>10, <1>11

(* A platform call; "backed" tells of the exports, which it does not touch. *)
LEMMA CallVouches ==
  ASSUME IInv, EInv, NEW w \in Workers, NEW step, NEW outcomes, NEW ifOk, NEW ifError,
         CallPlatform(w, step, outcomes, ifOk, ifError),
         ifOk # "idle" =>
           \A c : Vouches([request[w] EXCEPT !.charge = c, !.pc = ifOk], Backed),
         ifError # "idle" =>
           \A c : Vouches([request[w] EXCEPT !.charge = c, !.pc = ifError], Backed)
  PROVE  EInv'
<1>1. PICK r \in outcomes :
        LET next == IF r.ok THEN ifOk ELSE ifError
        IN  request' = [request EXCEPT ![w] =
              IF next = "idle" THEN Idle ELSE [@ EXCEPT !.charge = r.state, !.pc = next]]
  BY DEF CallPlatform
<1> DEFINE next == IF r.ok THEN ifOk ELSE ifError
           new == IF next = "idle" THEN Idle
                  ELSE [request[w] EXCEPT !.charge = r.state, !.pc = next]
<1>2. request' = [request EXCEPT ![w] = new]
  BY <1>1
<1>3. UNCHANGED <<product, export>>
  BY DEF CallPlatform
<1>4. Backed' = Backed
  BY <1>3 DEF Backed, Stored
<1>5. Vouches(Idle, Backed)
  BY DEF Vouches, Idle, ExportOperations
<1>6. Vouches(new, Backed)
  BY <1>5
<1>7. Vouches(new, Backed')
  BY <1>4, <1>6
<1> QED
  <2> HIDE DEF new
  <2> QED
    BY <1>2, <1>3, <1>7, Unwritten, Vouching

LEMMA ChargingVouches ==
  ASSUME IInv, EInv, NEW w \in Workers, Charging(w), ~ Insert(w)
  PROVE  EInv'
<1> DEFINE to(step) == \A c : Vouches([request[w] EXCEPT !.charge = c, !.pc = step], Backed)
<1>1. request[w].pc \in {"openSession", "reserve", "markReserved", "meter", "settle",
                        "unreserve", "release"}
  BY DEF Charging, OpenSession, Reserve, MarkReserved, Meter, Settle, Unreserve,
     ReleaseSession, CallPlatform, At
<1>2. request[w].op # "updateExport"
  BY <1>1, Doing DEF Vouches, TailSteps
<1>3. to("unreserve") /\ to("release")
  BY <1>2, StepVouches
<1>4. CASE OpenSession(w)
  <2>1. request[w].pc = "openSession"
    BY <1>4 DEF OpenSession, CallPlatform, At
  <2>2. to("reserve")
    BY <1>2, <2>1, Doing, StepVouches DEF Vouches
  <2> QED
    BY <1>4, <2>2, CallVouches DEF OpenSession
<1>5. CASE Reserve(w)
  <2>1. request[w].pc = "reserve"
    BY <1>5 DEF Reserve, CallPlatform, At
  <2>2. to("insert")
    BY <1>2, <2>1, Doing, StepVouches DEF Vouches
  <2> QED
    BY <1>5, <2>2, CallVouches DEF Reserve
<1>6. CASE MarkReserved(w)
  <2>1. request[w].pc = "markReserved"
    BY <1>6 DEF MarkReserved, CallPlatform, At
  <2>2. to("meter")
    BY <1>2, <2>1, Doing, StepVouches DEF Vouches
  <2> QED
    BY <1>3, <1>6, <2>2, CallVouches DEF MarkReserved
<1>7. CASE Meter(w)
  <2>1. request[w].pc = "meter"
    BY <1>7 DEF Meter, CallPlatform, At
  <2>2. to("settle")
    BY <1>2, <2>1, Doing, StepVouches DEF Vouches
  <2> QED
    BY <1>3, <1>7, <2>2, CallVouches DEF Meter
<1>8. CASE Settle(w)
  <2>1. request[w].pc = "settle"
    BY <1>8 DEF Settle, CallPlatform, At
  <2>2. to("read")
    BY <1>2, <2>1, Doing, StepVouches DEF Vouches
  <2> QED
    BY <1>3, <1>8, <2>2, CallVouches DEF Settle, SettleErrorStep
<1>9. CASE Unreserve(w)
  BY <1>3, <1>9, CallVouches DEF Unreserve
<1>10. CASE ReleaseSession(w)
  BY <1>10, CallVouches DEF ReleaseSession
<1> QED
  BY <1>4, <1>5, <1>6, <1>7, <1>8, <1>9, <1>10 DEF Charging

LEMMA ChecksVouch ==
  ASSUME IInv, EInv, NEW w \in Workers, CheckAssets(w) \/ CheckAdopted(w)
  PROVE  EInv'
<1>1. UNCHANGED <<product, export>> /\ request[w].pc \in {"checkAssets", "checkAdopted"}
  BY DEF CheckAssets, CheckAdopted, At
<1>2. request[w].op # "updateExport"
  BY <1>1, Doing DEF Vouches, TailSteps
<1>3. \A step \in {"checkAdopted", "openSession"} :
        Vouches([request[w] EXCEPT !.pc = step], Backed')
  BY <1>1, <1>2, Doing, Unwritten, StepVouches DEF Vouches
<1>4. CASE CheckAssets(w)
  <2>1. PICK ok \in BOOLEAN :
          Proceed(w, ok /\ Stored(relation) # {},
                  IF request[w].op = "createExport" THEN "checkAdopted" ELSE "openSession")
    BY <1>4, DbOutcomes DEF CheckAssets
  <2> QED
    BY <1>1, <1>3, <2>1, Unwritten, ProceedVouches
<1>5. CASE CheckAdopted(w)
  <2>1. PICK ok \in BOOLEAN : Proceed(w, ok /\ HasAdopted, "openSession")
    BY <1>5, DbOutcomes DEF CheckAdopted
  <2>2. (ok /\ HasAdopted) \in BOOLEAN
    BY DEF HasAdopted
  <2> QED
    BY <1>1, <1>3, <2>1, <2>2, Unwritten, ProceedVouches
<1> QED
  BY <1>4, <1>5

LEMMA InsertVouches ==
  ASSUME IInv, EInv, NEW w \in Workers, Insert(w)
  PROVE  EInv'
<1> DEFINE id == request[w].id
<1>1. PICK ok \in BOOLEAN :
        /\ GoTo(w, IF ok THEN "markReserved" ELSE InsertErrorStep)
        /\ export' = IF ok /\ id \in Exports THEN Save(export, id, "succeeded")
                     ELSE export
  BY DbOutcomes DEF Insert
<1>2. request[w].pc = "insert" /\ product' = product
  BY DEF Insert, At
<1>3. Backed => Backed'
  BY <1>1 DEF Backed, Stored, Save
<1>4. Exported(product)' => Backed'
  BY <1>2, <1>3 DEF EInv, ExportIsBacked, Exported, Backed
<1>5. request[w].op # "updateExport"
  BY <1>2, Doing DEF Vouches, TailSteps
<1>6. Vouches([request[w] EXCEPT !.pc = "unreserve"], Backed')
  BY <1>3, <1>5, StepVouches
<1>7. ASSUME ok PROVE Vouches([request[w] EXCEPT !.pc = "markReserved"], Backed')
  <2>1. ASSUME request[w].op \in ExportOperations PROVE Backed'
    <3>1. id \in Exports
      BY <1>2, <1>5, <2>1, Doing DEF Vouches, ExportOperations
    <3> QED
      BY <1>1, <1>7, <3>1 DEF Backed, Stored, Save
  <2> QED
    BY <1>3, <1>5, <2>1, StepVouches
<1> QED
  BY <1>1, <1>3, <1>4, <1>6, <1>7, GoVouches DEF InsertErrorStep

LEMMA SaveExportVouches ==
  ASSUME IInv, EInv, NEW w \in Workers, SaveExport(w)
  PROVE  EInv'
<1>1. PICK ok \in BOOLEAN :
        /\ export' = IF ok THEN Save(export, request[w].id, request[w].to) ELSE export
        /\ Proceed(w, ok /\ request[w].to = "succeeded", "read")
  BY DbOutcomes DEF SaveExport
<1>2. Backed => Backed'
  BY <1>1 DEF Backed, Stored, Save
<1>3. Exported(product)' => Backed'
  BY <1>2 DEF SaveExport, EInv, ExportIsBacked, Exported, Backed
<1>4. ok => Backed'
  BY <1>1 DEF Backed, Stored, Save
<1>5. ok => Vouches([request[w] EXCEPT !.pc = "read"], Backed')
  BY <1>2, <1>4, StepVouches DEF TailSteps
<1> QED
  BY <1>1, <1>2, <1>3, <1>5, ProceedVouches

LEMMA ReadProductVouches ==
  ASSUME IInv, EInv, NEW w \in Workers, ReadProduct(w)
  PROVE  EInv'
<1> DEFINE isExport == request[w].op \in ExportOperations
           copy == [product EXCEPT !.exportStatus = IF isExport THEN ExportedStatus ELSE @]
           step == IF isExport THEN "save" ELSE "list"
<1>1. request[w].pc = "read" /\ UNCHANGED <<product, export>>
  BY DEF ReadProduct, At
<1>2. CASE /\ product # NoProduct
           /\ request' = [request EXCEPT ![w].copy = copy, ![w].pc = step]
  <2>1. product \in Product
    BY <1>2 DEF IInv, TablesOK
  <2>2. copy.status = product.status
        /\ (copy.exportStatus = product.exportStatus \/ isExport)
    BY <2>1 DEF Product
  <2>3. Exported(copy) => Backed'
    BY <1>1, <2>2, Doing, Unwritten DEF EInv, ExportIsBacked, Exported, Backed, Vouches
  <2>4. request[w].op \in ExportOperations => Backed'
    BY <1>1, Doing, Unwritten DEF Vouches
  <2>5. step \in {"save", "list"} /\ (request[w].op = "updateExport" => step = "save")
    BY DEF ExportOperations
  <2>6. request' = [request EXCEPT ![w] = [request[w] EXCEPT !.copy = copy, !.pc = step]]
    BY <1>2
  <2> HIDE DEF copy, step, isExport
  <2>7. Vouches([request[w] EXCEPT !.copy = copy, !.pc = step], Backed')
    BY <2>3, <2>4, <2>5, Doing DEF Vouches, Request, ExportOperations, TailSteps
  <2> QED
    BY <1>1, <2>6, <2>7, Unwritten, Vouching
<1>3. CASE Proceed(w, ~ isExport, "readMain")
  <2>1. Vouches([request[w] EXCEPT !.pc = "readMain"], Backed')
    BY <1>1, Unwritten, StepVouches DEF TailSteps
  <2> QED
    BY <1>1, <1>3, <2>1, Unwritten, ProceedVouches
<1> QED
  BY <1>2, <1>3 DEF ReadProduct

LEMMA ListRowsVouches ==
  ASSUME IInv, EInv, NEW w \in Workers, ListRows(w)
  PROVE  EInv'
<1> DEFINE derived == Derived(request[w].op, request[w].copy)
<1>1. request[w].pc = "list" /\ UNCHANGED <<product, export>>
  BY DEF ListRows, At
<1>2. PICK ok \in BOOLEAN :
        request' = [request EXCEPT
          ![w].copy = IF ok THEN Derived(request[w].op, @) ELSE @,
          ![w].pc   = IF ok THEN "save" ELSE "readMain"]
  BY DbOutcomes DEF ListRows
<1>3. CASE ok
  <2>1. request' = [request EXCEPT ![w] =
          [request[w] EXCEPT !.copy = derived, !.pc = "save"]]
    BY <1>2, <1>3
  <2>2. Exported(derived) => Exported(request[w].copy)
    BY <1>1, Doing DEF Derived, Exported, Fine, Knows, Product
  <2> HIDE DEF derived
  <2>3. Vouches([request[w] EXCEPT !.copy = derived, !.pc = "save"], Backed')
    BY <1>1, <2>2, Doing, Unwritten DEF Vouches, Request, TailSteps
  <2> QED
    BY <1>1, <2>1, <2>3, Unwritten, Vouching
<1>4. CASE ~ ok
  <2>1. request' = [request EXCEPT ![w] = [request[w] EXCEPT !.pc = "readMain"]]
    BY <1>2, <1>4
  <2>2. Vouches([request[w] EXCEPT !.pc = "readMain"], Backed')
    BY <1>1, Unwritten, StepVouches DEF TailSteps
  <2> QED
    BY <1>1, <2>1, <2>2, Unwritten, Vouching
<1> QED
  BY <1>3, <1>4

(* The three writes of a product row save a copy that was vouched for. *)
LEMMA WritesVouch ==
  ASSUME IInv, EInv, NEW w \in Workers, SaveStatus(w) \/ SaveMain(w) \/ SaveProduct(w)
  PROVE  EInv'
<1>1. request[w].pc \in {"save", "saveMain", "saveProduct"} /\ UNCHANGED export
  BY DEF SaveStatus, SaveMain, SaveProduct, At
<1>2. product' \in {product, request[w].copy}
  BY DEF SaveStatus, SaveMain, SaveProduct
<1>3. Backed => Backed'
  BY <1>1 DEF Backed, Stored
<1>4. Exported(product)' => Backed'
  BY <1>1, <1>2, <1>3, Doing DEF EInv, ExportIsBacked, Exported, Backed, Vouches
<1>5. CASE SaveStatus(w)
  <2>1. Vouches([request[w] EXCEPT !.pc = "readMain"], Backed')
    BY <1>3, StepVouches DEF TailSteps
  <2> QED
    BY <1>3, <1>4, <1>5, <2>1, GoVouches DEF SaveStatus
<1>6. CASE SaveMain(w) \/ SaveProduct(w)
  BY <1>3, <1>4, <1>6, EndVouches DEF SaveMain, SaveProduct
<1> QED
  BY <1>5, <1>6

LEMMA ReadMainVouches ==
  ASSUME IInv, EInv, NEW w \in Workers, ReadMain(w)
  PROVE  EInv'
<1> DEFINE copy == [product EXCEPT !.status = MainStatusOf(product)]
<1>1. request[w].pc = "readMain" /\ UNCHANGED <<product, export>>
  BY DEF ReadMain, At
<1>2. CASE /\ product # NoProduct
           /\ request' = [request EXCEPT ![w].copy = copy, ![w].pc = "saveMain"]
  <2>1. product \in Product
    BY <1>2 DEF IInv, TablesOK
  <2>2. copy.status = MainStatusOf(product) /\ copy.exportStatus = product.exportStatus
    BY <2>1 DEF Product
  <2>3. Exported(copy) => Exported(product)
    BY <2>2 DEF Exported, MainStatusOf
  <2>4. Exported(copy) => Backed'
    BY <1>1, <2>3, Unwritten DEF EInv, ExportIsBacked, Exported, Backed
  <2>5. request' = [request EXCEPT ![w] =
          [request[w] EXCEPT !.copy = copy, !.pc = "saveMain"]]
    BY <1>2
  <2> HIDE DEF copy
  <2>6. Vouches([request[w] EXCEPT !.copy = copy, !.pc = "saveMain"], Backed')
    BY <2>4, Doing DEF Vouches, Request, TailSteps
  <2> QED
    BY <1>1, <2>5, <2>6, Unwritten, Vouching
<1>3. CASE End(w)
  BY <1>1, <1>3, Unwritten, EndVouches
<1> QED
  BY <1>2, <1>3 DEF ReadMain

LEMMA CheckStatusVouches ==
  ASSUME IInv, EInv, NEW w \in Workers, CheckStatus(w)
  PROVE  EInv'
<1> DEFINE copy == request[w].copy
<1>1. request[w].pc = "checkStatus" /\ UNCHANGED <<product, export>>
  BY DEF CheckStatus, At
<1>2. PICK ok \in BOOLEAN : Proceed(w, ok /\ Precondition(copy.status), "saveProduct")
  BY DbOutcomes DEF CheckStatus
<1>3. Precondition(copy.status) \in BOOLEAN
  BY DEF Precondition, HasAdopted
<1>4. ASSUME Precondition(copy.status) PROVE Exported(copy) => Backed
  BY <1>1, <1>4, Doing DEF Precondition, Exported, Backed, Vouches
<1>5. request[w].op # "updateExport"
  BY <1>1, Doing DEF Vouches, TailSteps
<1>6. Precondition(copy.status) =>
        Vouches([request[w] EXCEPT !.pc = "saveProduct"], Backed')
  BY <1>1, <1>4, <1>5, Doing, Unwritten DEF Vouches, Request
<1> QED
  BY <1>1, <1>2, <1>3, <1>6, Unwritten, ProceedVouches

(* A deletion that nothing overlaps takes the statuses along with the      *)
(* export tasks, and leaves no request that could bring them back.         *)
LEMMA DeletionVouches ==
  ASSUME Concurrent = FALSE, EInv, NEW w \in Workers, DeleteProduct(w)
  PROVE  EInv'
<1>1. UNCHANGED request /\ product' = NoProduct /\ \A v \in Workers : request[v].pc = "idle"
  BY DEF DeleteProduct, MayStart, Busy, At
<1>2. ~ Exported(product')
  BY <1>1 DEF Exported, NoProduct
<1>3. \A v \in Workers : Vouches(request'[v], Backed')
  BY <1>1 DEF EInv, Vouches
<1> QED
  BY <1>2, <1>3 DEF EInv, ExportIsBacked, Exported, Backed

(* While requests follow one another, or nobody deletes products, a        *)
(* product that counts as exported or published has an export task,        *)
(* whatever writes fail and however the other requests overlap.            *)
THEOREM ExportsStayBacked ==
  ASSUME Concurrent = FALSE \/ "deleteProduct" \notin Operations
  PROVE  Spec => []ExportIsBacked
<1>1. Init => EInv
  <2> SUFFICES ASSUME Init PROVE EInv
    OBVIOUS
  <2>1. \A w \in Workers : Vouches(request[w], Backed)
    BY DEF Init, Idle, Vouches, ExportOperations
  <2> QED
    BY <2>1 DEF Init, EInv, ExportIsBacked
<1>2. IInv /\ EInv /\ [Next]_vars => EInv'
  <2> SUFFICES ASSUME IInv, EInv, [Next]_vars PROVE EInv'
    OBVIOUS
  <2>1. ASSUME NEW w \in Workers, Start(w) PROVE EInv'
    <3>1. CASE DeleteProduct(w)
      BY <3>1, DeletionVouches DEF DeleteProduct, MayStart
    <3> QED
      BY <2>1, <3>1, QuietStarts, CreateExportVouches, SetStatusVouches, EditProductVouches
         DEF Start, BatchCreateListingVersions, UpdateListingVersion,
             BatchAdoptListingVersions
  <2>2. ASSUME NEW w \in Workers, Continue(w) PROVE EInv'
    BY <2>2, RowSteps, ChecksVouch, ChargingVouches, InsertVouches, SaveExportVouches,
       ReadProductVouches, ListRowsVouches, WritesVouch, ReadMainVouches,
       CheckStatusVouches DEF Continue
  <2>3. CASE UNCHANGED vars
    BY <2>3 DEF vars, EInv, ExportIsBacked, Vouches, Backed, Stored
  <2> QED
    BY <2>1, <2>2, <2>3 DEF Next
<1>3. EInv => ExportIsBacked
  BY DEF EInv
<1> QED
  BY <1>1, <1>2, <1>3, Invariance, PTL DEF Spec

-----------------------------------------------------------------------------
(* One request at a time.  What a request starts with, and how it goes on. *)

OneAtATime == \A v, w \in Workers : ~ At(v, "idle") /\ ~ At(w, "idle") => v = w

BeforeInsert == {"checkAssets", "checkAdopted", "openSession", "reserve", "insert"}
AfterInsert  == {"markReserved", "meter", "settle", "unreserve", "release"}

Rows == Stored(listing) \cup Stored(export)

Begun(r) ==
  /\ r.charge = NoCharge
  /\ r.pc \in {"checkLinked", "fetchRelation", "read", "checkAssets", "openSession",
               "adopt", "deleteListing", "saveExport", "checkStatus", "saveProduct"}
  /\ r.pc \in {"checkAssets", "openSession"} <=> r.op \in Creating
  /\ r.op \in Creating => r.id \notin Rows
  /\ r.op = "createListing" => r.id \in Listings
  /\ r.op = "createExport" => r.id \in Exports
  /\ r.pc = "adopt" =>
       r.op = "adoptListing" /\ r.id \in Stored(listing) /\ r.versions = listing
  /\ r.pc = "deleteListing" =>
       r.op = "deleteListing" /\ r.id \in Stored(listing) /\ listing[r.id] # "adopted"
  /\ r.pc = "read" => r.op = "deleteAsset"
  /\ r.pc \in {"checkLinked", "fetchRelation"} => r.op \in AssetOperations
  /\ r.pc = "saveExport" => r.op = "updateExport"
  /\ r.pc \in {"checkStatus", "saveProduct"} =>
       /\ r.op \in ProductOperations
       /\ r.copy.listingStatus = product.listingStatus
  /\ product = NoProduct => Stored(relation) \cup Rows # {}

LEMMA Serving ==
  ASSUME IInv, NEW w \in Workers
  PROVE  /\ DOMAIN request = Workers
         /\ Fine(request[w]) /\ request[w] \in Request
BY DEF IInv, RequestsOK, Fine

LEMMA StartStep ==
  ASSUME IInv, NEW w \in Workers, Start(w), ~ DeleteProduct(w)
  PROVE  /\ At(w, "idle") /\ (Concurrent \/ Busy = {})
         /\ \A v \in Workers \ {w} : request'[v] = request[v]
         /\ Begun(request'[w])
         /\ UNCHANGED <<product, listing, export>>
         /\ DeleteAsset(w) \/ UNCHANGED relation
<1> DEFINE Goal == /\ At(w, "idle") /\ (Concurrent \/ Busy = {})
                   /\ \A v \in Workers \ {w} : request'[v] = request[v]
                   /\ Begun(request'[w])
                   /\ UNCHANGED <<product, listing, export>>
                   /\ DeleteAsset(w) \/ UNCHANGED relation
<1>0. DOMAIN request = Workers BY Serving
<1>1. ASSUME NEW op, MayStart(w, op), NEW r, Begun(r),
             request' = [request EXCEPT ![w] = r],
             UNCHANGED <<product, listing, export>>, DeleteAsset(w) \/ UNCHANGED relation
      PROVE  Goal
  <2>1. At(w, "idle") /\ (Concurrent \/ Busy = {}) BY <1>1 DEF MayStart, Busy
  <2>2. request'[w] = r /\ \A v \in Workers \ {w} : request'[v] = request[v]
    BY <1>0, <1>1
  <2> QED BY <1>1, <2>1, <2>2
<1> USE DEF Begun, Idle, Creating, AssetOperations, ProductOperations, Rows
<1>2. CASE AddAsset(w)
  <2>1. PICK i, row : request' = [request EXCEPT ![w] =
          [Idle EXCEPT !.op = "addAsset", !.pc = "checkLinked", !.id = i, !.linked = row]]
    BY <1>2 DEF AddAsset
  <2>2. Begun([Idle EXCEPT !.op = "addAsset", !.pc = "checkLinked", !.id = i,
                           !.linked = row])
    BY <1>2 DEF AddAsset
  <2> QED BY <1>1, <1>2, <2>1, <2>2 DEF AddAsset
<1>3. CASE DeleteAsset(w)
  <2>1. Begun([Idle EXCEPT !.op = "deleteAsset", !.pc = "read"])
    BY <1>3 DEF DeleteAsset
  <2> QED BY <1>1, <1>3, <2>1 DEF DeleteAsset
<1>4. ASSUME NEW op \in {"updateAsset", "governAsset"}, ChangeAsset(w, op) PROVE Goal
  <2>1. PICK i \in Stored(relation) : request' = [request EXCEPT ![w] =
          [Idle EXCEPT !.op = op, !.pc = "fetchRelation", !.id = i]]
    BY <1>4 DEF ChangeAsset
  <2>2. Begun([Idle EXCEPT !.op = op, !.pc = "fetchRelation", !.id = i])
    BY <2>1
  <2> QED BY <1>1, <1>4, <2>1, <2>2 DEF ChangeAsset
<1>5. CASE CreateListing(w)
  <2> DEFINE step == IF product.assetStatus = "ready" THEN "openSession" ELSE "checkAssets"
  <2>1. PICK l \in Listings :
          /\ New(l)
          /\ request' = [request EXCEPT ![w] =
               [Idle EXCEPT !.op = "createListing", !.id = l, !.pc = step]]
    BY <1>5 DEF CreateListing
  <2>2. step \in {"openSession", "checkAssets"} OBVIOUS
  <2> HIDE DEF step
  <2>3. Begun([Idle EXCEPT !.op = "createListing", !.id = l, !.pc = step])
    BY <1>5, <2>1, <2>2 DEF New, CreateListing
  <2> QED BY <1>1, <1>5, <2>1, <2>3 DEF CreateListing
<1>6. CASE CreateExport(w)
  <2>1. PICK e \in Exports :
          /\ New(e)
          /\ request' = [request EXCEPT ![w] =
               [Idle EXCEPT !.op = "createExport", !.id = e, !.pc = "checkAssets"]]
    BY <1>6 DEF CreateExport
  <2>2. Begun([Idle EXCEPT !.op = "createExport", !.id = e, !.pc = "checkAssets"])
    BY <1>6, <2>1 DEF New, CreateExport
  <2> QED BY <1>1, <1>6, <2>1, <2>2 DEF CreateExport
<1>7. CASE AdoptListing(w)
  <2>1. PICK l \in Stored(listing) : request' = [request EXCEPT ![w] =
          [Idle EXCEPT !.op = "adoptListing", !.id = l, !.versions = listing,
                       !.pc = "adopt"]]
    BY <1>7 DEF AdoptListing
  <2>2. Begun([Idle EXCEPT !.op = "adoptListing", !.id = l, !.versions = listing,
                           !.pc = "adopt"])
    BY <2>1
  <2> QED BY <1>1, <1>7, <2>1, <2>2 DEF AdoptListing
<1>8. CASE DeleteListing(w)
  <2>1. PICK l \in Stored(listing) :
          /\ Deletable(l)
          /\ request' = [request EXCEPT ![w] =
               [Idle EXCEPT !.op = "deleteListing", !.id = l, !.pc = "deleteListing"]]
    BY <1>8 DEF DeleteListing
  <2>2. Begun([Idle EXCEPT !.op = "deleteListing", !.id = l, !.pc = "deleteListing"])
    BY <2>1 DEF Deletable
  <2> QED BY <1>1, <1>8, <2>1, <2>2 DEF DeleteListing
<1>9. CASE UpdateExport(w)
  <2>1. PICK e \in Stored(export), to \in TaskStatuses :
          request' = [request EXCEPT ![w] =
          [Idle EXCEPT !.op = "updateExport", !.id = e, !.to = to, !.pc = "saveExport"]]
    BY <1>9 DEF UpdateExport
  <2>2. Begun([Idle EXCEPT !.op = "updateExport", !.id = e, !.to = to, !.pc = "saveExport"])
    BY <2>1
  <2> QED BY <1>1, <1>9, <2>1, <2>2 DEF UpdateExport
<1>10. CASE SetStatus(w)
  <2>1. PICK to : request' = [request EXCEPT ![w] =
          [Idle EXCEPT !.op = "setStatus", !.pc = "checkStatus",
                       !.copy = [product EXCEPT !.status = to]]]
    BY <1>10 DEF SetStatus
  <2> DEFINE copy == [product EXCEPT !.status = to]
  <2>2. copy.listingStatus = product.listingStatus /\ product # NoProduct
    BY <1>10 DEF SetStatus, IInv, TablesOK, Product
  <2> HIDE DEF copy
  <2>3. Begun([Idle EXCEPT !.op = "setStatus", !.pc = "checkStatus", !.copy = copy])
    BY <2>2
  <2> QED BY <1>1, <1>10, <2>1, <2>3 DEF SetStatus, copy
<1>11. CASE EditProduct(w)
  <2>1. Begun([Idle EXCEPT !.op = "editProduct", !.pc = "saveProduct", !.copy = product])
    BY <1>11 DEF EditProduct
  <2> QED BY <1>1, <1>11, <2>1 DEF EditProduct
<1> QED
  BY <1>2, <1>3, <1>4, <1>5, <1>6, <1>7, <1>8, <1>9, <1>10, <1>11
     DEF Start, BatchCreateListingVersions, UpdateListingVersion,
         BatchAdoptListingVersions

(* A request that goes on keeps its operation and its id; which steps may  *)
(* come before the next one.                                               *)
Follows(r, s) ==
  /\ s.op = r.op /\ s.id = r.id
  /\ s.pc \in BeforeInsert => r.pc \in BeforeInsert \ {"insert"}
  /\ s.pc \in AfterInsert => r.pc \in {"insert"} \cup AfterInsert
  /\ s.pc = "markReserved" => r.pc = "insert"
  /\ s.pc = "meter" => r.pc = "markReserved"
  /\ s.pc = "settle" => r.pc = "meter"
  /\ s.pc = "adopt" => r.pc = "adopt"
  /\ s.pc \in {"clearPrimary", "saveRelation"} =>
       r.pc \in {"checkLinked", "fetchRelation", "clearPrimary"}
  /\ s.pc = "read" =>
       r.pc \in {"saveRelation", "settle", "adopt", "deleteListing", "saveExport"}
  /\ s.pc = "list" => r.pc = "read"
  /\ s.pc = "save" => r.pc \in {"read", "list"}
  /\ s.pc = "readMain" => r.pc \in {"read", "list", "save"}
  /\ s.pc = "saveMain" => r.pc = "readMain"
  /\ s.pc = "saveProduct" => r.pc = "checkStatus" /\ s.copy = r.copy
  /\ s.pc \notin {"idle", "checkLinked", "fetchRelation", "deleteListing", "saveExport",
                 "checkStatus"}

LEMMA ContinueStep ==
  ASSUME IInv, NEW w \in Workers, Continue(w)
  PROVE  /\ ~ At(w, "idle")
         /\ \A v \in Workers \ {w} : request'[v] = request[v]
         /\ request'[w] = Idle \/ Follows(request[w], request'[w])
<1>p. PICK r : r = request[w] OBVIOUS
<1>0. DOMAIN request = Workers /\ r \in Request BY <1>p, Serving
<1> DEFINE Goal == /\ \A v \in Workers \ {w} : request'[v] = request[v]
                   /\ request'[w] = Idle \/ Follows(request[w], request'[w])
<1>1. ASSUME NEW s, Follows(r, s) \/ s = Idle, request' = [request EXCEPT ![w] = s]
      PROVE  Goal
  BY <1>0, <1>1, <1>p
<1>2. ASSUME NEW step, Follows(r, [r EXCEPT !.pc = step]), GoTo(w, step) PROVE Goal
  BY <1>1, <1>2, <1>p DEF GoTo
<1>3. ASSUME End(w) PROVE Goal BY <1>1, <1>3 DEF End
<1>4. ASSUME NEW ok, NEW step, Follows(r, [r EXCEPT !.pc = step]), Proceed(w, ok, step)
      PROVE  Goal
  BY <1>2, <1>3, <1>4 DEF Proceed
<1>5. ASSUME NEW step, NEW outcomes, NEW ifOk, NEW ifError,
             CallPlatform(w, step, outcomes, ifOk, ifError),
             \A c : ifOk = "idle" \/ Follows(r, [r EXCEPT !.charge = c, !.pc = ifOk]),
             \A c : ifError = "idle" \/ Follows(r, [r EXCEPT !.charge = c, !.pc = ifError])
      PROVE  Goal
  <2>1. PICK o \in outcomes :
          LET next == IF o.ok THEN ifOk ELSE ifError
          IN  request' = [request EXCEPT ![w] =
                IF next = "idle" THEN Idle ELSE [@ EXCEPT !.charge = o.state, !.pc = next]]
    BY <1>5 DEF CallPlatform
  <2> DEFINE next == IF o.ok THEN ifOk ELSE ifError
             new == IF next = "idle" THEN Idle
                    ELSE [r EXCEPT !.charge = o.state, !.pc = next]
  <2>2. request' = [request EXCEPT ![w] = new] BY <2>1, <1>p
  <2>3. new = Idle \/ Follows(r, new) BY <1>5
  <2> HIDE DEF new
  <2> QED BY <1>1, <2>2, <2>3
(* The record with another step, and perhaps another of the fields that    *)
(* are not compared.                                                       *)
<1>6. ASSUME NEW step
      PROVE  /\ \A c : Follows(r, [r EXCEPT !.charge = c, !.pc = step])
                         <=> Follows(r, [r EXCEPT !.pc = step])
             /\ \A row : Follows(r, [r EXCEPT !.linked = row, !.pc = step])
                         <=> Follows(r, [r EXCEPT !.pc = step])
             /\ \A t : r.pc = "adopt" => Follows(r, [r EXCEPT !.versions = t])
             /\ \A p : step # "saveProduct" =>
                   (Follows(r, [r EXCEPT !.copy = p, !.pc = step])
                      <=> Follows(r, [r EXCEPT !.pc = step]))
  BY <1>0 DEF Follows, Request, Idle, BeforeInsert, AfterInsert
<1>7. ASSUME NEW step
      PROVE  Follows(r, [r EXCEPT !.pc = step]) <=>
               /\ step \in BeforeInsert => r.pc \in BeforeInsert \ {"insert"}
               /\ step \in AfterInsert => r.pc \in {"insert"} \cup AfterInsert
               /\ step = "markReserved" => r.pc = "insert"
               /\ step = "meter" => r.pc = "markReserved"
               /\ step = "settle" => r.pc = "meter"
               /\ step = "adopt" => r.pc = "adopt"
               /\ step \in {"clearPrimary", "saveRelation"} =>
                    r.pc \in {"checkLinked", "fetchRelation", "clearPrimary"}
               /\ step = "read" => r.pc \in {"saveRelation", "settle", "adopt",
                                             "deleteListing", "saveExport"}
               /\ step = "list" => r.pc = "read"
               /\ step = "save" => r.pc \in {"read", "list"}
               /\ step = "readMain" => r.pc \in {"read", "list", "save"}
               /\ step = "saveMain" => r.pc = "readMain"
               /\ step = "saveProduct" => r.pc = "checkStatus"
               /\ step \notin {"idle", "checkLinked", "fetchRelation", "deleteListing",
                              "saveExport", "checkStatus"}
  BY <1>0 DEF Follows, Request
<1> USE DEF BeforeInsert, AfterInsert
<1>8. ASSUME CheckLinked(w) PROVE Goal /\ r.pc # "idle"
  BY <1>2, <1>3, <1>7, <1>8, <1>p DEF CheckLinked, At
<1>9. ASSUME FetchRelation(w) PROVE Goal /\ r.pc # "idle"
  <2>0. r.pc = "fetchRelation" BY <1>9, <1>p DEF FetchRelation, At
  <2>1. CASE End(w) BY <1>3, <2>0, <2>1
  <2>2. ASSUME NEW row, NEW step \in {"clearPrimary", "saveRelation"},
               request' = [request EXCEPT ![w].linked = row, ![w].pc = step]
        PROVE  Goal /\ r.pc # "idle"
    <3>1. request' = [request EXCEPT ![w] = [r EXCEPT !.linked = row, !.pc = step]]
      BY <2>2, <1>p
    <3>2. Follows(r, [r EXCEPT !.linked = row, !.pc = step])
      BY <1>6, <1>7, <2>0, <2>2
    <3> QED BY <1>1, <2>0, <3>1, <3>2
  <2> QED BY <1>9, <2>1, <2>2 DEF FetchRelation
<1>10. ASSUME ClearPrimary(w) PROVE Goal /\ r.pc # "idle"
  BY <1>4, <1>7, <1>10, <1>p DEF ClearPrimary, At
<1>11. ASSUME SaveRelation(w) PROVE Goal /\ r.pc # "idle"
  BY <1>4, <1>7, <1>11, <1>p DEF SaveRelation, At
<1>12. ASSUME CheckAssets(w) PROVE Goal /\ r.pc # "idle"
  <2>0. r.pc = "checkAssets" BY <1>12, <1>p DEF CheckAssets, At
  <2> DEFINE step == IF request[w].op = "createExport" THEN "checkAdopted"
                     ELSE "openSession"
  <2>1. PICK ok : Proceed(w, ok /\ Stored(relation) # {}, step)
    BY <1>12 DEF CheckAssets
  <2>2. step \in {"checkAdopted", "openSession"} OBVIOUS
  <2> HIDE DEF step
  <2> QED BY <1>4, <1>7, <2>0, <2>1, <2>2
<1>13. ASSUME CheckAdopted(w) PROVE Goal /\ r.pc # "idle"
  BY <1>4, <1>7, <1>13, <1>p DEF CheckAdopted, At
<1>14. ASSUME OpenSession(w) PROVE Goal /\ r.pc # "idle"
  <2>0. r.pc = "openSession" BY <1>14, <1>p DEF OpenSession, CallPlatform, At
  <2> QED BY <1>5, <1>6, <1>7, <1>14, <2>0 DEF OpenSession
<1>15. ASSUME Reserve(w) PROVE Goal /\ r.pc # "idle"
  <2>0. r.pc = "reserve" BY <1>15, <1>p DEF Reserve, CallPlatform, At
  <2> QED BY <1>5, <1>6, <1>7, <1>15, <2>0 DEF Reserve
<1>16. ASSUME Insert(w) PROVE Goal /\ r.pc # "idle"
  <2>0. r.pc = "insert" BY <1>16, <1>p DEF Insert, At
  <2>1. PICK step \in {"markReserved", "unreserve"} : GoTo(w, step)
    BY <1>16 DEF Insert, InsertErrorStep
  <2> QED BY <1>2, <1>7, <2>0, <2>1
<1>17. ASSUME MarkReserved(w) PROVE Goal /\ r.pc # "idle"
  <2>0. r.pc = "markReserved" BY <1>17, <1>p DEF MarkReserved, CallPlatform, At
  <2> QED BY <1>5, <1>6, <1>7, <1>17, <2>0 DEF MarkReserved
<1>18. ASSUME Meter(w) PROVE Goal /\ r.pc # "idle"
  <2>0. r.pc = "meter" BY <1>18, <1>p DEF Meter, CallPlatform, At
  <2> QED BY <1>5, <1>6, <1>7, <1>18, <2>0 DEF Meter
<1>19. ASSUME Settle(w) PROVE Goal /\ r.pc # "idle"
  <2>0. r.pc = "settle" BY <1>19, <1>p DEF Settle, CallPlatform, At
  <2> QED BY <1>5, <1>6, <1>7, <1>19, <2>0 DEF Settle, SettleErrorStep
<1>20. ASSUME Unreserve(w) PROVE Goal /\ r.pc # "idle"
  <2>0. r.pc = "unreserve" BY <1>20, <1>p DEF Unreserve, CallPlatform, At
  <2> QED BY <1>5, <1>6, <1>7, <1>20, <2>0 DEF Unreserve
<1>21. ASSUME ReleaseSession(w) PROVE Goal /\ r.pc # "idle"
  <2>0. r.pc = "release" BY <1>21, <1>p DEF ReleaseSession, CallPlatform, At
  <2> QED BY <1>5, <1>21, <2>0 DEF ReleaseSession
<1>22. ASSUME Demote(w) PROVE Goal /\ r.pc # "idle"
  <2>0. r.pc = "adopt" BY <1>22, <1>p DEF Demote, At
  <2>1. PICK v : request' = [request EXCEPT ![w].versions[v] = "ready"]
    BY <1>22 DEF Demote
  <2>2. request' = [request EXCEPT ![w] =
          [r EXCEPT !.versions = [r.versions EXCEPT ![v] = "ready"]]]
    BY <2>1, <1>p
  <2> QED BY <1>1, <1>6, <2>0, <2>2
<1>23. ASSUME Adopt(w) PROVE Goal /\ r.pc # "idle"
  BY <1>4, <1>7, <1>23, <1>p DEF Adopt, At, AfterAdoption
<1>24. ASSUME RemoveListing(w) PROVE Goal /\ r.pc # "idle"
  BY <1>4, <1>7, <1>24, <1>p DEF RemoveListing, At
<1>25. ASSUME SaveExport(w) PROVE Goal /\ r.pc # "idle"
  BY <1>4, <1>7, <1>25, <1>p DEF SaveExport, At
<1>26. ASSUME ReadProduct(w) PROVE Goal /\ r.pc # "idle"
  <2>0. r.pc = "read" BY <1>26, <1>p DEF ReadProduct, At
  <2>1. CASE Proceed(w, ~ (r.op \in ExportOperations), "readMain")
    BY <1>4, <1>7, <2>0, <2>1
  <2>2. ASSUME NEW copy, NEW step \in {"save", "list"},
               request' = [request EXCEPT ![w].copy = copy, ![w].pc = step]
        PROVE  Goal /\ r.pc # "idle"
    <3>1. request' = [request EXCEPT ![w] = [r EXCEPT !.copy = copy, !.pc = step]]
      BY <2>2, <1>p
    <3>2. Follows(r, [r EXCEPT !.copy = copy, !.pc = step])
      BY <1>6, <1>7, <2>0, <2>2
    <3> QED BY <1>1, <2>0, <3>1, <3>2
  <2> QED BY <1>26, <1>p, <2>1, <2>2 DEF ReadProduct
<1>27. ASSUME ListRows(w) PROVE Goal /\ r.pc # "idle"
  <2>0. r.pc = "list" BY <1>27, <1>p DEF ListRows, At
  <2>1. PICK ok : request' = [request EXCEPT
              ![w].copy = IF ok THEN Derived(request[w].op, @) ELSE @,
              ![w].pc   = IF ok THEN "save" ELSE "readMain"]
    BY <1>27 DEF ListRows
  <2> DEFINE copy == IF ok THEN Derived(r.op, r.copy) ELSE r.copy
             step == IF ok THEN "save" ELSE "readMain"
  <2>2. request' = [request EXCEPT ![w] = [r EXCEPT !.copy = copy, !.pc = step]]
    BY <2>1, <1>p
  <2>4. step \in {"save", "readMain"} OBVIOUS
  <2> HIDE DEF copy, step
  <2>3. Follows(r, [r EXCEPT !.copy = copy, !.pc = step])
    BY <1>6, <1>7, <2>0, <2>4
  <2> QED BY <1>1, <2>0, <2>2, <2>3
<1>28. ASSUME SaveStatus(w) PROVE Goal /\ r.pc # "idle"
  BY <1>2, <1>7, <1>28, <1>p DEF SaveStatus, At
<1>29. ASSUME ReadMain(w) PROVE Goal /\ r.pc # "idle"
  <2>0. r.pc = "readMain" BY <1>29, <1>p DEF ReadMain, At
  <2>1. CASE End(w) BY <1>3, <2>0, <2>1
  <2>2. ASSUME NEW copy,
               request' = [request EXCEPT ![w].copy = copy, ![w].pc = "saveMain"]
        PROVE  Goal /\ r.pc # "idle"
    <3>1. request' = [request EXCEPT ![w] = [r EXCEPT !.copy = copy, !.pc = "saveMain"]]
      BY <2>2, <1>p
    <3>2. Follows(r, [r EXCEPT !.copy = copy, !.pc = "saveMain"])
      BY <1>6, <1>7, <2>0
    <3> QED BY <1>1, <2>0, <3>1, <3>2
  <2> QED BY <1>29, <2>1, <2>2 DEF ReadMain
<1>30. ASSUME SaveMain(w) PROVE Goal /\ r.pc # "idle"
  BY <1>3, <1>30, <1>p DEF SaveMain, At
<1>31. ASSUME CheckStatus(w) PROVE Goal /\ r.pc # "idle"
  BY <1>4, <1>7, <1>31, <1>p DEF CheckStatus, At
<1>32. ASSUME SaveProduct(w) PROVE Goal /\ r.pc # "idle"
  BY <1>3, <1>32, <1>p DEF SaveProduct, At
<1>33. Goal /\ r.pc # "idle"
  BY <1>8, <1>9, <1>10, <1>11, <1>12, <1>13, <1>14, <1>15, <1>16, <1>17, <1>18, <1>19,
     <1>20, <1>21, <1>22, <1>23, <1>24, <1>25, <1>26, <1>27, <1>28, <1>29, <1>30,
     <1>31, <1>32 DEF Continue, Charging
<1> QED BY <1>33, <1>p DEF At

Serves(w) == (Start(w) /\ ~ DeleteProduct(w)) \/ Continue(w)

LEMMA Alone ==
  ASSUME Concurrent = FALSE, IInv, OneAtATime, NEW w \in Workers, Serves(w)
  PROVE  /\ OneAtATime'
         /\ \A v \in Workers \ {w} : At(v, "idle") /\ request'[v] = request[v]
<1>1. \A v \in Workers \ {w} : request'[v] = request[v]
  BY StartStep, ContinueStep DEF Serves
<1>2. \A v \in Workers \ {w} : At(v, "idle")
  <2>1. CASE Continue(w) BY <2>1, ContinueStep DEF OneAtATime
  <2>2. CASE Start(w) /\ ~ DeleteProduct(w)
    <3>1. Busy = {} BY <2>2, StartStep
    <3> QED BY <3>1 DEF Busy
  <2> QED BY <2>1, <2>2 DEF Serves
<1> QED BY <1>1, <1>2 DEF OneAtATime, At

(* The product goes with all its rows, and no request has begun with it.   *)
LEMMA DeletesAlone ==
  ASSUME Concurrent = FALSE, OneAtATime, NEW w \in Workers, DeleteProduct(w)
  PROVE  /\ OneAtATime' /\ \A v \in Workers : At(v, "idle")
         /\ Stored(relation') = {} /\ Stored(listing') = {} /\ Stored(export') = {}
BY DEF DeleteProduct, MayStart, Busy, OneAtATime, At, EmptyTable, Stored

LEMMA InitAlone == Init => OneAtATime
BY DEF Init, OneAtATime, At, Idle

(* The rows of a table after a save and after a deletion.                  *)
LEMMA SavedRows ==
  ASSUME NEW t, NEW id, NEW row
  PROVE  /\ Stored(Save(t, id, row)) = Stored(t) \cup {id}
         /\ Save(t, id, row)[id] = row
         /\ \A i \in Stored(t) : i # id => Save(t, id, row)[i] = t[i]
BY DEF Save, Stored

LEMMA LeftRows ==
  ASSUME NEW t, NEW id
  PROVE  /\ Stored(Delete(t, id)) = Stored(t) \ {id}
         /\ \A i \in Stored(t) : i # id => Delete(t, id)[i] = t[i]
BY DEF Delete, Stored, Restrict

(* Which steps write which table.                                          *)
LEMMA Writers ==
  ASSUME NEW w \in Workers, Continue(w)
  PROVE  /\ relation' = relation \/ ClearPrimary(w) \/ SaveRelation(w)
         /\ \/ UNCHANGED <<listing, export>>
            \/ Insert(w) \/ Demote(w) \/ Adopt(w) \/ RemoveListing(w) \/ SaveExport(w)
         /\ listing' = listing \/ Insert(w) \/ Demote(w) \/ Adopt(w) \/ RemoveListing(w)
         /\ product' = product \/ SaveStatus(w) \/ SaveMain(w) \/ SaveProduct(w)
<1>1. CASE CheckLinked(w) \/ FetchRelation(w) \/ CheckAssets(w) \/ CheckAdopted(w)
           \/ ReadProduct(w) \/ ListRows(w) \/ ReadMain(w) \/ CheckStatus(w)
  BY <1>1 DEF CheckLinked, FetchRelation, CheckAssets, CheckAdopted, ReadProduct,
              ListRows, ReadMain, CheckStatus
<1>2. CASE Charging(w)
  BY <1>2 DEF Charging, OpenSession, Reserve, Insert, MarkReserved, Meter, Settle,
              Unreserve, ReleaseSession, CallPlatform
<1>3. CASE ClearPrimary(w) \/ SaveRelation(w) \/ SaveStatus(w) \/ SaveMain(w)
           \/ SaveProduct(w)
  BY <1>3 DEF ClearPrimary, SaveRelation, SaveStatus, SaveMain, SaveProduct
<1>4. CASE Demote(w) \/ Adopt(w) \/ RemoveListing(w) \/ SaveExport(w)
  BY <1>4 DEF Demote, Adopt, RemoveListing, SaveExport
<1> QED BY <1>1, <1>2, <1>3, <1>4 DEF Continue

-----------------------------------------------------------------------------
(* The primary mark.  A request that is about to store a marked relation   *)
(* has cleared the others, or found the mark there.                        *)

Marked(r) ==
  r.pc = "saveRelation" /\ r.linked.primary =>
    \A j \in Stored(relation) : j # r.id => ~ relation[j].primary

MarkInv == OneAtATime /\ OnePrimary /\ \A w \in Workers : Marked(request[w])

LEMMA MarkServes ==
  ASSUME Concurrent = FALSE, IInv, MarkInv, NEW w \in Workers, Serves(w)
  PROVE  MarkInv'
<1>p. PICK r : r = request[w] OBVIOUS
<1>0. /\ DOMAIN request = Workers /\ r \in Request /\ Fine(r) /\ Marked(r)
      /\ OnePrimary
      /\ \A i \in Stored(relation) : relation[i] \in Relation
  <2>1. \A i \in Stored(relation) : relation[i] \in Relation
    BY TableFacts DEF IInv, TablesOK, Stored
  <2> QED BY <1>p, <2>1, Serving DEF MarkInv
<1>1. /\ OneAtATime'
      /\ \A v \in Workers \ {w} : At(v, "idle") /\ request'[v] = request[v]
  BY Alone DEF MarkInv
<1>2. SUFFICES OnePrimary' /\ Marked(request[w])'
  BY <1>1 DEF MarkInv, Marked, At
<1>3. ASSUME relation' = relation, request'[w].pc # "saveRelation"
      PROVE  OnePrimary' /\ Marked(request[w])'
  BY <1>0, <1>3 DEF OnePrimary, Marked
<1>4. CASE Start(w) /\ ~ DeleteProduct(w)
  <2>1. request'[w].pc # "saveRelation" BY <1>4, StartStep DEF Begun
  <2>2. CASE DeleteAsset(w)
    <3>1. PICK i : relation' = Delete(relation, i) BY <2>2 DEF DeleteAsset
    <3>2. OnePrimary' BY <1>0, <3>1, LeftRows DEF OnePrimary
    <3> QED BY <2>1, <3>2 DEF Marked
  <2> QED BY <1>3, <1>4, <2>1, <2>2, StartStep
<1>5. CASE CheckLinked(w)
  <2>1. r.pc = "checkLinked" /\ relation' = relation
    BY <1>5, <1>p DEF CheckLinked, At
  <2>2. CASE End(w)
    <3>1. request'[w] = Idle BY <1>0, <2>2 DEF End
    <3> QED BY <1>3, <2>1, <3>1 DEF Idle
  <2>3. CASE GoTo(w, IF r.linked.primary THEN "clearPrimary" ELSE "saveRelation")
    <3>1. /\ request'[w].pc = IF r.linked.primary THEN "clearPrimary" ELSE "saveRelation"
          /\ request'[w].linked = r.linked
      BY <1>0, <1>p, <2>3 DEF GoTo, Request
    <3> QED BY <1>0, <2>1, <3>1 DEF OnePrimary, Marked
  <2> QED BY <1>5, <1>p, <2>2, <2>3 DEF CheckLinked
<1>6. CASE FetchRelation(w)
  <2>1. r.pc = "fetchRelation" /\ relation' = relation
    BY <1>6, <1>p DEF FetchRelation, At
  <2>2. CASE End(w)
    <3>1. request'[w] = Idle BY <1>0, <2>2 DEF End
    <3> QED BY <1>3, <2>1, <3>1 DEF Idle
  <2>3. ASSUME r.id \in Stored(relation), NEW role, NEW mark,
               request' = [request EXCEPT
                 ![w].linked = [relation[r.id] EXCEPT
                    !.role = role,
                    !.primary = IF mark = "keep" THEN @ ELSE mark = "set"],
                 ![w].pc = IF mark = "set" THEN "clearPrimary" ELSE "saveRelation"]
        PROVE  OnePrimary' /\ Marked(request[w])'
    <3> DEFINE row == [relation[r.id] EXCEPT
                         !.role = role,
                         !.primary = IF mark = "keep" THEN @ ELSE mark = "set"]
               step == IF mark = "set" THEN "clearPrimary" ELSE "saveRelation"
    <3>1. relation[r.id] \in Relation BY <1>0, <2>3
    <3>2. step = "saveRelation" /\ row.primary => relation[r.id].primary
      BY <3>1 DEF Relation
    <3>3. request' = [request EXCEPT ![w] = [r EXCEPT !.linked = row, !.pc = step]]
      BY <2>3, <1>p
    <3> HIDE DEF row, step
    <3>4. /\ request'[w].linked = row /\ request'[w].pc = step
          /\ request'[w].id = r.id
      BY <1>0, <3>3 DEF Request
    <3> QED BY <1>0, <2>1, <2>3, <3>2, <3>4 DEF OnePrimary, Marked
  <2> QED BY <1>6, <1>p, <2>2, <2>3 DEF FetchRelation
<1>7. CASE ClearPrimary(w)
  <2>1. PICK ok \in BOOLEAN :
          /\ relation' = IF ok
               THEN [i \in Stored(relation) |->
                       IF LosesMark(i, w) THEN [relation[i] EXCEPT !.primary = FALSE]
                       ELSE relation[i]]
               ELSE relation
          /\ Proceed(w, ok, "saveRelation")
    BY <1>7, DbOutcomes DEF ClearPrimary
  <2>2. CASE ~ ok
    <3>1. request'[w] = Idle BY <1>0, <2>1, <2>2 DEF Proceed, End
    <3> QED BY <1>3, <2>1, <2>2, <3>1 DEF Idle
  <2>3. CASE ok
    <3>1. request'[w].id = r.id
      BY <1>0, <1>p, <2>1, <2>3 DEF Proceed, GoTo, Request
    <3>2. /\ Stored(relation') = Stored(relation)
          /\ \A i \in Stored(relation) : i # r.id =>
               relation'[i] = [relation[i] EXCEPT !.primary = FALSE]
      BY <1>p, <2>1, <2>3 DEF LosesMark, Stored
    <3>3. \A i \in Stored(relation) : i # r.id => ~ relation'[i].primary
      BY <1>0, <3>2 DEF Relation
    <3>4. OnePrimary' BY <3>2, <3>3 DEF OnePrimary
    <3> QED BY <3>1, <3>2, <3>3, <3>4 DEF Marked
  <2> QED BY <2>2, <2>3
<1>8. CASE SaveRelation(w)
  <2>1. PICK ok \in BOOLEAN :
          relation' = IF ok THEN Save(relation, r.id, r.linked) ELSE relation
    BY <1>8, <1>p, DbOutcomes DEF SaveRelation
  <2>2. r.pc = "saveRelation" BY <1>8, <1>p DEF SaveRelation, At
  <2>3. request'[w].pc # "saveRelation"
    BY <1>8, <1>p, <2>2, ContinueStep DEF Continue, Follows, Idle
  <2>4. CASE ok
    <3>1. OnePrimary'
      BY <1>0, <2>1, <2>2, <2>4, SavedRows DEF OnePrimary, Marked
    <3> QED BY <2>3, <3>1 DEF Marked
  <2> QED BY <1>3, <2>1, <2>3, <2>4
<1>9. CASE Continue(w) /\ ~ (\/ CheckLinked(w) \/ FetchRelation(w) \/ ClearPrimary(w)
                             \/ SaveRelation(w))
  <2>1. r.pc \notin {"checkLinked", "fetchRelation", "clearPrimary"}
    BY <1>9, <1>p
       DEF Continue, Charging, CheckAssets, CheckAdopted, OpenSession, Reserve, Insert,
           MarkReserved, Meter, Settle, Unreserve, ReleaseSession, CallPlatform, Demote,
           Adopt, RemoveListing, SaveExport, ReadProduct, ListRows, SaveStatus, ReadMain,
           SaveMain, CheckStatus, SaveProduct, At
  <2>2. request'[w].pc # "saveRelation"
    BY <1>9, <1>p, <2>1, ContinueStep DEF Follows, Idle
  <2> QED BY <1>3, <1>9, <2>2, Writers
<1> QED BY <1>4, <1>5, <1>6, <1>7, <1>8, <1>9 DEF Serves

(* Requests that follow one another leave a product at most one primary    *)
(* asset, whatever writes fail.                                            *)
THEOREM OnePrimaryAtATime ==
  ASSUME Concurrent = FALSE PROVE Spec => []OnePrimary
<1>1. Init => MarkInv
  BY InitAlone DEF Init, MarkInv, OnePrimary, Marked, EmptyTable, Stored, Idle
<1>2. IInv /\ MarkInv /\ [Next]_vars => MarkInv'
  <2> SUFFICES ASSUME IInv, MarkInv, [Next]_vars PROVE MarkInv' OBVIOUS
  <2>1. ASSUME NEW w \in Workers, DeleteProduct(w) PROVE MarkInv'
    BY <2>1, DeletesAlone DEF MarkInv, OnePrimary, Marked
  <2>2. ASSUME NEW w \in Workers, Serves(w) PROVE MarkInv' BY <2>2, MarkServes
  <2>3. CASE UNCHANGED vars
    BY <2>3 DEF vars, MarkInv, OneAtATime, OnePrimary, Marked, At
  <2> QED BY <2>1, <2>2, <2>3 DEF Next, Serves
<1>3. MarkInv => OnePrimary BY DEF MarkInv
<1> QED BY <1>1, <1>2, <1>3, Invariance, PTL DEF Spec

-----------------------------------------------------------------------------
(* Adopted versions.  A deletion is decided when the request starts, and   *)
(* nothing is adopted before it is done.                                   *)

Removing(r) ==
  r.pc = "deleteListing" => r.id \in Stored(listing) /\ listing[r.id] # "adopted"

RemoveInv == OneAtATime /\ \A w \in Workers : Removing(request[w])

LEMMA RemoveInit == Init => RemoveInv
BY InitAlone DEF Init, RemoveInv, Removing, Idle

LEMMA RemoveNext ==
  ASSUME Concurrent = FALSE PROVE IInv /\ RemoveInv /\ [Next]_vars => RemoveInv'
<1> SUFFICES ASSUME IInv, RemoveInv, [Next]_vars PROVE RemoveInv' OBVIOUS
<1>1. ASSUME NEW w \in Workers, DeleteProduct(w) PROVE RemoveInv'
  <2>1. request' = request BY <1>1 DEF DeleteProduct
  <2> QED BY <1>1, <2>1, DeletesAlone DEF RemoveInv, Removing, At
<1>2. ASSUME NEW w \in Workers, Serves(w) PROVE RemoveInv'
  <2>1. /\ OneAtATime'
        /\ \A v \in Workers \ {w} : At(v, "idle") /\ request'[v] = request[v]
    BY <1>2, Alone DEF RemoveInv
  <2>2. Removing(request[w])'
    <3>1. CASE Start(w) /\ ~ DeleteProduct(w)
      BY <3>1, StartStep DEF Begun, Removing
    <3>2. CASE Continue(w) BY <3>2, ContinueStep DEF Follows, Idle, Removing
    <3> QED BY <1>2, <3>1, <3>2 DEF Serves
  <2> QED BY <2>1, <2>2 DEF RemoveInv, Removing, At
<1>3. CASE UNCHANGED vars BY <1>3 DEF vars, RemoveInv, OneAtATime, Removing, At
<1> QED BY <1>1, <1>2, <1>3 DEF Next, Serves

LEMMA RemoveHolds ==
  ASSUME Concurrent = FALSE PROVE Spec => []RemoveInv
BY RemoveInit, RemoveNext, Invariance, PTL DEF Spec

(* While requests follow one another, an adopted version is not deleted    *)
(* unless its product is, whatever writes fail.                            *)
THEOREM AdoptedStays ==
  ASSUME Concurrent = FALSE PROVE Spec => AdoptedIsKept
<1> DEFINE Kept == \A l \in Stored(listing) :
                     listing[l] = "adopted" => l \in Stored(listing') \/ product' = NoProduct
<1>1. IInv /\ RemoveInv /\ [Next]_vars => [Kept]_vars
  <2> SUFFICES ASSUME IInv, RemoveInv, Next PROVE Kept OBVIOUS
  <2>1. ASSUME NEW w \in Workers, DeleteProduct(w) PROVE Kept BY <2>1 DEF DeleteProduct
  <2>2. ASSUME NEW w \in Workers, Start(w), ~ DeleteProduct(w) PROVE Kept
    BY <2>2, StartStep
  <2>3. ASSUME NEW w \in Workers, Continue(w) PROVE Kept
    <3>1. CASE Insert(w) \/ Demote(w) \/ Adopt(w)
      BY <3>1, SavedRows DEF Insert, Demote, Adopt
    <3>2. CASE RemoveListing(w)
      <4>1. listing[request[w].id] # "adopted"
        BY <3>2 DEF RemoveListing, At, RemoveInv, Removing
      <4> QED BY <3>2, <4>1, LeftRows DEF RemoveListing
    <3> QED BY <2>3, <3>1, <3>2, Writers
  <2> QED BY <2>1, <2>2, <2>3 DEF Next
<1> QED BY <1>1, RemoveHolds, Invariance, PTL DEF Spec, AdoptedIsKept

(* An adoption works on the versions as they are, while no demotion fails. *)
AdoptInv ==
  /\ OneAtATime /\ OneAdopted
  /\ \A w \in Workers : request[w].pc = "adopt" => request[w].versions = listing

LEMMA AdoptServes ==
  ASSUME Concurrent = FALSE, "adopt" \notin Failing, IInv, AdoptInv,
         NEW w \in Workers, Serves(w)
  PROVE  AdoptInv'
<1>p. PICK r : r = request[w] OBVIOUS
<1>0. /\ DOMAIN request = Workers /\ r \in Request /\ Fine(r) /\ OneAdopted
      /\ r.pc = "adopt" => r.versions = listing
      /\ listing = [l \in Stored(listing) |-> listing[l]]
  <2>1. listing = [l \in Stored(listing) |-> listing[l]]
    BY TableFacts DEF IInv, TablesOK, Stored
  <2> QED BY <1>p, <2>1, Serving DEF AdoptInv
<1>1. /\ OneAtATime'
      /\ \A v \in Workers \ {w} : At(v, "idle") /\ request'[v] = request[v]
  BY Alone DEF AdoptInv
<1>2. SUFFICES OneAdopted' /\ (request'[w].pc = "adopt" => request'[w].versions = listing')
  BY <1>1 DEF AdoptInv, At
<1>3. CASE Start(w) /\ ~ DeleteProduct(w)
  BY <1>0, <1>3, StartStep DEF Begun, OneAdopted
<1>4. CASE Demote(w)
  <2>1. PICK v \in ToDemote(w) :
          /\ \E ok \in DbResults(w) :
               listing' = IF ok THEN Save(listing, v, "ready") ELSE listing
          /\ request' = [request EXCEPT ![w].versions[v] = "ready"]
    BY <1>4 DEF Demote
  <2>2. r.pc = "adopt" /\ r.versions = listing BY <1>0, <1>4, <1>p DEF Demote, At
  <2>3. listing' = Save(listing, v, "ready") BY <1>p, <2>1, <2>2 DEF DbResults
  <2>4. v \in Stored(listing) BY <1>p, <2>1, <2>2 DEF ToDemote
  <2>5. [listing EXCEPT ![v] = "ready"] = Save(listing, v, "ready")
    BY <1>0, <2>4 DEF Save
  <2>6. request' = [request EXCEPT ![w] =
          [r EXCEPT !.versions = [r.versions EXCEPT ![v] = "ready"]]]
    BY <1>p, <2>1
  <2>7. request'[w].versions = listing' BY <1>0, <2>2, <2>3, <2>5, <2>6 DEF Request
  <2>8. OneAdopted' BY <1>0, <2>3, <2>4, SavedRows DEF OneAdopted
  <2> QED BY <2>7, <2>8
<1>5. CASE Adopt(w)
  <2>1. r.pc = "adopt" /\ r.versions = listing BY <1>0, <1>5, <1>p DEF Adopt, At
  <2>2. \A l \in Stored(listing) : l # r.id => listing[l] # "adopted"
    BY <1>5, <1>p, <2>1 DEF Adopt, ToDemote
  <2>3. PICK ok : /\ listing' = IF ok THEN Save(listing, r.id, "adopted") ELSE listing
                  /\ Proceed(w, ok, "read")
    BY <1>5, <1>p DEF Adopt, AfterAdoption
  <2>4. OneAdopted' BY <1>0, <2>2, <2>3, SavedRows DEF OneAdopted
  <2>5. request'[w].pc # "adopt"
    BY <1>0, <1>p, <2>3 DEF Proceed, GoTo, End, Request, Idle
  <2> QED BY <2>4, <2>5
<1>6. CASE Continue(w) /\ ~ Demote(w) /\ ~ Adopt(w)
  <2>1. r.pc # "adopt"
    BY <1>6, <1>p
       DEF Continue, Charging, CheckLinked, FetchRelation, ClearPrimary, SaveRelation,
           CheckAssets, CheckAdopted, OpenSession, Reserve, Insert, MarkReserved, Meter,
           Settle, Unreserve, ReleaseSession, CallPlatform, RemoveListing, SaveExport,
           ReadProduct, ListRows, SaveStatus, ReadMain, SaveMain, CheckStatus,
           SaveProduct, At
  <2>2. request'[w].pc # "adopt" BY <1>6, <1>p, <2>1, ContinueStep DEF Follows, Idle
  <2>3. OneAdopted'
    <3>1. CASE Insert(w)
      <4>1. listing' = listing \/ listing' = Save(listing, r.id, "draft")
        BY <1>p, <3>1 DEF Insert
      <4> QED BY <1>0, <4>1, SavedRows DEF OneAdopted
    <3>2. CASE RemoveListing(w)
      <4>1. listing' = listing \/ listing' = Delete(listing, r.id)
        BY <1>p, <3>2 DEF RemoveListing
      <4> QED BY <1>0, <4>1, LeftRows DEF OneAdopted
    <3> QED BY <1>0, <1>6, <3>1, <3>2, Writers DEF OneAdopted
  <2> QED BY <2>2, <2>3
<1> QED BY <1>3, <1>4, <1>5, <1>6 DEF Serves

(* Requests that follow one another adopt at most one listing version,     *)
(* unless the write that demotes the version adopted before fails.         *)
THEOREM OneAdoptedAtATime ==
  ASSUME Concurrent = FALSE, "adopt" \notin Failing PROVE Spec => []OneAdopted
<1>1. Init => AdoptInv
  BY InitAlone DEF Init, AdoptInv, OneAdopted, EmptyTable, Stored, Idle
<1>2. IInv /\ AdoptInv /\ [Next]_vars => AdoptInv'
  <2> SUFFICES ASSUME IInv, AdoptInv, [Next]_vars PROVE AdoptInv' OBVIOUS
  <2>1. ASSUME NEW w \in Workers, DeleteProduct(w) PROVE AdoptInv'
    <3>1. request' = request BY <2>1 DEF DeleteProduct
    <3> QED BY <2>1, <3>1, DeletesAlone DEF AdoptInv, OneAdopted, At
  <2>2. ASSUME NEW w \in Workers, Serves(w) PROVE AdoptInv' BY <2>2, AdoptServes
  <2>3. CASE UNCHANGED vars BY <2>3 DEF vars, AdoptInv, OneAtATime, OneAdopted, At
  <2> QED BY <2>1, <2>2, <2>3 DEF Next, Serves
<1>3. AdoptInv => OneAdopted BY DEF AdoptInv
<1> QED BY <1>1, <1>2, <1>3, Invariance, PTL DEF Spec

-----------------------------------------------------------------------------
(* What is metered.  Only the metering call meters, and it comes after the *)
(* insert.                                                                 *)
LEMMA MeterStep ==
  ASSUME IInv, NEW w \in Workers, Continue(w)
  PROVE  \/ request'[w] = Idle
         \/ request'[w].charge.metered =>
              request[w].charge.metered \/ request[w].pc = "meter"
<1>p. PICK r : r = request[w] OBVIOUS
<1>0. DOMAIN request = Workers /\ r \in Request /\ r.charge \in Charge
  BY <1>p, Serving DEF Request
<1> DEFINE Keeps(s) == s = Idle \/ s.charge = r.charge
           Goal == \/ request'[w] = Idle
                   \/ request'[w].charge.metered => r.charge.metered \/ r.pc = "meter"
<1>g. SUFFICES Goal BY <1>p
<1>1. ASSUME NEW s, Keeps(s), request' = [request EXCEPT ![w] = s] PROVE Goal
  BY <1>0, <1>1
<1>2. ASSUME NEW step, GoTo(w, step) PROVE Goal
  <2>1. [r EXCEPT !.pc = step].charge = r.charge BY <1>0 DEF Request
  <2> QED BY <1>1, <1>2, <1>p, <2>1 DEF GoTo
<1>3. ASSUME End(w) PROVE Goal BY <1>1, <1>3 DEF End
<1>4. ASSUME NEW ok, NEW step, Proceed(w, ok, step) PROVE Goal
  BY <1>2, <1>3, <1>4 DEF Proceed
<1>6. ASSUME NEW step, NEW after, NEW ifOk, NEW ifError,
             CallPlatform(w, step, Call(request[w].charge, after), ifOk, ifError),
             step = "meter" \/ after.metered = r.charge.metered
      PROVE  Goal
  <2>1. PICK o \in Call(r.charge, after) :
          LET next == IF o.ok THEN ifOk ELSE ifError
          IN  request' = [request EXCEPT ![w] =
                IF next = "idle" THEN Idle ELSE [@ EXCEPT !.charge = o.state, !.pc = next]]
    BY <1>6, <1>p DEF CallPlatform
  <2>2. r.pc = "meter" \/ o.state.metered = r.charge.metered
    BY <1>6, <1>p, CallOutcomes DEF CallPlatform, At
  <2> DEFINE next == IF o.ok THEN ifOk ELSE ifError
             s == IF next = "idle" THEN Idle ELSE [r EXCEPT !.charge = o.state, !.pc = next]
  <2>3. request' = [request EXCEPT ![w] = s] BY <2>1, <1>p
  <2>4. s = Idle \/ s.charge = o.state BY <1>0 DEF Request
  <2> HIDE DEF s
  <2> QED BY <1>0, <2>2, <2>3, <2>4
<1>7. CASE \/ CheckLinked(w) \/ ClearPrimary(w) \/ SaveRelation(w) \/ CheckAssets(w)
           \/ CheckAdopted(w) \/ Insert(w) \/ Adopt(w) \/ RemoveListing(w) \/ SaveExport(w)
           \/ SaveStatus(w) \/ SaveMain(w) \/ CheckStatus(w) \/ SaveProduct(w)
  <2>1. \/ End(w) \/ \E step : GoTo(w, step)
        \/ \E ok, step : Proceed(w, ok, step)
    <3>1. CASE CheckLinked(w) \/ SaveStatus(w) \/ SaveMain(w) \/ SaveProduct(w) \/ Insert(w)
      BY <3>1 DEF CheckLinked, SaveStatus, SaveMain, SaveProduct, Insert
    <3>2. CASE ClearPrimary(w) \/ SaveRelation(w) \/ CheckAssets(w) \/ CheckAdopted(w)
      BY <3>2 DEF ClearPrimary, SaveRelation, CheckAssets, CheckAdopted
    <3>3. CASE Adopt(w) \/ RemoveListing(w) \/ SaveExport(w) \/ CheckStatus(w)
      BY <3>3 DEF Adopt, RemoveListing, SaveExport, CheckStatus
    <3> QED BY <1>7, <3>1, <3>2, <3>3
  <2> HIDE DEF Goal
  <2> QED BY <1>2, <1>3, <1>4, <2>1
<1>8. CASE FetchRelation(w) \/ Demote(w) \/ ReadProduct(w) \/ ListRows(w) \/ ReadMain(w)
  <2>2. ASSUME NEW f, NEW step,
               request' = [request EXCEPT ![w].linked = f, ![w].pc = step]
        PROVE  Goal
    <3>1. request' = [request EXCEPT ![w] = [r EXCEPT !.linked = f, !.pc = step]]
      BY <2>2, <1>p
    <3>2. [r EXCEPT !.linked = f, !.pc = step].charge = r.charge BY <1>0 DEF Request
    <3> QED BY <1>1, <3>1, <3>2
  <2>3. ASSUME NEW f, NEW step,
               request' = [request EXCEPT ![w].copy = f, ![w].pc = step]
        PROVE  Goal
    <3>1. request' = [request EXCEPT ![w] = [r EXCEPT !.copy = f, !.pc = step]]
      BY <2>3, <1>p
    <3>2. [r EXCEPT !.copy = f, !.pc = step].charge = r.charge BY <1>0 DEF Request
    <3> QED BY <1>1, <3>1, <3>2
  <2>4. ASSUME NEW v, request' = [request EXCEPT ![w].versions[v] = "ready"] PROVE Goal
    <3> DEFINE t == [r.versions EXCEPT ![v] = "ready"]
    <3>1. request' = [request EXCEPT ![w] = [r EXCEPT !.versions = t]] BY <2>4, <1>p
    <3> HIDE DEF t
    <3>2. [r EXCEPT !.versions = t].charge = r.charge BY <1>0 DEF Request
    <3> QED BY <1>1, <3>1, <3>2
  <2> HIDE DEF Goal
  <2>5. CASE FetchRelation(w) BY <1>3, <2>2, <2>5 DEF FetchRelation
  <2>6. CASE Demote(w) BY <2>4, <2>6 DEF Demote
  <2>7. CASE ReadProduct(w) BY <1>4, <2>3, <2>7 DEF ReadProduct
  <2>8. CASE ListRows(w)
    <3>1. PICK ok : request' = [request EXCEPT
            ![w].copy = IF ok THEN Derived(request[w].op, @) ELSE @,
            ![w].pc   = IF ok THEN "save" ELSE "readMain"]
      BY <2>8 DEF ListRows
    <3> DEFINE copy == IF ok THEN Derived(r.op, r.copy) ELSE r.copy
               step == IF ok THEN "save" ELSE "readMain"
    <3>2. request' = [request EXCEPT ![w].copy = copy, ![w].pc = step] BY <1>p, <3>1
    <3> HIDE DEF copy, step
    <3> QED BY <2>3, <3>2
  <2>9. CASE ReadMain(w) BY <1>3, <2>3, <2>9 DEF ReadMain
  <2> QED BY <1>8, <2>5, <2>6, <2>7, <2>8, <2>9
<1>9. CASE OpenSession(w) \/ Reserve(w) \/ MarkReserved(w) \/ Meter(w) \/ Settle(w)
           \/ Unreserve(w) \/ ReleaseSession(w)
  <2>1. ASSUME NEW s PROVE [r.charge EXCEPT !.session = s].metered = r.charge.metered
    BY <1>0 DEF Charge
  <2>2. ASSUME NEW s PROVE [r.charge EXCEPT !.reservation = s].metered = r.charge.metered
    BY <1>0 DEF Charge
  <2>3. CASE OpenSession(w)
    BY <1>6, <1>p, <2>1, <2>3 DEF OpenSession, CreateChargeSession
  <2>4. CASE Reserve(w) BY <1>6, <1>p, <2>2, <2>4 DEF Reserve, ReserveResources
  <2>5. CASE MarkReserved(w)
    BY <1>6, <1>p, <2>1, <2>5 DEF MarkReserved, UpdateChargeSession
  <2>6. CASE Meter(w)
    <3> DEFINE after == [request[w].charge EXCEPT
                           !.metered = TRUE,
                           !.reservation = IF @ = "held" THEN "committed" ELSE @]
    <3>1. CallPlatform(w, "meter", Call(request[w].charge, after), "settle", "unreserve")
      BY <2>6 DEF Meter, FinalizeMetering
    <3> HIDE DEF after
    <3> QED BY <1>6, <3>1
  <2>7. CASE Settle(w) BY <1>6, <1>p, <2>1, <2>7 DEF Settle, UpdateChargeSession
  <2>8. CASE Unreserve(w) BY <1>6, <1>p, <2>2, <2>8 DEF Unreserve, ReleaseReservation
  <2>9. CASE ReleaseSession(w)
    BY <1>6, <1>p, <2>1, <2>9 DEF ReleaseSession, UpdateChargeSession
  <2> QED BY <1>9, <2>3, <2>4, <2>5, <2>6, <2>7, <2>8, <2>9
<1> QED BY <1>7, <1>8, <1>9, <1>p DEF Continue, Charging

(* A request that has metered, or is about to, has stored its row, and no  *)
(* other request is there to remove it.                                    *)
Created(r) ==
  /\ r.pc = "idle" => ~ r.charge.metered
  /\ r.op = "createListing" => r.id \in Listings
  /\ r.op = "createExport" => r.id \in Exports
  /\ r.op \notin Creating => ~ r.charge.metered /\ r.pc \notin BeforeInsert \cup AfterInsert
  /\ r.charge.metered \/ r.pc \in {"markReserved", "meter", "settle"} => r.id \in Rows

CreatedInv == OneAtATime /\ \A w \in Workers : Created(request[w])

(* Rows are inserted, changed and, by a deletion of a version, removed.    *)
LEMMA RowsStay ==
  ASSUME NEW w \in Workers, Continue(w), ~ RemoveListing(w)
  PROVE  Rows \subseteq Rows'
<1>1. CASE Insert(w) BY <1>1, SavedRows DEF Insert, Rows
<1>2. CASE Demote(w) BY <1>2, SavedRows DEF Demote, Rows
<1>3. CASE Adopt(w) BY <1>3, SavedRows DEF Adopt, Rows
<1>4. CASE SaveExport(w) BY <1>4, SavedRows DEF SaveExport, Rows
<1>5. CASE UNCHANGED <<listing, export>> BY <1>5 DEF Rows
<1> QED BY <1>1, <1>2, <1>3, <1>4, <1>5, Writers

LEMMA CreatedServes ==
  ASSUME Concurrent = FALSE, IInv, CreatedInv, NEW w \in Workers, Serves(w)
  PROVE  CreatedInv'
<1>p. PICK r, s : r = request[w] /\ s = request'[w] OBVIOUS
<1>0. /\ DOMAIN request = Workers /\ r \in Request /\ Created(r) /\ Billed(r)
  BY <1>p, Serving DEF CreatedInv, Fine
<1>1. /\ OneAtATime'
      /\ \A v \in Workers \ {w} : At(v, "idle") /\ request'[v] = request[v]
  BY Alone DEF CreatedInv
<1>2. \A v \in Workers \ {w} : Created(request[v])'
  BY <1>1 DEF CreatedInv, Created, At
<1>3. SUFFICES Created(request[w])' BY <1>1, <1>2 DEF CreatedInv
<1>4. CASE Start(w) /\ ~ DeleteProduct(w)
  <2>1. Begun(s) BY <1>4, <1>p, StartStep
  <2> QED BY <2>1, <1>p DEF Begun, Created, NoCharge, BeforeInsert, AfterInsert
<1>5. CASE Continue(w) /\ s = Idle
  BY <1>5, <1>p DEF Created, Idle, NoCharge, Creating, BeforeInsert, AfterInsert
<1>6. CASE Continue(w) /\ s # Idle
  <2>1. Follows(r, s) /\ (s.charge.metered => r.charge.metered \/ r.pc = "meter")
    BY <1>6, <1>p, ContinueStep, MeterStep
  <2>2. /\ s.pc # "idle"
        /\ s.op \notin Creating =>
             ~ s.charge.metered /\ s.pc \notin BeforeInsert \cup AfterInsert
        /\ s.op = "createListing" => s.id \in Listings
        /\ s.op = "createExport" => s.id \in Exports
    BY <1>0, <2>1 DEF Follows, Created, BeforeInsert, AfterInsert
  <2>3. ASSUME s.charge.metered \/ s.pc \in {"markReserved", "meter", "settle"}
        PROVE  s.id \in Rows'
    <3>1. \/ r.charge.metered \/ r.pc \in {"markReserved", "meter", "settle"}
          \/ s.pc = "markReserved" /\ r.pc = "insert"
      BY <2>1, <2>3 DEF Follows
    <3>2. CASE s.pc = "markReserved" /\ r.pc = "insert"
      <4>1. Insert(w)
        BY <1>6, <1>p, <3>2
           DEF Continue, Charging, CheckLinked, FetchRelation, ClearPrimary, SaveRelation,
               CheckAssets, CheckAdopted, OpenSession, Reserve, MarkReserved, Meter, Settle,
               Unreserve, ReleaseSession, CallPlatform, Demote, Adopt, RemoveListing,
               SaveExport, ReadProduct, ListRows, SaveStatus, ReadMain, SaveMain,
               CheckStatus, SaveProduct, At
      <4>2. PICK ok : /\ GoTo(w, IF ok THEN "markReserved" ELSE "unreserve")
                      /\ listing' = IF ok /\ r.id \in Listings
                                     THEN Save(listing, r.id, "draft") ELSE listing
                      /\ export' = IF ok /\ r.id \in Exports
                                    THEN Save(export, r.id, "succeeded") ELSE export
        BY <1>p, <4>1 DEF Insert, InsertErrorStep
      <4>3. s.pc = IF ok THEN "markReserved" ELSE "unreserve"
        BY <1>0, <1>p, <4>2 DEF GoTo, Request
      <4>4. ok BY <3>2, <4>3
      <4>5. r.id \in Listings \cup Exports
        BY <1>0, <3>2 DEF Created, BeforeInsert, Creating
      <4> QED BY <2>1, <4>2, <4>4, <4>5, SavedRows DEF Follows, Rows
    <3>3. CASE r.charge.metered \/ r.pc \in {"markReserved", "meter", "settle"}
      <4>1. r.id \in Rows /\ r.op \in Creating
        BY <1>0, <3>3 DEF Created, AfterInsert
      <4>2. r.pc # "deleteListing"
        BY <1>0, <4>1 DEF Billed, Charged, TailSteps
      <4>3. ~ RemoveListing(w) BY <1>p, <4>2 DEF RemoveListing, At
      <4> QED BY <1>6, <2>1, <4>1, <4>3, RowsStay DEF Follows
    <3> QED BY <3>1, <3>2, <3>3
  <2> QED BY <1>p, <2>2, <2>3 DEF Created
<1> QED BY <1>4, <1>5, <1>6 DEF Serves

(* What the platform has metered is stored, while requests follow one      *)
(* another, whatever replies are lost and whatever writes fail.            *)
THEOREM MeteredRowsAreStored ==
  ASSUME Concurrent = FALSE PROVE Spec => []MeteredIsStored
<1>1. Init => CreatedInv
  BY InitAlone DEF Init, CreatedInv, Created, Idle, NoCharge, Creating, BeforeInsert,
                   AfterInsert
<1>2. IInv /\ CreatedInv /\ [Next]_vars => CreatedInv'
  <2> SUFFICES ASSUME IInv, CreatedInv, [Next]_vars PROVE CreatedInv' OBVIOUS
  <2>1. ASSUME NEW w \in Workers, DeleteProduct(w) PROVE CreatedInv'
    <3>1. request' = request BY <2>1 DEF DeleteProduct
    <3> QED BY <2>1, <3>1, DeletesAlone DEF CreatedInv, Created, At
  <2>2. ASSUME NEW w \in Workers, Serves(w) PROVE CreatedInv' BY <2>2, CreatedServes
  <2>3. CASE UNCHANGED vars
    BY <2>3 DEF vars, CreatedInv, OneAtATime, Created, Rows, Stored, At
  <2> QED BY <2>1, <2>2, <2>3 DEF Next, Serves
<1>3. CreatedInv => MeteredIsStored BY DEF CreatedInv, Created, MeteredIsStored, Rows
<1> QED BY <1>1, <1>2, <1>3, Invariance, PTL DEF Spec

-----------------------------------------------------------------------------
(* The listing status of the product.  It may lag behind the versions only *)
(* while an adoption has not come to its save, and a request that is about *)
(* to save a copy of the product has in it what the versions say.          *)
Ready(p) == p.listingStatus = "ready"

Adopting(r) == r.op = "adoptListing" /\ r.pc \in {"adopt", "read", "list", "save"}

Carries(r) ==
  /\ r.pc \in {"save", "saveMain", "checkStatus", "saveProduct"} =>
       (Ready(r.copy) <=> HasAdopted)
  /\ r.pc = "list" =>
       \/ r.op \in ListingOperations
       \/ r.op \in AssetOperations /\ (Ready(r.copy) <=> HasAdopted)
  /\ r.pc \in BeforeInsert => r.id \notin Rows
  /\ r.pc = "adopt" => r.op = "adoptListing"
  /\ r.op \in ProductOperations \cup {"none"} => r.pc \in {"idle", "checkStatus", "saveProduct"}

ListInv ==
  /\ OneAtATime
  /\ product = NoProduct => Stored(relation) \cup Rows = {} /\ Busy = {}
  /\ \/ product = NoProduct
     \/ Ready(product) <=> HasAdopted
     \/ \E w \in Workers : Adopting(request[w])
  /\ \A w \in Workers : Carries(request[w])

(* The writes an adoption needs all succeed.                               *)
Reported == Failing \cap ({"adopt"} \cup TailSteps) = {}

LEMMA RowIsProduct == NoProduct \notin Product
BY DEF NoProduct, Product, MainStatuses

(* A product that is there stays until it is deleted.                      *)
LEMMA ProductStays ==
  ASSUME IInv, NEW w \in Workers, Continue(w), product # NoProduct
  PROVE  product' # NoProduct
<1>1. Fine(request[w]) BY Serving
<1>2. ASSUME request[w].pc \in {"save", "saveMain", "saveProduct"},
             product' = product \/ product' = request[w].copy
      PROVE  product' # NoProduct
  BY <1>1, <1>2, RowIsProduct DEF Fine, Knows
<1>3. CASE SaveStatus(w) BY <1>2, <1>3 DEF SaveStatus, At
<1>4. CASE SaveMain(w) BY <1>2, <1>4 DEF SaveMain, At
<1>5. CASE SaveProduct(w) BY <1>2, <1>5 DEF SaveProduct, At
<1> QED BY <1>3, <1>4, <1>5, Writers

(* What the listing status of the product depends on.                      *)
LEMMA AdoptedRemain ==
  ASSUME IInv, RemoveInv, ListInv, NEW w \in Workers, Continue(w), ~ Demote(w), ~ Adopt(w)
  PROVE  HasAdopted' <=> HasAdopted
<1>p. PICK r : r = request[w] OBVIOUS
<1>1. CASE Insert(w)
  <2>1. r.id \notin Stored(listing)
    BY <1>1, <1>p DEF Insert, At, ListInv, Carries, BeforeInsert, Rows
  <2>2. listing' = listing \/ listing' = Save(listing, r.id, "draft")
    BY <1>1, <1>p DEF Insert
  <2> QED BY <2>1, <2>2, SavedRows DEF HasAdopted
<1>2. CASE RemoveListing(w)
  <2>1. r.id \in Stored(listing) => listing[r.id] # "adopted"
    BY <1>2, <1>p DEF RemoveListing, At, RemoveInv, Removing
  <2>2. listing' = listing \/ listing' = Delete(listing, r.id)
    BY <1>2, <1>p DEF RemoveListing
  <2> QED BY <2>1, <2>2, LeftRows DEF HasAdopted
<1>3. CASE listing' = listing BY <1>3 DEF HasAdopted
<1> QED BY <1>1, <1>2, <1>3, Writers

LEMMA ListServes ==
  ASSUME Concurrent = FALSE, Reported, IInv, RemoveInv, ListInv, NEW w \in Workers, Serves(w)
  PROVE  ListInv'
<1>p. PICK r, s : r = request[w] /\ s = request'[w] OBVIOUS
<1>0. /\ DOMAIN request = Workers /\ r \in Request /\ Fine(r) /\ Carries(r)
      /\ s \in Request
  <2>1. IInv' BY NextHolds DEF Next, Serves
  <2> QED BY <1>p, <2>1, Serving DEF ListInv, IInv, RequestsOK, Fine
<1>1. /\ OneAtATime'
      /\ \A v \in Workers \ {w} : At(v, "idle") /\ request'[v] = request[v]
  BY Alone DEF ListInv
<1>2. \A v \in Workers \ {w} : ~ Adopting(request[v]) /\ Carries(request[v])'
  BY <1>1 DEF ListInv, Adopting, Carries, At, BeforeInsert
<1>3. /\ product # NoProduct /\ product' # NoProduct
      /\ (Ready(product) <=> HasAdopted) \/ Adopting(r)
  <2>1. CASE Start(w) /\ ~ DeleteProduct(w)
    BY <2>1, <1>p, <1>2, StartStep DEF Begun, ListInv
  <2>2. CASE Continue(w)
    <3>1. w \in Busy BY <2>2, ContinueStep DEF Busy
    <3> QED BY <2>2, <3>1, <1>p, <1>2, ProductStays DEF ListInv
  <2> QED BY <2>1, <2>2 DEF Serves
<1> DEFINE Goal == Carries(s)' /\ ((Ready(product') <=> HasAdopted') \/ Adopting(s))
<1>4. SUFFICES Goal BY <1>1, <1>2, <1>3, <1>p DEF ListInv
<1>i. Carries(Idle)'
  BY DEF Carries, Idle, BeforeInsert
<1>5. CASE Start(w) /\ ~ DeleteProduct(w)
  <2>1. Begun(s) /\ UNCHANGED <<product, listing, export>> /\ ~ Adopting(r)
    BY <1>5, <1>p, StartStep DEF At, Adopting
  <2>2. HasAdopted' <=> HasAdopted BY <2>1 DEF HasAdopted
  <2>3. Rows' = Rows BY <2>1 DEF Rows
  <2>4. Ready(product) <=> HasAdopted BY <1>3, <2>1
  <2>5. Carries(s)'
    <3>1. s.pc \in {"save", "saveMain", "checkStatus", "saveProduct"} =>
            (Ready(s.copy) <=> HasAdopted')
      BY <2>1, <2>2, <2>4 DEF Begun, Ready
    <3>2. s.pc \in BeforeInsert => s.id \notin Rows'
      BY <2>1, <2>3 DEF Begun, BeforeInsert
    <3>3. s.op \in ProductOperations \cup {"none"} =>
            s.pc \in {"idle", "checkStatus", "saveProduct"}
      BY <2>1 DEF Begun, ProductOperations, AssetOperations, Creating
    <3> QED BY <2>1, <3>1, <3>2, <3>3 DEF Begun, Carries
  <2> QED BY <2>1, <2>2, <2>4, <2>5
<1>6. CASE Demote(w) \/ Adopt(w)
  <2>1. r.pc = "adopt" /\ r.op = "adoptListing"
    BY <1>0, <1>6, <1>p DEF Demote, Adopt, At, Carries
  <2>2. s.op = "adoptListing" /\ s.pc \in {"adopt", "read"}
    <3>1. CASE Demote(w)
      <4>1. PICK v : request' = [request EXCEPT ![w].versions[v] = "ready"]
        BY <3>1 DEF Demote
      <4>2. request' = [request EXCEPT ![w] =
              [r EXCEPT !.versions = [r.versions EXCEPT ![v] = "ready"]]]
        BY <4>1, <1>p
      <4> QED BY <1>0, <1>p, <2>1, <4>2 DEF Request
    <3>2. CASE Adopt(w)
      <4>1. PICK ok \in DbResults(w) : Proceed(w, ok, "read")
        BY <3>2 DEF Adopt, AfterAdoption
      <4>2. ok BY <1>p, <2>1, <4>1 DEF DbResults, Reported
      <4>3. request' = [request EXCEPT ![w] = [r EXCEPT !.pc = "read"]]
        BY <1>p, <4>1, <4>2 DEF Proceed, GoTo
      <4> QED BY <1>0, <1>p, <2>1, <4>3 DEF Request
    <3> QED BY <1>6, <3>1, <3>2
  <2> QED BY <2>2 DEF Carries, Adopting, BeforeInsert, ProductOperations
<1>c. ASSUME Continue(w), ~ Demote(w), ~ Adopt(w) PROVE HasAdopted' <=> HasAdopted
  BY <1>c, AdoptedRemain
<1>7. CASE ReadProduct(w)
  <2>1. r.pc = "read" /\ UNCHANGED <<product, listing, export>>
    BY <1>7, <1>p DEF ReadProduct, At
  <2>2. HasAdopted' <=> HasAdopted BY <2>1 DEF HasAdopted
  <2> DEFINE isExport == r.op \in ExportOperations
             copy == [product EXCEPT
                        !.exportStatus = IF isExport THEN "ready" ELSE @]
             step == IF isExport THEN "save" ELSE "list"
  <2>3. request' = [request EXCEPT ![w].copy = copy, ![w].pc = step]
    <3>1. DbResults(w) = {TRUE} BY <1>p, <2>1 DEF DbResults, Reported, TailSteps
    <3> QED BY <1>3, <1>7, <1>p, <3>1 DEF ReadProduct, ExportedStatus
  <2>4. request' = [request EXCEPT ![w] = [r EXCEPT !.copy = copy, !.pc = step]]
    BY <1>p, <2>3
  <2>5. Ready(copy) <=> Ready(product)
    BY <1>3 DEF Ready, IInv, TablesOK, Product
  <2> HIDE DEF copy
  <2>6. s.op = r.op /\ s.copy = copy /\ s.pc = step
    BY <1>0, <1>p, <2>4 DEF Request
  <2>7. r.op \notin ProductOperations \cup {"none"} BY <1>0, <2>1 DEF Carries
  <2>8. r.op \in AssetOperations \cup ListingOperations \cup ExportOperations
    BY <1>0, <2>7 DEF Request, AllOperations
  <2>9. CASE isExport
    <3>1. ~ Adopting(r) /\ s.pc = "save" /\ s.op # "adoptListing"
      BY <2>6, <2>9 DEF Adopting, ExportOperations
    <3> QED BY <1>3, <2>1, <2>2, <2>5, <2>6, <2>7, <3>1 DEF Carries, BeforeInsert
  <2>10. CASE ~ isExport
    <3>1. s.pc = "list" BY <2>6, <2>10
    <3>2. CASE r.op \in ListingOperations
      BY <1>3, <2>1, <2>2, <2>6, <2>7, <3>1, <3>2 DEF Carries, Adopting, BeforeInsert
    <3>3. CASE r.op \in AssetOperations
      <4>1. ~ Adopting(r) BY <3>3 DEF Adopting, AssetOperations
      <4> QED BY <1>3, <2>1, <2>2, <2>5, <2>6, <2>7, <3>1, <3>3, <4>1
              DEF Carries, BeforeInsert
    <3> QED BY <2>8, <2>10, <3>2, <3>3
  <2> QED BY <2>9, <2>10
<1>8. CASE ListRows(w)
  <2>1. r.pc = "list" /\ UNCHANGED <<product, listing, export>>
    BY <1>8, <1>p DEF ListRows, At
  <2>2. HasAdopted' <=> HasAdopted BY <2>1 DEF HasAdopted
  <2> DEFINE copy == Derived(r.op, r.copy)
  <2>3. request' = [request EXCEPT ![w] = [r EXCEPT !.copy = copy, !.pc = "save"]]
    <3>1. DbResults(w) = {TRUE} BY <1>p, <2>1 DEF DbResults, Reported, TailSteps
    <3>2. request' = [request EXCEPT ![w].copy = Derived(request[w].op, @),
                                     ![w].pc = "save"]
      BY <1>8, <3>1 DEF ListRows
    <3> QED BY <1>p, <3>2
  <2>4. Ready(copy) <=> HasAdopted
    <3>1. r.copy \in Product BY <1>0, <2>1 DEF Fine, Knows
    <3>2. CASE r.op \in AssetOperations
      <4>1. Ready(r.copy) <=> HasAdopted
        BY <1>0, <2>1, <3>2 DEF Carries, AssetOperations, ListingOperations
      <4>2. copy.listingStatus = r.copy.listingStatus BY <3>1, <3>2 DEF Derived, Product
      <4> QED BY <4>1, <4>2 DEF Ready
    <3>3. CASE r.op \notin AssetOperations
      <4>1. copy.listingStatus = ListingStatusOf(listing) BY <3>1, <3>3 DEF Derived, Product
      <4>2. ListingStatusOf(listing) = "ready" <=> HasAdopted
        BY DEF ListingStatusOf, HasAdopted
      <4> QED BY <4>1, <4>2 DEF Ready
    <3> QED BY <3>2, <3>3
  <2> HIDE DEF copy
  <2>5. s.op = r.op /\ s.copy = copy /\ s.pc = "save" BY <1>0, <1>p, <2>3 DEF Request
  <2>6. r.op \notin ProductOperations \cup {"none"} BY <1>0, <2>1 DEF Carries
  <2> QED BY <1>3, <2>1, <2>2, <2>4, <2>5, <2>6 DEF Carries, Adopting, BeforeInsert
<1>9. CASE SaveStatus(w)
  <2>1. r.pc = "save" /\ listing' = listing BY <1>9, <1>p DEF SaveStatus, At
  <2>2. HasAdopted' <=> HasAdopted BY <2>1 DEF HasAdopted
  <2>3. product' = r.copy /\ GoTo(w, "readMain")
    <3>1. DbResults(w) = {TRUE} BY <1>p, <2>1 DEF DbResults, Reported, TailSteps
    <3> QED BY <1>9, <1>p, <3>1 DEF SaveStatus
  <2>4. s.op = r.op /\ s.pc = "readMain" BY <1>0, <1>p, <2>3 DEF GoTo, Request
  <2>5. r.op \notin ProductOperations \cup {"none"} BY <1>0, <2>1 DEF Carries
  <2> QED BY <1>0, <2>1, <2>2, <2>3, <2>4, <2>5 DEF Carries, BeforeInsert
<1>10. CASE ReadMain(w)
  <2>1. /\ r.pc = "readMain" /\ UNCHANGED <<product, listing, export>>
        /\ Ready(product) <=> HasAdopted
    BY <1>3, <1>10, <1>p DEF ReadMain, At, Adopting
  <2>2. HasAdopted' <=> HasAdopted BY <2>1 DEF HasAdopted
  <2>3. CASE End(w)
    <3>1. s = Idle BY <1>0, <1>p, <2>3 DEF End
    <3> QED BY <1>i, <2>1, <2>2, <3>1
  <2>4. CASE request' = [request EXCEPT
               ![w].copy = [product EXCEPT !.status = MainStatusOf(product)],
               ![w].pc   = "saveMain"]
    <3> DEFINE copy == [product EXCEPT !.status = MainStatusOf(product)]
    <3>1. Ready(copy) <=> Ready(product)
      BY <1>3 DEF Ready, IInv, TablesOK, Product
    <3>2. request' = [request EXCEPT ![w] = [r EXCEPT !.copy = copy, !.pc = "saveMain"]]
      BY <1>p, <2>4
    <3> HIDE DEF copy
    <3>3. s.op = r.op /\ s.copy = copy /\ s.pc = "saveMain"
      BY <1>0, <1>p, <3>2 DEF Request
    <3>4. r.op \notin ProductOperations \cup {"none"} BY <1>0, <2>1 DEF Carries
    <3> QED BY <2>1, <2>2, <3>1, <3>3, <3>4 DEF Carries, BeforeInsert
  <2> QED BY <1>10, <2>3, <2>4 DEF ReadMain
<1>11. CASE SaveMain(w) \/ SaveProduct(w)
  <2>1. /\ r.pc \in {"saveMain", "saveProduct"} /\ listing' = listing
        /\ product' = product \/ product' = r.copy
        /\ s = Idle
    BY <1>0, <1>11, <1>p DEF SaveMain, SaveProduct, At, End
  <2>2. HasAdopted' <=> HasAdopted BY <2>1 DEF HasAdopted
  <2>3. Ready(product) <=> HasAdopted BY <1>3, <2>1 DEF Adopting
  <2>4. Ready(r.copy) <=> HasAdopted BY <1>0, <2>1 DEF Carries
  <2> QED BY <1>i, <2>1, <2>2, <2>3, <2>4
<1>12. CASE /\ Continue(w) /\ ~ Demote(w) /\ ~ Adopt(w) /\ ~ ReadProduct(w) /\ ~ ListRows(w)
            /\ ~ SaveStatus(w) /\ ~ ReadMain(w) /\ ~ SaveMain(w) /\ ~ SaveProduct(w)
  <2>1. r.pc \notin {"adopt", "read", "list", "save", "readMain"}
    BY <1>12, <1>p
       DEF Continue, Charging, CheckLinked, FetchRelation, ClearPrimary, SaveRelation,
           CheckAssets, CheckAdopted, OpenSession, Reserve, Insert, MarkReserved, Meter,
           Settle, Unreserve, ReleaseSession, CallPlatform, RemoveListing, SaveExport,
           CheckStatus, At
  <2>2. HasAdopted' <=> HasAdopted BY <1>c, <1>12
  <2>3. product' = product BY <1>12, Writers
  <2>4. Ready(product) <=> HasAdopted BY <1>3, <2>1 DEF Adopting
  <2>5. CASE s = Idle BY <1>i, <2>2, <2>3, <2>4, <2>5
  <2>6. CASE Follows(r, s)
    <3>1. s.pc \in {"save", "saveMain", "checkStatus", "saveProduct"} =>
            (Ready(s.copy) <=> HasAdopted')
      BY <1>0, <2>1, <2>2, <2>6 DEF Follows, Carries
    <3>2. s.pc \in BeforeInsert => s.id \notin Rows'
      <4>1. CASE s.pc \in BeforeInsert
        <5>1. r.pc \in BeforeInsert \ {"insert"} BY <2>6, <4>1 DEF Follows
        <5>2. ~ Insert(w) /\ ~ RemoveListing(w) /\ ~ SaveExport(w)
          BY <1>p, <5>1 DEF Insert, RemoveListing, SaveExport, At, BeforeInsert
        <5>3. Rows' = Rows BY <1>12, <5>2, Writers DEF Rows
        <5> QED BY <1>0, <2>6, <5>1, <5>3 DEF Follows, Carries
      <4> QED BY <4>1
    <3>3. s.op \in ProductOperations \cup {"none"} => s.pc \in {"idle", "checkStatus", "saveProduct"}
      <4>1. s.pc \in Steps BY <1>0 DEF Request
      <4>2. CASE s.op \in ProductOperations \cup {"none"}
        <5>1. r.pc \in {"idle", "checkStatus", "saveProduct"}
          BY <1>0, <2>6, <4>2 DEF Follows, Carries
        <5> QED BY <2>6, <4>1, <5>1 DEF Follows, Steps, BeforeInsert, AfterInsert
      <4> QED BY <4>2
    <3>4. s.pc \notin {"list", "adopt"} BY <2>1, <2>6 DEF Follows
    <3> QED BY <2>2, <2>3, <2>4, <3>1, <3>2, <3>3, <3>4 DEF Carries
  <2> QED BY <1>12, <1>p, <2>5, <2>6, ContinueStep
<1> QED BY <1>5, <1>6, <1>7, <1>8, <1>9, <1>10, <1>11, <1>12 DEF Serves

(* Between requests that follow one another the product's listing status   *)
(* says whether it has an adopted version, if the writes of adoptions and  *)
(* the steps that derive the status succeed, whatever else fails.          *)
THEOREM ListingStatusFollows ==
  ASSUME Concurrent = FALSE, Reported PROVE Spec => []ListingReadyIffAdopted
<1>1. Init => ListInv
  <2> SUFFICES ASSUME Init PROVE ListInv OBVIOUS
  <2>1. product # NoProduct BY DEF Init, NoProduct
  <2>2. ~ Ready(product) BY DEF Init, Ready
  <2>3. ~ HasAdopted BY DEF Init, HasAdopted, EmptyTable, Stored
  <2>4. \A w \in Workers : Carries(request[w])
    BY DEF Init, Carries, Idle, BeforeInsert
  <2> QED BY <2>1, <2>2, <2>3, <2>4, InitAlone DEF ListInv
<1>2. IInv /\ RemoveInv /\ ListInv /\ [Next]_vars => ListInv'
  <2> SUFFICES ASSUME IInv, RemoveInv, ListInv, [Next]_vars PROVE ListInv' OBVIOUS
  <2>1. ASSUME NEW w \in Workers, DeleteProduct(w) PROVE ListInv'
    <3>1. request' = request /\ product' = NoProduct BY <2>1 DEF DeleteProduct
    <3>2. Stored(relation)' \cup Rows' = {} BY <2>1, DeletesAlone DEF ListInv, Rows
    <3>3. Busy' = {} BY <2>1, <3>1, DeletesAlone DEF ListInv, Busy, At
    <3>4. \A v \in Workers : Carries(request[v])'
      BY <2>1, <3>1, DeletesAlone DEF ListInv, Carries, At, BeforeInsert
    <3>5. OneAtATime' BY <2>1, DeletesAlone DEF ListInv
    <3> QED BY <3>1, <3>2, <3>3, <3>4, <3>5 DEF ListInv
  <2>2. ASSUME NEW w \in Workers, Serves(w) PROVE ListInv' BY <2>2, ListServes
  <2>3. CASE UNCHANGED vars
    BY <2>3 DEF vars, ListInv, OneAtATime, Carries, HasAdopted, Rows, Stored, Busy, At
  <2> QED BY <2>1, <2>2, <2>3 DEF Next, Serves
<1>3. ListInv => ListingReadyIffAdopted
  BY DEF ListInv, ListingReadyIffAdopted, AtRest, Adopting, Busy, At, Ready
<1> QED BY <1>1, <1>2, <1>3, RemoveHolds, Invariance, PTL DEF Spec

=============================================================================
