--------------------------- MODULE ProductCenter ---------------------------
(***************************************************************************)
(* One product of the product center (internal/modules/productcore with    *)
(* internal/repository/productcenter_repository.go): its row, the assets   *)
(* linked to it, its listing versions, its export tasks, and the charge    *)
(* each new listing or export goes through.                                *)
(*                                                                         *)
(* A request is a sequence of database and platform calls.  What it reads  *)
(* it keeps as a private copy, and it writes whole rows back: a save is an *)
(* update, or an insert when the row is gone.  Most requests end with the  *)
(* same tail, which derives one status of the product from the rows, saves *)
(* the product, reads it again and derives the main status.                *)
(*                                                                         *)
(* The charge of a request that is over never changes again, so only the   *)
(* charge of a request in progress is kept.                                *)
(***************************************************************************)
EXTENDS FiniteSets, Functions, BillingGate, ProductStatus

CONSTANTS
  Workers,     \* the requests that may run at the same time
  Relations,   \* ids of asset relations
  Assets,      \* the assets of the organization
  Roles,       \* the asset roles in use
  Listings,    \* ids of listing versions
  Exports,     \* ids of export tasks
  Operations,  \* the operations that are called
  Concurrent,  \* may a request start while another is in progress?
  Failing      \* the steps whose database call may fail

AssetOperations   == {"addAsset", "updateAsset", "deleteAsset", "governAsset"}
ListingOperations == {"createListing", "adoptListing", "deleteListing"}
ExportOperations  == {"createExport", "updateExport"}
ProductOperations == {"setStatus", "editProduct", "deleteProduct"}

AllOperations ==
  AssetOperations \cup ListingOperations \cup ExportOperations \cup ProductOperations

Steps == {"idle", "checkLinked", "fetchRelation", "clearPrimary", "saveRelation",
          "checkAssets", "checkAdopted", "openSession", "reserve", "insert",
          "markReserved", "meter", "settle", "unreserve", "release",
          "adopt", "deleteListing", "saveExport", "checkStatus", "saveProduct",
          "read", "list", "save", "readMain", "saveMain"}

Ids == Relations \cup Listings \cup Exports

ASSUME ProductCenterAssumption ==
  /\ Roles \subseteq AssetRoles
  /\ Operations \subseteq AllOperations
  /\ Failing \subseteq Steps
  /\ "none" \notin Ids \cup Assets
  /\ Relations \cap Listings = {}
  /\ Relations \cap Exports = {}
  /\ Listings \cap Exports = {}
  /\ Concurrent \in BOOLEAN

VARIABLES
  product,   \* the product's row
  relation,  \* the stored asset relations, by id
  listing,   \* the status of the stored listing versions, by id
  export,    \* the status of the stored export tasks, by id
  request    \* what each worker is doing

vars == <<product, relation, listing, export, request>>

-----------------------------------------------------------------------------

NoProduct == [status |-> "none", assetStatus |-> "none",
              listingStatus |-> "none", exportStatus |-> "none"]

Relation   == [asset : Assets, role : Roles, primary : BOOLEAN]
NoRelation == [asset |-> "none", role |-> "none", primary |-> FALSE]

VersionStatuses == {"draft", "ready", "adopted"}

(* Any string is accepted as the status of an export task. *)
TaskStatuses == {"succeeded", "other"}

(* The stored rows of a table are a function on the ids that are stored.   *)
Table(ids, rows) == UNION {[stored -> rows] : stored \in SUBSET ids}

EmptyTable == [i \in {} |-> NoRelation]

Stored(table)        == DOMAIN table
Save(table, id, row) == [i \in Stored(table) \cup {id} |->
                           IF i = id THEN row ELSE table[i]]
Delete(table, id)    == Restrict(table, Stored(table) \ {id})

(* "copy" is the product row the request read, "linked" the relation it    *)
(* will save, "versions" the listing versions it read, "to" the status it  *)
(* was asked for.                                                          *)
Request == [op       : AllOperations \cup {"none"},
            pc       : Steps,
            id       : Ids \cup {"none"},
            copy     : Product \cup {NoProduct},
            linked   : Relation \cup {NoRelation},
            versions : Table(Listings, VersionStatuses),
            charge   : Charge,
            to       : TaskStatuses \cup {"none"}]

Idle == [op |-> "none", pc |-> "idle", id |-> "none", copy |-> NoProduct,
         linked |-> NoRelation, versions |-> EmptyTable, charge |-> NoCharge,
         to |-> "none"]

(* CreateProduct *)
Init ==
  /\ product = [status |-> "draft", assetStatus |-> "missing",
                listingStatus |-> "missing", exportStatus |-> "pending"]
  /\ relation = EmptyTable
  /\ listing = EmptyTable
  /\ export = EmptyTable
  /\ request = [w \in Workers |-> Idle]

-----------------------------------------------------------------------------

At(w, step)   == request[w].pc = step
GoTo(w, step) == request' = [request EXCEPT ![w].pc = step]
End(w)        == request' = [request EXCEPT ![w] = Idle]
Proceed(w, ok, step) == IF ok THEN GoTo(w, step) ELSE End(w)

DbResults(w) == IF request[w].pc \in Failing THEN BOOLEAN ELSE {TRUE}

Busy == {w \in Workers : ~ At(w, "idle")}

MayStart(w, op) ==
  /\ op \in Operations
  /\ w \notin Busy
  /\ Concurrent \/ Busy = {}

(* A new id is one that no row has and no request remembers. *)
New(id) ==
  /\ id \notin Stored(relation) \cup Stored(listing) \cup Stored(export)
  /\ \A w \in Workers : id # request[w].id /\ id \notin Stored(request[w].versions)

RolesOf(relations) == {relations[i].role : i \in Stored(relations)}

AlreadyLinked(asset) == \E i \in Stored(relation) : relation[i].asset = asset

HasAdopted == \E l \in Stored(listing) : listing[l] = "adopted"

ListingStatusOf(versions) ==
  IF \E l \in Stored(versions) : versions[l] = "adopted" THEN "ready"
  ELSE IF Stored(versions) # {} THEN "partial"
  ELSE "missing"

(* isValidStatusTransition *)
ValidTransition(from, to) ==
  LET order(s) == CASE s = "draft" -> 0 [] s = "assets_ready" -> 1
                    [] s = "listing_ready" -> 2 [] s = "export_ready" -> 3
                    [] s = "published" -> 4 [] s = "archived" -> 5
  IN  IF from = "archived" THEN to = "draft"
      ELSE \/ to = "archived"
           \/ order(to) < order(from)
           \/ order(to) = order(from) + 1

-----------------------------------------------------------------------------
(* Mistakes the handlers could make, each in the place of one decision     *)
(* below.  The specification uses none of them.                            *)

(* the version adopted before keeps its status *)
DemotesNone(w) == {}

(* any version may be deleted *)
DeletesAdopted(l) == TRUE

(* after an adoption only the main status is looked at *)
AdoptsQuietly == "readMain"

(* the status of the task is written to the product *)
CopiesTaskStatus == "succeeded"

(* the other primary marks stay *)
ClearsNone(i, w) == FALSE

(* a product is called exported by hand, whatever its tasks say *)
TakesAnyStatus(to) == to = "assets_ready" => Stored(relation) # {}

(* the row is billed although it was not stored *)
BillsUnstored == "markReserved"

(* an error of the last platform call is not an error *)
ForgivesSettle == "read"

-----------------------------------------------------------------------------
(* Asset relations: AddProductAsset, UpdateProductAsset, DeleteProductAsset *)
(* and the asset library's governance patch.                               *)

AddAsset(w) ==
  /\ MayStart(w, "addAsset")
  /\ product # NoProduct
  /\ \E i \in Relations, row \in Relation :
       /\ New(i)
       /\ request' = [request EXCEPT ![w] =
            [Idle EXCEPT !.op = "addAsset", !.pc = "checkLinked", !.id = i,
                         !.linked = row]]
  /\ UNCHANGED <<product, relation, listing, export>>

(* A lookup that fails counts as an asset that is not linked yet.          *)
CheckLinked(w) ==
  /\ At(w, "checkLinked")
  /\ \E ok \in DbResults(w) :
       IF ok /\ AlreadyLinked(request[w].linked.asset) THEN End(w)
       ELSE GoTo(w, IF request[w].linked.primary THEN "clearPrimary" ELSE "saveRelation")
  /\ UNCHANGED <<product, relation, listing, export>>

(* The patch does not look at the product. *)
ChangeAsset(w, op) ==
  /\ MayStart(w, op)
  /\ op = "updateAsset" => product # NoProduct
  /\ \E i \in Stored(relation) :
       request' = [request EXCEPT ![w] =
         [Idle EXCEPT !.op = op, !.pc = "fetchRelation", !.id = i]]
  /\ UNCHANGED <<product, relation, listing, export>>

(* The role and the primary mark are each given or left as they are; only  *)
(* a mark that is given clears the others.                                 *)
FetchRelation(w) ==
  LET i == request[w].id
  IN  /\ At(w, "fetchRelation")
      /\ \/ /\ i \in Stored(relation)
            /\ \E role \in Roles, mark \in {"keep", "set", "unset"} :
                 request' = [request EXCEPT
                   ![w].linked = [relation[i] EXCEPT
                      !.role = role,
                      !.primary = IF mark = "keep" THEN @ ELSE mark = "set"],
                   ![w].pc = IF mark = "set" THEN "clearPrimary" ELSE "saveRelation"]
         \/ /\ i \notin Stored(relation) \/ FALSE \in DbResults(w)
            /\ End(w)
      /\ UNCHANGED <<product, relation, listing, export>>

(* ClearPrimaryProductAssets: every relation but the one being saved. *)
LosesMark(i, w) == i # request[w].id

ClearPrimary(w) ==
  /\ At(w, "clearPrimary")
  /\ \E ok \in DbResults(w) :
       /\ relation' = IF ok
            THEN [i \in Stored(relation) |->
                    IF LosesMark(i, w) THEN [relation[i] EXCEPT !.primary = FALSE]
                    ELSE relation[i]]
            ELSE relation
       /\ Proceed(w, ok, "saveRelation")
  /\ UNCHANGED <<product, listing, export>>

(* The insert of AddProductAsset, the save of the other two.  The patch    *)
(* leaves the statuses of the product alone.                               *)
SaveRelation(w) ==
  /\ At(w, "saveRelation")
  /\ \E ok \in DbResults(w) :
       /\ relation' = IF ok THEN Save(relation, request[w].id, request[w].linked)
                      ELSE relation
       /\ Proceed(w, ok /\ request[w].op # "governAsset", "read")
  /\ UNCHANGED <<product, listing, export>>

DeleteAsset(w) ==
  /\ MayStart(w, "deleteAsset")
  /\ \E i \in Stored(relation) : relation' = Delete(relation, i)
  /\ request' = [request EXCEPT ![w] = [Idle EXCEPT !.op = "deleteAsset", !.pc = "read"]]
  /\ UNCHANGED <<product, listing, export>>

-----------------------------------------------------------------------------
(* New listing versions and export tasks.                                  *)

CreateListing(w) ==
  /\ MayStart(w, "createListing")
  /\ product # NoProduct
  /\ \E l \in Listings :
       /\ New(l)
       /\ request' = [request EXCEPT ![w] =
            [Idle EXCEPT !.op = "createListing", !.id = l,
               !.pc = IF product.assetStatus = "ready" THEN "openSession"
                      ELSE "checkAssets"]]
  /\ UNCHANGED <<product, relation, listing, export>>

(* Of the entries of a batch that name one product only the first counts;  *)
(* a preview writes nothing.                                               *)
BatchCreateListingVersions(w) == CreateListing(w)

(* An edit of a version creates a new one.                                 *)
UpdateListingVersion(w) == Stored(listing) # {} /\ CreateListing(w)

CreateExport(w) ==
  /\ MayStart(w, "createExport")
  /\ product # NoProduct
  /\ \E e \in Exports :
       /\ New(e)
       /\ request' = [request EXCEPT ![w] =
            [Idle EXCEPT !.op = "createExport", !.id = e, !.pc = "checkAssets"]]
  /\ UNCHANGED <<product, relation, listing, export>>

CheckAssets(w) ==
  /\ At(w, "checkAssets")
  /\ \E ok \in DbResults(w) :
       Proceed(w, ok /\ Stored(relation) # {},
               IF request[w].op = "createExport" THEN "checkAdopted" ELSE "openSession")
  /\ UNCHANGED <<product, relation, listing, export>>

CheckAdopted(w) ==
  /\ At(w, "checkAdopted")
  /\ \E ok \in DbResults(w) : Proceed(w, ok /\ HasAdopted, "openSession")
  /\ UNCHANGED <<product, relation, listing, export>>

(* A call of the platform for the request's charge. *)
CallPlatform(w, step, outcomes, ifOk, ifError) ==
  /\ At(w, step)
  /\ \E r \in outcomes :
       LET next == IF r.ok THEN ifOk ELSE ifError
       IN  request' = [request EXCEPT ![w] =
             IF next = "idle" THEN Idle ELSE [@ EXCEPT !.charge = r.state, !.pc = next]]
  /\ UNCHANGED <<product, relation, listing, export>>

(* Begin; a charge that could not be prepared is left as it is. *)
OpenSession(w) ==
  CallPlatform(w, "openSession", CreateChargeSession(request[w].charge), "reserve", "idle")

Reserve(w) ==
  CallPlatform(w, "reserve", ReserveResources(request[w].charge), "insert", "idle")

InsertErrorStep == "unreserve"

Insert(w) ==
  LET id == request[w].id
  IN  /\ At(w, "insert")
      /\ \E ok \in DbResults(w) :
           /\ GoTo(w, IF ok THEN "markReserved" ELSE InsertErrorStep)
           /\ listing' = IF ok /\ id \in Listings THEN Save(listing, id, "draft")
                         ELSE listing
           /\ export' = IF ok /\ id \in Exports THEN Save(export, id, "succeeded")
                        ELSE export
      /\ UNCHANGED <<product, relation>>

MarkReserved(w) ==
  CallPlatform(w, "markReserved", UpdateChargeSession(request[w].charge, "reserved"),
               "meter", "unreserve")

(* Commit *)
Meter(w) ==
  CallPlatform(w, "meter", FinalizeMetering(request[w].charge), "settle", "unreserve")

SettleErrorStep == "unreserve"

Settle(w) ==
  CallPlatform(w, "settle", UpdateChargeSession(request[w].charge, "settled"),
               "read", SettleErrorStep)

(* Release: the request fails; the row, if it was stored, stays. *)
Unreserve(w) ==
  CallPlatform(w, "unreserve", ReleaseReservation(request[w].charge),
               "release", "release")

ReleaseSession(w) ==
  CallPlatform(w, "release", UpdateChargeSession(request[w].charge, "released"),
               "idle", "idle")

Charging(w) ==
  \/ OpenSession(w) \/ Reserve(w) \/ Insert(w) \/ MarkReserved(w) \/ Meter(w)
  \/ Settle(w) \/ Unreserve(w) \/ ReleaseSession(w)

-----------------------------------------------------------------------------
(* AdoptListingVersion, DeleteListingVersion, UpdateExportTaskStatus *)

AdoptListing(w) ==
  /\ MayStart(w, "adoptListing")
  /\ \E l \in Stored(listing) :
       request' = [request EXCEPT ![w] =
         [Idle EXCEPT !.op = "adoptListing", !.id = l, !.versions = listing,
                      !.pc = "adopt"]]
  /\ UNCHANGED <<product, relation, listing, export>>

(* A batch looks for the product first, and adopts one version of it.      *)
BatchAdoptListingVersions(w) == product # NoProduct /\ AdoptListing(w)

(* The other versions the request read as adopted and has not dealt with.  *)
ToDemote(w) ==
  {v \in Stored(request[w].versions) \ {request[w].id} :
     request[w].versions[v] = "adopted"}

(* A demotion that fails is not noticed. *)
Demote(w) ==
  /\ At(w, "adopt")
  /\ \E v \in ToDemote(w) :
       /\ \E ok \in DbResults(w) :
            listing' = IF ok THEN Save(listing, v, "ready") ELSE listing
       /\ request' = [request EXCEPT ![w].versions[v] = "ready"]
  /\ UNCHANGED <<product, relation, export>>

AfterAdoption == "read"

Adopt(w) ==
  /\ At(w, "adopt")
  /\ ToDemote(w) = {}
  /\ \E ok \in DbResults(w) :
       /\ listing' = IF ok THEN Save(listing, request[w].id, "adopted") ELSE listing
       /\ Proceed(w, ok, AfterAdoption)
  /\ UNCHANGED <<product, relation, export>>

Deletable(l) == listing[l] # "adopted"

DeleteListing(w) ==
  /\ MayStart(w, "deleteListing")
  /\ \E l \in Stored(listing) :
       /\ Deletable(l)
       /\ request' = [request EXCEPT ![w] =
            [Idle EXCEPT !.op = "deleteListing", !.id = l, !.pc = "deleteListing"]]
  /\ UNCHANGED <<product, relation, listing, export>>

RemoveListing(w) ==
  /\ At(w, "deleteListing")
  /\ \E ok \in DbResults(w) :
       /\ listing' = IF ok THEN Delete(listing, request[w].id) ELSE listing
       /\ Proceed(w, ok, "read")
  /\ UNCHANGED <<product, relation, export>>

UpdateExport(w) ==
  /\ MayStart(w, "updateExport")
  /\ \E e \in Stored(export), s \in TaskStatuses :
       request' = [request EXCEPT ![w] =
         [Idle EXCEPT !.op = "updateExport", !.id = e, !.to = s, !.pc = "saveExport"]]
  /\ UNCHANGED <<product, relation, listing, export>>

SaveExport(w) ==
  /\ At(w, "saveExport")
  /\ \E ok \in DbResults(w) :
       /\ export' = IF ok THEN Save(export, request[w].id, request[w].to) ELSE export
       /\ Proceed(w, ok /\ request[w].to = "succeeded", "read")
  /\ UNCHANGED <<product, relation, listing>>

-----------------------------------------------------------------------------
(* The tail: updateProductAssetStatus or updateProductListingStatus, or    *)
(* the export status, and then updateProductMainStatus.  None of its       *)
(* errors is reported.                                                     *)

ExportedStatus == "ready"

ReadProduct(w) ==
  LET isExport == request[w].op \in ExportOperations
  IN  /\ At(w, "read")
      /\ \/ /\ product # NoProduct
            /\ request' = [request EXCEPT
                 ![w].copy = [product EXCEPT
                    !.exportStatus = IF isExport THEN ExportedStatus ELSE @],
                 ![w].pc = IF isExport THEN "save" ELSE "list"]
         \/ /\ product = NoProduct \/ FALSE \in DbResults(w)
            /\ Proceed(w, ~ isExport, "readMain")
      /\ UNCHANGED <<product, relation, listing, export>>

(* The product row with the status the rows it is derived from ask for.    *)
Derived(op, copy) ==
  IF op \in AssetOperations
  THEN [copy EXCEPT !.assetStatus = AssetStatusOf(RolesOf(relation))]
  ELSE [copy EXCEPT !.listingStatus = ListingStatusOf(listing)]

ListRows(w) ==
  /\ At(w, "list")
  /\ \E ok \in DbResults(w) :
       request' = [request EXCEPT
         ![w].copy = IF ok THEN Derived(request[w].op, @) ELSE @,
         ![w].pc   = IF ok THEN "save" ELSE "readMain"]
  /\ UNCHANGED <<product, relation, listing, export>>

SaveStatus(w) ==
  /\ At(w, "save")
  /\ \E ok \in DbResults(w) : product' = IF ok THEN request[w].copy ELSE product
  /\ GoTo(w, "readMain")
  /\ UNCHANGED <<relation, listing, export>>

ReadMain(w) ==
  /\ At(w, "readMain")
  /\ \/ /\ product # NoProduct
        /\ MainStatusOf(product) # product.status
        /\ request' = [request EXCEPT
             ![w].copy = [product EXCEPT !.status = MainStatusOf(product)],
             ![w].pc   = "saveMain"]
     \/ /\ \/ product = NoProduct
           \/ MainStatusOf(product) = product.status
           \/ FALSE \in DbResults(w)
        /\ End(w)
  /\ UNCHANGED <<product, relation, listing, export>>

SaveMain(w) ==
  /\ At(w, "saveMain")
  /\ \E ok \in DbResults(w) : product' = IF ok THEN request[w].copy ELSE product
  /\ End(w)
  /\ UNCHANGED <<relation, listing, export>>

-----------------------------------------------------------------------------
(* UpdateProduct, UpdateProductStatus, DeleteProduct *)

(* What the rows must show before a product takes a status by hand.        *)
Precondition(to) ==
  /\ to = "assets_ready"  => Stored(relation) # {}
  /\ to = "listing_ready" => HasAdopted
  /\ to = "export_ready"  => \E e \in Stored(export) : export[e] = "succeeded"

SetStatus(w) ==
  /\ MayStart(w, "setStatus")
  /\ product # NoProduct
  /\ \E to \in MainStatuses :
       /\ ValidTransition(product.status, to)
       /\ request' = [request EXCEPT ![w] =
            [Idle EXCEPT !.op = "setStatus", !.pc = "checkStatus",
                         !.copy = [product EXCEPT !.status = to]]]
  /\ UNCHANGED <<product, relation, listing, export>>

CheckStatus(w) ==
  /\ At(w, "checkStatus")
  /\ \E ok \in DbResults(w) :
       Proceed(w, ok /\ Precondition(request[w].copy.status), "saveProduct")
  /\ UNCHANGED <<product, relation, listing, export>>

(* An edit changes the product's texts, which are not part of the model,   *)
(* but saves the statuses it read along with them.                         *)
EditProduct(w) ==
  /\ MayStart(w, "editProduct")
  /\ product # NoProduct
  /\ request' = [request EXCEPT ![w] =
       [Idle EXCEPT !.op = "editProduct", !.pc = "saveProduct", !.copy = product]]
  /\ UNCHANGED <<product, relation, listing, export>>

SaveProduct(w) ==
  /\ At(w, "saveProduct")
  /\ \E ok \in DbResults(w) : product' = IF ok THEN request[w].copy ELSE product
  /\ End(w)
  /\ UNCHANGED <<relation, listing, export>>

(* One transaction. *)
DeleteProduct(w) ==
  /\ MayStart(w, "deleteProduct")
  /\ product' = NoProduct
  /\ relation' = EmptyTable
  /\ listing' = EmptyTable
  /\ export' = EmptyTable
  /\ UNCHANGED request

-----------------------------------------------------------------------------

Start(w) ==
  \/ AddAsset(w) \/ DeleteAsset(w)
  \/ ChangeAsset(w, "updateAsset") \/ ChangeAsset(w, "governAsset")
  \/ CreateListing(w) \/ BatchCreateListingVersions(w) \/ UpdateListingVersion(w)
  \/ AdoptListing(w) \/ BatchAdoptListingVersions(w) \/ DeleteListing(w)
  \/ CreateExport(w) \/ UpdateExport(w)
  \/ SetStatus(w) \/ EditProduct(w) \/ DeleteProduct(w)

Continue(w) ==
  \/ CheckLinked(w) \/ FetchRelation(w) \/ ClearPrimary(w) \/ SaveRelation(w)
  \/ CheckAssets(w) \/ CheckAdopted(w) \/ Charging(w)
  \/ Demote(w) \/ Adopt(w) \/ RemoveListing(w) \/ SaveExport(w)
  \/ ReadProduct(w) \/ ListRows(w) \/ SaveStatus(w) \/ ReadMain(w) \/ SaveMain(w)
  \/ CheckStatus(w) \/ SaveProduct(w)

Next == \E w \in Workers : Start(w) \/ Continue(w)

Spec == Init /\ [][Next]_vars

-----------------------------------------------------------------------------
(* Every variable has its type.                                            *)
TypeOK ==
  /\ product \in Product \cup {NoProduct}
  /\ relation \in Table(Relations, Relation)
  /\ listing \in Table(Listings, VersionStatuses)
  /\ export \in Table(Exports, TaskStatuses)
  /\ request \in [Workers -> Request]

AtRest == Busy = {} /\ product # NoProduct

(* Requests that follow one another adopt at most one listing version.     *)
OneAdopted ==
  \A l, m \in Stored(listing) :
    listing[l] = "adopted" /\ listing[m] = "adopted" => l = m

(* Between requests that follow one another the product's listing status   *)
(* says whether it has an adopted version, also when the charge of a new   *)
(* version failed half way.                                                *)
ListingReadyIffAdopted ==
  AtRest => (product.listingStatus = "ready" <=> HasAdopted)

(* Requests that follow one another leave at most one primary asset.       *)
OnePrimary ==
  \A i, j \in Stored(relation) :
    relation[i].primary /\ relation[j].primary => i = j

(* A product that counts as exported or published has an export task, on   *)
(* whichever of the two ways, by hand or derived, it came to its status.   *)
ExportIsBacked ==
  product.exportStatus = "ready" \/ product.status \in {"export_ready", "published"} =>
    Stored(export) # {}

(* What the platform has metered is stored.                                *)
MeteredIsStored ==
  \A w \in Workers :
    request[w].charge.metered => request[w].id \in Stored(listing) \cup Stored(export)

InTail(w) == request[w].pc \in {"read", "list", "save", "readMain", "saveMain"}

(* A creation that goes on to change the product's status is fully billed: *)
(* settled, and its reservation used.                                      *)
SuccessIsBilled ==
  \A w \in Workers :
    request[w].op \in {"createListing", "createExport"} /\ InTail(w) =>
      request[w].charge = [session |-> "settled", reservation |-> "committed",
                           metered |-> TRUE]

(* An adopted version is replaced, or goes with its product, but is not    *)
(* deleted.                                                                *)
AdoptedIsKept ==
  [][\A l \in Stored(listing) :
       listing[l] = "adopted" => l \in Stored(listing') \/ product' = NoProduct]_vars

=============================================================================
