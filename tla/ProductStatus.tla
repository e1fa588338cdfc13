--------------------------- MODULE ProductStatus ---------------------------
(***************************************************************************)
(* The status vocabulary of a product and the rules that derive one status *)
(* from another.  The product center and the image runtime each have their *)
(* own copy of these rules in the code; the copies agree.                  *)
(***************************************************************************)

MainStatuses    == {"draft", "assets_ready", "listing_ready", "export_ready",
                    "published", "archived"}
AssetStatuses   == {"missing", "partial", "ready"}
ListingStatuses == {"missing", "partial", "ready"}
ExportStatuses  == {"pending", "ready", "done"}
AssetRoles      == {"hero", "model_shot", "scene_shot", "detail_shot",
                    "listing_attachment"}

Product == [status        : MainStatuses,
            assetStatus   : AssetStatuses,
            listingStatus : ListingStatuses,
            exportStatus  : ExportStatuses]

(* What the roles of a product's assets say about its asset status. *)
AssetStatusOf(roles) ==
  IF roles = {} THEN "missing"
  ELSE IF {"hero", "model_shot"} \subseteq roles THEN "ready"
  ELSE "partial"

(* The main status that follows from the other three.  A product somebody  *)
(* published or archived keeps the status it has.                          *)
MainStatusOf(p) ==
  IF p.status \in {"published", "archived"} THEN p.status
  ELSE IF p.assetStatus # "ready" THEN "draft"
  ELSE IF p.listingStatus # "ready" THEN "assets_ready"
  ELSE IF p.exportStatus # "ready" THEN "listing_ready"
  ELSE "export_ready"

(* A product row after its assets, which have these roles, were looked at. *)
SyncedWith(p, roles) ==
  LET q == [p EXCEPT !.assetStatus = AssetStatusOf(roles)]
  IN  [q EXCEPT !.status = MainStatusOf(q)]

=============================================================================
