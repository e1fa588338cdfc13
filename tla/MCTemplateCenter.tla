-------------------------- MODULE MCTemplateCenter --------------------------
(* TemplateCenter with the values of its structured constants for TLC.     *)
EXTENDS TemplateCenter, TLC

CONSTANTS t1, t2

(* A first release, and one that changes a template and drops the other.   *)
MCReleases == {(t1 :> 1 @@ t2 :> 1), (t1 :> 2 @@ t2 :> None)}

Columns(series, tags) ==
  [modality |-> "image", series |-> series, capability |-> "swap", platform |-> tags,
   industry |-> {}, scenario |-> tags, featured |-> tags # {}, words |-> {"dress"},
   codes |-> {"M1"}]

Schema(modes, excluded) ==
  [tool |-> "model", inputMode |-> modes, category |-> {}, provider |-> {},
   excludes |-> excluded]

MCColumnsOf == <<Columns("model", {"amazon"}), Columns("scene", {})>>
MCSchemaOf  == <<Schema({"single"}, {}), Schema({}, {"shoes"})>>

MCFilters ==
  {[series |-> "scene"], [platform |-> "amazon"], [scenario |-> "amazon"], [inputMode |-> "single"],
   [category |-> "shoes"], [provider |-> "p1"], [tool |-> "other"], [featured |-> TRUE],
   [keyword |-> "M1"]}
=============================================================================
