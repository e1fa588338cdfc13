---------------------------- MODULE CatalogFilter ----------------------------
(***************************************************************************)
(* How the catalog of templates is filtered: once for the local catalog    *)
(* (repository/template_center_repository_part2.go, in part by the         *)
(* database), once for the catalog the platform offers                     *)
(* (modules/templatecenter/platform_filter.go).                            *)
(*                                                                         *)
(* A template in a list has one value for each of Labels, a set of values  *)
(* for each of Tags and of Limits, the product categories it "excludes",   *)
(* whether it is "featured", and the "words" a keyword may hit: those of   *)
(* its name and summary, and those of its external code and id.  A filter  *)
(* is a record of some of these fields.  Order and paging are left out.    *)
(***************************************************************************)

Labels == {"modality", "series", "capability"}
Tags   == {"platform", "industry", "scenario"}
Limits == {"inputMode", "category", "provider"}

FilterFields == Labels \cup Tags \cup Limits \cup {"tool", "featured", "keyword"}

Asks(filter, field) == field \in DOMAIN filter

SameLabels(item, filter, fields) ==
  \A l \in fields : Asks(filter, l) => item[l] = filter[l]

HasTags(item, filter, fields) ==
  \A t \in fields : Asks(filter, t) => filter[t] \in item[t]

(* A template that does not limit itself fits every value.                 *)
WithinLimits(item, filter) ==
  \A l \in Limits : Asks(filter, l) => item[l] = {} \/ filter[l] \in item[l]

NotExcluded(item, filter) ==
  Asks(filter, "category") => filter.category \notin item.excludes

FeaturedIfAsked(item, filter) == Asks(filter, "featured") => item.featured

Hits(filter, words) == Asks(filter, "keyword") => filter.keyword \in words

-----------------------------------------------------------------------------
(* Mistakes.  Nothing uses them.                                           *)

(* the platform's filter does not know of excluded categories *)
IgnoresExclusion(item, filter) ==
  /\ SameLabels(item, filter, {"tool"} \cup Labels)
  /\ HasTags(item, filter, Tags)
  /\ WithinLimits(item, filter)
  /\ FeaturedIfAsked(item, filter)

-----------------------------------------------------------------------------
(* The local catalog.                                                      *)

(* What the database filters by.                                           *)
ApplyCatalogFilter(item, filter) ==
  /\ SameLabels(item, filter, Labels)
  /\ HasTags(item, filter, {"platform"})
  /\ FeaturedIfAsked(item, filter)

MatchesCatalogContextFilter(item, filter) ==
  /\ SameLabels(item, filter, {"tool"})
  /\ WithinLimits(item, filter)
  /\ NotExcluded(item, filter)
  /\ HasTags(item, filter, {"industry", "scenario"})

MatchesKeyword(item, filter) ==
  Hits(filter, item.words \cup {item[l] : l \in Labels} \cup item.platform \cup item.industry)

MatchesLocally(item, filter) ==
  /\ ApplyCatalogFilter(item, filter)
  /\ MatchesCatalogContextFilter(item, filter)
  /\ MatchesKeyword(item, filter)

-----------------------------------------------------------------------------
(* The platform's catalog.                                                 *)

MatchesPlatformCatalogFilter(item, filter) ==
  /\ SameLabels(item, filter, {"tool"} \cup Labels)
  /\ HasTags(item, filter, Tags)
  /\ WithinLimits(item, filter)
  /\ NotExcluded(item, filter)
  /\ FeaturedIfAsked(item, filter)
  /\ Hits(filter, item.words \cup item.codes)

=============================================================================
