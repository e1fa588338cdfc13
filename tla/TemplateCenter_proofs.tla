------------------------ MODULE TemplateCenter_proofs ------------------------
(***************************************************************************)
(* What TLAPS proves of TemplateCenter, for all templates, releases,       *)
(* filters and users.                                                      *)
(***************************************************************************)
EXTENDS TemplateCenter, FiniteSetTheorems, TLAPS

(* A version is known by its template and id.                              *)
OneOfEach ==
  \A v, w \in version : v.template = w.template /\ v.id = w.id => v = w

(* Every row has its text and its current version.                         *)
RowsAreWhole ==
  \A t \in DOMAIN catalog :
    /\ t \in localized
    /\ \E v \in version : v.template = t /\ v.id = catalog[t].current

(* No version outlives its template: else a template that comes back would *)
(* meet the versions of the one that was there before.                     *)
NoOrphans == \A v \in version : v.template \in DOMAIN catalog

(* A row whose versions the seeding replaces points at the seed's version. *)
SeedsPointAtV1 ==
  \A t \in DOMAIN catalog :
    catalog[t].managed = "seed_builtin" \/ catalog[t].system => catalog[t].current = "v1"

CatalogInv == TypeOK /\ OneOfEach /\ RowsAreWhole /\ NoOrphans /\ SeedsPointAtV1

-----------------------------------------------------------------------------

LEMMA RowTypes ==
  /\ \A content \in Contents : SeedRow(content) \in Row
  /\ \A row \in Row : [row EXCEPT !.managed = "seed_builtin"] \in Row
  /\ \A row \in Row : [row EXCEPT !.published = ~ @] \in Row
BY DEF SeedRow, Row, VersionIds

LEMMA ReleaseTypes ==
  ASSUME NEW release \in Releases, NEW t \in Seeds(release)
  PROVE  t \in Templates /\ release[t] \in Contents
BY TemplateCenterAssumption DEF Seeds

LEMMA CatalogInit == Init => CatalogInv
<1> SUFFICES ASSUME Init PROVE CatalogInv OBVIOUS
<1>1. PICK release \in Releases, old \in SUBSET Templates :
        LET seeds == {t \in old : release[t] # None}
        IN  /\ catalog = [t \in seeds |-> [managed |-> "ops_manual", system |-> TRUE,
                            published |-> TRUE, current |-> "v1", content |-> release[t]]]
            /\ localized = seeds
            /\ version = {[template |-> t, id |-> "v1", content |-> release[t]] : t \in seeds}
  BY Zenon DEF Init
<1> DEFINE seeds == {t \in old : release[t] # None}
<1>2. \A t \in seeds : t \in Templates /\ release[t] \in Contents
  BY ReleaseTypes DEF Seeds
<1>3. DOMAIN catalog = seeds /\ localized = seeds /\ \A t \in seeds : catalog[t] =
         [managed |-> "ops_manual", system |-> TRUE, published |-> TRUE, current |-> "v1",
          content |-> release[t]]
  BY <1>1
<1>4. version = {[template |-> t, id |-> "v1", content |-> release[t]] : t \in seeds}
  BY <1>1
<1> HIDE DEF seeds
<1>5. TypeOK
  <2>1. \A t \in DOMAIN catalog : catalog[t] \in Row
    <3> SUFFICES ASSUME NEW t \in seeds PROVE catalog[t] \in Row BY <1>3
    <3>1. ASSUME NEW content \in Contents
          PROVE  [managed |-> "ops_manual", system |-> TRUE, published |-> TRUE,
                  current |-> "v1", content |-> content] \in Row
      BY DEF Row, VersionIds
    <3>2. release[t] \in Contents BY <1>2
    <3> QED BY <1>3, <3>1, <3>2
  <2>2. version \subseteq Version
    BY <1>2, <1>4 DEF Version, VersionIds
  <2> QED BY <1>2, <1>3, <2>1, <2>2 DEF TypeOK, Init
<1>6. OneOfEach BY <1>4 DEF OneOfEach
<1>7. RowsAreWhole
  <2> SUFFICES ASSUME NEW t \in seeds
               PROVE  \E v \in version : v.template = t /\ v.id = catalog[t].current
    BY <1>3 DEF RowsAreWhole
  <2>1. [template |-> t, id |-> "v1", content |-> release[t]] \in version BY <1>4
  <2>2. catalog[t].current = "v1" BY <1>3
  <2> QED BY <2>1, <2>2
<1>8. NoOrphans BY <1>3, <1>4 DEF NoOrphans
<1>9. SeedsPointAtV1 BY <1>3 DEF SeedsPointAtV1
<1> QED BY <1>5, <1>6, <1>7, <1>8, <1>9 DEF CatalogInv

-----------------------------------------------------------------------------
(* What a boot does.                                                       *)

LEMMA BootedRows ==
  ASSUME CatalogInv, NEW release \in Releases, SeedIfEmpty(release)
  PROVE  /\ DOMAIN catalog' = (DOMAIN catalog \ Obsolete(release)) \cup Seeds(release)
         /\ \A t \in Seeds(release) : catalog'[t] = Upserted(release, t)
         /\ \A t \in DOMAIN catalog \ (Obsolete(release) \cup Seeds(release)) :
              catalog'[t] = catalog[t]
BY DEF SeedIfEmpty

(* A seed that operations have taken stays as it is; any other row is a    *)
(* seed's afterwards and points at its version.                            *)
LEMMA UpsertedRow ==
  ASSUME CatalogInv, NEW release \in Releases, NEW t \in Seeds(release)
  PROVE  /\ Upserted(release, t) \in Row
         /\ t \in Replaced(release) => Upserted(release, t).current = "v1"
         /\ t \notin Replaced(release) => t \in DOMAIN catalog /\ Upserted(release, t) = catalog[t]
         /\ \/ Upserted(release, t).managed = "seed_builtin"
            \/ Upserted(release, t).system
            => Upserted(release, t).current = "v1"
<1>1. release[t] \in Contents BY ReleaseTypes
<1>2. t \in DOMAIN catalog => catalog[t] \in Row BY DEF CatalogInv, TypeOK
<1>3. CASE t \notin DOMAIN catalog \/ IsManaged(t)
  <2>1. Upserted(release, t) = SeedRow(release[t])
    <3>1. ~ IsDrifted(t) BY <1>3 DEF IsDrifted, IsManaged
    <3> QED BY <1>3, <3>1, Zenon DEF Upserted
  <2>2. t \in Replaced(release) BY <1>3 DEF Replaced, IsOps, IsManaged
  <2> QED BY <1>1, <2>1, <2>2, RowTypes DEF SeedRow
<1>4. CASE t \in DOMAIN catalog /\ ~ IsManaged(t) /\ IsDrifted(t)
  <2>1. Upserted(release, t) = [catalog[t] EXCEPT !.managed = "seed_builtin"]
    BY <1>4 DEF Upserted
  <2>2. t \in Replaced(release) BY <1>4 DEF Replaced, IsOps, IsDrifted
  <2>3. catalog[t].current = "v1" BY <1>4 DEF CatalogInv, SeedsPointAtV1, IsDrifted
  <2> QED BY <1>2, <1>4, <2>1, <2>2, <2>3, RowTypes DEF Row
<1>5. CASE t \in DOMAIN catalog /\ ~ IsManaged(t) /\ ~ IsDrifted(t)
  <2>1. Upserted(release, t) = catalog[t] BY <1>5 DEF Upserted
  <2>2. IsOps(t) BY <1>2, <1>5 DEF IsManaged, IsDrifted, IsOps, Row
  <2>3. t \notin Replaced(release) BY <2>2 DEF Replaced
  <2> QED BY <1>2, <1>5, <2>1, <2>2, <2>3 DEF CatalogInv, SeedsPointAtV1, IsOps
<1> QED BY <1>3, <1>4, <1>5

LEMMA BootKeepsInv ==
  ASSUME CatalogInv, SeedPresetCatalog PROVE CatalogInv'
<1>1. PICK release \in Releases : SeedIfEmpty(release) BY DEF SeedPresetCatalog
<1>2. /\ DOMAIN catalog' = (DOMAIN catalog \ Obsolete(release)) \cup Seeds(release)
      /\ \A t \in Seeds(release) : catalog'[t] = Upserted(release, t)
      /\ \A t \in DOMAIN catalog \ (Obsolete(release) \cup Seeds(release)) :
           catalog'[t] = catalog[t]
  BY <1>1, BootedRows
<1> DEFINE obsolete == Obsolete(release)
           seeds    == Seeds(release)
           replaced == Replaced(release)
<1>3. /\ localized' = (localized \ obsolete) \cup replaced
      /\ version' = {v \in version : v.template \notin obsolete \cup replaced}
                      \cup {[template |-> t, id |-> "v1", content |-> release[t]] : t \in replaced}
      /\ favorite' = {f \in favorite : f.template \notin obsolete}
      /\ used' = used \ obsolete
  BY <1>1 DEF SeedIfEmpty
<1>4. replaced \subseteq seeds /\ seeds \cap obsolete = {} /\ obsolete \subseteq DOMAIN catalog
  BY DEF Replaced, Obsolete
<1>5. \A t \in seeds : t \in Templates /\ release[t] \in Contents BY ReleaseTypes
<1>6. \A t \in seeds : /\ Upserted(release, t) \in Row
                       /\ t \in replaced => Upserted(release, t).current = "v1"
                       /\ t \notin replaced => t \in DOMAIN catalog /\ Upserted(release, t) = catalog[t]
                       /\ \/ Upserted(release, t).managed = "seed_builtin"
                          \/ Upserted(release, t).system
                          => Upserted(release, t).current = "v1"
  BY UpsertedRow
<1> HIDE DEF obsolete, seeds, replaced
<1>7. TypeOK'
  <2>1. DOMAIN catalog' \subseteq Templates /\ \A t \in DOMAIN catalog' : catalog'[t] \in Row
    BY <1>2, <1>5, <1>6 DEF CatalogInv, TypeOK, seeds, obsolete
  <2>2. version' \subseteq Version
    BY <1>3, <1>4, <1>5 DEF CatalogInv, TypeOK, Version, VersionIds
  <2>3. localized' \subseteq Templates BY <1>3, <1>4, <1>5 DEF CatalogInv, TypeOK
  <2>4. favorite' \subseteq [user : Users, template : Templates] /\ used' \subseteq Templates
    BY <1>3 DEF CatalogInv, TypeOK
  <2> QED BY <2>1, <2>2, <2>3, <2>4 DEF CatalogInv, TypeOK, SeedPresetCatalog
<1>8. OneOfEach' BY <1>3 DEF CatalogInv, OneOfEach
<1>9. RowsAreWhole'
  <2> SUFFICES ASSUME NEW t \in DOMAIN catalog'
               PROVE  /\ t \in localized'
                      /\ \E v \in version' : v.template = t /\ v.id = catalog'[t].current
    BY DEF RowsAreWhole
  <2>1. CASE t \in replaced
    <3>1. [template |-> t, id |-> "v1", content |-> release[t]] \in version' BY <1>3, <2>1
    <3>2. catalog'[t].current = "v1" BY <1>2, <1>4, <1>6, <2>1 DEF seeds
    <3> QED BY <1>3, <2>1, <3>1, <3>2
  <2>2. CASE t \notin replaced
    <3>1. t \in DOMAIN catalog \ obsolete /\ catalog'[t] = catalog[t]
      BY <1>2, <1>4, <1>6, <2>2 DEF seeds, obsolete
    <3>2. PICK v \in version : v.template = t /\ v.id = catalog[t].current
      BY <3>1 DEF CatalogInv, RowsAreWhole
    <3>3. v \in version' BY <1>3, <2>2, <3>1, <3>2
    <3> QED BY <1>3, <3>1, <3>2, <3>3 DEF CatalogInv, RowsAreWhole
  <2> QED BY <2>1, <2>2
<1>10. NoOrphans' BY <1>2, <1>3, <1>4 DEF CatalogInv, NoOrphans, seeds, obsolete
<1>11. SeedsPointAtV1'
  BY <1>2, <1>6 DEF CatalogInv, SeedsPointAtV1, seeds, obsolete
<1> QED BY <1>7, <1>8, <1>9, <1>10, <1>11 DEF CatalogInv

-----------------------------------------------------------------------------
(* The other steps.                                                        *)

LEMMA AddingKeepsInv == ASSUME CatalogInv, OpsAdds PROVE CatalogInv'
<1>1. PICK t \in Templates \ DOMAIN catalog, content \in Contents :
        /\ catalog' = [u \in DOMAIN catalog \cup {t} |->
                         IF u = t THEN [managed |-> "ops_manual", system |-> FALSE,
                                        published |-> TRUE, current |-> "ops",
                                        content |-> content]
                         ELSE catalog[u]]
        /\ localized' = localized \cup {t}
        /\ version' = version \cup {[template |-> t, id |-> "ops", content |-> content]}
  BY DEF OpsAdds
<1> DEFINE row == [managed |-> "ops_manual", system |-> FALSE, published |-> TRUE,
                   current |-> "ops", content |-> content]
           new == [template |-> t, id |-> "ops", content |-> content]
<1>2. /\ DOMAIN catalog' = DOMAIN catalog \cup {t}
      /\ catalog'[t] = row
      /\ \A u \in DOMAIN catalog : catalog'[u] = catalog[u]
  BY <1>1
<1>3. row \in Row /\ new \in Version BY DEF Row, Version, VersionIds
<1>4. TypeOK'
  <2>1. \A u \in DOMAIN catalog' : catalog'[u] \in Row BY <1>2, <1>3 DEF CatalogInv, TypeOK
  <2> QED BY <1>1, <1>2, <1>3, <2>1 DEF CatalogInv, TypeOK, OpsAdds
<1>5. OneOfEach' BY <1>1 DEF CatalogInv, OneOfEach, NoOrphans
<1>6. RowsAreWhole'
  <2>1. new \in version' /\ new.template = t /\ new.id = catalog'[t].current BY <1>1, <1>2
  <2> HIDE DEF new, row
  <2> QED BY <1>1, <1>2, <2>1 DEF CatalogInv, RowsAreWhole
<1>7. NoOrphans' BY <1>1, <1>2 DEF CatalogInv, NoOrphans
<1>8. SeedsPointAtV1' BY <1>2 DEF CatalogInv, SeedsPointAtV1
<1> QED BY <1>4, <1>5, <1>6, <1>7, <1>8 DEF CatalogInv

LEMMA PublishingKeepsInv == ASSUME CatalogInv, OpsPublishesOrArchives PROVE CatalogInv'
<1>1. PICK t \in DOMAIN catalog : catalog' = [catalog EXCEPT ![t].published = ~ @]
  BY DEF OpsPublishesOrArchives
<1>2. /\ DOMAIN catalog' = DOMAIN catalog
      /\ \A u \in DOMAIN catalog : /\ catalog'[u] \in Row
                                   /\ catalog'[u].managed = catalog[u].managed
                                   /\ catalog'[u].system = catalog[u].system
                                   /\ catalog'[u].current = catalog[u].current
  <2>1. \A u \in DOMAIN catalog : catalog[u] \in Row BY DEF CatalogInv, TypeOK
  <2>2. catalog'[t] = [catalog[t] EXCEPT !.published = ~ @]
        /\ \A u \in DOMAIN catalog : u # t => catalog'[u] = catalog[u]
    BY <1>1
  <2>3. [catalog[t] EXCEPT !.published = ~ @] \in Row BY <2>1, RowTypes
  <2> QED BY <1>1, <2>1, <2>2, <2>3 DEF Row
<1>3. version' = version /\ localized' = localized BY DEF OpsPublishesOrArchives
<1> QED
  BY <1>2, <1>3 DEF CatalogInv, TypeOK, OneOfEach, RowsAreWhole, NoOrphans, SeedsPointAtV1,
                    OpsPublishesOrArchives

(* Nobody else writes the catalog.                                         *)
LEMMA UsersKeepInv ==
  ASSUME CatalogInv, UNCHANGED <<catalog, localized, version>>, TypeOK'
  PROVE  CatalogInv'
BY DEF CatalogInv, OneOfEach, RowsAreWhole, NoOrphans, SeedsPointAtV1

LEMMA DetailsTyped ==
  ASSUME CatalogInv, NEW t \in Templates
  PROVE  /\ \A d \in GetCatalogDetail(t) : d \in Version
         /\ \A d \in CatalogDetails(t) : d.template = t /\ d.content \in Contents
<1>1. \A d \in GetCatalogDetail(t) : d \in Version /\ d.template = t
  BY DEF CatalogInv, TypeOK, GetCatalogDetail, CurrentVersion
<1>2. \A d \in PlatformCatalogDetail(t) : d.template = t /\ d.content \in Contents
  BY DEF CatalogInv, TypeOK, PlatformCatalogDetail, MapPlatformCatalogDetail
<1> QED BY <1>1, <1>2 DEF CatalogDetails, Version

LEMMA StepKeepsInv == ASSUME CatalogInv, [Next]_vars PROVE CatalogInv'
<1>1. CASE SeedPresetCatalog BY <1>1, BootKeepsInv
<1>2. CASE OpsAdds BY <1>2, AddingKeepsInv
<1>3. CASE OpsPublishesOrArchives BY <1>3, PublishingKeepsInv
<1>4. CASE PlatformOffers
  <2>1. TypeOK' BY <1>4 DEF PlatformOffers, CatalogInv, TypeOK
  <2> QED BY <1>4, <2>1, UsersKeepInv DEF PlatformOffers
<1>5. CASE AddFavorite
  <2>1. TypeOK' BY <1>5 DEF AddFavorite, CatalogInv, TypeOK, Marked
  <2> QED BY <1>5, <2>1, UsersKeepInv DEF AddFavorite
<1>6. CASE RemoveFavorite
  <2>1. TypeOK' BY <1>6 DEF RemoveFavorite, CatalogInv, TypeOK
  <2> QED BY <1>6, <2>1, UsersKeepInv DEF RemoveFavorite
<1>7. CASE CopyToMyTemplates
  <2>1. instance' \subseteq Instance
    BY <1>7, DetailsTyped DEF CopyToMyTemplates, CopyPlatformTemplate, CopyLocalTemplate,
       CopyOf, CatalogDetails, CatalogInv, TypeOK, Instance
  <2>2. TypeOK' BY <1>7, <2>1 DEF CopyToMyTemplates, CatalogInv, TypeOK
  <2> QED BY <1>7, <2>2, UsersKeepInv DEF CopyToMyTemplates
<1>8. CASE Use
  <2>1. TypeOK' BY <1>8 DEF Use, CatalogInv, TypeOK
  <2> QED BY <1>8, <2>1, UsersKeepInv DEF Use
<1>9. CASE Preview
  <2>1. prompt' \subseteq PromptRun
    BY <1>9, DetailsTyped DEF Preview, CatalogInv, TypeOK, PromptRun, Version
  <2>2. TypeOK' BY <1>9, <2>1 DEF Preview, CatalogInv, TypeOK
  <2> QED BY <1>9, <2>2, UsersKeepInv DEF Preview
<1>10. CASE UNCHANGED vars
  <2>1. TypeOK' BY <1>10 DEF vars, CatalogInv, TypeOK
  <2> QED BY <1>10, <2>1, UsersKeepInv DEF vars
<1> QED BY <1>1, <1>2, <1>3, <1>4, <1>5, <1>6, <1>7, <1>8, <1>9, <1>10 DEF Next

THEOREM CatalogIsWhole == Spec => []CatalogInv
BY CatalogInit, StepKeepsInv, PTL DEF Spec

(* The rows keep their types (TypeOK).                                     *)
THEOREM CatalogTypeCorrect == Spec => []TypeOK
<1>1. CatalogInv => TypeOK BY DEF CatalogInv
<1> QED BY <1>1, CatalogIsWhole, PTL

-----------------------------------------------------------------------------

LEMMA UsableFromInv == CatalogInv => ListedIsUsable
<1> SUFFICES ASSUME CatalogInv, NEW t \in Published
             PROVE  /\ Cardinality(GetCatalogDetail(t)) = 1
                    /\ LoadRuntimePromptTemplate(t) # {}
  BY DEF ListedIsUsable
<1>1. t \in DOMAIN catalog /\ t \in Published \cap localized
  BY DEF Published, CatalogInv, RowsAreWhole
<1>2. PICK v \in version : v.template = t /\ v.id = catalog[t].current
  BY <1>1 DEF CatalogInv, RowsAreWhole
<1>3. CurrentVersion(t) = {v}
  BY <1>2 DEF CurrentVersion, CatalogInv, OneOfEach
<1>4. GetCatalogDetail(t) = {v} BY <1>1, <1>3, Zenon DEF GetCatalogDetail
<1>5. Cardinality({v}) = 1 BY FS_Singleton
<1>6. LoadRuntimePromptTemplate(t) = {w.content : w \in {v}}
  BY <1>1, <1>3, Zenon DEF LoadRuntimePromptTemplate
<1> QED BY <1>4, <1>5, <1>6

(* Whatever releases are booted in whatever order and whatever operations  *)
(* publish, every template a list shows can be opened and compiled.        *)
THEOREM ListedTemplatesAreUsable == Spec => []ListedIsUsable
BY CatalogIsWhole, UsableFromInv, PTL

-----------------------------------------------------------------------------

LEMMA BootKeepsOthers ==
  ASSUME CatalogInv, SeedPresetCatalog, NEW t \in DOMAIN catalog PROVE BootKeeps(t)
<1>1. PICK release \in Releases : SeedIfEmpty(release) BY DEF SeedPresetCatalog
<1>2. /\ DOMAIN catalog' = (DOMAIN catalog \ Obsolete(release)) \cup Seeds(release)
      /\ \A u \in Seeds(release) : catalog'[u] = Upserted(release, u)
      /\ \A u \in DOMAIN catalog \ (Obsolete(release) \cup Seeds(release)) :
           catalog'[u] = catalog[u]
  BY <1>1, BootedRows
<1>3. ASSUME IsOps(t)
      PROVE  /\ t \in DOMAIN catalog' /\ catalog'[t] = catalog[t]
             /\ t \in localized <=> t \in localized'
             /\ Versions(t)' = Versions(t)
  <2>1. t \notin Obsolete(release) BY <1>3 DEF Obsolete, IsManaged, IsOps
  <2>2. t \notin Replaced(release) BY <1>3 DEF Replaced
  <2>3. t \in Seeds(release) => Upserted(release, t) = catalog[t] BY <2>2, UpsertedRow
  <2>4. t \in DOMAIN catalog' /\ catalog'[t] = catalog[t] BY <1>2, <2>1, <2>3
  <2>5. Versions(t)' = Versions(t) BY <1>1, <2>1, <2>2 DEF SeedIfEmpty, Versions
  <2> QED BY <1>1, <2>1, <2>2, <2>4, <2>5 DEF SeedIfEmpty
<1>4. ASSUME t \in DOMAIN catalog'
      PROVE  /\ t \in used => t \in used'
             /\ \A u \in Users : Marked(u, t) \in favorite => Marked(u, t) \in favorite'
  <2>1. t \notin Obsolete(release) BY <1>2, <1>4 DEF Obsolete
  <2> QED BY <1>1, <2>1 DEF SeedIfEmpty, Marked
<1> QED BY <1>3, <1>4 DEF BootKeeps

(* No boot touches a template of operations, nor the favorites and the     *)
(* uses of a template that stays.                                          *)
THEOREM BootsKeepOthers == Spec => SeedingKeepsOthers
<1>1. CatalogInv /\ [Next]_vars
        => [SeedPresetCatalog => \A t \in DOMAIN catalog : BootKeeps(t)]_vars
  BY BootKeepsOthers
<1> QED BY <1>1, CatalogIsWhole, PTL DEF Spec, SeedingKeepsOthers

-----------------------------------------------------------------------------
(* The two filters agree on everything but keywords.                       *)

LEMMA FiltersAgree ==
  ASSUME NEW item, NEW filter, ~ Asks(filter, "keyword")
  PROVE  MatchesLocally(item, filter) <=> MatchesPlatformCatalogFilter(item, filter)
<1>1. SameLabels(item, filter, {"tool"} \cup Labels)
        <=> SameLabels(item, filter, {"tool"}) /\ SameLabels(item, filter, Labels)
  BY DEF SameLabels
<1>2. HasTags(item, filter, Tags)
        <=> HasTags(item, filter, {"platform"}) /\ HasTags(item, filter, {"industry", "scenario"})
  BY DEF HasTags, Tags
<1>3. \A words : Hits(filter, words) BY DEF Hits
<1> QED
  BY <1>1, <1>2, <1>3, Zenon
     DEF MatchesLocally, ApplyCatalogFilter, MatchesCatalogContextFilter, MatchesKeyword,
         MatchesPlatformCatalogFilter

LEMMA SameListsFromInv == CatalogInv => FallbackListsTheSame
<1> SUFFICES ASSUME CatalogInv, NEW t \in Templates, NEW f \in Filters, SameInBoth(t),
                    ~ Asks(f, "keyword")
             PROVE  t \in ListCatalog(f) <=> t \in ListPlatformCatalog(f)
  BY DEF FallbackListsTheSame
<1> DEFINE item(u) == ToCatalogListItem(offered[u], offered[u])
           items   == {u \in Templates : offered[u] # None /\ SameLabels(item(u), f, {"tool"})}
<1>1. /\ t \in Published /\ catalog[t].content = offered[t]
      /\ \A v \in CurrentVersion(t) : v.content = offered[t]
  BY DEF SameInBoth
<1>2. offered[t] # None
  BY <1>1, TemplateCenterAssumption DEF CatalogInv, TypeOK, Published, Row
<1>3. CurrentVersion(t) # {}
  BY <1>1 DEF CatalogInv, RowsAreWhole, CurrentVersion, Published
<1>4. t \in ListCatalog(f) <=> MatchesLocally(item(t), f)
  <2> HIDE DEF item
  <2>1. \A v \in CurrentVersion(t) : ToCatalogListItem(catalog[t].content, v.content) = item(t)
    BY <1>1, Zenon DEF item
  <2> QED BY <1>1, <1>3, <2>1 DEF ListCatalog
<1>5. t \in items <=> SameLabels(item(t), f, {"tool"}) BY <1>2
<1>6. MatchesPlatformCatalogFilter(item(t), f) => SameLabels(item(t), f, {"tool"})
  BY DEF MatchesPlatformCatalogFilter, SameLabels
<1>7. items # {}
        => (t \in ListPlatformCatalog(f)
              <=> t \in items /\ MatchesPlatformCatalogFilter(item(t), f))
  BY DEF ListPlatformCatalog, MapPlatformCatalogListItem
<1>8. items = {} => ListPlatformCatalog(f) = ListCatalog(f)
  BY DEF ListPlatformCatalog, MapPlatformCatalogListItem
<1>9. MatchesLocally(item(t), f) <=> MatchesPlatformCatalogFilter(item(t), f)
  BY FiltersAgree
<1> QED BY <1>4, <1>5, <1>6, <1>7, <1>8, <1>9

(* With and without the platform, users find the same templates by any     *)
(* filter that has no keyword.                                             *)
THEOREM FallbackFindsTheSame == Spec => []FallbackListsTheSame
BY CatalogIsWhole, SameListsFromInv, PTL

=============================================================================
