---------------------------- MODULE TemplateCenter ----------------------------
(***************************************************************************)
(* The catalog of templates and what users make of it                      *)
(* (modules/templatecenter, modules/promptcenter and their repositories).  *)
(*                                                                         *)
(* Every boot writes the templates the release was built with over the     *)
(* catalog, in one transaction: templates may change, vanish and come      *)
(* back, for releases are also rolled back.  Operations keep templates of  *)
(* their own in the same tables.  The platform offers a catalog, too: it   *)
(* is asked first, and the local one stands in for a template the platform *)
(* does not have, or when it does not answer.  Users mark favorites, use   *)
(* and copy templates, and have prompts made from the local templates for  *)
(* a product.                                                              *)
(*                                                                         *)
(* Every request is one step.                                              *)
(***************************************************************************)
EXTENDS Naturals, FiniteSets, CatalogFilter

CONSTANTS
  Templates, \* the ids of templates
  Users,     \* the users who mark and copy templates
  Contents,  \* what a template may say
  Releases,  \* what releases define: a content for each template, or None
  None,      \* no content
  ColumnsOf, \* the columns of a catalog row with this content
  SchemaOf,  \* what the schema of a version with this content adds
  Filters,   \* what users ask a list of templates for
  Keys,      \* the idempotency keys of prompts
  SourceSets, \* the sets of source pictures clients send
  MaxCopies, MaxPrompts \* bounds on the copies users make and on the prompt runs

(* What a client sends as a source picture: one of the product, one of     *)
(* another product, one that does not exist, or no id.                     *)
SourceForms == {"own", "foreign", "missing", "empty"}

ASSUME TemplateCenterAssumption ==
  /\ None \notin Contents
  /\ \A r \in Releases : /\ r \in [Templates -> Contents \cup {None}]
                         /\ \E t \in Templates : r[t] # None
  /\ \A f \in Filters : DOMAIN f \subseteq FilterFields
  /\ "none" \notin Keys
  /\ SourceSets \subseteq SUBSET SourceForms
  /\ MaxCopies \in Nat /\ MaxPrompts \in Nat

VARIABLES
  catalog,   \* the rows of the catalog, by template
  localized, \* the templates with a name and a text in Chinese
  version,   \* the versions of templates, each with its schema
  offered,   \* the catalog of the platform
  favorite,  \* the favorites of users
  used,      \* the templates with counted uses
  instance,  \* the templates users have copied
  prompt     \* the prompt runs

vars == <<catalog, localized, version, offered, favorite, used, instance, prompt>>

-----------------------------------------------------------------------------

(* A seed has one version for good, "v1", whatever it says.                *)
VersionIds == {"v1", "ops", "platform"}

(* "system": official, of the service's team and created by the system.    *)
Row == [managed : {"seed_builtin", "ops_manual"}, system : BOOLEAN, published : BOOLEAN,
        current : VersionIds, content : Contents]

Version == [template : Templates, id : VersionIds, content : Contents]

(* Whose copy it is, is left out.                                          *)
Instance == [template : Templates, content : Contents]

PromptRun == [key : Keys \cup {"none"}, template : Templates, content : Contents,
              status : {"validated", "draft"}]

(* The database may hold templates from before the column managed_source,  *)
(* whose default is "ops_manual".                                          *)
Init ==
  \E release \in Releases, old \in SUBSET Templates :
    LET seeds == {t \in old : release[t] # None}
    IN  /\ catalog = [t \in seeds |-> [managed |-> "ops_manual", system |-> TRUE,
                        published |-> TRUE, current |-> "v1", content |-> release[t]]]
        /\ localized = seeds
        /\ version = {[template |-> t, id |-> "v1", content |-> release[t]] : t \in seeds}
        /\ offered = [t \in Templates |-> None]
        /\ favorite = {}
        /\ used = {}
        /\ instance = {}
        /\ prompt = {}

-----------------------------------------------------------------------------
(* Mistakes the code could make.  The specification uses none of them.     *)

IsManaged(t) == t \in DOMAIN catalog /\ catalog[t].managed = "seed_builtin"

SeedRow(content) ==
  [managed |-> "seed_builtin", system |-> TRUE, published |-> TRUE, current |-> "v1",
   content |-> content]

(* the upsert does not ask who manages the row *)
OverwritesAll(release, t) == SeedRow(release[t])

(* the versions of every seed are replaced, whoever manages the row *)
ReplacesAll(release) == {t \in Templates : release[t] # None}

-----------------------------------------------------------------------------
(* SeedPresetCatalog, at every boot.                                       *)

(* Rows that the missing column made look like those of operations.        *)
IsDrifted(t) ==
  t \in DOMAIN catalog /\ catalog[t].managed = "ops_manual" /\ catalog[t].system

IsOps(t) ==
  t \in DOMAIN catalog /\ catalog[t].managed = "ops_manual" /\ ~ catalog[t].system

Seeds(release) == {t \in Templates : release[t] # None}

Obsolete(release) == {t \in DOMAIN catalog : IsManaged(t) /\ t \notin Seeds(release)}

(* A drifted row is only marked as the seed's: its columns wait for the    *)
(* next boot.                                                              *)
Upserted(release, t) ==
  CASE t \notin DOMAIN catalog \/ IsManaged(t) -> SeedRow(release[t])
    [] IsDrifted(t) -> [catalog[t] EXCEPT !.managed = "seed_builtin"]
    [] OTHER        -> catalog[t]

(* The seeds whose texts, versions and schemas are written anew.           *)
Replaced(release) == {t \in Seeds(release) : ~ IsOps(t)}

SeedIfEmpty(release) ==
  LET obsolete == Obsolete(release)
      replaced == Replaced(release)
  IN  /\ catalog' = [t \in (DOMAIN catalog \ obsolete) \cup Seeds(release) |->
                       IF t \in Seeds(release) THEN Upserted(release, t) ELSE catalog[t]]
      /\ localized' = (localized \ obsolete) \cup replaced
      /\ version' = {v \in version : v.template \notin obsolete \cup replaced}
                      \cup {[template |-> t, id |-> "v1", content |-> release[t]] : t \in replaced}
      /\ favorite' = {f \in favorite : f.template \notin obsolete}
      /\ used' = used \ obsolete

(* A boot whose transaction fails changes nothing.                         *)
SeedPresetCatalog ==
  /\ \E release \in Releases : SeedIfEmpty(release)
  /\ UNCHANGED <<offered, instance, prompt>>

-----------------------------------------------------------------------------
(* Operations and the platform.                                            *)

OpsAdds ==
  /\ \E t \in Templates \ DOMAIN catalog, content \in Contents :
       /\ catalog' = [u \in DOMAIN catalog \cup {t} |->
                        IF u = t THEN [managed |-> "ops_manual", system |-> FALSE,
                                       published |-> TRUE, current |-> "ops", content |-> content]
                        ELSE catalog[u]]
       /\ localized' = localized \cup {t}
       /\ version' = version \cup {[template |-> t, id |-> "ops", content |-> content]}
  /\ UNCHANGED <<offered, favorite, used, instance, prompt>>

OpsPublishesOrArchives ==
  /\ \E t \in DOMAIN catalog : catalog' = [catalog EXCEPT ![t].published = ~ @]
  /\ UNCHANGED <<localized, version, offered, favorite, used, instance, prompt>>

PlatformOffers ==
  /\ \E t \in Templates, content \in Contents \cup {None} :
       offered' = [offered EXCEPT ![t] = content]
  /\ UNCHANGED <<catalog, localized, version, favorite, used, instance, prompt>>

-----------------------------------------------------------------------------
(* Reading the catalog.                                                    *)

Published == {t \in DOMAIN catalog : catalog[t].published}

CurrentVersion(t) == {v \in version : v.template = t /\ v.id = catalog[t].current}

(* A detail has all its parts or is an error: at most one version.         *)
GetCatalogDetail(t) == IF t \in Published \cap localized THEN CurrentVersion(t) ELSE {}

(* The schema is read by the id in the catalog's row.                      *)
LoadRuntimePromptTemplate(t) ==
  IF t \in Published \cap localized THEN {v.content : v \in CurrentVersion(t)} ELSE {}

MapPlatformCatalogDetail(t, content) ==
  [template |-> t, id |-> "platform", content |-> content]

PlatformCatalogDetail(t) ==
  {MapPlatformCatalogDetail(t, content) : content \in {offered[t]} \ {None}}

(* The platform's detail, or the local one when the platform does not have *)
(* the template or does not answer.                                        *)
CatalogDetails(t) == PlatformCatalogDetail(t) \cup GetCatalogDetail(t)

(* An item of a list: the columns of the row, and what the schema of the   *)
(* current version adds.                                                   *)
ToCatalogListItem(columns, schema) ==
  [field \in DOMAIN ColumnsOf[columns] \cup DOMAIN SchemaOf[schema] |->
     IF field \in DOMAIN ColumnsOf[columns] THEN ColumnsOf[columns][field]
     ELSE SchemaOf[schema][field]]

ListCatalog(filter) ==
  {t \in Published : \E v \in CurrentVersion(t) :
     MatchesLocally(ToCatalogListItem(catalog[t].content, v.content), filter)}

(* The platform sends both parts of an item at once.                       *)
MapPlatformCatalogListItem(content) == ToCatalogListItem(content, content)

(* An empty answer of the platform is no answer.                           *)
ListPlatformCatalog(filter) ==
  LET item(t) == MapPlatformCatalogListItem(offered[t])
      items   == {t \in Templates : offered[t] # None /\ SameLabels(item(t), filter, {"tool"})}
  IN  IF items = {} THEN ListCatalog(filter)
      ELSE {t \in items : MatchesPlatformCatalogFilter(item(t), filter)}

-----------------------------------------------------------------------------
(* The requests of users.                                                  *)

Marked(u, t) == [user |-> u, template |-> t]

AddFavorite ==
  /\ \E u \in Users, t \in Templates :
       /\ CatalogDetails(t) # {}
       /\ favorite' = favorite \cup {Marked(u, t)}
  /\ UNCHANGED <<catalog, localized, version, offered, used, instance, prompt>>

RemoveFavorite ==
  /\ \E u \in Users, t \in Templates : favorite' = favorite \ {Marked(u, t)}
  /\ UNCHANGED <<catalog, localized, version, offered, used, instance, prompt>>

(* A copy of the user's own, from either catalog.                          *)
CopyOf(d) == [template |-> d.template, content |-> d.content]

CopyPlatformTemplate(t) == {CopyOf(d) : d \in PlatformCatalogDetail(t)}

CopyLocalTemplate(t) == {CopyOf(d) : d \in GetCatalogDetail(t)}

CopyToMyTemplates ==
  /\ Cardinality(instance) < MaxCopies
  /\ \E t \in Templates : \E copy \in CopyPlatformTemplate(t) \cup CopyLocalTemplate(t) :
       instance' = instance \cup {copy}
  /\ UNCHANGED <<catalog, localized, version, offered, favorite, used, prompt>>

Use ==
  /\ \E t \in Templates : CatalogDetails(t) # {} /\ used' = used \cup {t}
  /\ UNCHANGED <<catalog, localized, version, offered, favorite, instance, prompt>>

-----------------------------------------------------------------------------
(* The prompt center.                                                      *)

FindPromptRunByIdempotencyKey(key) == {p \in prompt : p.key = key /\ key # "none"}

(* At least one picture, and all of them pictures of the product.          *)
ValidateAndBuildSourceMap(sources) == sources # {} /\ sources \subseteq {"own"}

(* A prompt stored for the key is the answer.  Else the template has to be *)
(* in the local catalog, at the version the client names, if any; anything *)
(* else that is wrong only makes the prompt a draft.                       *)
Preview ==
  /\ Cardinality(prompt) < MaxPrompts
  /\ \E key \in Keys \cup {"none"}, t \in Templates, named \in VersionIds \cup {"any"},
        sources \in SourceSets, toolFits \in BOOLEAN :
       \E d \in GetCatalogDetail(t) :
         /\ FindPromptRunByIdempotencyKey(key) = {}
         /\ named \in {"any", d.id}
         /\ prompt' = prompt \cup
              {[key |-> key, template |-> t, content |-> d.content,
                status |-> IF toolFits /\ ValidateAndBuildSourceMap(sources) THEN "validated"
                           ELSE "draft"]}
  /\ UNCHANGED <<catalog, localized, version, offered, favorite, used, instance>>

-----------------------------------------------------------------------------

Next ==
  \/ SeedPresetCatalog
  \/ OpsAdds
  \/ OpsPublishesOrArchives
  \/ PlatformOffers
  \/ AddFavorite
  \/ RemoveFavorite
  \/ CopyToMyTemplates
  \/ Use
  \/ Preview

Spec == Init /\ [][Next]_vars

-----------------------------------------------------------------------------
(* Properties.                                                             *)

(* The rows have their types.                                              *)
TypeOK ==
  /\ DOMAIN catalog \subseteq Templates /\ \A t \in DOMAIN catalog : catalog[t] \in Row
  /\ localized \subseteq Templates
  /\ version \subseteq Version
  /\ offered \in [Templates -> Contents \cup {None}]
  /\ favorite \subseteq [user : Users, template : Templates]
  /\ used \subseteq Templates
  /\ instance \subseteq Instance
  /\ prompt \subseteq PromptRun

(* Whatever a list shows can be opened, used, copied and compiled into a   *)
(* prompt, even when the platform is gone: a published template has its    *)
(* text and exactly one version with a schema, through upgrades,           *)
(* rollbacks, repairs and the edits of operations.                         *)
ListedIsUsable ==
  \A t \in Published :
    /\ Cardinality(GetCatalogDetail(t)) = 1
    /\ LoadRuntimePromptTemplate(t) # {}

Versions(t) == {v \in version : v.template = t}

BootKeeps(t) ==
  /\ IsOps(t) => /\ t \in DOMAIN catalog' /\ catalog'[t] = catalog[t]
                 /\ t \in localized <=> t \in localized'
                 /\ Versions(t)' = Versions(t)
  /\ t \in DOMAIN catalog' => /\ t \in used => t \in used'
                              /\ \A u \in Users : Marked(u, t) \in favorite => Marked(u, t) \in favorite'

(* A boot leaves alone what is not the release's: the templates of         *)
(* operations with their texts and versions, and, of every template that   *)
(* stays, the favorites and the counted uses.                              *)
SeedingKeepsOthers == [][SeedPresetCatalog => \A t \in DOMAIN catalog : BootKeeps(t)]_vars

(* The template says the same in both catalogs.                            *)
SameInBoth(t) ==
  t \in Published /\ catalog[t].content = offered[t]
    /\ \A v \in CurrentVersion(t) : v.content = offered[t]

(* When the platform does not answer, users find the same templates as     *)
(* before: of a template that says the same in both catalogs, a filter     *)
(* without a keyword shows it in both lists or in none.                    *)
FallbackListsTheSame ==
  \A t \in Templates, f \in Filters :
    SameInBoth(t) /\ ~ Asks(f, "keyword")
      => (t \in ListCatalog(f) <=> t \in ListPlatformCatalog(f))

=============================================================================
