SPECIFICATION Spec
CONSTANTS
  t1 = t1
  t2 = t2
  Templates = {t1, t2}
  Users = {u1}
  Contents = {1, 2}
  None = None
  Releases <- MCReleases
  ColumnsOf <- MCColumnsOf
  SchemaOf <- MCSchemaOf
  Filters <- MCFilters
  Keys = {k1}
  SourceSets = {{}, {"own"}, {"own", "foreign"}}
  MaxCopies = 1
  MaxPrompts = 1
INVARIANTS
  ListedIsUsable
  
PROPERTIES
  SeedingKeepsOthers
